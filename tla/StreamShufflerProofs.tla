------------------------ MODULE StreamShufflerProofs ------------------------
(***************************************************************************)
(* Theorems about StreamShuffler, for any bucket size and bounds.          *)
(***************************************************************************)
EXTENDS StreamShuffler, FiniteSetTheorems, SequenceTheorems, TLAPS

Contents(bs) == UNION {bs[i].items : i \in DOMAIN bs}

(* Successive buckets hold numbers of successive ranges, up to `upper`.    *)
Lined(bs, upper) ==
  /\ bs \in Seq(Bucket)
  /\ \A i \in DOMAIN bs : \A x \in bs[i].items : x < bs[i].upper
  /\ \A i, j \in DOMAIN bs :
        i < j => /\ bs[i].upper =< bs[j].upper
                 /\ \A x \in bs[j].items : bs[i].upper =< x
  /\ \A i \in DOMAIN bs : Cardinality(bs[i].items) =< BucketSize
  /\ bs # <<>> => bs[Len(bs)].upper = upper

Bounds ==
  /\ upper_bound \in Nat /\ lower_bound \in Nat /\ target \in Nat
  /\ lower_bound =< upper_bound /\ upper_bound =< target
  /\ call \in Loops
  /\ answer \in Nat \cup {Nothing}
  /\ call = "grow" <=> upper_bound < target
  /\ call = "shrink" => lower_bound < upper_bound

Inv ==
  /\ Bounds
  /\ Lined(buckets, upper_bound)
  /\ buckets = <<>> => lower_bound = upper_bound
  /\ stream_size = Cardinality(Contents(buckets)) + (target - upper_bound)

-----------------------------------------------------------------------------
(* Lemmas about rows of buckets.                                           *)

(* Sizes of disjoint sets add up.                                         *)
LEMMA CardinalityOfDisjoint ==
  ASSUME NEW S, NEW T, IsFiniteSet(S), IsFiniteSet(T), S \cap T = {}
  PROVE  Cardinality(S \cup T) = Cardinality(S) + Cardinality(T)
<1>1. Cardinality(S \cup T)
        = Cardinality(S) + Cardinality(T) - Cardinality(S \cap T)
  BY FS_Union
<1>2. Cardinality(S \cap T) = 0
  BY FS_EmptySet, Zenon
<1>3. Cardinality(S) \in Nat /\ Cardinality(T) \in Nat
  BY FS_CardinalityType
<1>. QED
  BY <1>1, <1>2, <1>3

(* The items of a bucket lie below its bound, so there are finitely many.  *)
LEMMA BucketFinite ==
  ASSUME NEW b \in Bucket, \A x \in b.items : x < b.upper
  PROVE  IsFiniteSet(b.items) /\ Cardinality(b.items) \in Nat
<1>1. b.items \in SUBSET Nat /\ b.upper \in Nat /\ \A x \in b.items : x =< b.upper
  BY DEF Bucket
<1>2. IsFiniteSet(b.items)
  BY <1>1, FS_BoundedSetOfNaturals
<1>. QED
  BY <1>2, FS_CardinalityType

(* What a row of buckets holds lies below its end, and is finite.          *)
LEMMA ContentsBounded ==
  ASSUME NEW bs, NEW u \in Nat, Lined(bs, u)
  PROVE  /\ Contents(bs) \subseteq 0 .. u - 1
         /\ IsFiniteSet(Contents(bs)) /\ Cardinality(Contents(bs)) \in Nat
<1>1. DOMAIN bs = 1 .. Len(bs) /\ Len(bs) \in Nat
  BY LenProperties DEF Lined
<1>2. ASSUME NEW i \in DOMAIN bs, NEW x \in bs[i].items
      PROVE  x \in 0 .. u - 1
  <2>1. bs # <<>> /\ Len(bs) \in DOMAIN bs
    BY <1>1, EmptySeq DEF Lined
  <2>2. bs[i] \in Bucket /\ bs[Len(bs)] \in Bucket
    BY <1>1, <2>1, ElementOfSeq DEF Lined
  <2>3. bs[i].upper =< bs[Len(bs)].upper
    BY <1>1, <2>1, <2>2 DEF Lined, Bucket
  <2>4. x \in Nat /\ x < bs[i].upper /\ bs[Len(bs)].upper = u
    BY <2>1, <2>2 DEF Lined, Bucket
  <2>. QED
    BY <2>2, <2>3, <2>4 DEF Bucket
<1>3. Contents(bs) \subseteq 0 .. u - 1
  BY <1>2 DEF Contents
<1>4. IsFiniteSet(0 .. u - 1)
  BY FS_Interval
<1>5. IsFiniteSet(Contents(bs))
  BY <1>3, <1>4, FS_Subset
<1>. QED
  BY <1>3, <1>5, FS_CardinalityType

(* No two buckets of a row share an item.                                  *)
LEMMA BucketsDisjoint ==
  ASSUME NEW bs, NEW u, Lined(bs, u),
         NEW i \in DOMAIN bs, NEW j \in DOMAIN bs, i # j
  PROVE  bs[i].items \cap bs[j].items = {}
<1>1. DOMAIN bs = 1 .. Len(bs) /\ Len(bs) \in Nat
  BY LenProperties DEF Lined
<1>2. bs[i] \in Bucket /\ bs[j] \in Bucket
  BY <1>1, ElementOfSeq DEF Lined
<1>3. i < j \/ j < i
  BY <1>1
<1>4. ASSUME NEW x \in bs[i].items, x \in bs[j].items
      PROVE  FALSE
  <2>1. x \in Nat /\ x < bs[i].upper /\ x < bs[j].upper
    BY <1>2, <1>4 DEF Lined, Bucket
  <2>2. CASE i < j
    BY <1>2, <1>4, <2>1, <2>2 DEF Lined, Bucket
  <2>3. CASE j < i
    BY <1>2, <1>4, <2>1, <2>3 DEF Lined, Bucket
  <2>. QED
    BY <1>3, <2>2, <2>3
<1>. QED
  BY <1>4

(* Taking items out of one bucket takes them out of the row.               *)
LEMMA ShrinkBucket ==
  ASSUME NEW bs, NEW u \in Nat, Lined(bs, u), NEW i \in DOMAIN bs,
         NEW b \in Bucket, b.upper = bs[i].upper, b.items \subseteq bs[i].items,
         NEW new, new = [bs EXCEPT ![i] = b]
  PROVE  /\ Lined(new, u) /\ new # <<>>
         /\ \A x : x \in Contents(new) <=>
                    x \in Contents(bs) /\ ~(x \in bs[i].items /\ x \notin b.items)
         /\ Cardinality(Contents(new)) =
              Cardinality(Contents(bs))
                - (Cardinality(bs[i].items) - Cardinality(b.items))
<1>. DEFINE gone == bs[i].items \ b.items
<1>1. DOMAIN bs = 1 .. Len(bs) /\ Len(bs) \in Nat
  BY LenProperties DEF Lined
<1>2. /\ new \in Seq(Bucket) /\ Len(new) = Len(bs) /\ DOMAIN new = DOMAIN bs
      /\ \A j \in DOMAIN bs : new[j] = IF j = i THEN b ELSE bs[j]
  BY <1>1, ExceptSeq, LenProperties DEF Lined
<1>3. bs[i] \in Bucket /\ \A x \in bs[i].items : x < bs[i].upper
  BY <1>1, ElementOfSeq DEF Lined
<1>4. /\ IsFiniteSet(bs[i].items) /\ Cardinality(bs[i].items) \in Nat
      /\ IsFiniteSet(b.items) /\ Cardinality(b.items) \in Nat
      /\ Cardinality(b.items) =< Cardinality(bs[i].items)
      /\ Cardinality(gone) = Cardinality(bs[i].items) - Cardinality(b.items)
  <2>1. IsFiniteSet(bs[i].items) /\ Cardinality(bs[i].items) \in Nat
    BY <1>3, BucketFinite
  <2>2. IsFiniteSet(b.items) /\ Cardinality(b.items) =< Cardinality(bs[i].items)
    BY <2>1, FS_Subset
  <2>3. Cardinality(gone) = Cardinality(bs[i].items) - Cardinality(bs[i].items \cap b.items)
    BY <2>1, FS_Difference
  <2>4. bs[i].items \cap b.items = b.items
    OBVIOUS
  <2>. QED
    BY <2>1, <2>2, <2>3, <2>4, FS_CardinalityType
<1>5. \A j \in DOMAIN bs : /\ new[j].upper = bs[j].upper
                           /\ new[j].items \subseteq bs[j].items
  BY <1>2
<1>6. \A j \in DOMAIN bs : Cardinality(new[j].items) =< BucketSize
  <2>1. Cardinality(bs[i].items) =< BucketSize /\ BucketSize \in Nat
    BY BucketAssumption DEF Lined
  <2>2. Cardinality(b.items) =< BucketSize
    BY <1>4, <2>1
  <2>. QED
    BY <1>2, <2>2 DEF Lined
<1>7. bs # <<>> /\ Len(bs) \in DOMAIN bs /\ new # <<>>
  BY <1>1, <1>2, EmptySeq DEF Lined
<1>8. Lined(new, u)
  <2>1. \A j \in DOMAIN new : \A x \in new[j].items : x < new[j].upper
    BY <1>2, <1>5 DEF Lined
  <2>2. \A j, k \in DOMAIN new :
           j < k => /\ new[j].upper =< new[k].upper
                    /\ \A x \in new[k].items : new[j].upper =< x
    BY <1>2, <1>5 DEF Lined
  <2>3. new[Len(new)].upper = u
    BY <1>2, <1>5, <1>7 DEF Lined
  <2>. QED
    BY <1>2, <1>6, <2>1, <2>2, <2>3 DEF Lined
<1>9. Contents(new) = Contents(bs) \ gone
  <2>1. ASSUME NEW x \in Contents(new) PROVE x \in Contents(bs) \ gone
    <3>1. PICK j \in DOMAIN bs : x \in new[j].items
      BY <1>2, <2>1 DEF Contents
    <3>2. x \in bs[j].items
      BY <1>5, <3>1
    <3>3. x \notin gone
      <4>1. CASE j = i
        BY <1>2, <3>1, <4>1
      <4>2. CASE j # i
        BY <3>2, <4>2, BucketsDisjoint
      <4>. QED
        BY <4>1, <4>2
    <3>. QED
      BY <3>2, <3>3 DEF Contents
  <2>2. ASSUME NEW x \in Contents(bs), x \notin gone PROVE x \in Contents(new)
    <3>1. PICK j \in DOMAIN bs : x \in bs[j].items
      BY <2>2 DEF Contents
    <3>2. x \in new[j].items
      BY <1>2, <2>2, <3>1
    <3>. QED
      BY <1>2, <3>2 DEF Contents
  <2>. QED
    BY <2>1, <2>2
<1>10. Cardinality(Contents(new)) = Cardinality(Contents(bs)) - Cardinality(gone)
  <2>1. IsFiniteSet(Contents(bs)) /\ Cardinality(Contents(bs)) \in Nat
    BY ContentsBounded
  <2>2. Contents(bs) \cap gone = gone
    BY DEF Contents
  <2>3. Cardinality(Contents(bs) \ gone)
          = Cardinality(Contents(bs)) - Cardinality(Contents(bs) \cap gone)
    BY <2>1, FS_Difference
  <2>. QED
    BY <1>9, <2>2, <2>3
<1>. QED
  BY <1>4, <1>7, <1>8, <1>9, <1>10

(* Popping the front bucket takes its items out of the row.                *)
LEMMA DropFrontBucket ==
  ASSUME NEW bs, NEW u \in Nat, Lined(bs, u), bs # <<>>
  PROVE  /\ Lined(Tail(bs), u)
         /\ Contents(Tail(bs)) = Contents(bs) \ Head(bs).items
         /\ Cardinality(Contents(Tail(bs))) =
              Cardinality(Contents(bs)) - Cardinality(Head(bs).items)
<1>1. DOMAIN bs = 1 .. Len(bs) /\ Len(bs) \in Nat \ {0}
  BY LenProperties, EmptySeq DEF Lined
<1>2. Head(bs) = bs[1] /\ 1 \in DOMAIN bs
  BY <1>1
<1>3. /\ Tail(bs) \in Seq(Bucket) /\ Len(Tail(bs)) = Len(bs) - 1
      /\ DOMAIN Tail(bs) = 1 .. Len(bs) - 1
      /\ \A i \in 1 .. Len(bs) - 1 : Tail(bs)[i] = bs[i + 1] /\ i + 1 \in DOMAIN bs
  <2>1. Tail(bs) \in Seq(Bucket) /\ Len(Tail(bs)) = Len(bs) - 1
    BY HeadTailProperties DEF Lined
  <2>2. \A i \in 1 .. Len(Tail(bs)) : Tail(bs)[i] = bs[i + 1]
    BY HeadTailProperties DEF Lined
  <2>3. DOMAIN Tail(bs) = 1 .. Len(Tail(bs))
    BY <2>1, LenProperties
  <2>. QED
    BY <1>1, <2>1, <2>2, <2>3
<1>4. Lined(Tail(bs), u)
  <2>1. \A i \in DOMAIN Tail(bs) :
           /\ \A x \in Tail(bs)[i].items : x < Tail(bs)[i].upper
           /\ Cardinality(Tail(bs)[i].items) =< BucketSize
    BY <1>3 DEF Lined
  <2>2. \A i, j \in DOMAIN Tail(bs) :
           i < j => /\ Tail(bs)[i].upper =< Tail(bs)[j].upper
                    /\ \A x \in Tail(bs)[j].items : Tail(bs)[i].upper =< x
    <3>. SUFFICES ASSUME NEW i \in DOMAIN Tail(bs), NEW j \in DOMAIN Tail(bs), i < j
                  PROVE  /\ Tail(bs)[i].upper =< Tail(bs)[j].upper
                         /\ \A x \in Tail(bs)[j].items : Tail(bs)[i].upper =< x
      OBVIOUS
    <3>1. i + 1 \in DOMAIN bs /\ j + 1 \in DOMAIN bs /\ i + 1 < j + 1
      BY <1>1, <1>3
    <3>2. Tail(bs)[i] = bs[i + 1] /\ Tail(bs)[j] = bs[j + 1]
      BY <1>3
    <3>. QED
      BY <3>1, <3>2 DEF Lined
  <2>3. Tail(bs) # <<>> => Tail(bs)[Len(Tail(bs))].upper = u
    <3>1. SUFFICES ASSUME Tail(bs) # <<>>
                   PROVE  Tail(bs)[Len(Tail(bs))].upper = u
      OBVIOUS
    <3>2. Len(Tail(bs)) \in Nat \ {0}
      BY <1>3, <3>1, EmptySeq
    <3>3. Len(bs) - 1 \in 1 .. Len(bs) - 1
      BY <1>1, <1>3, <3>2
    <3>4. Tail(bs)[Len(bs) - 1] = bs[Len(bs) - 1 + 1]
      BY <1>3, <3>3
    <3>5. Len(bs) - 1 + 1 = Len(bs)
      BY <1>1
    <3>6. bs[Len(bs)].upper = u
      BY DEF Lined
    <3>. QED
      BY <1>3, <3>4, <3>5, <3>6
  <2>. QED
    BY <1>3, <2>1, <2>2, <2>3 DEF Lined
<1>5. Contents(Tail(bs)) = Contents(bs) \ Head(bs).items
  <2>1. ASSUME NEW x \in Contents(Tail(bs)) PROVE x \in Contents(bs) \ bs[1].items
    <3>1. PICK i \in 1 .. Len(bs) - 1 : x \in bs[i + 1].items
      BY <1>3, <2>1 DEF Contents
    <3>2. i + 1 \in DOMAIN bs /\ i + 1 # 1
      BY <1>1, <1>3
    <3>3. bs[1].items \cap bs[i + 1].items = {}
      BY <1>2, <3>2, BucketsDisjoint
    <3>. QED
      BY <3>1, <3>2, <3>3 DEF Contents
  <2>2. ASSUME NEW x \in Contents(bs), x \notin bs[1].items
        PROVE  x \in Contents(Tail(bs))
    <3>1. PICK j \in DOMAIN bs : x \in bs[j].items
      BY <2>2 DEF Contents
    <3>2. j # 1
      BY <2>2, <3>1
    <3>3. j - 1 \in 1 .. Len(bs) - 1 /\ j - 1 + 1 = j
      BY <1>1, <3>2
    <3>4. Tail(bs)[j - 1] = bs[j]
      BY <1>3, <3>3
    <3>. QED
      BY <1>3, <3>1, <3>3, <3>4 DEF Contents
  <2>. QED
    BY <1>2, <2>1, <2>2
<1>6. Contents(bs) \cap Head(bs).items = Head(bs).items
  BY <1>2 DEF Contents
<1>7. IsFiniteSet(Contents(bs))
  BY ContentsBounded
<1>. QED
  BY <1>4, <1>5, <1>6, <1>7, FS_Difference

(* A new bucket adds nothing to the row.                                   *)
LEMMA AddBucket ==
  ASSUME NEW bs, NEW u \in Nat, Lined(bs, u)
  PROVE  LET new == Append(bs, NewBucket(u))
         IN /\ Lined(new, u) /\ new # <<>>
            /\ Contents(new) = Contents(bs)
            /\ Room(new[Len(new)]) = BucketSize
<1>. DEFINE b == NewBucket(u)
            new == Append(bs, b)
<1>1. DOMAIN bs = 1 .. Len(bs) /\ Len(bs) \in Nat
  BY LenProperties DEF Lined
<1>2. b \in Bucket /\ b.items = {} /\ b.upper = u
  BY DEF NewBucket, Bucket
<1>3. /\ new \in Seq(Bucket) /\ new # <<>> /\ Len(new) = Len(bs) + 1
      /\ \A i \in 1 .. Len(bs) : new[i] = bs[i]
      /\ new[Len(bs) + 1] = b
  BY <1>2, AppendProperties DEF Lined
<1>4. DOMAIN new = 1 .. Len(bs) + 1
  BY <1>3, LenProperties
<1>5. \A i \in DOMAIN new : i \in DOMAIN bs \/ (i = Len(bs) + 1 /\ new[i].items = {})
  BY <1>1, <1>2, <1>3, <1>4
<1>6. Contents(new) = Contents(bs)
  <2>1. ASSUME NEW x \in Contents(new) PROVE x \in Contents(bs)
    BY <1>1, <1>3, <1>5, <2>1 DEF Contents
  <2>2. ASSUME NEW x \in Contents(bs) PROVE x \in Contents(new)
    BY <1>1, <1>3, <1>4, <2>2 DEF Contents
  <2>. QED
    BY <2>1, <2>2
<1>7. Cardinality({}) = 0 /\ BucketSize \in Nat
  BY FS_EmptySet, BucketAssumption
<1>8. \A i \in DOMAIN bs : bs[i] \in Bucket /\ bs[i].upper =< u
  <2>1. ASSUME NEW i \in DOMAIN bs PROVE bs[i] \in Bucket /\ bs[i].upper =< u
    <3>1. bs # <<>> /\ Len(bs) \in DOMAIN bs
      BY <1>1, EmptySeq DEF Lined
    <3>2. bs[i] \in Bucket /\ bs[Len(bs)] \in Bucket
      BY <1>1, <3>1, ElementOfSeq DEF Lined
    <3>. QED
      BY <1>1, <3>1, <3>2 DEF Lined, Bucket
  <2>. QED
    BY <2>1
<1>9. Lined(new, u)
  <2>1. \A i \in DOMAIN new : \A x \in new[i].items : x < new[i].upper
    BY <1>1, <1>3, <1>5 DEF Lined
  <2>2. \A i, j \in DOMAIN new :
           i < j => /\ new[i].upper =< new[j].upper
                    /\ \A x \in new[j].items : new[i].upper =< x
    <3>. SUFFICES ASSUME NEW i \in DOMAIN new, NEW j \in DOMAIN new, i < j
                  PROVE  /\ new[i].upper =< new[j].upper
                         /\ \A x \in new[j].items : new[i].upper =< x
      OBVIOUS
    <3>1. i \in DOMAIN bs /\ new[i] = bs[i]
      BY <1>1, <1>3, <1>4
    <3>2. CASE j \in DOMAIN bs
      BY <1>1, <1>3, <3>1, <3>2 DEF Lined
    <3>3. CASE j = Len(bs) + 1
      BY <1>2, <1>3, <1>8, <3>1, <3>3
    <3>. QED
      BY <1>5, <3>2, <3>3
  <2>3. ASSUME NEW i \in DOMAIN new PROVE Cardinality(new[i].items) =< BucketSize
    <3>1. CASE i \in DOMAIN bs
      BY <1>1, <1>3, <3>1 DEF Lined
    <3>2. CASE new[i].items = {}
      <4>1. Cardinality(new[i].items) = 0
        BY <1>7, <3>2, Zenon
      <4>. QED
        BY <1>7, <4>1
    <3>. QED
      BY <1>5, <3>1, <3>2
  <2>4. new[Len(new)].upper = u
    BY <1>2, <1>3
  <2>. QED
    BY <1>3, <2>1, <2>2, <2>3, <2>4 DEF Lined
<1>10. Room(new[Len(new)]) = BucketSize
  <2>1. new[Len(new)] = b
    BY <1>3
  <2>2. Cardinality(b.items) = 0
    BY <1>2, <1>7, Zenon
  <2>. QED
    BY <1>7, <2>1, <2>2 DEF Room
<1>. QED
  BY <1>3, <1>6, <1>9, <1>10

(* Extending the last bucket, within its room, adds a range to the row.    *)
LEMMA ExtendBack ==
  ASSUME NEW bs, NEW u \in Nat, Lined(bs, u), bs # <<>>,
         NEW v \in Nat, u =< v, v - u =< Room(bs[Len(bs)])
  PROVE  LET new == [bs EXCEPT ![Len(bs)] = Extend(bs[Len(bs)], v)]
         IN /\ Lined(new, v) /\ new # <<>>
            /\ Contents(new) = Contents(bs) \cup u .. v - 1
            /\ Cardinality(Contents(new)) = Cardinality(Contents(bs)) + (v - u)
<1>. DEFINE n == Len(bs)
            b == Extend(bs[n], v)
            new == [bs EXCEPT ![n] = b]
<1>1. DOMAIN bs = 1 .. n /\ n \in Nat \ {0}
  BY LenProperties, EmptySeq DEF Lined
<1>2. bs[n] \in Bucket /\ bs[n].upper = u /\ \A x \in bs[n].items : x < u
  BY <1>1, ElementOfSeq DEF Lined
<1>3. b \in Bucket /\ b.upper = v /\ b.items = bs[n].items \cup u .. v - 1
  <2>1. u .. v - 1 \subseteq Nat
    BY SMT
  <2>. QED
    BY <1>2, <2>1 DEF Extend, Bucket
<1>4. /\ new \in Seq(Bucket) /\ Len(new) = n /\ DOMAIN new = 1 .. n
      /\ \A j \in 1 .. n : new[j] = IF j = n THEN b ELSE bs[j]
  BY <1>1, <1>3, ExceptSeq, LenProperties DEF Lined
<1>5. IsFiniteSet(u .. v - 1) /\ Cardinality(u .. v - 1) = v - u
  <2>1. u \in Int /\ v - 1 \in Int
    OBVIOUS
  <2>2. /\ IsFiniteSet(u .. v - 1)
        /\ Cardinality(u .. v - 1) = IF u > v - 1 THEN 0 ELSE v - 1 - u + 1
    BY <2>1, FS_Interval
  <2>. QED
    BY <2>2
<1>6. Cardinality(b.items) =< BucketSize
  <2>1. IsFiniteSet(bs[n].items) /\ Cardinality(bs[n].items) \in Nat
    BY <1>2, BucketFinite
  <2>2. bs[n].items \cap u .. v - 1 = {}
    BY <1>2 DEF Bucket
  <2>3. Cardinality(b.items) = Cardinality(bs[n].items) + (v - u)
    BY <1>3, <1>5, <2>1, <2>2, CardinalityOfDisjoint
  <2>. QED
    BY <2>1, <2>3, BucketAssumption DEF Room
<1>7. Lined(new, v)
  <2>1. \A i \in DOMAIN new : \A x \in new[i].items : x < new[i].upper
    <3>1. \A x \in b.items : x < v
      BY <1>2, <1>3 DEF Bucket
    <3>. QED
      BY <1>1, <1>3, <1>4, <3>1 DEF Lined
  <2>2. \A i, j \in DOMAIN new :
           i < j => /\ new[i].upper =< new[j].upper
                    /\ \A x \in new[j].items : new[i].upper =< x
    <3>. SUFFICES ASSUME NEW i \in DOMAIN new, NEW j \in DOMAIN new, i < j
                  PROVE  /\ new[i].upper =< new[j].upper
                         /\ \A x \in new[j].items : new[i].upper =< x
      OBVIOUS
    <3>1. i \in DOMAIN bs /\ j \in DOMAIN bs /\ new[i] = bs[i]
      BY <1>1, <1>4
    <3>2. bs[i] \in Bucket
      BY <1>1, <3>1, ElementOfSeq DEF Lined
    <3>3. CASE j # n
      BY <1>1, <1>4, <3>1, <3>3 DEF Lined
    <3>4. CASE j = n
      <4>1. bs[i].upper =< u /\ \A x \in bs[n].items : bs[i].upper =< x
        BY <1>1, <1>2, <3>1, <3>4 DEF Lined
      <4>2. \A x \in b.items : bs[i].upper =< x
        BY <1>3, <3>2, <4>1 DEF Bucket
      <4>3. bs[i].upper =< v
        BY <3>2, <4>1 DEF Bucket
      <4>. QED
        BY <1>3, <1>4, <3>1, <3>4, <4>2, <4>3
    <3>. QED
      BY <3>3, <3>4
  <2>3. \A i \in DOMAIN new : Cardinality(new[i].items) =< BucketSize
    BY <1>1, <1>4, <1>6 DEF Lined
  <2>4. new[Len(new)].upper = v
    BY <1>1, <1>3, <1>4
  <2>. QED
    BY <1>4, <2>1, <2>2, <2>3, <2>4 DEF Lined
<1>8. Contents(new) = Contents(bs) \cup u .. v - 1
  <2>1. ASSUME NEW x \in Contents(new) PROVE x \in Contents(bs) \cup u .. v - 1
    BY <1>1, <1>3, <1>4, <2>1 DEF Contents
  <2>2. ASSUME NEW x \in Contents(bs) \cup u .. v - 1 PROVE x \in Contents(new)
    <3>1. CASE x \in u .. v - 1
      <4>1. x \in new[n].items /\ n \in DOMAIN new
        BY <1>1, <1>3, <1>4, <3>1
      <4>. QED
        BY <4>1 DEF Contents
    <3>2. CASE x \in Contents(bs)
      BY <1>1, <1>3, <1>4, <3>2 DEF Contents
    <3>. QED
      BY <2>2, <3>1, <3>2
  <2>. QED
    BY <2>1, <2>2
<1>9. Cardinality(Contents(new)) = Cardinality(Contents(bs)) + (v - u)
  <2>1. /\ Contents(bs) \subseteq 0 .. u - 1
        /\ IsFiniteSet(Contents(bs)) /\ Cardinality(Contents(bs)) \in Nat
    BY ContentsBounded
  <2>2. Contents(bs) \cap u .. v - 1 = {}
    BY <2>1, SMT
  <2>. QED
    BY <1>5, <1>8, <2>1, <2>2, CardinalityOfDisjoint
<1>. QED
  BY <1>4, <1>7, <1>8, <1>9, <1>1, EmptySeq

-----------------------------------------------------------------------------
(* The inductive invariant.                                                *)

(* An empty row is lined up to any bound, and holds nothing.               *)
LEMMA EmptyRow ==
  ASSUME NEW u
  PROVE  Lined(<<>>, u) /\ Contents(<<>>) = {} /\ Cardinality(Contents(<<>>)) = 0
<1>1. <<>> \in Seq(Bucket) /\ DOMAIN <<>> = {}
  <2>1. <<>> \in Seq(Bucket) /\ Len(<<>>) = 0
    BY EmptySeq
  <2>. QED
    BY <2>1, LenProperties
<1>2. Contents(<<>>) = {}
  BY <1>1 DEF Contents
<1>3. Cardinality(Contents(<<>>)) = 0
  BY <1>2, FS_EmptySet, Zenon
<1>. QED
  BY <1>1, <1>2, <1>3 DEF Lined

(* The invariant holds of a new shuffler.                                  *)
LEMMA InitInv == Init => Inv
BY EmptyRow DEF Init, Inv, Bounds, Loops

(* The two names of what the buckets hold.                                 *)
LEMMA HeldIsContents == Held = Contents(buckets)
BY DEF Held, Contents

(* While the window is being raised, there is room for the next number in  *)
(* the last bucket, or in the new one behind it.                           *)
LEMMA GrowStepInv ==
  ASSUME Inv, GrowStep
  PROVE  /\ Inv'
         /\ upper_bound =< upper_bound'
         /\ upper_bound' =< target
         /\ Contents(buckets)' = Contents(buckets) \cup upper_bound .. upper_bound' - 1
<1>. DEFINE filled == IF NeedsBucket THEN Append(buckets, NewBucket(upper_bound))
                                     ELSE buckets
            last == filled[Len(filled)]
            reached == MinOf(target, upper_bound + Room(last))
<1>1. /\ Lined(buckets, upper_bound)
      /\ upper_bound \in Nat /\ target \in Nat /\ upper_bound < target
  BY DEF Inv, Bounds, GrowStep
<1>2. /\ Lined(filled, upper_bound) /\ filled # <<>>
      /\ Contents(filled) = Contents(buckets)
      /\ Room(last) \in Nat \ {0}
  <2>1. CASE NeedsBucket
    BY <1>1, <2>1, AddBucket, BucketAssumption
  <2>2. CASE ~NeedsBucket
    <3>1. filled = buckets /\ buckets # <<>> /\ Room(last) # 0
      BY <2>2 DEF NeedsBucket, Back
    <3>2. Len(buckets) \in DOMAIN buckets /\ last = buckets[Len(buckets)]
      BY <1>1, <3>1, LenProperties, EmptySeq DEF Lined
    <3>3. last \in Bucket /\ \A x \in last.items : x < last.upper
      BY <1>1, <3>1, <3>2, ElementOfSeq, LenProperties DEF Lined
    <3>4. Cardinality(last.items) \in Nat /\ Cardinality(last.items) =< BucketSize
      BY <1>1, <3>2, <3>3, BucketFinite DEF Lined
    <3>5. Room(last) \in Nat
      BY <3>4, BucketAssumption DEF Room
    <3>. QED
      BY <1>1, <3>1, <3>5
  <2>. QED
    BY <2>1, <2>2
<1>3. /\ reached \in Nat /\ upper_bound =< reached /\ reached =< target
      /\ reached - upper_bound =< Room(last)
  BY <1>1, <1>2 DEF MinOf
<1>4. /\ buckets' = [filled EXCEPT ![Len(filled)] = Extend(last, reached)]
      /\ upper_bound' = reached
      /\ call' = IF reached < target THEN "grow" ELSE "none"
      /\ UNCHANGED <<stream_size, lower_bound, target, answer>>
  BY DEF GrowStep
<1>5. /\ Lined(buckets', reached) /\ buckets' # <<>>
      /\ Contents(buckets') = Contents(buckets) \cup upper_bound .. reached - 1
      /\ Cardinality(Contents(buckets')) =
           Cardinality(Contents(filled)) + (reached - upper_bound)
  <2>. HIDE DEF filled, reached
  <2>. DEFINE new == [filled EXCEPT ![Len(filled)] = Extend(filled[Len(filled)], reached)]
  <2>1. /\ Lined(new, reached) /\ new # <<>>
        /\ Contents(new) = Contents(filled) \cup upper_bound .. reached - 1
        /\ Cardinality(Contents(new)) =
             Cardinality(Contents(filled)) + (reached - upper_bound)
    BY <1>1, <1>2, <1>3, ExtendBack
  <2>2. buckets' = new
    BY <1>4
  <2>. QED
    BY <1>2, <2>1, <2>2
<1>6. Cardinality(Contents(filled)) = Cardinality(Contents(buckets))
  BY <1>2
<1>7. Cardinality(Contents(buckets)) \in Nat
  BY <1>1, ContentsBounded
<1>8. Lined(buckets', upper_bound') /\ Contents(buckets)' = Contents(buckets')
  BY <1>4, <1>5 DEF Contents
<1>9. stream_size' = Cardinality(Contents(buckets)') + (target' - upper_bound')
  BY <1>1, <1>3, <1>4, <1>5, <1>6, <1>7, <1>8 DEF Inv
<1>10. Bounds'
  BY <1>1, <1>3, <1>4 DEF Inv, Bounds, Loops
<1>. QED
  BY <1>3, <1>4, <1>5, <1>8, <1>9, <1>10 DEF Inv, Lined

(* A bucket the window has passed holds nothing of the window.             *)
LEMMA PopFrontInv ==
  ASSUME Inv, PopFront
  PROVE  /\ Inv'
         /\ Contents(buckets)' = Contents(buckets) \ Head(buckets).items
         /\ \A x \in Head(buckets).items : x < lower_bound
<1>1. /\ Lined(buckets, upper_bound) /\ buckets # <<>>
      /\ upper_bound \in Nat /\ lower_bound \in Nat /\ lower_bound < upper_bound
      /\ Head(buckets).upper =< lower_bound /\ target = upper_bound
  BY DEF Inv, Bounds, PopFront, FrontIsPast
<1>2. 1 \in DOMAIN buckets /\ Head(buckets) = buckets[1] /\ Len(buckets) \in Nat
  BY <1>1, LenProperties, EmptySeq DEF Lined
<1>3. Head(buckets) \in Bucket /\ \A x \in Head(buckets).items : x < Head(buckets).upper
  BY <1>1, <1>2, ElementOfSeq, LenProperties DEF Lined
<1>4. \A x \in Head(buckets).items : x < lower_bound
  BY <1>1, <1>3 DEF Bucket
<1>5. /\ Lined(Tail(buckets), upper_bound)
      /\ Contents(Tail(buckets)) = Contents(buckets) \ Head(buckets).items
      /\ Cardinality(Contents(Tail(buckets))) =
           Cardinality(Contents(buckets)) - Cardinality(Head(buckets).items)
  BY <1>1, DropFrontBucket
<1>6. Tail(buckets) # <<>>
  <2>1. SUFFICES ASSUME Tail(buckets) = <<>> PROVE FALSE
    OBVIOUS
  <2>2. Len(buckets) = 1
    BY <1>1, <1>2, <2>1, HeadTailProperties, EmptySeq DEF Lined
  <2>. QED
    BY <1>1, <1>2, <1>3, <2>2 DEF Lined, Bucket
<1>7. /\ Cardinality(Contents(buckets)) \in Nat
      /\ Cardinality(Head(buckets).items) \in Nat
  BY <1>1, <1>3, ContentsBounded, BucketFinite
<1>8. /\ buckets' = Tail(buckets)
      /\ stream_size' = stream_size - Cardinality(Head(buckets).items)
      /\ UNCHANGED <<upper_bound, lower_bound, target, call, answer>>
  BY DEF PopFront
<1>9. Contents(buckets)' = Contents(Tail(buckets))
  BY <1>8 DEF Contents
<1>10. Bounds' /\ Lined(buckets', upper_bound')
  BY <1>5, <1>8 DEF Inv, Bounds
<1>11. stream_size' = Cardinality(Contents(buckets)') + (target' - upper_bound')
  BY <1>1, <1>5, <1>7, <1>8, <1>9 DEF Inv
<1>. QED
  BY <1>4, <1>5, <1>6, <1>8, <1>9, <1>10, <1>11 DEF Inv, Lined

(* Trimming the front bucket loses nothing of the window.                  *)
LEMMA TrimFrontInv ==
  ASSUME Inv, TrimFront
  PROVE  /\ Inv'
         /\ Contents(buckets)' \subseteq Contents(buckets)
         /\ \A x \in Contents(buckets) : x >= lower_bound => x \in Contents(buckets)'
<1>. DEFINE b == DeclareLowerBound(buckets[1], lower_bound)
<1>1. /\ Lined(buckets, upper_bound) /\ buckets # <<>>
      /\ upper_bound \in Nat /\ lower_bound \in Nat /\ target = upper_bound
      /\ lower_bound < upper_bound /\ lower_bound =< upper_bound
  BY DEF Inv, Bounds, TrimFront
<1>2. 1 \in DOMAIN buckets
  BY <1>1, LenProperties, EmptySeq DEF Lined
<1>3. buckets[1] \in Bucket /\ \A x \in buckets[1].items : x < buckets[1].upper
  BY <1>1, <1>2, ElementOfSeq, LenProperties DEF Lined
<1>4. /\ b \in Bucket /\ b.upper = buckets[1].upper
      /\ b.items \subseteq buckets[1].items
      /\ \A x \in buckets[1].items : x >= lower_bound => x \in b.items
  BY <1>3 DEF DeclareLowerBound, Bucket
<1>5. /\ buckets' = [buckets EXCEPT ![1] = b]
      /\ stream_size' = stream_size - (Cardinality(buckets[1].items)
                                       - Cardinality(b.items))
      /\ call' = "none"
      /\ UNCHANGED <<upper_bound, lower_bound, target, answer>>
  BY DEF TrimFront
<1>6. /\ Lined(buckets', upper_bound) /\ buckets' # <<>>
      /\ \A x : x \in Contents(buckets') <=>
                 x \in Contents(buckets) /\ ~(x \in buckets[1].items /\ x \notin b.items)
      /\ Cardinality(Contents(buckets')) =
           Cardinality(Contents(buckets))
             - (Cardinality(buckets[1].items) - Cardinality(b.items))
  <2>. HIDE DEF b
  <2>1. PICK i \in DOMAIN buckets : i = 1
    BY <1>2
  <2>2. /\ Lined(buckets, upper_bound) /\ upper_bound \in Nat /\ i \in DOMAIN buckets
        /\ b \in Bucket /\ b.upper = buckets[i].upper
        /\ b.items \subseteq buckets[i].items
        /\ buckets' = [buckets EXCEPT ![i] = b]
    BY <1>1, <1>4, <1>5, <2>1
  <2>3. /\ Lined(buckets', upper_bound) /\ buckets' # <<>>
        /\ \A x : x \in Contents(buckets') <=>
                   x \in Contents(buckets) /\ ~(x \in buckets[i].items /\ x \notin b.items)
        /\ Cardinality(Contents(buckets')) =
             Cardinality(Contents(buckets))
               - (Cardinality(buckets[i].items) - Cardinality(b.items))
    BY ONLY <2>2, ShrinkBucket
  <2>. QED
    BY <2>1, <2>3
<1>7. /\ Cardinality(Contents(buckets)) \in Nat
      /\ Cardinality(buckets[1].items) \in Nat /\ Cardinality(b.items) \in Nat
  <2>1. \A x \in b.items : x < b.upper
    BY <1>3, <1>4
  <2>. QED
    BY <1>1, <1>3, <1>4, <2>1, ContentsBounded, BucketFinite
<1>8. Contents(buckets)' = Contents(buckets')
  BY DEF Contents
<1>9. stream_size' = Cardinality(Contents(buckets)') + (target' - upper_bound')
  BY <1>1, <1>5, <1>6, <1>7, <1>8 DEF Inv
<1>10. Bounds' /\ Lined(buckets', upper_bound')
  BY <1>1, <1>5, <1>6 DEF Inv, Bounds, Loops
<1>11. Inv'
  BY <1>5, <1>6, <1>9, <1>10 DEF Inv, Lined
<1>. QED
  BY <1>4, <1>6, <1>8, <1>11

(* A fetch takes one item, wherever it is.                                 *)
LEMMA TryFetchInv ==
  ASSUME Inv, NEW i \in DOMAIN buckets, NEW item \in buckets[i].items,
         TryFetch(i, item)
  PROVE  Inv' /\ Contents(buckets)' = Contents(buckets) \ {item}
<1>. DEFINE b == Fetch(buckets[i], item)
<1>1. /\ Lined(buckets, upper_bound)
      /\ upper_bound \in Nat /\ target = upper_bound
  BY DEF Inv, Bounds, TryFetch
<1>2. buckets[i] \in Bucket /\ \A x \in buckets[i].items : x < buckets[i].upper
  BY <1>1, ElementOfSeq, LenProperties DEF Lined
<1>3. /\ b \in Bucket /\ b.upper = buckets[i].upper
      /\ b.items = buckets[i].items \ {item}
  BY <1>2 DEF Fetch, Bucket
<1>4. /\ buckets' = [buckets EXCEPT ![i] = b]
      /\ stream_size' = stream_size - 1
      /\ UNCHANGED <<upper_bound, lower_bound, target>>
      /\ \/ answer' = item /\ call' = "none"
         \/ UNCHANGED <<answer, call>>
  BY DEF TryFetch
<1>5. /\ Lined(buckets', upper_bound) /\ buckets' # <<>>
      /\ \A x : x \in Contents(buckets') <=>
                 x \in Contents(buckets) /\ ~(x \in buckets[i].items /\ x \notin b.items)
      /\ Cardinality(Contents(buckets')) =
           Cardinality(Contents(buckets))
             - (Cardinality(buckets[i].items) - Cardinality(b.items))
  <2>. HIDE DEF b
  <2>1. /\ Lined(buckets, upper_bound) /\ upper_bound \in Nat /\ i \in DOMAIN buckets
        /\ b \in Bucket /\ b.upper = buckets[i].upper
        /\ b.items \subseteq buckets[i].items
        /\ buckets' = [buckets EXCEPT ![i] = b]
    BY <1>1, <1>3, <1>4
  <2>. QED
    BY ONLY <2>1, ShrinkBucket
<1>6. \A x : x \in buckets[i].items /\ x \notin b.items <=> x = item
  BY <1>3
<1>7. /\ Cardinality(buckets[i].items) \in Nat
      /\ Cardinality(b.items) = Cardinality(buckets[i].items) - 1
  <2>1. IsFiniteSet(buckets[i].items) /\ Cardinality(buckets[i].items) \in Nat
    BY <1>2, BucketFinite
  <2>2. Cardinality(buckets[i].items \ {item}) = Cardinality(buckets[i].items) - 1
    BY <2>1, FS_RemoveElement
  <2>. QED
    BY <1>3, <2>1, <2>2
<1>8. Cardinality(Contents(buckets)) \in Nat
  BY <1>1, ContentsBounded
<1>9. Contents(buckets)' = Contents(buckets')
  BY DEF Contents
<1>10. stream_size' = Cardinality(Contents(buckets)') + (target' - upper_bound')
  BY <1>1, <1>4, <1>5, <1>7, <1>8, <1>9 DEF Inv
<1>11. item \in Nat
  BY <1>2 DEF Bucket
<1>12. Bounds' /\ Lined(buckets', upper_bound')
  BY <1>1, <1>4, <1>5, <1>11 DEF Inv, Bounds, Loops
<1>13. Inv'
  BY <1>4, <1>5, <1>10, <1>12 DEF Inv, Lined
<1>. QED
  BY <1>5, <1>6, <1>9, <1>13

(* Every step preserves the invariant.                                     *)
LEMMA NextInv == Inv /\ [Next]_vars => Inv'
<1>. SUFFICES ASSUME Inv, [Next]_vars
              PROVE  Inv'
  OBVIOUS
<1>. USE DEF Inv, Bounds, Loops
<1>1. CASE GrowStep
  BY <1>1, GrowStepInv
<1>2. CASE PopFront
  BY <1>2, PopFrontInv
<1>3. CASE TrimFront
  BY <1>3, TrimFrontInv
<1>4. CASE ReturnNothing
  BY <1>4 DEF ReturnNothing, Lined, Contents
<1>5. ASSUME NEW i \in DOMAIN buckets, NEW item \in buckets[i].items, TryFetch(i, item)
      PROVE  Inv'
  BY <1>5, TryFetchInv
<1>6. CASE GetNextItem
  BY <1>6 DEF GetNextItem, Lined, Contents
<1>7. ASSUME NEW b \in 0 .. MaxBound, SetUpperBound(b)
      PROVE  Inv'
  <2>1. Cardinality(Contents(buckets)) \in Nat /\ b \in Nat
    BY ContentsBounded, MaxBoundAssumption
  <2>2. /\ Lined(buckets, upper_bound)' /\ Contents(buckets)' = Contents(buckets)
        /\ buckets' = buckets /\ upper_bound' = upper_bound /\ lower_bound' = lower_bound
    BY <1>7 DEF SetUpperBound, Lined, Contents
  <2>3. Bounds'
    BY <1>7, <2>1 DEF SetUpperBound
  <2>4. stream_size' = Cardinality(Contents(buckets)) + (target' - upper_bound')
    BY <1>7, <2>1, <2>2 DEF SetUpperBound
  <2>. QED
    BY <2>2, <2>3, <2>4
<1>8. ASSUME NEW b \in 0 .. MaxBound, SetLowerBound(b)
      PROVE  Inv'
  BY <1>8, MaxBoundAssumption DEF SetLowerBound, Lined, Contents
<1>9. ASSUME NEW b \in 0 .. MaxBound, JumpPast(b)
      PROVE  Inv'
  BY <1>9, MaxBoundAssumption, EmptyRow DEF JumpPast
<1>10. ASSUME NEW lower \in 0 .. MaxBound, NEW upper \in 0 .. MaxBound, Reset(lower, upper)
      PROVE  Inv'
  BY <1>10, MaxBoundAssumption, EmptyRow DEF Reset
<1>11. CASE UNCHANGED vars
  BY <1>11 DEF vars, Lined, Contents
<1>. QED
  BY <1>1, <1>2, <1>3, <1>4, <1>5, <1>6, <1>7, <1>8, <1>9, <1>10, <1>11 DEF Next, LoopStep

(* The invariant has the types and the capacities.                         *)
LEMMA InvImpliesTypeOK == Inv => TypeOK
<1>. SUFFICES ASSUME Inv
              PROVE  TypeOK
  OBVIOUS
<1>1. /\ Lined(buckets, upper_bound) /\ upper_bound \in Nat
      /\ Cardinality(Contents(buckets)) \in Nat
  BY ContentsBounded DEF Inv, Bounds
<1>2. ASSUME NEW i \in DOMAIN buckets
      PROVE  IsFiniteSet(buckets[i].items) /\ Cardinality(buckets[i].items) =< BucketSize
  <2>1. buckets[i] \in Bucket /\ \A x \in buckets[i].items : x < buckets[i].upper
    BY <1>1, ElementOfSeq, LenProperties DEF Lined
  <2>. QED
    BY <1>1, <2>1, BucketFinite DEF Lined
<1>3. stream_size \in Nat
  BY <1>1 DEF Inv, Bounds
<1>. QED
  BY <1>1, <1>2, <1>3 DEF Inv, Bounds, TypeOK, Lined

(* Between calls the size is the number of items.                          *)
LEMMA InvImpliesIndexInBounds == Inv => IndexInBounds
<1>. SUFFICES ASSUME Inv, call \in {"none", "fetch"}
              PROVE  stream_size = Cardinality(Held)
  BY DEF IndexInBounds
<1>1. target = upper_bound /\ Cardinality(Contents(buckets)) \in Nat
  BY ContentsBounded DEF Inv, Bounds
<1>. QED
  BY <1>1, HeldIsContents DEF Inv, Bounds

(* Inv is an invariant of the specification.                               *)
LEMMA InvHolds == Spec => []Inv
BY InitInv, NextInv, PTL DEF Spec

(* No bucket is ever filled beyond its array, and the counters never wrap  *)
(* below zero, whatever the bucket size and the order of the calls.        *)
THEOREM TypeCorrect == Spec => []TypeOK
BY InvHolds, InvImpliesTypeOK, PTL

(* GetNextItem never runs out of buckets while it looks for the item its   *)
(* random index stands for.                                                *)
THEOREM SizeIsExact == Spec => []IndexInBounds
BY InvHolds, InvImpliesIndexInBounds, PTL

-----------------------------------------------------------------------------
(* The shuffler implements the sampler.                                    *)

(* A new shuffler is a new sampler.                                        *)
LEMMA InitSampler == Init => Sampler!Init
<1>. SUFFICES ASSUME Init
              PROVE  Sampler!Init
  OBVIOUS
<1>1. Held = {} /\ upper_bound .. target - 1 = {}
  BY HeldIsContents, EmptyRow, SMT DEF Init
<1>2. fresh = {}
  BY <1>1 DEF fresh
<1>. QED
  BY <1>2 DEF Init, Sampler!Init

(* Every step is a step of the sampler, or is invisible to it.             *)
LEMMA NextSampler == Inv /\ [Next]_vars => [Sampler!Next]_Sampler!vars
<1>. SUFFICES ASSUME Inv, [Next]_vars
              PROVE  Sampler!Next \/ UNCHANGED Sampler!vars
  OBVIOUS
<1>0. /\ upper_bound \in Nat /\ lower_bound \in Nat /\ target \in Nat
      /\ lower_bound =< upper_bound /\ upper_bound =< target
      /\ Contents(buckets) \subseteq 0 .. upper_bound - 1
      /\ Held = Contents(buckets) /\ Held' = Contents(buckets)'
      /\ call # "grow" => target = upper_bound
      /\ Cardinality(Contents(buckets)) \in Nat /\ IsFiniteSet(Contents(buckets))
  <2>1. /\ upper_bound \in Nat /\ lower_bound \in Nat /\ target \in Nat
        /\ lower_bound =< upper_bound /\ upper_bound =< target
        /\ Lined(buckets, upper_bound)
        /\ call # "grow" => target = upper_bound
    BY DEF Inv, Bounds
  <2>2. /\ Contents(buckets) \subseteq 0 .. upper_bound - 1
        /\ Cardinality(Contents(buckets)) \in Nat /\ IsFiniteSet(Contents(buckets))
    BY <2>1, ContentsBounded
  <2>3. Held = Contents(buckets) /\ Held' = Contents(buckets)'
    BY DEF Held, Contents
  <2>. QED
    BY <2>1, <2>2, <2>3
<1>1. CASE GrowStep
  <2>1. /\ Contents(buckets)' = Contents(buckets) \cup upper_bound .. upper_bound' - 1
        /\ upper_bound =< upper_bound' /\ upper_bound' =< target
        /\ upper_bound' \in Nat
    BY <1>1, GrowStepInv DEF Inv, Bounds
  <2>2. lower_bound' = lower_bound /\ target' = target /\ answer' = answer
    BY <1>1 DEF GrowStep
  <2>3. upper_bound .. target - 1
          = upper_bound .. upper_bound' - 1 \cup upper_bound' .. target - 1
    BY <1>0, <2>1, SMT
  <2>4. fresh' = fresh
    BY <1>0, <2>1, <2>2, <2>3, Zenon DEF fresh
  <2>5. (call = "fetch") = FALSE /\ (call' = "fetch") = FALSE
    BY <1>1 DEF GrowStep
  <2>. QED
    BY <2>2, <2>4, <2>5 DEF Sampler!vars
<1>2. CASE PopFront
  <2>1. /\ Contents(buckets)' = Contents(buckets) \ Head(buckets).items
        /\ \A x \in Head(buckets).items : x < lower_bound
    BY <1>2, PopFrontInv
  <2>2. UNCHANGED <<lower_bound, upper_bound, target, answer, call>>
    BY <1>2 DEF PopFront
  <2>3. \A x \in Contents(buckets) : x \in Nat
    BY <1>0
  <2>4. \A x \in Contents(buckets) : x >= lower_bound => x \notin Head(buckets).items
    BY <1>0, <2>1, <2>3
  <2>5. fresh' = fresh
    BY <1>0, <2>1, <2>2, <2>4, Zenon DEF fresh
  <2>. QED
    BY <2>2, <2>5 DEF Sampler!vars
<1>3. CASE TrimFront
  <2>1. /\ Contents(buckets)' \subseteq Contents(buckets)
        /\ \A x \in Contents(buckets) : x >= lower_bound => x \in Contents(buckets)'
    BY <1>3, TrimFrontInv
  <2>2. UNCHANGED <<lower_bound, upper_bound, target, answer>>
    BY <1>3 DEF TrimFront
  <2>3. fresh' = fresh
    BY <1>0, <2>1, <2>2, Zenon DEF fresh
  <2>4. (call = "fetch") = FALSE /\ (call' = "fetch") = FALSE
    BY <1>3 DEF TrimFront
  <2>. QED
    BY <2>2, <2>3, <2>4 DEF Sampler!vars
<1>4. CASE ReturnNothing
  <2>1. call = "fetch" /\ stream_size = 0 /\ call' = "none" /\ answer' = Nothing
    BY <1>4 DEF ReturnNothing
  <2>2. UNCHANGED <<buckets, lower_bound, upper_bound, target>>
    BY <1>4 DEF ReturnNothing
  <2>3. Cardinality(Contents(buckets)) = 0
    BY <1>0, <2>1 DEF Inv
  <2>4. Held = {} /\ upper_bound .. target - 1 = {}
    BY <1>0, <2>1, <2>3, FS_EmptySet, SMT
  <2>5. fresh = {} /\ Held' = Held
    BY <2>2, <2>4 DEF fresh, Held
  <2>6. fresh' = fresh
    BY <2>2, <2>5 DEF fresh
  <2>. QED
    BY <2>1, <2>2, <2>5, <2>6 DEF Sampler!Next, Sampler!Exhaust
<1>5. ASSUME NEW i \in DOMAIN buckets, NEW item \in buckets[i].items, TryFetch(i, item)
      PROVE  Sampler!Next \/ UNCHANGED Sampler!vars
  <2>1. Contents(buckets)' = Contents(buckets) \ {item}
    BY <1>5, TryFetchInv
  <2>2. call = "fetch" /\ UNCHANGED <<lower_bound, upper_bound, target>>
    BY <1>5 DEF TryFetch
  <2>3. item \in Contents(buckets) /\ item \in Nat
    BY <1>0, <1>5 DEF Contents
  <2>4. upper_bound .. target - 1 = {} /\ upper_bound' .. target' - 1 = {}
    BY <1>0, <2>2, SMT
  <2>5. fresh' = fresh \ {item}
    BY <1>0, <2>1, <2>2, <2>4, Zenon DEF fresh
  <2>6. CASE Returns(item)
    <3>1. answer' = item /\ call' = "none"
      BY <1>5, <2>6 DEF TryFetch
    <3>2. item \in fresh
      BY <1>0, <2>3, <2>6 DEF fresh, Returns
    <3>. QED
      BY <2>2, <2>5, <3>1, <3>2 DEF Sampler!Next, Sampler!Draw
  <2>7. CASE ~Returns(item)
    <3>1. UNCHANGED <<answer, call>>
      BY <1>5, <2>7 DEF TryFetch
    <3>2. item \notin fresh
      BY <2>7 DEF fresh, Returns
    <3>. QED
      BY <2>2, <2>5, <3>1, <3>2 DEF Sampler!vars
  <2>. QED
    BY <2>6, <2>7
<1>6. CASE GetNextItem
  <2>1. call = "none" /\ call' = "fetch"
        /\ UNCHANGED <<buckets, lower_bound, upper_bound, target, answer>>
    BY <1>6 DEF GetNextItem
  <2>2. fresh' = fresh
    BY <2>1 DEF fresh, Held
  <2>. QED
    BY <2>1, <2>2 DEF Sampler!Next, Sampler!Ask
<1>7. ASSUME NEW b \in 0 .. MaxBound, SetUpperBound(b)
      PROVE  Sampler!Next \/ UNCHANGED Sampler!vars
  <2>1. /\ call = "none" /\ b >= upper_bound /\ target' = b /\ b \in Nat
        /\ call' # "fetch"
        /\ UNCHANGED <<buckets, lower_bound, upper_bound, answer>>
    BY <1>7, MaxBoundAssumption DEF SetUpperBound
  <2>2. target = upper_bound /\ Held' = Held
    BY <1>0, <2>1 DEF Held
  <2>3. fresh' = fresh \cup target .. target' - 1
    <3>1. \A x \in target .. target' - 1 : x >= lower_bound
      BY <1>0, <2>1, <2>2
    <3>2. upper_bound .. target - 1 = {}
      BY <1>0, <2>2, SMT
    <3>. QED
      BY <2>1, <2>2, <3>1, <3>2, Zenon DEF fresh
  <2>. QED
    BY <1>0, <2>1, <2>2, <2>3 DEF Sampler!Next, Sampler!Grow
<1>8. ASSUME NEW b \in 0 .. MaxBound, SetLowerBound(b)
      PROVE  Sampler!Next \/ UNCHANGED Sampler!vars
  <2>1. /\ call = "none" /\ b >= lower_bound /\ b < upper_bound
        /\ lower_bound' = b /\ b \in Nat /\ call' # "fetch"
        /\ UNCHANGED <<buckets, upper_bound, target, answer>>
    BY <1>8, MaxBoundAssumption DEF SetLowerBound
  <2>2. Held' = Held /\ Held \subseteq Nat /\ upper_bound .. target - 1 = {}
        /\ upper_bound' .. target' - 1 = {} /\ target = upper_bound
    <3>1. Held' = Held /\ target = upper_bound
      BY <1>0, <2>1 DEF Held
    <3>. QED
      BY <1>0, <2>1, <3>1, SMT
  <2>3. fresh' = {x \in fresh : x >= lower_bound'}
    BY <1>0, <2>1, <2>2 DEF fresh
  <2>4. ~(lower_bound' > target)
    BY <1>0, <2>1, <2>2
  <2>. QED
    BY <1>0, <2>1, <2>3, <2>4 DEF Sampler!Next, Sampler!Shrink
<1>9. ASSUME NEW b \in 0 .. MaxBound, JumpPast(b)
      PROVE  Sampler!Next \/ UNCHANGED Sampler!vars
  <2>1. /\ call = "none" /\ b >= lower_bound /\ b >= upper_bound /\ buckets' = <<>>
        /\ lower_bound' = b /\ upper_bound' = b /\ target' = b /\ b \in Nat
        /\ call' = "none" /\ UNCHANGED answer
    BY <1>9, MaxBoundAssumption DEF JumpPast
  <2>2. target = upper_bound
    BY <1>0, <2>1
  <2>3. Held' = {} /\ upper_bound' .. target' - 1 = {}
    BY <2>1, EmptyRow, SMT DEF Held, Contents
  <2>4. fresh' = {}
    BY <2>3 DEF fresh
  <2>5. \A x \in fresh : ~(x >= lower_bound')
    BY <1>0, <2>1, <2>2 DEF fresh
  <2>6. fresh' = {x \in fresh : x >= lower_bound'}
    BY <2>4, <2>5
  <2>7. target' = IF lower_bound' > target THEN lower_bound' ELSE target
    BY <1>0, <2>1, <2>2
  <2>. QED
    BY <2>1, <2>6, <2>7 DEF Sampler!Next, Sampler!Shrink
<1>10. ASSUME NEW lower \in 0 .. MaxBound, NEW upper \in 0 .. MaxBound,
              Reset(lower, upper)
       PROVE  Sampler!Next \/ UNCHANGED Sampler!vars
  <2>1. /\ call = "none" /\ lower =< upper /\ buckets' = <<>>
        /\ lower_bound' = lower /\ upper_bound' = lower /\ target' = upper
        /\ lower \in Nat /\ upper \in Nat
        /\ call' # "fetch" /\ UNCHANGED answer
    BY <1>10, MaxBoundAssumption DEF Reset
  <2>2. Held' = {}
    BY <2>1, EmptyRow DEF Held, Contents
  <2>3. fresh' = lower .. upper - 1
    BY <2>1, <2>2 DEF fresh
  <2>. QED
    BY <2>1, <2>3 DEF Sampler!Next, Sampler!Restart
<1>11. CASE UNCHANGED vars
  BY <1>11 DEF vars, Sampler!vars, fresh, Held
<1>. QED
  BY <1>1, <1>2, <1>3, <1>4, <1>5, <1>6, <1>7, <1>8, <1>9, <1>10, <1>11 DEF Next, LoopStep

(* Whatever the bucket size, and whenever the bounds are moved, callers    *)
(* see a sampler that draws each number of the window at most once and     *)
(* gives up only when all were drawn.                                      *)
THEOREM ShufflerImplementsSampler == Spec => ImplementsSampler
BY InvHolds, InitSampler, NextSampler, PTL DEF Spec, ImplementsSampler, Sampler!Spec
=============================================================================
