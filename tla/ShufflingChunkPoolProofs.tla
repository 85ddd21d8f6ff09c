---------------------- MODULE ShufflingChunkPoolProofs ----------------------
(***************************************************************************)
(* Theorems about ShufflingChunkPool, for every set of sources, pool size  *)
(* and range of the use counts.                                            *)
(*                                                                         *)
(* PoolInv is the inductive invariant of the row and its window: the       *)
(* sources follow each other without gaps, the data beside them are of     *)
(* their chunks, the front source is needed, and the window is made of the *)
(* newest chunks.  That the initial row has no source too many at its      *)
(* front, though nothing is ever evicted while it is filled, is what       *)
(* Indexed carries over from the loop that stops at the first source       *)
(* beyond the pool size.  The other invariants (the requests, the chains   *)
(* of cached positions, their gauge, the levels of use) are inductive      *)
(* relative to PoolInv.                                                    *)
(***************************************************************************)
EXTENDS ShufflingChunkPool, FiniteSetTheorems, SequenceTheorems,
        WellFoundedInduction, TLAPS

-----------------------------------------------------------------------------
(* Numbers.                                                                *)

(* The remainders that the use counts are.                                 *)
LEMMA Division ==
  ASSUME NEW C \in Nat \ {0}, NEW x \in Int
  PROVE  x % C = x - C * (x \div C) /\ x \div C \in Int /\ x % C \in 0 .. C - 1
BY Z3

LEMMA Remains ==
  ASSUME NEW C \in Nat \ {0}, NEW q \in Int, NEW r \in 0 .. C - 1
  PROVE  (C * q + r) % C = r
BY Z3

LEMMA RemainderOfSum ==
  ASSUME NEW C \in Nat \ {0}, NEW x \in Int, NEW y \in Int
  PROVE  ((x % C) + y) % C = (x + y) % C
<1>. DEFINE p == x \div C
            q == (x + y) \div C
            r == (x + y) % C
<1>1. p \in Int /\ x % C = x - C * p /\ x % C \in Int
  BY Division
<1>2. x + y \in Int
  OBVIOUS
<1>3. q \in Int /\ r \in 0 .. C - 1 /\ r = x + y - C * q
  BY <1>2, Division
<1>. HIDE DEF p, q, r
<1>4. (x % C) + y = C * (q - p) + r /\ q - p \in Int
  <2>1. C * (q - p) = C * q - C * p
    BY <1>1, <1>3
  <2>. QED
    BY <1>1, <1>3, <2>1
<1>5. (C * (q - p) + r) % C = r
  BY <1>3, <1>4, Remains
<1>. QED
  BY <1>4, <1>5 DEF r

LEMMA Least ==
  ASSUME NEW S \in SUBSET Nat, S # {}
  PROVE  \E x \in S : \A y \in S : x =< y
<1>1. \E x \in S : \A y \in S : ~ (<<y, x>> \in OpToRel(<, Nat))
  BY NatLessThanWellFounded, WFMin
<1>2. \A x, y \in S : <<y, x>> \notin OpToRel(<, Nat) => x =< y
  BY DEF OpToRel
<1>. QED
  BY <1>1, <1>2

(* By induction on the size: the smallest set without a greatest element   *)
(* would be one more than a set that has one.                              *)
LEMMA Greatest ==
  ASSUME NEW S \in SUBSET Nat, S # {}, IsFiniteSet(S)
  PROVE  \E x \in S : \A y \in S : y =< x
<1>. DEFINE Has(U) == \E x \in U : \A y \in U : y =< x
            Bad == {U \in SUBSET S : U # {} /\ ~Has(U)}
            sizes == {Cardinality(U) : U \in Bad}
<1>1. \A U \in SUBSET S : IsFiniteSet(U) /\ Cardinality(U) \in Nat
  BY FS_Subset, FS_CardinalityType
<1>2. SUFFICES ASSUME ~Has(S) PROVE FALSE
  OBVIOUS
<1>3. sizes \in SUBSET Nat /\ sizes # {}
  <2>1. S \in Bad
    BY <1>2
  <2>. QED
    BY <1>1, <2>1
<1>4. PICK n \in sizes : \A m \in sizes : n =< m
  BY <1>3, Least
<1>5. PICK U \in Bad : n = Cardinality(U)
  BY <1>4
<1>6. PICK x \in U : TRUE
  BY <1>5
<1>. DEFINE V == U \ {x}
<1>7. Cardinality(V) = n - 1 /\ n \in Nat
  BY <1>1, <1>5, <1>6, FS_RemoveElement
<1>8. V \notin Bad
  <2>1. V \in Bad => n =< n - 1
    BY <1>4, <1>7
  <2>. QED
    BY <1>7, <2>1
<1>9. CASE V = {}
  <2>1. U = {x} /\ x \in Nat
    BY <1>5, <1>6, <1>9
  <2>2. Has(U)
    BY <2>1
  <2>. QED
    BY <1>5, <2>2
<1>10. CASE V # {}
  <2>1. PICK y \in V : \A z \in V : z =< y
    BY <1>5, <1>8, <1>10
  <2>2. x \in Nat /\ y \in Nat /\ U = V \cup {x}
    BY <1>5, <1>6, <2>1
  <2>3. CASE x =< y
    <3>1. \A z \in U : z =< y
      BY <2>1, <2>2, <2>3
    <3>. QED
      BY <1>5, <2>1, <2>2, <3>1
  <2>4. CASE ~(x =< y)
    <3>1. \A z \in U : z =< x
      <4>1. \A z \in V : z \in Nat /\ z =< y
        BY <1>5, <2>1
      <4>. QED
        BY <2>2, <2>4, <4>1
    <3>. QED
      BY <1>5, <1>6, <3>1
  <2>. QED
    BY <2>3, <2>4
<1>. QED
  BY <1>9, <1>10

-----------------------------------------------------------------------------
(* Sums over finite sets: n[x] pairs for each x.                           *)

Units(S, n) == UNION {{x} \X (1 .. n[x]) : x \in S}
Weight(S, n) == Cardinality(Units(S, n))

LEMMA UnitsOf ==
  ASSUME NEW x, NEW k \in Nat
  PROVE  IsFiniteSet({x} \X (1 .. k)) /\ Cardinality({x} \X (1 .. k)) = k
<1>1. IsFiniteSet({x}) /\ Cardinality({x}) = 1
  BY FS_Singleton
<1>2. IsFiniteSet(1 .. k) /\ Cardinality(1 .. k) = k
  BY FS_Interval
<1>3. /\ IsFiniteSet({x} \X (1 .. k))
      /\ Cardinality({x} \X (1 .. k)) = Cardinality({x}) * Cardinality(1 .. k)
  BY <1>1, <1>2, FS_Product
<1>. QED
  BY <1>1, <1>2, <1>3

LEMMA UnitsFinite ==
  ASSUME NEW S, IsFiniteSet(S), NEW n, \A x \in S : n[x] \in Nat
  PROVE  IsFiniteSet(Units(S, n)) /\ Weight(S, n) \in Nat
<1>. DEFINE g == [x \in S |-> {x} \X (1 .. n[x])]
            T == {g[x] : x \in S}
<1>1. \A x \in S : IsFiniteSet(g[x])
  BY UnitsOf
<1>2. Units(S, n) = UNION T
  BY DEF Units
<1>3. g \in Surjection(S, T)
  BY DEF Surjection
<1>. HIDE DEF g
<1>4. IsFiniteSet(T)
  BY <1>3, FS_Surjection
<1>5. \A U \in T : IsFiniteSet(U)
  BY <1>1
<1>. HIDE DEF T
<1>6. IsFiniteSet(UNION T)
  BY <1>4, <1>5, FS_UNION
<1>. QED
  BY <1>2, <1>6, FS_CardinalityType DEF Weight

LEMMA UnitsSplit ==
  ASSUME NEW S, IsFiniteSet(S), NEW T, IsFiniteSet(T), S \cap T = {},
         NEW n, \A x \in S \cup T : n[x] \in Nat
  PROVE  Weight(S \cup T, n) = Weight(S, n) + Weight(T, n)
<1>1. /\ IsFiniteSet(Units(S, n)) /\ IsFiniteSet(Units(T, n))
      /\ Weight(S, n) \in Nat /\ Weight(T, n) \in Nat
  BY UnitsFinite
<1>2. Units(S \cup T, n) = Units(S, n) \cup Units(T, n)
  BY DEF Units
<1>3. Units(S, n) \cap Units(T, n) = {}
  BY DEF Units
<1>4. Cardinality(Units(S, n) \cap Units(T, n)) = 0
  BY <1>3, FS_EmptySet
<1>5. Cardinality(Units(S, n) \cup Units(T, n)) =
        Cardinality(Units(S, n)) + Cardinality(Units(T, n)) - 0
  BY <1>1, <1>4, FS_Union
<1>6. /\ Cardinality(Units(S, n)) \in Nat /\ Cardinality(Units(T, n)) \in Nat
  BY <1>1 DEF Weight
<1>7. Cardinality(Units(S, n) \cup Units(T, n)) =
        Cardinality(Units(S, n)) + Cardinality(Units(T, n))
  BY <1>5, <1>6
<1>. QED
  BY <1>2, <1>7, Zenon DEF Weight

LEMMA UnitsSingle ==
  ASSUME NEW x, NEW n, n[x] \in Nat
  PROVE  Weight({x}, n) = n[x]
<1>1. Units({x}, n) = {x} \X (1 .. n[x])
  BY DEF Units
<1>. QED
  BY <1>1, UnitsOf DEF Weight

LEMMA UnitsSame ==
  ASSUME NEW S, NEW n, NEW m, \A x \in S : n[x] = m[x]
  PROVE  Weight(S, n) = Weight(S, m)
<1>1. Units(S, n) = Units(S, m)
  BY DEF Units
<1>. QED
  BY <1>1 DEF Weight

LEMMA UnitsNone ==
  ASSUME NEW S, NEW n, \A x \in S : n[x] = 0
  PROVE  Weight(S, n) = 0
<1>1. Units(S, n) = {}
  BY DEF Units
<1>. QED
  BY <1>1, FS_EmptySet DEF Weight

LEMMA UnitsRemove ==
  ASSUME NEW S, IsFiniteSet(S), NEW x \in S, NEW n, \A y \in S : n[y] \in Nat
  PROVE  Weight(S, n) = Weight(S \ {x}, n) + n[x] /\ Weight(S \ {x}, n) \in Nat
<1>1. IsFiniteSet(S \ {x}) /\ IsFiniteSet({x})
  BY FS_Difference, FS_Singleton
<1>2. Weight((S \ {x}) \cup {x}, n) = Weight(S \ {x}, n) + Weight({x}, n)
  BY <1>1, UnitsSplit
<1>3. (S \ {x}) \cup {x} = S
  OBVIOUS
<1>. QED
  BY <1>1, <1>2, <1>3, UnitsSingle, UnitsFinite

-----------------------------------------------------------------------------
(* Rows of sources.                                                        *)

Source == [key : Nat, start : Nat, count : Nat]

(* The sources follow each other without gaps, and their chunks are all    *)
(* the numbers from the first to the end.                                  *)
Numbered(r) ==
  /\ r \in Seq(Source)
  /\ \A i, j \in 1 .. Len(r) : i < j => EndOf(r[i]) =< r[j].start
  /\ \A i \in 1 .. Len(r) - 1 : EndOf(r[i]) = r[i + 1].start
  /\ r # <<>> => \A c \in r[1].start .. End(r) - 1 :
                   \E i \in 1 .. Len(r) : c \in ChunksOf(r[i])

LEMMA RowBounds ==
  ASSUME NEW r, Numbered(r)
  PROVE  /\ Len(r) \in Nat /\ End(r) \in Nat /\ DOMAIN r = 1 .. Len(r)
         /\ r = <<>> <=> Len(r) = 0
         /\ \A i \in 1 .. Len(r) :
              /\ r[i] \in Source /\ r[i].start \in Nat /\ r[i].count \in Nat
              /\ EndOf(r[i]) = r[i].start + r[i].count
              /\ r[1].start =< r[i].start /\ EndOf(r[i]) =< End(r)
<1>1. /\ Len(r) \in Nat /\ DOMAIN r = 1 .. Len(r)
      /\ \A i \in 1 .. Len(r) : r[i] \in Source
  BY LenProperties, ElementOfSeq DEF Numbered
<1>2. r = <<>> <=> Len(r) = 0
  BY <1>1, EmptySeq DEF Numbered
<1>3. \A i \in 1 .. Len(r) : /\ r[i].start \in Nat /\ r[i].count \in Nat
                             /\ EndOf(r[i]) = r[i].start + r[i].count
  BY <1>1 DEF Source, EndOf
<1>4. \A i, j \in 1 .. Len(r) : i < j => EndOf(r[i]) =< r[j].start
  BY DEF Numbered
<1>5. CASE r = <<>>
  BY <1>1, <1>2, <1>5 DEF End
<1>6. CASE r # <<>>
  <2>1. End(r) = EndOf(r[Len(r)]) /\ 1 \in 1 .. Len(r) /\ Len(r) \in 1 .. Len(r)
    BY <1>1, <1>2, <1>6 DEF End
  <2>2. ASSUME NEW i \in 1 .. Len(r)
        PROVE  r[1].start =< r[i].start
    <3>1. CASE i = 1
      BY <1>3, <3>1
    <3>2. CASE i # 1
      <4>1. EndOf(r[1]) =< r[i].start
        BY <1>4, <2>1, <3>2
      <4>. QED
        BY <1>3, <2>1, <4>1
    <3>. QED
      BY <3>1, <3>2
  <2>3. ASSUME NEW i \in 1 .. Len(r)
        PROVE  EndOf(r[i]) =< End(r)
    <3>1. CASE i = Len(r)
      BY <1>3, <2>1, <3>1
    <3>2. CASE i # Len(r)
      <4>1. i < Len(r)
        <5>1. \A l \in Nat : \A j \in 1 .. l : j # l => j < l
          OBVIOUS
        <5>. QED
          BY <1>1, <3>2, <5>1, Zenon
      <4>2. EndOf(r[i]) =< r[Len(r)].start
        BY <1>4, <2>1, <4>1
      <4>. QED
        BY <1>3, <2>1, <4>2
    <3>. QED
      BY <3>1, <3>2
  <2>4. End(r) \in Nat
    BY <1>3, <2>1
  <2>. QED
    BY <1>1, <1>2, <1>3, <2>2, <2>3, <2>4
<1>. QED
  BY <1>5, <1>6

LEMMA RowPush ==
  ASSUME NEW r, Numbered(r), NEW f \in Files
  PROVE  LET p == PushBack(r, f)
         IN /\ Numbered(p) /\ p # <<>> /\ End(p) = End(r) + f.count
            /\ p[1].start = IF r = <<>> THEN 0 ELSE r[1].start
            /\ EndOf(p[1]) = IF r = <<>> THEN f.count ELSE EndOf(r[1])
<1>. DEFINE p == PushBack(r, f)
            e == [key |-> f.key, start |-> End(r), count |-> f.count]
            n == Len(r) + 1
<1>0. /\ Len(r) \in Nat /\ End(r) \in Nat /\ f.key \in Nat /\ f.count \in Nat
      /\ r \in Seq(Source)
      /\ \A i \in 1 .. Len(r) :
              /\ r[i] \in Source /\ r[i].start \in Nat /\ r[i].count \in Nat
              /\ EndOf(r[i]) = r[i].start + r[i].count
              /\ r[1].start =< r[i].start /\ EndOf(r[i]) =< End(r)
      /\ r = <<>> <=> Len(r) = 0
  <2>1. f.key \in Nat /\ f.count \in Nat
    BY FilesAssumption
  <2>. QED
    BY <2>1, RowBounds DEF Numbered
<1>1. e \in Source /\ e.start = End(r) /\ EndOf(e) = End(r) + f.count
  BY <1>0 DEF Source, EndOf
<1>2. p = Append(r, e)
  BY DEF PushBack
<1>. HIDE DEF p, e
<1>3. /\ p \in Seq(Source) /\ Len(p) = n /\ p[n] = e /\ p # <<>>
      /\ \A i \in 1 .. Len(r) : p[i] = r[i]
  BY <1>0, <1>1, <1>2, AppendProperties
<1>4. End(p) = End(r) + f.count
  BY <1>1, <1>3 DEF End
<1>5. ASSUME NEW i \in 1 .. n, NEW j \in 1 .. n, i < j
      PROVE  EndOf(p[i]) =< p[j].start
  <2>1. i \in 1 .. Len(r) /\ p[i] = r[i]
    BY <1>0, <1>3, <1>5
  <2>2. CASE j = n
    BY <1>0, <1>1, <1>3, <2>1, <2>2
  <2>3. CASE j # n
    <3>1. j \in 1 .. Len(r) /\ p[j] = r[j]
      BY <1>0, <1>3, <2>3
    <3>. QED
      BY <1>5, <2>1, <3>1 DEF Numbered
  <2>. QED
    BY <2>2, <2>3
<1>6. ASSUME NEW i \in 1 .. n - 1
      PROVE  EndOf(p[i]) = p[i + 1].start
  <2>1. i \in 1 .. Len(r) /\ p[i] = r[i]
    BY <1>0, <1>3
  <2>2. CASE i = Len(r)
    <3>1. End(r) = EndOf(r[i])
      BY <1>0, <2>1, <2>2 DEF End
    <3>. QED
      BY <1>1, <1>3, <2>1, <2>2, <3>1
  <2>3. CASE i # Len(r)
    <3>1. i \in 1 .. Len(r) - 1 /\ i + 1 \in 1 .. Len(r) /\ p[i + 1] = r[i + 1]
      BY <1>0, <1>3, <2>1, <2>3
    <3>. QED
      BY <2>1, <3>1 DEF Numbered
  <2>. QED
    BY <2>2, <2>3
<1>7. /\ p[1].start = IF r = <<>> THEN 0 ELSE r[1].start
      /\ EndOf(p[1]) = IF r = <<>> THEN f.count ELSE EndOf(r[1])
  <2>1. CASE r = <<>>
    <3>1. p[1] = e /\ End(r) = 0
      BY <1>0, <1>3, <2>1 DEF End
    <3>. QED
      BY <1>0, <1>1, <2>1, <3>1
  <2>2. CASE r # <<>>
    <3>1. p[1] = r[1]
      BY <1>0, <1>3, <2>2
    <3>. QED
      BY <2>2, <3>1
  <2>. QED
    BY <2>1, <2>2
<1>8. ASSUME NEW c \in p[1].start .. End(p) - 1
      PROVE  \E i \in 1 .. n : c \in ChunksOf(p[i])
  <2>1. CASE c >= End(r)
    <3>1. c \in ChunksOf(e)
      <4>1. c \in Int /\ c < End(r) + f.count
        BY <1>0, <1>4, <1>7
      <4>. QED
        BY <1>0, <1>1, <2>1, <4>1 DEF ChunksOf
    <3>. QED
      BY <1>0, <1>3, <3>1
  <2>2. CASE ~(c >= End(r))
    <3>1. r # <<>>
      <4>1. ASSUME r = <<>>
            PROVE  FALSE
        <5>1. End(r) = 0 /\ p[1].start = 0
          BY <1>7, <4>1 DEF End
        <5>. QED
          BY <1>0, <1>4, <2>2, <5>1
      <4>. QED
        BY <4>1
    <3>2. c \in r[1].start .. End(r) - 1
      <4>1. p[1].start = r[1].start /\ r[1].start \in Nat
        BY <1>0, <1>7, <3>1
      <4>. QED
        BY <1>0, <1>4, <2>2, <4>1
    <3>3. PICK i \in 1 .. Len(r) : c \in ChunksOf(r[i])
      BY <3>1, <3>2 DEF Numbered
    <3>. QED
      BY <1>0, <1>3, <3>3
  <2>. QED
    BY <2>1, <2>2
<1>9. Numbered(p)
  BY <1>3, <1>5, <1>6, <1>8 DEF Numbered
<1>. QED
  BY <1>3, <1>4, <1>7, <1>9 DEF p

LEMMA RowRest ==
  ASSUME NEW r, Numbered(r), NEW k \in 1 .. Len(r)
  PROVE  LET s == SubSeq(r, k, Len(r))
         IN /\ Numbered(s) /\ s # <<>> /\ End(s) = End(r) /\ s[1] = r[k]
            /\ Len(s) = Len(r) - k + 1
<1>. DEFINE s == SubSeq(r, k, Len(r))
            n == Len(r) - k + 1
<1>0. /\ Len(r) \in Nat /\ End(r) \in Nat /\ r \in Seq(Source)
      /\ \A i \in 1 .. Len(r) :
              /\ r[i] \in Source /\ r[i].start \in Nat /\ r[i].count \in Nat
              /\ EndOf(r[i]) = r[i].start + r[i].count
              /\ EndOf(r[i]) =< End(r)
      /\ k \in Nat /\ k >= 1 /\ k =< Len(r) /\ r # <<>>
  BY RowBounds DEF Numbered
<1>1. /\ s \in Seq(Source) /\ Len(s) = n
      /\ \A i \in 1 .. n : s[i] = r[k + i - 1]
  <2>1. \A i \in k .. Len(r) : r[i] \in Source
    BY <1>0
  <2>. QED
    BY <1>0, <2>1, SubSeqProperties
<1>. HIDE DEF s
<1>2. n \in Nat /\ n >= 1 /\ \A i \in 1 .. n : k + i - 1 \in 1 .. Len(r)
  BY <1>0
<1>3. s # <<>> /\ s[1] = r[k] /\ s[n] = r[Len(r)]
  <2>1. s # <<>>
    <3>1. Len(s) # 0 /\ Len(<<>>) = 0
      BY <1>1, <1>2, EmptySeq
    <3>. QED
      BY <3>1, Zenon
  <2>2. s[1] = r[k + 1 - 1] /\ s[n] = r[k + n - 1]
    BY <1>1, <1>2
  <2>3. k + 1 - 1 = k /\ k + n - 1 = Len(r)
    BY <1>0
  <2>. QED
    BY <2>1, <2>2, <2>3
<1>4. End(s) = End(r)
  BY <1>0, <1>1, <1>3 DEF End
<1>5. ASSUME NEW i \in 1 .. n, NEW j \in 1 .. n, i < j
      PROVE  EndOf(s[i]) =< s[j].start
  <2>1. /\ k + i - 1 \in 1 .. Len(r) /\ k + j - 1 \in 1 .. Len(r)
        /\ k + i - 1 < k + j - 1
    BY <1>0, <1>2, <1>5
  <2>. QED
    BY <1>1, <2>1 DEF Numbered
<1>6. ASSUME NEW i \in 1 .. n - 1
      PROVE  EndOf(s[i]) = s[i + 1].start
  <2>1. /\ k + i - 1 \in 1 .. Len(r) - 1 /\ k + (i + 1) - 1 = (k + i - 1) + 1
        /\ i \in 1 .. n /\ i + 1 \in 1 .. n
    BY <1>0, <1>2
  <2>2. EndOf(r[k + i - 1]) = r[(k + i - 1) + 1].start
    BY <2>1 DEF Numbered
  <2>3. s[i] = r[k + i - 1] /\ s[i + 1] = r[(k + i - 1) + 1]
    BY <1>1, <2>1
  <2>. QED
    BY <2>2, <2>3
<1>7. ASSUME NEW c \in s[1].start .. End(s) - 1
      PROVE  \E i \in 1 .. n : c \in ChunksOf(s[i])
  <2>1. /\ c \in Int /\ r[k].start =< c /\ c < End(r)
    BY <1>0, <1>3, <1>4
  <2>2. c \in r[1].start .. End(r) - 1
    <3>1. r[1].start =< r[k].start /\ r[1].start \in Nat
      BY <1>0, RowBounds
    <3>. QED
      BY <1>0, <2>1, <3>1
  <2>3. PICK j \in 1 .. Len(r) : c \in ChunksOf(r[j])
    BY <1>0, <2>2 DEF Numbered
  <2>4. j >= k
    <3>1. ASSUME j < k
          PROVE  FALSE
      <4>1. EndOf(r[j]) =< r[k].start
        BY <3>1 DEF Numbered
      <4>2. c < EndOf(r[j]) /\ EndOf(r[j]) \in Nat /\ r[k].start \in Nat
        BY <1>0, <2>3 DEF ChunksOf
      <4>. QED
        BY <2>1, <4>1, <4>2
    <3>. QED
      BY <1>0, <3>1
  <2>5. j - k + 1 \in 1 .. n /\ k + (j - k + 1) - 1 = j
    BY <1>0, <2>4
  <2>6. s[j - k + 1] = r[j]
    BY <1>1, <2>5
  <2>. QED
    BY <2>3, <2>5, <2>6
<1>8. Numbered(s)
  BY <1>1, <1>5, <1>6, <1>7 DEF Numbered
<1>. QED
  BY <1>1, <1>3, <1>4, <1>8 DEF s

(* What is left of a row when sources are evicted: its end, and no more at *)
(* its front than the window needs.                                        *)
LEMMA RowEvict ==
  ASSUME NEW r, Numbered(r), r # <<>>
  PROVE  LET s == EvictFrom(r)
         IN /\ Numbered(s) /\ s # <<>> /\ End(s) = End(r)
            /\ s[1].start >= r[1].start
            /\ End(s) - EndOf(s[1]) < PoolSize
            /\ s[1].start = r[1].start \/ End(s) - s[1].start >= PoolSize
<1>. DEFINE Rest(i) == SubSeq(r, i, Len(r))
            Keeps == {i \in 1 .. Len(r) : KeepsFront(Rest(i))}
            Fits(i) == KeepsFront(Rest(i)) /\ \A j \in 1 .. i - 1 : ~KeepsFront(Rest(j))
<1>0. /\ Len(r) \in Nat \ {0} /\ r[1].start \in Nat /\ End(r) \in Nat
      /\ \A i \in 1 .. Len(r) : /\ r[i].start \in Nat /\ r[i].count \in Nat
                                /\ EndOf(r[i]) \in Nat
                                /\ r[1].start =< r[i].start
  BY RowBounds
<1>1. \A i \in 1 .. Len(r) :
         /\ Numbered(Rest(i)) /\ Rest(i) # <<>> /\ End(Rest(i)) = End(r)
         /\ Rest(i)[1] = r[i] /\ Len(Rest(i)) = Len(r) - i + 1
  BY RowRest
<1>. HIDE DEF Rest
<1>2. \E i \in 1 .. Len(r) : Fits(i)
  <2>1. Len(r) \in Keeps
    <3>1. Len(r) \in 1 .. Len(r) /\ Len(r) - Len(r) + 1 = 1
      BY <1>0
    <3>2. Len(Rest(Len(r))) = 1
      BY <1>1, <3>1
    <3>3. KeepsFront(Rest(Len(r)))
      BY <3>2 DEF KeepsFront
    <3>. QED
      BY <3>1, <3>3
  <2>2. Keeps \in SUBSET Nat /\ Keeps # {}
    BY <2>1
  <2>3. PICK i \in Keeps : \A j \in Keeps : i =< j
    BY <2>2, Least
  <2>4. \A j \in 1 .. i - 1 : j \in 1 .. Len(r) /\ ~(i =< j)
    BY <1>0
  <2>. QED
    BY <2>3, <2>4
<1>3. PICK k \in 1 .. Len(r) : Fits(k) /\ EvictFrom(r) = Rest(k)
  <2>. DEFINE first == CHOOSE i \in 1 .. Len(r) : Fits(i)
  <2>1. first \in 1 .. Len(r) /\ Fits(first)
    BY <1>2
  <2>2. EvictFrom(r) = Rest(first)
    BY DEF EvictFrom, Rest
  <2>. QED
    BY <2>1, <2>2
<1>4. End(r) - EndOf(r[k]) < PoolSize
  <2>1. Len(Rest(k)) = 1 \/ End(r) - EndOf(r[k]) < PoolSize
    BY <1>1, <1>3 DEF KeepsFront
  <2>2. CASE Len(Rest(k)) = 1
    <3>1. k = Len(r)
      <4>1. Len(Rest(k)) = Len(r) - k + 1
        BY <1>1
      <4>2. \A l, i \in Nat : l - i + 1 = 1 => i = l
        OBVIOUS
      <4>. QED
        <5>1. k \in Nat /\ Len(r) \in Nat
          BY <1>0
        <5>2. Len(r) - k + 1 = 1
          BY <2>2, <4>1
        <5>. QED
          BY <4>2, <5>1, <5>2, Zenon
    <3>2. End(r) = EndOf(r[k])
      BY <1>0, <3>1 DEF End
    <3>. QED
      BY <1>0, <3>2, PoolAssumption
  <2>. QED
    BY <2>1, <2>2
<1>5. r[k].start = r[1].start \/ End(r) - r[k].start >= PoolSize
  <2>1. CASE k = 1
    BY <2>1
  <2>2. CASE k # 1
    <3>1. k - 1 \in 1 .. k - 1 /\ k - 1 \in 1 .. Len(r) - 1 /\ k - 1 \in 1 .. Len(r)
          /\ (k - 1) + 1 = k
      BY <1>0, <2>2
    <3>2. ~KeepsFront(Rest(k - 1))
      BY <1>3, <3>1
    <3>3. End(r) - EndOf(r[k - 1]) >= PoolSize
      BY <1>0, <1>1, <3>1, <3>2, PoolAssumption DEF KeepsFront
    <3>4. EndOf(r[k - 1]) = r[(k - 1) + 1].start
      BY <3>1 DEF Numbered
    <3>. QED
      BY <3>1, <3>3, <3>4
  <2>. QED
    BY <2>1, <2>2
<1>. QED
  BY <1>0, <1>1, <1>3, <1>4, <1>5

(* The chunks of a row.                                                    *)
ChunksIn(r) == UNION {ChunksOf(r[i]) : i \in DOMAIN r}

LEMMA RowChunks ==
  ASSUME NEW r, Numbered(r)
  PROVE  /\ ChunksIn(r) = IF r = <<>> THEN {} ELSE r[1].start .. End(r) - 1
         /\ ChunksIn(r) \subseteq 0 .. End(r) - 1 /\ IsFiniteSet(ChunksIn(r))
<1>0. /\ Len(r) \in Nat /\ End(r) \in Nat
      /\ DOMAIN r = 1 .. Len(r)
      /\ r = <<>> <=> Len(r) = 0
      /\ \A i \in 1 .. Len(r) :
              /\ r[i].start \in Nat /\ r[i].count \in Nat
              /\ EndOf(r[i]) = r[i].start + r[i].count
              /\ r[1].start =< r[i].start /\ EndOf(r[i]) =< End(r)
  BY RowBounds
<1>1. CASE r = <<>>
  <2>1. ChunksIn(r) = {}
    BY <1>0, <1>1 DEF ChunksIn
  <2>. QED
    BY <1>1, <2>1, FS_EmptySet
<1>2. CASE r # <<>>
  <2>. DEFINE all == r[1].start .. End(r) - 1
  <2>0. r[1].start \in Nat
    BY <1>0, <1>2
  <2>1. ASSUME NEW i \in 1 .. Len(r)
        PROVE  ChunksOf(r[i]) \subseteq all
    BY <1>0, <2>0 DEF ChunksOf
  <2>2. \A c \in all : \E i \in 1 .. Len(r) : c \in ChunksOf(r[i])
    BY <1>2 DEF Numbered
  <2>3. ChunksIn(r) = all
    BY <1>0, <2>1, <2>2 DEF ChunksIn
  <2>4. all \subseteq 0 .. End(r) - 1 /\ IsFiniteSet(all)
    <3>1. IsFiniteSet(all)
      <4>1. r[1].start \in Int /\ End(r) - 1 \in Int
        BY <1>0, <2>0
      <4>. QED
        BY <4>1, FS_Interval
    <3>2. all \subseteq 0 .. End(r) - 1
      BY <1>0, <2>0
    <3>. QED
      BY <3>1, <3>2
  <2>. QED
    BY <1>2, <2>3, <2>4
<1>. QED
  BY <1>1, <1>2

(* A row and the window of its newest chunks: the front source is needed,  *)
(* and the window starts behind its first chunk.                           *)
Trimmed(r) ==
  /\ r # <<>>
  /\ End(r) - EndOf(r[1]) < PoolSize
  /\ r[1].start = 0 \/ End(r) - r[1].start >= PoolSize

LEMMA RowWindow ==
  ASSUME NEW r, Numbered(r), Trimmed(r)
  PROVE  /\ WindowStart(r) \in Nat /\ End(r) \in Nat
         /\ r[1].start \in Nat /\ EndOf(r[1]) \in Nat
         /\ r[1].start =< WindowStart(r) /\ WindowStart(r) =< End(r)
         /\ End(r) - WindowStart(r) = MinOf(PoolSize, End(r) - r[1].start)
         /\ WindowStart(r) .. End(r) - 1 \subseteq ChunksIn(r)
<1>1. /\ End(r) \in Nat /\ r[1].start \in Nat /\ r[1].count \in Nat
      /\ EndOf(r[1]) = r[1].start + r[1].count /\ EndOf(r[1]) =< End(r)
  <2>1. 1 \in 1 .. Len(r)
    BY RowBounds DEF Trimmed
  <2>. QED
    BY <2>1, RowBounds
<1>2. PoolSize \in Nat \ {0}
  BY PoolAssumption
<1>3. r[1].start = 0 \/ End(r) - r[1].start >= PoolSize
  BY DEF Trimmed
<1>4. /\ WindowStart(r) \in Nat
      /\ r[1].start =< WindowStart(r) /\ WindowStart(r) =< End(r)
      /\ End(r) - WindowStart(r) = MinOf(PoolSize, End(r) - r[1].start)
  BY <1>1, <1>2, <1>3 DEF WindowStart, MinOf
<1>5. ChunksIn(r) = r[1].start .. End(r) - 1
  BY RowChunks DEF Trimmed
<1>. QED
  BY <1>1, <1>4, <1>5

-----------------------------------------------------------------------------
(* The row, and the window of it.                                          *)

Phases == {"scanning", "indexing", "filling", "ready", "failed", "aborted"}

Types ==
  /\ phase \in Phases
  /\ scan \in SUBSET Files /\ kept \in SUBSET Files
  /\ total_chunks \in Nat
  /\ hanse \in BOOLEAN /\ caching \in BOOLEAN
  /\ \A r \in requests : r.chunk \in Nat /\ r.next_use \in 0 .. UseModulus - 1

RowOK ==
  /\ Numbered(sources)
  /\ use_counts \in [Live -> 0 .. UseModulus - 1]
  /\ cache \in [Live -> Seq(Nat)]
  /\ weighed \subseteq Live /\ dropped \subseteq Live
  /\ cached_positions \in Int
  /\ lower \in Nat /\ upper \in Nat /\ fresh \subseteq lower .. upper - 1

(* Nothing is drawn, used or cached before the window is open.             *)
Started == phase \in {"ready", "aborted"}

Untouched ==
  ~Started =>
    /\ lower = 0 /\ upper = 0
    /\ requests = {} /\ weighed = {} /\ dropped = {} /\ cached_positions = 0
    /\ \A c \in Live : use_counts[c] = 0 /\ cache[c] = <<>>

(* The sources that are indexed, without the oldest, do not fill the       *)
(* window: what makes the front source needed when the row has been filled.*)
CountOf == [f \in Files |-> f.count]
Chunks(files) == Weight(files, CountOf)

Indexed ==
  /\ phase \in {"scanning", "indexing"} => sources = <<>>
  /\ phase = "scanning" => kept = {} /\ total_chunks = 0
  /\ phase = "indexing" =>
       /\ total_chunks = Chunks(kept)
       /\ \A f \in scan, g \in kept : f.key < g.key
  /\ phase \in {"indexing", "filling"} /\ sources = <<>> /\ kept # {} =>
       Chunks(kept) - Oldest(kept).count < PoolSize
  /\ phase = "filling" /\ sources # <<>> =>
       /\ sources[1].start = 0
       /\ End(sources) - EndOf(sources[1]) + Chunks(kept) < PoolSize

WindowOK ==
  Started => Trimmed(sources) /\ upper = End(sources) /\ lower = WindowStart(sources)

PoolInv == Types /\ RowOK /\ Untouched /\ Indexed /\ WindowOK

LEMMA LiveIs == Live = ChunksIn(sources) /\ Live' = ChunksIn(sources')
BY DEF Live, ChunksIn

LEMMA FileTypes ==
  ASSUME NEW f \in Files
  PROVE  f.key \in Nat /\ f.count \in Nat
BY FilesAssumption

LEMMA ChunksNat ==
  ASSUME NEW K \in SUBSET Files
  PROVE  /\ IsFiniteSet(K) /\ Chunks(K) \in Nat
         /\ \A f \in K : Chunks(K \ {f}) = Chunks(K) - f.count
         /\ K = {} => Chunks(K) = 0
<1>1. IsFiniteSet(K)
  BY FilesAssumption, FS_Subset
<1>2. \A f \in Files : CountOf[f] = f.count /\ CountOf[f] \in Nat
  BY FileTypes DEF CountOf
<1>3. Chunks(K) \in Nat
  BY <1>1, <1>2, UnitsFinite DEF Chunks
<1>4. ASSUME NEW f \in K
      PROVE  Chunks(K \ {f}) = Chunks(K) - f.count
  <2>1. /\ Weight(K, CountOf) = Weight(K \ {f}, CountOf) + CountOf[f]
        /\ Weight(K \ {f}, CountOf) \in Nat
    BY <1>1, <1>2, UnitsRemove
  <2>. QED
    BY <1>2, <2>1 DEF Chunks
<1>5. K = {} => Chunks(K) = 0
  BY UnitsNone DEF Chunks
<1>. QED
  BY <1>1, <1>3, <1>4, <1>5

(* A source is added to those indexed.                                     *)
LEMMA ChunksAdd ==
  ASSUME NEW K \in SUBSET Files, NEW f \in Files, f \notin K
  PROVE  Chunks(K \cup {f}) = Chunks(K) + f.count
<1>1. K \cup {f} \in SUBSET Files /\ f \in K \cup {f} /\ (K \cup {f}) \ {f} = K
  OBVIOUS
<1>2. Chunks(K) = Chunks(K \cup {f}) - f.count
  BY <1>1, ChunksNat
<1>3. Chunks(K) \in Nat /\ Chunks(K \cup {f}) \in Nat /\ f.count \in Nat
  BY <1>1, ChunksNat, FileTypes
<1>. QED
  BY <1>2, <1>3

LEMMA OldestIs ==
  ASSUME NEW K \in SUBSET Files, K # {}
  PROVE  Oldest(K) \in K /\ \A g \in K : Oldest(K).key =< g.key
<1>. DEFINE keys == {f.key : f \in K}
<1>1. keys \in SUBSET Nat /\ keys # {}
  BY FileTypes
<1>2. PICK k \in keys : \A l \in keys : k =< l
  BY <1>1, Least
<1>3. \E f \in K : \A g \in K : f.key =< g.key
  BY <1>2
<1>. QED
  BY <1>3 DEF Oldest

LEMMA NewestIs ==
  ASSUME NEW K \in SUBSET Files, K # {}
  PROVE  Newest(K) \in K /\ \A g \in K : g.key =< Newest(K).key
<1>. DEFINE keys == {f.key : f \in K}
            key == [f \in K |-> f.key]
<1>1. keys \in SUBSET Nat /\ keys # {} /\ \A f \in K : f.key \in keys
  BY FileTypes
<1>2. IsFiniteSet(keys)
  <2>1. key \in Surjection(K, keys)
    BY DEF Surjection
  <2>2. IsFiniteSet(K)
    BY ChunksNat
  <2>. QED
    BY <2>1, <2>2, FS_Surjection
<1>. HIDE DEF keys
<1>4. PICK k \in keys : \A l \in keys : l =< k
  BY <1>1, <1>2, Greatest
<1>5. \E f \in K : f.key = k
  BY <1>4 DEF keys
<1>6. \E f \in K : \A g \in K : g.key =< f.key
  BY <1>1, <1>4, <1>5
<1>. QED
  BY <1>6 DEF Newest

(* The positions that the chains hold, as a sum of their lengths.          *)
Lengths == [c \in Live |-> Len(cache[c])]

LEMMA CachedIsWeight ==
  ASSUME RowOK, NEW S \in SUBSET Live
  PROVE  /\ CachedIn(S) = Weight(S, Lengths)
         /\ IsFiniteSet(S) /\ CachedIn(S) \in Nat
         /\ \A c \in S : Lengths[c] = Len(cache[c]) /\ Lengths[c] \in Nat
<1>1. \A c \in S : /\ Lengths[c] = Len(cache[c]) /\ Lengths[c] \in Nat
                   /\ DOMAIN cache[c] = 1 .. Lengths[c]
  <2>1. \A c \in S : cache[c] \in Seq(Nat)
    BY DEF RowOK
  <2>. QED
    BY <2>1, LenProperties DEF Lengths
<1>2. IsFiniteSet(S)
  <2>1. IsFiniteSet(Live)
    BY LiveIs, RowChunks DEF RowOK
  <2>. QED
    BY <2>1, FS_Subset
<1>3. UNION {{c} \X DOMAIN cache[c] : c \in S} = Units(S, Lengths)
  BY <1>1 DEF Units
<1>4. CachedIn(S) = Weight(S, Lengths)
  BY <1>3, Zenon DEF CachedIn, Weight
<1>. QED
  BY <1>1, <1>2, <1>4, UnitsFinite

(* What is drawn is a chunk of the window, and the window is in the row.   *)
LEMMA Drawn ==
  ASSUME PoolInv, NEW c, DrawNumber(c)
  PROVE  /\ phase = "ready" /\ sources' = sources /\ Live' = Live
         /\ lower' = lower /\ upper' = upper /\ lower \in Nat /\ upper \in Nat
         /\ c \in lower .. upper - 1 /\ c \in Live
         /\ fresh' \subseteq lower .. upper - 1
         /\ fresh = {} => fresh' = (lower .. upper - 1) \ {c}
         /\ fresh # {} => c \in fresh /\ fresh' = fresh \ {c}
<1>1. /\ phase = "ready" /\ sources' = sources /\ Live' = Live
      /\ lower \in Nat /\ upper \in Nat /\ fresh \subseteq lower .. upper - 1
  BY LiveIs DEF PoolInv, RowOK, DrawNumber
<1>2. /\ Numbered(sources) /\ Trimmed(sources)
      /\ upper = End(sources) /\ lower = WindowStart(sources)
  BY <1>1 DEF PoolInv, RowOK, WindowOK, Started
<1>3. lower .. upper - 1 \subseteq Live
  BY <1>2, RowWindow, LiveIs
<1>4. /\ lower' = lower /\ upper' = upper
      /\ fresh = {} => c \in lower .. upper - 1 /\ fresh' = (lower .. upper - 1) \ {c}
      /\ fresh # {} => c \in fresh /\ fresh' = fresh \ {c}
  BY <1>2 DEF DrawNumber
<1>. QED
  BY <1>1, <1>3, <1>4

(* A source is added: the row grows at its end and shrinks at its front,   *)
(* and the bounds of the window rise.                                      *)
LEMMA Ingested ==
  ASSUME PoolInv, phase = "ready", NEW f \in Files, AddNewChunkSource(f)
  PROVE  /\ Numbered(sources') /\ Trimmed(sources')
         /\ upper' = End(sources') /\ lower' = WindowStart(sources')
         /\ lower \in Nat /\ upper \in Nat /\ lower' \in Nat /\ upper' \in Nat
         /\ lower' >= lower /\ upper' >= upper
         /\ fresh' = {c \in fresh \cup upper .. upper' - 1 : c >= lower'}
         /\ fresh' \subseteq lower' .. upper' - 1
         /\ Live \subseteq 0 .. upper - 1
         /\ \A c \in Live' : c < upper => c \in Live
<1>. DEFINE grown == PushBack(sources, f)
<1>1. /\ Numbered(sources) /\ Trimmed(sources)
      /\ upper = End(sources) /\ lower = WindowStart(sources)
      /\ fresh \subseteq lower .. upper - 1 /\ lower \in Nat /\ upper \in Nat
  BY DEF PoolInv, RowOK, WindowOK, Started
<1>2. f.count \in Nat /\ PoolSize \in Nat \ {0}
  BY FileTypes, PoolAssumption
<1>3. /\ Numbered(grown) /\ grown # <<>> /\ End(grown) = upper + f.count
      /\ grown[1].start = sources[1].start
  BY <1>1, RowPush DEF Trimmed
<1>4. /\ sources' = EvictFrom(grown) /\ upper' = End(grown)
      /\ lower' = WindowStart(sources')
      /\ fresh' = {c \in fresh \cup upper .. upper' - 1 : c >= lower'}
  BY DEF AddNewChunkSource, FreshAfter
<1>. HIDE DEF grown
<1>5. /\ Numbered(sources') /\ sources' # <<>> /\ End(sources') = upper'
      /\ sources'[1].start >= sources[1].start
      /\ End(sources') - EndOf(sources'[1]) < PoolSize
      /\ sources'[1].start = sources[1].start \/ upper' - sources'[1].start >= PoolSize
  BY <1>3, <1>4, RowEvict
<1>6. upper' = upper + f.count
  BY <1>3, <1>4
<1>7. /\ sources[1].start \in Nat /\ sources[1].start =< lower /\ lower =< upper
      /\ sources[1].start = 0 \/ upper - sources[1].start >= PoolSize
  BY <1>1, RowWindow DEF Trimmed
<1>8. Trimmed(sources')
  <2>1. sources'[1].start = 0 \/ upper' - sources'[1].start >= PoolSize
    BY <1>1, <1>2, <1>5, <1>6, <1>7
  <2>. QED
    BY <1>5, <2>1 DEF Trimmed
<1>9. /\ lower' \in Nat /\ upper' \in Nat /\ sources'[1].start \in Nat
      /\ sources'[1].start =< lower' /\ lower' =< upper'
  BY <1>4, <1>5, <1>8, RowWindow
<1>10. lower' >= lower
  <2>1. /\ lower = IF upper > PoolSize THEN upper - PoolSize ELSE sources[1].start
        /\ lower' = IF upper' > PoolSize THEN upper' - PoolSize ELSE sources'[1].start
    BY <1>1, <1>4, <1>5 DEF WindowStart
  <2>. QED
    BY <1>1, <1>2, <1>5, <1>6, <1>7, <1>9, <2>1
<1>11. fresh' \subseteq lower' .. upper' - 1
  <2>. SUFFICES ASSUME NEW c \in fresh'
                PROVE  c \in lower' .. upper' - 1
    OBVIOUS
  <2>1. c \in fresh \cup upper .. upper' - 1 /\ c >= lower'
    BY <1>4
  <2>2. c \in lower .. upper - 1 \/ c \in upper .. upper' - 1
    BY <1>1, <2>1
  <2>3. c \in Int /\ c < upper'
    BY <1>1, <1>2, <1>6, <2>2
  <2>4. c >= lower' /\ lower' \in Nat /\ upper' \in Nat
    BY <1>9, <2>1
  <2>5. \A x \in Int : \A l, u \in Nat : x >= l /\ x < u => x \in l .. u - 1
    OBVIOUS
  <2>. QED
    BY <2>3, <2>4, <2>5, Zenon
<1>12. Live = sources[1].start .. upper - 1 /\ Live' = sources'[1].start .. upper' - 1
  <2>1. sources # <<>>
    BY <1>1 DEF Trimmed
  <2>2. ChunksIn(sources) = sources[1].start .. upper - 1
    BY <1>1, <2>1, RowChunks
  <2>3. ChunksIn(sources') = sources'[1].start .. upper' - 1
    BY <1>5, RowChunks
  <2>. QED
    BY <2>2, <2>3, LiveIs
<1>13. Live \subseteq 0 .. upper - 1 /\ \A c \in Live' : c < upper => c \in Live
  BY <1>1, <1>5, <1>7, <1>9, <1>12
<1>. QED
  BY <1>1, <1>2, <1>4, <1>5, <1>6, <1>8, <1>9, <1>10, <1>11, <1>13

(* The steps that leave the row, the window and the uses alone.            *)
Idle ==
  \/ StartIndexing \/ InputCloses \/ IndexSource \/ StopIndexing
  \/ \E r \in requests : IgnoreRequest(r) \/ AbortOnUnknownWeight(r)
  \/ ResetAnchor
  \/ \E key \in Anchors : SetAnchor(key)
  \/ UNCHANGED vars

LEMMA IdleStep ==
  ASSUME Idle
  PROVE  UNCHANGED <<row, window, config>> /\ requests' \subseteq requests
BY DEF Idle, StartIndexing, InputCloses, IndexSource, StopIndexing, IgnoreRequest,
       AbortOnUnknownWeight, ResetAnchor, SetAnchor, vars

LEMMA StepKinds ==
  ASSUME [Next]_vars
  PROVE  \/ Idle \/ FillRow \/ OpenWindow
         \/ \E f \in Files : Ingest(f)
         \/ \E c \in Live : Draw(c)
         \/ \E r \in requests, n \in 0 .. Prefetch : ExtendCache(r, n)
BY DEF Next, Idle

LEMMA InitPool == Init => PoolInv
<1>. SUFFICES ASSUME Init PROVE PoolInv
  OBVIOUS
<1>1. /\ phase = "scanning" /\ scan \in SUBSET Files /\ kept = {} /\ total_chunks = 0
      /\ sources = <<>> /\ use_counts = <<>> /\ cache = <<>>
      /\ weighed = {} /\ dropped = {} /\ cached_positions = 0
      /\ lower = 0 /\ upper = 0 /\ fresh = {} /\ requests = {}
      /\ hanse \in BOOLEAN /\ caching \in BOOLEAN
  BY DEF Init
<1>2. Live = {}
  BY <1>1, EmptySeq DEF Live
<1>3. Numbered(sources)
  BY <1>1, EmptySeq DEF Numbered
<1>4. Types
  BY <1>1 DEF Types, Phases
<1>5. RowOK
  BY <1>1, <1>2, <1>3 DEF RowOK
<1>6. Untouched /\ Indexed /\ WindowOK
  BY <1>1, <1>2 DEF Untouched, Indexed, WindowOK, Started
<1>. QED
  BY <1>4, <1>5, <1>6 DEF PoolInv

LEMMA RowKept ==
  ASSUME RowOK, UNCHANGED <<row, window>>
  PROVE  RowOK' /\ Live' = Live
<1>1. Live' = Live
  BY DEF Live, row
<1>. QED
  BY <1>1 DEF RowOK, row, window

LEMMA StartIndexingPool == PoolInv /\ StartIndexing => PoolInv'
<1>. SUFFICES ASSUME PoolInv, StartIndexing PROVE PoolInv'
  OBVIOUS
<1>. USE DEF PoolInv, StartIndexing
<1>1. RowOK' /\ Live' = Live
  BY RowKept
<1>2. Types'
  BY DEF Types, Phases, config
<1>3. Untouched'
  BY <1>1 DEF Untouched, Started, row, window
<1>4. Indexed'
  <2>1. kept' = {} /\ total_chunks' = 0 /\ sources' = <<>> /\ phase' = "indexing"
    BY DEF Indexed, row
  <2>2. Chunks(kept') = 0
    BY <2>1, ChunksNat
  <2>. QED
    BY <2>1, <2>2 DEF Indexed
<1>5. WindowOK'
  BY DEF WindowOK, Started
<1>. QED
  BY <1>1, <1>2, <1>3, <1>4, <1>5

LEMMA InputClosesPool == PoolInv /\ InputCloses => PoolInv'
<1>. SUFFICES ASSUME PoolInv, InputCloses PROVE PoolInv'
  OBVIOUS
<1>. USE DEF PoolInv, InputCloses
<1>1. RowOK' /\ Live' = Live
  BY RowKept
<1>2. Types'
  BY DEF Types, Phases, config
<1>3. Untouched'
  BY <1>1 DEF Untouched, Started, row, window
<1>4. Indexed' /\ WindowOK'
  BY DEF Indexed, WindowOK, Started
<1>. QED
  BY <1>1, <1>2, <1>3, <1>4

(* The newest source of the scan is older than those indexed before it.    *)
LEMMA IndexSourcePool == PoolInv /\ IndexSource => PoolInv'
<1>. SUFFICES ASSUME PoolInv, IndexSource PROVE PoolInv'
  OBVIOUS
<1>. DEFINE f == Newest(scan)
<1>1. /\ phase = "indexing" /\ phase' = phase /\ scan # {} /\ total_chunks < PoolSize
      /\ scan' = scan \ {f} /\ kept' = kept \cup {f}
      /\ total_chunks' = total_chunks + f.count
      /\ UNCHANGED <<row, window, requests, config>>
  BY DEF IndexSource
<1>2. /\ scan \in SUBSET Files /\ kept \in SUBSET Files /\ total_chunks \in Nat
      /\ sources = <<>> /\ total_chunks = Chunks(kept)
      /\ \A e \in scan, g \in kept : e.key < g.key
  BY <1>1 DEF PoolInv, Types, Indexed
<1>3. f \in scan /\ \A g \in scan : g.key =< f.key
  BY <1>1, <1>2, NewestIs
<1>. HIDE DEF f
<1>4. f \in Files /\ f.key \in Nat /\ f.count \in Nat /\ f \notin kept
  BY <1>2, <1>3, FileTypes
<1>5. RowOK' /\ Live' = Live
  BY <1>1, RowKept DEF PoolInv
<1>6. Types'
  BY <1>1, <1>2, <1>4 DEF PoolInv, Types, config
<1>7. Untouched' /\ WindowOK'
  BY <1>1, <1>5 DEF PoolInv, Untouched, WindowOK, Started, row, window
<1>8. \A e \in scan', g \in kept' : e.key < g.key
  <2>1. ASSUME NEW e \in scan'
        PROVE  e.key < f.key
    <3>1. e \in Files /\ e # f /\ e.key =< f.key /\ e.key \in Nat
      BY <1>1, <1>2, <1>3, FileTypes
    <3>2. e.key # f.key
      BY <1>4, <3>1, FilesAssumption
    <3>. QED
      BY <1>4, <3>1, <3>2
  <2>. QED
    BY <1>1, <1>2, <2>1
<1>9. total_chunks' = Chunks(kept')
  BY <1>1, <1>2, <1>4, ChunksAdd
<1>10. Chunks(kept') - Oldest(kept').count < PoolSize
  <2>1. kept' \in SUBSET Files /\ kept' # {} /\ f \in kept'
    BY <1>1, <1>2, <1>4
  <2>2. Oldest(kept') \in kept' /\ Oldest(kept').key =< f.key
    BY <2>1, OldestIs
  <2>3. Oldest(kept') = f
    <3>1. CASE Oldest(kept') \in kept
      <4>1. f.key < Oldest(kept').key /\ Oldest(kept').key \in Nat
        BY <1>2, <1>3, <3>1, FileTypes
      <4>. QED
        BY <1>4, <2>2, <4>1
    <3>. QED
      BY <1>1, <2>2, <3>1
  <2>4. Chunks(kept') - f.count = total_chunks
    BY <1>1, <1>2, <1>4, <1>9
  <2>. QED
    BY <1>1, <2>3, <2>4
<1>11. Indexed'
  BY <1>1, <1>2, <1>8, <1>9, <1>10 DEF Indexed, row
<1>. QED
  BY <1>5, <1>6, <1>7, <1>11 DEF PoolInv

LEMMA StopIndexingPool == PoolInv /\ StopIndexing => PoolInv'
<1>. SUFFICES ASSUME PoolInv, StopIndexing PROVE PoolInv'
  OBVIOUS
<1>. USE DEF PoolInv, StopIndexing
<1>1. RowOK' /\ Live' = Live
  BY RowKept
<1>2. Types'
  BY DEF Types, Phases, config
<1>3. Untouched' /\ WindowOK'
  BY <1>1 DEF Untouched, WindowOK, Started, row, window
<1>4. Indexed'
  BY DEF Indexed, row
<1>. QED
  BY <1>1, <1>2, <1>3, <1>4

(* The oldest source is put into the row.                                  *)
LEMMA FillRowPool == PoolInv /\ FillRow => PoolInv'
<1>. SUFFICES ASSUME PoolInv, FillRow PROVE PoolInv'
  OBVIOUS
<1>. DEFINE f == Oldest(kept)
<1>1. /\ phase = "filling" /\ phase' = phase /\ kept # {}
      /\ sources' = PushBack(sources, f) /\ kept' = kept \ {f}
      /\ use_counts' = Carry(use_counts, Live', 0)
      /\ cache' = Carry(cache, Live', <<>>)
      /\ UNCHANGED <<scan, total_chunks, weighed, dropped, cached_positions,
                     window, requests, config>>
  BY DEF FillRow
<1>2. f \in kept /\ kept \in SUBSET Files
  BY <1>1, OldestIs DEF PoolInv, Types
<1>. HIDE DEF f
<1>3. f \in Files /\ f.count \in Nat
  BY <1>2, FileTypes
<1>4. /\ Numbered(sources) /\ ~Started
      /\ use_counts \in [Live -> 0 .. UseModulus - 1] /\ cache \in [Live -> Seq(Nat)]
      /\ weighed = {} /\ dropped = {} /\ cached_positions = 0
      /\ lower = 0 /\ upper = 0 /\ fresh \subseteq lower .. upper - 1 /\ requests = {}
      /\ \A c \in Live : use_counts[c] = 0 /\ cache[c] = <<>>
  BY <1>1 DEF PoolInv, RowOK, Untouched, Started
<1>5. /\ Numbered(sources') /\ sources' # <<>> /\ End(sources') = End(sources) + f.count
      /\ sources'[1].start = IF sources = <<>> THEN 0 ELSE sources[1].start
      /\ EndOf(sources'[1]) = IF sources = <<>> THEN f.count ELSE EndOf(sources[1])
  BY <1>1, <1>3, <1>4, RowPush
<1>6. /\ use_counts' \in [Live' -> 0 .. UseModulus - 1]
      /\ \A c \in Live' : use_counts'[c] = 0
  <2>1. 0 \in 0 .. UseModulus - 1
    BY UseAssumption
  <2>2. /\ Carry(use_counts, Live', 0) \in [Live' -> 0 .. UseModulus - 1]
        /\ \A c \in Live' : Carry(use_counts, Live', 0)[c] =
                             IF c \in Live THEN use_counts[c] ELSE 0
    BY <1>4, <2>1 DEF Carry
  <2>. QED
    BY <1>1, <1>4, <2>2
<1>7. /\ cache' \in [Live' -> Seq(Nat)]
      /\ \A c \in Live' : cache'[c] = <<>>
  <2>1. <<>> \in Seq(Nat)
    BY EmptySeq
  <2>2. /\ Carry(cache, Live', <<>>) \in [Live' -> Seq(Nat)]
        /\ \A c \in Live' : Carry(cache, Live', <<>>)[c] =
                             IF c \in Live THEN cache[c] ELSE <<>>
    BY <1>4, <2>1 DEF Carry
  <2>. QED
    BY <1>1, <1>4, <2>2
<1>8. Types'
  BY <1>1, <1>2 DEF PoolInv, Types, config
<1>9. RowOK'
  BY <1>1, <1>4, <1>5, <1>6, <1>7 DEF RowOK, window
<1>10. Untouched' /\ WindowOK'
  BY <1>1, <1>4, <1>6, <1>7 DEF Untouched, WindowOK, Started, window
<1>11. End(sources') - EndOf(sources'[1]) + Chunks(kept') < PoolSize /\ sources'[1].start = 0
  <2>1. Chunks(kept') = Chunks(kept) - f.count /\ Chunks(kept) \in Nat
    BY <1>1, <1>2, ChunksNat
  <2>2. CASE sources = <<>>
    <3>1. Chunks(kept) - f.count < PoolSize
      BY <1>1, <2>2 DEF PoolInv, Indexed, f
    <3>2. End(sources) = 0
      BY <2>2 DEF End
    <3>. QED
      BY <1>3, <1>5, <2>1, <2>2, <3>1, <3>2
  <2>3. CASE sources # <<>>
    <3>1. /\ sources[1].start = 0
          /\ End(sources) - EndOf(sources[1]) + Chunks(kept) < PoolSize
      BY <1>1, <2>3 DEF PoolInv, Indexed
    <3>2. End(sources) \in Nat /\ EndOf(sources[1]) \in Nat
      <4>1. 1 \in 1 .. Len(sources)
        BY <1>4, <2>3, RowBounds
      <4>. QED
        BY <1>4, <4>1, RowBounds
    <3>. QED
      BY <1>3, <1>5, <2>1, <2>3, <3>1, <3>2
  <2>. QED
    BY <2>2, <2>3
<1>12. Indexed'
  BY <1>1, <1>5, <1>11 DEF Indexed
<1>. QED
  BY <1>8, <1>9, <1>10, <1>12 DEF PoolInv

LEMMA OpenWindowPool == PoolInv /\ OpenWindow => PoolInv'
<1>. SUFFICES ASSUME PoolInv, OpenWindow PROVE PoolInv'
  OBVIOUS
<1>1. /\ phase = "filling" /\ kept = {}
      /\ lower' = IF sources = <<>> THEN lower ELSE WindowStart(sources)
      /\ upper' = End(sources) /\ fresh' = lower' .. upper' - 1
      /\ phase' = IF End(sources) > 0 THEN "ready" ELSE "failed"
      /\ UNCHANGED <<scan, kept, total_chunks, row, requests, config>>
  BY DEF OpenWindow
<1>2. Live' = Live /\ sources' = sources
  BY <1>1, LiveIs DEF row
<1>3. /\ Numbered(sources) /\ End(sources) \in Nat /\ lower = 0
      /\ End(<<>>) = 0
  BY <1>1, RowBounds DEF PoolInv, RowOK, Untouched, Started, End
<1>4. sources # <<>> => Trimmed(sources) /\ sources[1].start = 0
  <2>. SUFFICES ASSUME sources # <<>>
                PROVE  Trimmed(sources) /\ sources[1].start = 0
    OBVIOUS
  <2>1. /\ sources[1].start = 0
        /\ End(sources) - EndOf(sources[1]) + Chunks(kept) < PoolSize
    BY <1>1 DEF PoolInv, Indexed
  <2>2. Chunks(kept) = 0
    BY <1>1, ChunksNat
  <2>3. EndOf(sources[1]) \in Nat
    <3>1. 1 \in 1 .. Len(sources)
      BY <1>3, RowBounds
    <3>. QED
      BY <1>3, <3>1, RowBounds
  <2>. QED
    BY <1>3, <2>1, <2>2, <2>3 DEF Trimmed
<1>5. lower' \in Nat /\ upper' \in Nat
  BY <1>1, <1>3, <1>4, RowWindow
<1>6. Types'
  BY <1>1 DEF PoolInv, Types, Phases, config
<1>7. RowOK'
  BY <1>1, <1>2, <1>5 DEF PoolInv, RowOK, row
<1>8. Indexed'
  BY <1>1 DEF Indexed
<1>9. CASE End(sources) > 0
  <2>1. phase' = "ready" /\ sources # <<>>
    BY <1>1, <1>3, <1>9
  <2>2. WindowOK'
    BY <1>1, <1>2, <1>4, <2>1 DEF WindowOK
  <2>3. Untouched'
    BY <2>1 DEF Untouched, Started
  <2>. QED
    BY <1>6, <1>7, <1>8, <2>2, <2>3 DEF PoolInv
<1>10. CASE ~(End(sources) > 0)
  <2>1. phase' = "failed" /\ upper' = 0
    BY <1>1, <1>3, <1>10
  <2>2. lower' = 0
    <3>1. CASE sources = <<>>
      BY <1>1, <1>3, <3>1
    <3>2. CASE sources # <<>>
      <4>1. WindowStart(sources) = 0
        <5>1. ~(End(sources) > PoolSize)
          BY <1>3, <1>10, PoolAssumption
        <5>. QED
          BY <1>4, <3>2, <5>1 DEF WindowStart
      <4>. QED
        BY <1>1, <3>2, <4>1
    <3>. QED
      BY <3>1, <3>2
  <2>3. Untouched'
    BY <1>1, <1>2, <2>1, <2>2 DEF PoolInv, Untouched, Started, row
  <2>4. WindowOK'
    BY <2>1 DEF WindowOK, Started
  <2>. QED
    BY <1>6, <1>7, <1>8, <2>3, <2>4 DEF PoolInv
<1>. QED
  BY <1>9, <1>10

LEMMA IngestPool ==
  ASSUME PoolInv, NEW f \in Files, Ingest(f)
  PROVE  PoolInv'
<1>1. /\ phase = "ready" /\ AddNewChunkSource(f)
      /\ UNCHANGED <<startup, requests, config>>
  BY DEF Ingest
<1>2. /\ Numbered(sources') /\ Trimmed(sources')
      /\ upper' = End(sources') /\ lower' = WindowStart(sources')
      /\ lower' \in Nat /\ upper' \in Nat
      /\ fresh' \subseteq lower' .. upper' - 1
  BY <1>1, Ingested
<1>3. /\ use_counts \in [Live -> 0 .. UseModulus - 1] /\ cache \in [Live -> Seq(Nat)]
      /\ cached_positions \in Int
  BY DEF PoolInv, RowOK
<1>4. /\ use_counts' = Carry(use_counts, Live', 0)
      /\ cache' = Carry(cache, Live', <<>>)
      /\ cached_positions' = cached_positions - CachedIn(Live \ Live')
      /\ weighed' = weighed \cap Live' /\ dropped' = dropped \cap Live'
  BY <1>1 DEF AddNewChunkSource, CachedInEvicted
<1>5. use_counts' \in [Live' -> 0 .. UseModulus - 1]
  <2>1. 0 \in 0 .. UseModulus - 1
    BY UseAssumption
  <2>. QED
    BY <1>3, <1>4, <2>1 DEF Carry
<1>6. cache' \in [Live' -> Seq(Nat)]
  <2>1. <<>> \in Seq(Nat)
    BY EmptySeq
  <2>. QED
    BY <1>3, <1>4, <2>1 DEF Carry
<1>7. cached_positions' \in Int
  <2>1. Live \ Live' \in SUBSET Live
    OBVIOUS
  <2>2. CachedIn(Live \ Live') \in Nat
    BY <2>1, CachedIsWeight DEF PoolInv
  <2>. QED
    BY <1>3, <1>4, <2>2
<1>8. RowOK'
  BY <1>2, <1>4, <1>5, <1>6, <1>7 DEF RowOK
<1>9. Types' /\ Indexed' /\ Untouched' /\ WindowOK'
  <2>1. Types'
    BY <1>1 DEF PoolInv, Types, startup, config
  <2>2. Indexed' /\ Untouched'
    BY <1>1 DEF Indexed, Untouched, Started, startup
  <2>3. WindowOK'
    BY <1>2 DEF WindowOK
  <2>. QED
    BY <2>1, <2>2, <2>3
<1>. QED
  BY <1>8, <1>9 DEF PoolInv

(* What a draw does to the data of the row.                                *)
LEMMA DrawEffects ==
  ASSUME PoolInv, NEW c, Draw(c)
  PROVE  /\ DrawNumber(c)
         /\ \/ use_counts' = use_counts
            \/ Accept(c) /\ use_counts' = [use_counts EXCEPT ![c] = NextUse(c)]
         /\ \/ cache' = cache /\ cached_positions' = cached_positions
            \/ /\ CacheHit(c) /\ cache[c] # <<>>
               /\ cache' = [cache EXCEPT ![c] = Tail(@)]
               /\ cached_positions' = cached_positions - 1
         /\ weighed' = weighed \/ weighed' = weighed \cup {c}
         /\ dropped' = dropped \/ dropped' = dropped \cup {c}
         /\ \/ requests' = requests
            \/ /\ weighed' = Weighing(c)
               /\ requests' = requests \cup {[chunk |-> c, next_use |-> NextUse(c)]}
BY DEF Draw, SkipDropped, FailToWeigh, Reject, CacheHit, CacheMiss, FailToLoad, Accept,
       Weighing

LEMMA NextUseType ==
  ASSUME PoolInv, NEW c \in Live
  PROVE  NextUse(c) \in 0 .. UseModulus - 1 /\ use_counts[c] \in Nat
<1>1. use_counts[c] \in 0 .. UseModulus - 1
  BY DEF PoolInv, RowOK
<1>2. use_counts[c] \in Nat /\ use_counts[c] + 1 \in Int
  BY <1>1
<1>3. NextUse(c) \in 0 .. UseModulus - 1
  BY <1>2, UseAssumption, Division DEF NextUse
<1>. QED
  BY <1>2, <1>3

LEMMA DrawPool ==
  ASSUME PoolInv, NEW c, Draw(c)
  PROVE  PoolInv'
<1>1. DrawNumber(c)
  BY DrawEffects
<1>2. /\ phase = "ready" /\ sources' = sources /\ Live' = Live
      /\ lower' = lower /\ upper' = upper
      /\ c \in lower .. upper - 1 /\ c \in Live
      /\ fresh' \subseteq lower .. upper - 1
  BY <1>1, Drawn
<1>3. NextUse(c) \in 0 .. UseModulus - 1
  BY <1>2, NextUseType
<1>4. use_counts' \in [Live' -> 0 .. UseModulus - 1]
  <2>1. use_counts \in [Live -> 0 .. UseModulus - 1]
    BY DEF PoolInv, RowOK
  <2>2. \/ use_counts' = use_counts
        \/ use_counts' = [use_counts EXCEPT ![c] = NextUse(c)]
    BY DrawEffects
  <2>. QED
    BY <1>2, <1>3, <2>1, <2>2
<1>5. cache' \in [Live' -> Seq(Nat)] /\ cached_positions' \in Int
  <2>1. cache \in [Live -> Seq(Nat)] /\ cached_positions \in Int
    BY DEF PoolInv, RowOK
  <2>2. CASE cache' = cache /\ cached_positions' = cached_positions
    BY <1>2, <2>1, <2>2
  <2>3. CASE /\ cache[c] # <<>>
             /\ cache' = [cache EXCEPT ![c] = Tail(@)]
             /\ cached_positions' = cached_positions - 1
    <3>1. Tail(cache[c]) \in Seq(Nat)
      BY <1>2, <2>1, <2>3, HeadTailProperties
    <3>. QED
      BY <1>2, <2>1, <2>3, <3>1
  <2>. QED
    BY <2>2, <2>3, DrawEffects
<1>6. weighed' \subseteq Live' /\ dropped' \subseteq Live'
  <2>1. weighed \subseteq Live /\ dropped \subseteq Live
    BY DEF PoolInv, RowOK
  <2>2. weighed' \subseteq weighed \cup {c} /\ dropped' \subseteq dropped \cup {c}
    BY DrawEffects
  <2>. QED
    BY <1>2, <2>1, <2>2
<1>7. RowOK'
  <2>1. Numbered(sources') /\ lower' \in Nat /\ upper' \in Nat
    BY <1>2 DEF PoolInv, RowOK
  <2>. QED
    BY <1>2, <1>4, <1>5, <1>6, <2>1 DEF RowOK
<1>8. UNCHANGED <<startup, config>>
  BY <1>1 DEF DrawNumber
<1>9. Types'
  <2>1. \A r \in requests' : r.chunk \in Nat /\ r.next_use \in 0 .. UseModulus - 1
    <3>1. c \in Nat
      BY <1>2 DEF PoolInv, RowOK
    <3>2. \A r \in requests : r.chunk \in Nat /\ r.next_use \in 0 .. UseModulus - 1
      BY DEF PoolInv, Types
    <3>3. \/ requests' = requests
          \/ requests' = requests \cup {[chunk |-> c, next_use |-> NextUse(c)]}
      BY DrawEffects
    <3>. QED
      BY <1>3, <3>1, <3>2, <3>3
  <2>. QED
    BY <1>8, <2>1 DEF PoolInv, Types, startup, config
<1>10. Untouched' /\ Indexed' /\ WindowOK'
  BY <1>2, <1>8 DEF PoolInv, Untouched, Indexed, WindowOK, Started, startup
<1>. QED
  BY <1>7, <1>9, <1>10 DEF PoolInv

(* The positions that a request adds to a chain.                           *)
Added(r, n) == [k \in 1 .. n - Len(cache[r.chunk]) |-> r.next_use + Len(cache[r.chunk]) + k - 1]

LEMMA Extended ==
  ASSUME PoolInv, NEW r \in requests, NEW n \in Nat, ExtendCache(r, n)
  PROVE  /\ phase = "ready" /\ r.chunk \in Live /\ Live' = Live /\ Matches(r)
         /\ cache[r.chunk] \in Seq(Nat) /\ Len(cache[r.chunk]) \in Nat
         /\ r.next_use \in 0 .. UseModulus - 1
         /\ Added(r, n) \in Seq(Nat)
         /\ Len(Added(r, n)) \in Nat
         /\ \A k \in 1 .. Len(Added(r, n)) :
              Added(r, n)[k] = r.next_use + Len(cache[r.chunk]) + k - 1
         /\ cache' = [cache EXCEPT ![r.chunk] = cache[r.chunk] \o Added(r, n)]
         /\ cache[r.chunk] \o Added(r, n) \in Seq(Nat)
         /\ cached_positions' = cached_positions + Len(Added(r, n))
         /\ requests' = requests \ {r}
         /\ UNCHANGED <<startup, sources, use_counts, weighed, dropped, window, config>>
<1>. DEFINE chain == cache[r.chunk]
            size == n - Len(chain)
<1>1. /\ phase = "ready" /\ r.chunk \in Live /\ Matches(r)
      /\ cache' = [cache EXCEPT ![r.chunk] = chain \o Added(r, n)]
      /\ cached_positions' = cached_positions + Len(Added(r, n))
      /\ requests' = requests \ {r}
      /\ UNCHANGED <<startup, sources, use_counts, weighed, dropped, window, config>>
  BY DEF ExtendCache, Added
<1>2. chain \in Seq(Nat)
  BY <1>1 DEF PoolInv, RowOK
<1>3. Len(chain) \in Nat
  BY <1>2, LenProperties
<1>4. r.next_use \in 0 .. UseModulus - 1 /\ r.next_use \in Nat
  BY DEF PoolInv, Types
<1>5. Live' = Live
  BY <1>1, LiveIs
<1>. HIDE DEF chain
<1>6. /\ Added(r, n) \in Seq(Nat)
      /\ \A k \in 1 .. size : Added(r, n)[k] = r.next_use + Len(chain) + k - 1
      /\ DOMAIN Added(r, n) = 1 .. size
  <2>1. Added(r, n) = [k \in 1 .. size |-> r.next_use + Len(chain) + k - 1]
    BY DEF Added, chain
  <2>2. \A k \in 1 .. size : r.next_use + Len(chain) + k - 1 \in Nat
    BY <1>3, <1>4
  <2>3. size \in Int
    BY <1>3
  <2>4. CASE size \in Nat
    <3>1. Added(r, n) \in [1 .. size -> Nat]
      BY <2>1, <2>2
    <3>2. Added(r, n) \in Seq(Nat)
      BY <2>4, <3>1
    <3>. QED
      BY <2>1, <3>2
  <2>5. CASE size \notin Nat
    <3>1. 1 .. size = 1 .. 0
      BY <2>3, <2>5
    <3>2. Added(r, n) \in [1 .. 0 -> Nat]
      BY <2>1, <2>2, <3>1
    <3>3. Added(r, n) \in Seq(Nat)
      BY <3>2
    <3>. QED
      BY <2>1, <3>3
  <2>. QED
    BY <2>4, <2>5
<1>7. Len(Added(r, n)) \in Nat /\ DOMAIN Added(r, n) = 1 .. Len(Added(r, n))
  BY <1>6, LenProperties
<1>8. chain \o Added(r, n) \in Seq(Nat)
  BY <1>2, <1>6, ConcatProperties
<1>. QED
  BY <1>1, <1>2, <1>3, <1>4, <1>5, <1>6, <1>7, <1>8 DEF chain

LEMMA ExtendPool ==
  ASSUME PoolInv, NEW r \in requests, NEW n \in Nat, ExtendCache(r, n)
  PROVE  PoolInv'
<1>1. /\ phase = "ready" /\ r.chunk \in Live /\ Live' = Live
      /\ Len(Added(r, n)) \in Nat
      /\ cache' = [cache EXCEPT ![r.chunk] = cache[r.chunk] \o Added(r, n)]
      /\ cache[r.chunk] \o Added(r, n) \in Seq(Nat)
      /\ cached_positions' = cached_positions + Len(Added(r, n))
      /\ requests' = requests \ {r}
      /\ UNCHANGED <<startup, sources, use_counts, weighed, dropped, window, config>>
  BY Extended
<1>2. cache' \in [Live' -> Seq(Nat)] /\ cached_positions' \in Int
  BY <1>1 DEF PoolInv, RowOK
<1>3. RowOK'
  BY <1>1, <1>2 DEF PoolInv, RowOK, window
<1>4. Types'
  BY <1>1 DEF PoolInv, Types, startup, config
<1>5. Untouched' /\ Indexed' /\ WindowOK'
  BY <1>1 DEF PoolInv, Untouched, Indexed, WindowOK, Started, startup, window
<1>. QED
  BY <1>3, <1>4, <1>5 DEF PoolInv

LEMMA IdlePool == PoolInv /\ Idle => PoolInv'
<1>. SUFFICES ASSUME PoolInv, Idle PROVE PoolInv'
  OBVIOUS
<1>1. RowOK' /\ Live' = Live
  BY IdleStep, RowKept DEF PoolInv
<1>2. ASSUME NEW r \in requests, IgnoreRequest(r)
      PROVE  PoolInv'
  BY <1>1, <1>2 DEF IgnoreRequest, PoolInv, Types, Untouched, Indexed, WindowOK, Started,
                    startup, row, window, config
<1>3. ASSUME NEW r \in requests, AbortOnUnknownWeight(r)
      PROVE  PoolInv'
  BY <1>1, <1>3 DEF AbortOnUnknownWeight, PoolInv, Types, Phases, Untouched, Indexed,
                    WindowOK, Started, row, window, config
<1>4. ASSUME UNCHANGED <<startup, row, window, requests, config>>
      PROVE  PoolInv'
  BY <1>1, <1>4 DEF PoolInv, Types, Untouched, Indexed, WindowOK, Started, startup,
                    row, window, config
<1>5. CASE ResetAnchor \/ (\E key \in Anchors : SetAnchor(key)) \/ UNCHANGED vars
  BY <1>4, <1>5 DEF ResetAnchor, SetAnchor, vars
<1>. QED
  BY <1>2, <1>3, <1>5, StartIndexingPool, InputClosesPool, IndexSourcePool,
     StopIndexingPool DEF Idle

LEMMA NextPool == PoolInv /\ [Next]_vars => PoolInv'
<1>. SUFFICES ASSUME PoolInv, [Next]_vars PROVE PoolInv'
  OBVIOUS
<1>1. 0 .. Prefetch \subseteq Nat
  OBVIOUS
<1>. QED
  BY <1>1, StepKinds, IdlePool, FillRowPool, OpenWindowPool, IngestPool, DrawPool,
     ExtendPool

(* The invariant of the row and its window, in every reachable state.      *)
THEOREM PoolInvariant == Spec => []PoolInv
BY InitPool, NextPool, PTL DEF Spec

LEMMA WindowOfPoolInv == PoolInv => WindowIsNewestChunks
<1>. SUFFICES ASSUME PoolInv, phase = "ready"
              PROVE  /\ \A i \in 1 .. Len(sources) - 1 :
                          EndOf(sources[i]) = sources[i + 1].start
                     /\ DOMAIN use_counts = Live /\ DOMAIN cache = Live
                     /\ weighed \cup dropped \subseteq Live
                     /\ fresh \subseteq lower .. upper - 1
                     /\ sources # <<>>
                     /\ upper = End(sources)
                     /\ upper - lower = MinOf(PoolSize, upper - sources[1].start)
                     /\ Len(sources) > 1 => upper - EndOf(sources[1]) < PoolSize
  BY DEF WindowIsNewestChunks
<1>1. /\ Numbered(sources) /\ Trimmed(sources)
      /\ upper = End(sources) /\ lower = WindowStart(sources)
  BY DEF PoolInv, RowOK, WindowOK, Started
<1>2. \A i \in 1 .. Len(sources) - 1 : EndOf(sources[i]) = sources[i + 1].start
  BY <1>1 DEF Numbered
<1>3. /\ DOMAIN use_counts = Live /\ DOMAIN cache = Live
      /\ weighed \cup dropped \subseteq Live /\ fresh \subseteq lower .. upper - 1
  BY DEF PoolInv, RowOK
<1>4. upper - lower = MinOf(PoolSize, upper - sources[1].start)
  BY <1>1, RowWindow
<1>5. sources # <<>> /\ upper - EndOf(sources[1]) < PoolSize
  BY <1>1 DEF Trimmed
<1>. QED
  BY <1>1, <1>2, <1>3, <1>4, <1>5

(* Whatever sources arrive and are evicted, the window that the output     *)
(* workers draw from is made of the newest chunks of the row, as many as   *)
(* the pool is configured to hold, and the numbers drawn from it are in    *)
(* the row.                                                                *)
THEOREM WindowHoldsNewest == Spec => []WindowIsNewestChunks
BY PoolInvariant, WindowOfPoolInv, PTL

LEMMA BoundsStep == PoolInv /\ [Next]_vars => lower' >= lower /\ upper' >= upper
<1>. SUFFICES ASSUME PoolInv, [Next]_vars
              PROVE  lower' >= lower /\ upper' >= upper
  OBVIOUS
<1>0. lower \in Nat /\ upper \in Nat
  BY DEF PoolInv, RowOK
<1>1. CASE Idle \/ FillRow \/ \E r \in requests, n \in 0 .. Prefetch : ExtendCache(r, n)
  <2>1. UNCHANGED window
    BY <1>1, IdleStep DEF FillRow, ExtendCache
  <2>. QED
    BY <1>0, <2>1 DEF window
<1>2. CASE OpenWindow
  <2>1. lower = 0 /\ upper = 0
    BY <1>2 DEF OpenWindow, PoolInv, Untouched, Started
  <2>2. lower' \in Nat /\ upper' \in Nat
    BY <1>2, OpenWindowPool DEF PoolInv, RowOK
  <2>. QED
    BY <2>1, <2>2
<1>3. ASSUME NEW f \in Files, Ingest(f)
      PROVE  lower' >= lower /\ upper' >= upper
  BY <1>3, Ingested DEF Ingest
<1>4. ASSUME NEW c \in Live, Draw(c)
      PROVE  lower' >= lower /\ upper' >= upper
  BY <1>0, <1>4, Drawn, DrawEffects
<1>. QED
  BY <1>1, <1>2, <1>3, <1>4, StepKinds

(* Neither bound of the shuffler's window ever moves back, as the shuffler *)
(* asserts in SetLowerBound and SetUpperBound.                             *)
THEOREM BoundsNeverFall == Spec => BoundsOnlyRise
<1>1. PoolInv /\ [Next]_vars => [lower' >= lower /\ upper' >= upper]_vars
  BY BoundsStep
<1>. QED
  BY <1>1, PoolInvariant, PTL DEF Spec, BoundsOnlyRise

-----------------------------------------------------------------------------
(* The cache requests under way.                                           *)

(* A chunk that was put out under Hanse sampling was weighed, and keeps its*)
(* weight while it is in the row; numbers of evicted chunks do not return, *)
(* because all later ones are above the end of the row.                    *)
Requested ==
  \A r \in requests : /\ r.chunk < upper
                      /\ hanse /\ r.chunk \in Live => r.chunk \in weighed

LEMMA NextRequested == PoolInv /\ Requested /\ [Next]_vars => Requested'
<1>. SUFFICES ASSUME PoolInv, Requested, [Next]_vars PROVE Requested'
  OBVIOUS
<1>0. lower \in Nat /\ upper \in Nat /\ \A r \in requests : r.chunk \in Nat
  BY DEF PoolInv, RowOK, Types
<1>1. CASE Idle
  <2>1. UNCHANGED <<row, window, config>> /\ requests' \subseteq requests /\ Live' = Live
    BY <1>1, IdleStep, LiveIs DEF row
  <2>. QED
    BY <2>1 DEF Requested, row, window, config
<1>2. CASE FillRow \/ OpenWindow
  <2>1. requests' = {}
    BY <1>2 DEF FillRow, OpenWindow, PoolInv, Untouched, Started
  <2>. QED
    BY <2>1 DEF Requested
<1>3. ASSUME NEW f \in Files, Ingest(f)
      PROVE  Requested'
  <2>1. /\ phase = "ready" /\ AddNewChunkSource(f) /\ requests' = requests
        /\ hanse' = hanse /\ weighed' = weighed \cap Live'
    BY <1>3 DEF Ingest, AddNewChunkSource, config
  <2>2. /\ upper' >= upper /\ upper' \in Nat
        /\ \A c \in Live' : c < upper => c \in Live
    BY <2>1, Ingested
  <2>3. ASSUME NEW r \in requests'
        PROVE  r.chunk < upper' /\ (hanse' /\ r.chunk \in Live' => r.chunk \in weighed')
    <3>1. /\ r \in requests /\ r.chunk \in Nat /\ r.chunk < upper
          /\ hanse /\ r.chunk \in Live => r.chunk \in weighed
      BY <1>0, <2>1 DEF Requested
    <3>2. r.chunk < upper'
      BY <1>0, <2>2, <3>1
    <3>. QED
      BY <2>1, <2>2, <3>1, <3>2
  <2>. QED
    BY <2>3 DEF Requested
<1>4. ASSUME NEW c \in Live, Draw(c)
      PROVE  Requested'
  <2>1. /\ upper' = upper /\ Live' = Live /\ hanse' = hanse /\ c < upper
    <3>1. DrawNumber(c)
      BY <1>4, DrawEffects
    <3>2. upper' = upper /\ Live' = Live /\ c \in lower .. upper - 1
      BY <3>1, Drawn
    <3>3. hanse' = hanse
      BY <3>1 DEF DrawNumber, config
    <3>. QED
      BY <1>0, <3>2, <3>3
  <2>2. weighed \subseteq weighed'
    BY <1>4, DrawEffects
  <2>3. CASE requests' = requests
    BY <2>1, <2>2, <2>3 DEF Requested
  <2>4. CASE /\ weighed' = Weighing(c)
             /\ requests' = requests \cup {[chunk |-> c, next_use |-> NextUse(c)]}
    <3>1. ASSUME NEW r \in requests'
          PROVE  r.chunk < upper /\ (hanse /\ r.chunk \in Live => r.chunk \in weighed')
      <4>1. CASE r \in requests
        BY <2>2, <4>1 DEF Requested
      <4>2. CASE r \notin requests
        <5>1. r.chunk = c
          BY <2>4, <4>2
        <5>. QED
          BY <2>1, <2>4, <5>1 DEF Weighing
      <4>. QED
        BY <4>1, <4>2
    <3>. QED
      BY <2>1, <3>1 DEF Requested
  <2>. QED
    BY <1>4, <2>3, <2>4, DrawEffects
<1>5. ASSUME NEW r \in requests, NEW n \in 0 .. Prefetch, ExtendCache(r, n)
      PROVE  Requested'
  <2>1. /\ requests' = requests \ {r} /\ UNCHANGED <<sources, weighed, window, config>>
    BY <1>5 DEF ExtendCache
  <2>2. Live' = Live
    BY <2>1, LiveIs
  <2>. QED
    BY <2>1, <2>2 DEF Requested, window, config
<1>. QED
  BY <1>1, <1>2, <1>3, <1>4, <1>5, StepKinds

THEOREM RequestsInvariant == Spec => []Requested
<1>1. Init => Requested
  BY DEF Init, Requested
<1>. QED
  BY <1>1, NextRequested, PoolInvariant, PTL DEF Spec

(* With Hanse sampling, a cache request that is not out of date finds the  *)
(* weight of its chunk: the assertion of CachingWorker cannot fail.        *)
THEOREM WeightKnownWhenAsked == Spec => []RequestsFindWeights
<1>1. Requested => RequestsFindWeights
  BY DEF Requested, RequestsFindWeights
<1>. QED
  BY <1>1, RequestsInvariant, PTL

-----------------------------------------------------------------------------
(* The chains of cached positions.                                         *)

(* A chain whose first position is used, counted by one more use.          *)
LEMMA InOrder ==
  ASSUME NEW C \in Nat \ {0}, NEW u \in Nat, NEW k \in Nat
  PROVE  (((u + 1) % C) + k - 1) % C = (u + (k + 1) - 1) % C
<1>1. u + 1 \in Int /\ k - 1 \in Int
  OBVIOUS
<1>2. (((u + 1) % C) + (k - 1)) % C = ((u + 1) + (k - 1)) % C
  BY <1>1, RemainderOfSum
<1>3. (u + 1) + (k - 1) = u + (k + 1) - 1
  OBVIOUS
<1>4. ((u + 1) % C) + (k - 1) = ((u + 1) % C) + k - 1
  <2>1. (u + 1) % C \in Int
    BY <1>1, Division
  <2>. QED
    BY <2>1
<1>. QED
  BY <1>2, <1>3, <1>4

(* The chain of one chunk, when its first use is number u.                 *)
Serves(chain, u) ==
  \A k \in DOMAIN chain : chain[k] % UseModulus = (u + k - 1) % UseModulus

LEMMA ServesAll == CacheServesNextUses <=> \A c \in Live : Serves(cache[c], use_counts[c])
BY DEF CacheServesNextUses, Serves

LEMMA ServesAllNext ==
  CacheServesNextUses' <=> \A c \in Live' : Serves(cache'[c], use_counts'[c])
BY DEF CacheServesNextUses, Serves

LEMMA ServesEmpty ==
  ASSUME NEW u
  PROVE  Serves(<<>>, u)
BY EmptySeq DEF Serves

LEMMA ServesTail ==
  ASSUME NEW chain \in Seq(Nat), chain # <<>>, NEW u \in Nat, Serves(chain, u)
  PROVE  Serves(Tail(chain), (u + 1) % UseModulus)
<1>1. /\ Tail(chain) \in Seq(Nat) /\ Len(Tail(chain)) = Len(chain) - 1
      /\ \A k \in 1 .. Len(Tail(chain)) : Tail(chain)[k] = chain[k + 1]
      /\ Len(chain) \in Nat
  BY HeadTailProperties, LenProperties
<1>2. DOMAIN chain = 1 .. Len(chain) /\ DOMAIN Tail(chain) = 1 .. Len(Tail(chain))
  BY <1>1, LenProperties
<1>. SUFFICES ASSUME NEW k \in 1 .. Len(Tail(chain))
              PROVE  Tail(chain)[k] % UseModulus =
                       (((u + 1) % UseModulus) + k - 1) % UseModulus
  BY <1>2 DEF Serves
<1>3. k \in Nat /\ k + 1 \in 1 .. Len(chain)
  BY <1>1
<1>4. chain[k + 1] % UseModulus = (u + (k + 1) - 1) % UseModulus
  BY <1>2, <1>3 DEF Serves
<1>5. (((u + 1) % UseModulus) + k - 1) % UseModulus = (u + (k + 1) - 1) % UseModulus
  BY <1>3, InOrder, UseAssumption
<1>. QED
  BY <1>1, <1>4, <1>5

LEMMA ServesMore ==
  ASSUME NEW chain \in Seq(Nat), NEW added \in Seq(Nat), NEW u \in Nat, Serves(chain, u),
         \A k \in 1 .. Len(added) : added[k] = u + Len(chain) + k - 1
  PROVE  Serves(chain \o added, u)
<1>1. /\ Len(chain) \in Nat /\ Len(added) \in Nat
      /\ DOMAIN chain = 1 .. Len(chain)
      /\ DOMAIN (chain \o added) = 1 .. Len(chain) + Len(added)
  <2>1. chain \o added \in Seq(Nat) /\ Len(chain \o added) = Len(chain) + Len(added)
    BY ConcatProperties
  <2>2. /\ Len(chain) \in Nat /\ Len(added) \in Nat /\ DOMAIN chain = 1 .. Len(chain)
        /\ DOMAIN (chain \o added) = 1 .. Len(chain \o added)
    BY <2>1, LenProperties
  <2>. QED
    BY <2>1, <2>2
<1>. SUFFICES ASSUME NEW k \in 1 .. Len(chain) + Len(added)
              PROVE  (chain \o added)[k] % UseModulus = (u + k - 1) % UseModulus
  BY <1>1 DEF Serves
<1>2. (chain \o added)[k] = IF k =< Len(chain) THEN chain[k] ELSE added[k - Len(chain)]
  BY ConcatProperties
<1>3. CASE k =< Len(chain)
  <2>1. k \in DOMAIN chain
    BY <1>1, <1>3
  <2>. QED
    BY <1>2, <1>3, <2>1 DEF Serves
<1>4. CASE ~(k =< Len(chain))
  <2>1. k - Len(chain) \in 1 .. Len(added)
    BY <1>1, <1>4
  <2>2. added[k - Len(chain)] = u + Len(chain) + (k - Len(chain)) - 1
    BY <2>1
  <2>3. u + Len(chain) + (k - Len(chain)) - 1 = u + k - 1
    BY <1>1
  <2>. QED
    BY <1>2, <1>4, <2>2, <2>3
<1>. QED
  BY <1>3, <1>4

(* A draw leaves the chains alone, or uses a chunk without cached          *)
(* positions, or takes the first of them.                                  *)
LEMMA DrawUses ==
  ASSUME NEW c, Draw(c)
  PROVE  \/ cache' = cache /\ cached_positions' = cached_positions /\ use_counts' = use_counts
         \/ /\ cache[c] = <<>> /\ cache' = cache /\ cached_positions' = cached_positions
            /\ use_counts' = [use_counts EXCEPT ![c] = NextUse(c)]
         \/ /\ cache[c] # <<>> /\ cache' = [cache EXCEPT ![c] = Tail(cache[c])]
            /\ cached_positions' = cached_positions - 1
            /\ use_counts' = [use_counts EXCEPT ![c] = NextUse(c)]
BY DEF Draw, SkipDropped, FailToWeigh, Reject, CacheHit, CacheMiss, FailToLoad, Accept

LEMMA NextServes == PoolInv /\ CacheServesNextUses /\ [Next]_vars => CacheServesNextUses'
<1>. SUFFICES ASSUME PoolInv, CacheServesNextUses, [Next]_vars
              PROVE  \A c \in Live' : Serves(cache'[c], use_counts'[c])
  BY ServesAllNext
<1>0. /\ cache \in [Live -> Seq(Nat)] /\ use_counts \in [Live -> 0 .. UseModulus - 1]
      /\ \A c \in Live : Serves(cache[c], use_counts[c])
  BY ServesAll DEF PoolInv, RowOK
<1>1. CASE Idle \/ OpenWindow
  <2>1. cache' = cache /\ use_counts' = use_counts /\ Live' = Live
    BY <1>1, IdleStep, LiveIs DEF OpenWindow, row
  <2>. QED
    BY <1>0, <2>1
<1>2. ASSUME cache' = Carry(cache, Live', <<>>), use_counts' = Carry(use_counts, Live', 0)
      PROVE  \A c \in Live' : Serves(cache'[c], use_counts'[c])
  <2>. SUFFICES ASSUME NEW c \in Live' PROVE Serves(cache'[c], use_counts'[c])
    OBVIOUS
  <2>1. CASE c \in Live
    <3>1. cache'[c] = cache[c] /\ use_counts'[c] = use_counts[c]
      BY <1>0, <1>2, <2>1 DEF Carry
    <3>. QED
      BY <1>0, <2>1, <3>1
  <2>2. CASE c \notin Live
    <3>1. cache'[c] = <<>>
      BY <1>0, <1>2, <2>2 DEF Carry
    <3>. QED
      BY <3>1, ServesEmpty
  <2>. QED
    BY <2>1, <2>2
<1>3. CASE FillRow \/ \E f \in Files : Ingest(f)
  BY <1>2, <1>3 DEF FillRow, Ingest, AddNewChunkSource
<1>4. ASSUME NEW d \in Live, Draw(d)
      PROVE  \A c \in Live' : Serves(cache'[c], use_counts'[c])
  <2>1. Live' = Live
    BY <1>4, DrawEffects, Drawn
  <2>2. CASE cache' = cache /\ use_counts' = use_counts
    BY <1>0, <2>1, <2>2
  <2>3. CASE /\ cache[d] = <<>> /\ cache' = cache
             /\ use_counts' = [use_counts EXCEPT ![d] = NextUse(d)]
    BY <1>0, <2>1, <2>3, ServesEmpty
  <2>4. CASE /\ cache[d] # <<>> /\ cache' = [cache EXCEPT ![d] = Tail(cache[d])]
             /\ use_counts' = [use_counts EXCEPT ![d] = NextUse(d)]
    <3>1. use_counts[d] \in Nat /\ cache[d] \in Seq(Nat) /\ Serves(cache[d], use_counts[d])
      BY <1>0
    <3>2. Serves(Tail(cache[d]), NextUse(d))
      BY <2>4, <3>1, ServesTail DEF NextUse
    <3>. QED
      BY <1>0, <2>1, <2>4, <3>2
  <2>. QED
    BY <1>4, <2>2, <2>3, <2>4, DrawUses
<1>5. ASSUME NEW r \in requests, NEW n \in Nat, ExtendCache(r, n)
      PROVE  \A c \in Live' : Serves(cache'[c], use_counts'[c])
  <2>. DEFINE d == r.chunk
  <2>1. /\ d \in Live /\ Live' = Live /\ use_counts[d] = r.next_use
        /\ cache[d] \in Seq(Nat) /\ Added(r, n) \in Seq(Nat)
        /\ \A k \in 1 .. Len(Added(r, n)) :
             Added(r, n)[k] = r.next_use + Len(cache[d]) + k - 1
        /\ cache' = [cache EXCEPT ![d] = cache[d] \o Added(r, n)]
        /\ use_counts' = use_counts /\ r.next_use \in Nat
    BY <1>5, Extended DEF Matches
  <2>. HIDE DEF d
  <2>2. Serves(cache[d] \o Added(r, n), use_counts[d])
    BY <1>0, <2>1, ServesMore
  <2>. QED
    BY <1>0, <2>1, <2>2
<1>. QED
  <2>1. 0 .. Prefetch \subseteq Nat
    OBVIOUS
  <2>. QED
    BY <1>1, <1>3, <1>4, <1>5, <2>1, StepKinds

(* However a cache request is overtaken by other uses of its chunk, by the *)
(* eviction of its source or by other requests, the chain of a chunk holds *)
(* the positions for its next uses, in their order.                        *)
THEOREM ChainsServeNextUses == Spec => []CacheServesNextUses
<1>1. Init => CacheServesNextUses
  <2>. SUFFICES ASSUME Init PROVE CacheServesNextUses
    OBVIOUS
  <2>1. Live = {}
    BY EmptySeq DEF Init, Live
  <2>. QED
    BY <2>1 DEF CacheServesNextUses
<1>. QED
  BY <1>1, NextServes, PoolInvariant, PTL DEF Spec

-----------------------------------------------------------------------------
(* The gauge of cached positions.                                          *)

(* The gauge, as the sum of the lengths of the chains.                     *)
GaugeIsSum == CachedPositionsExact <=> cached_positions = Weight(Live, Lengths)

LEMMA SumOfChains == PoolInv => GaugeIsSum
<1>. SUFFICES ASSUME PoolInv PROVE GaugeIsSum
  OBVIOUS
<1>1. Live \in SUBSET Live
  OBVIOUS
<1>2. CachedIn(Live) = Weight(Live, Lengths)
  BY <1>1, CachedIsWeight DEF PoolInv
<1>. QED
  BY <1>2 DEF GaugeIsSum, CachedPositionsExact

(* Only the chain of one chunk changes its length.                         *)
LEMMA OneChainChanges ==
  ASSUME RowOK, NEW d \in Live, NEW m, m[d] \in Nat,
         \A c \in Live : c # d => m[c] = Len(cache[c])
  PROVE  Weight(Live, m) = Weight(Live, Lengths) - Len(cache[d]) + m[d]
<1>1. /\ IsFiniteSet(Live)
      /\ \A c \in Live : Lengths[c] = Len(cache[c]) /\ Lengths[c] \in Nat
  <2>1. Live \in SUBSET Live
    OBVIOUS
  <2>. QED
    BY <2>1, CachedIsWeight
<1>2. \A c \in Live : m[c] \in Nat
  BY <1>1
<1>3. /\ Weight(Live, m) = Weight(Live \ {d}, m) + m[d]
      /\ Weight(Live \ {d}, m) \in Nat
  BY <1>1, <1>2, UnitsRemove
<1>4. /\ Weight(Live, Lengths) = Weight(Live \ {d}, Lengths) + Lengths[d]
      /\ Weight(Live \ {d}, Lengths) \in Nat
  BY <1>1, UnitsRemove
<1>5. Weight(Live \ {d}, m) = Weight(Live \ {d}, Lengths)
  <2>1. \A c \in Live \ {d} : m[c] = Lengths[c]
    BY <1>1
  <2>. QED
    BY <2>1, UnitsSame
<1>6. m[d] \in Nat /\ Lengths[d] \in Nat /\ Lengths[d] = Len(cache[d])
  BY <1>1
<1>. QED
  BY <1>3, <1>4, <1>5, <1>6

LEMMA NextGauge == PoolInv /\ CachedPositionsExact /\ [Next]_vars =>
                     cached_positions' = Weight(Live', Lengths')
<1>. SUFFICES ASSUME PoolInv, CachedPositionsExact, [Next]_vars
              PROVE  cached_positions' = Weight(Live', Lengths')
  OBVIOUS
<1>0. /\ cache \in [Live -> Seq(Nat)] /\ RowOK
      /\ cached_positions = Weight(Live, Lengths)
      /\ IsFiniteSet(Live)
      /\ \A c \in Live : Lengths[c] = Len(cache[c]) /\ Lengths[c] \in Nat
      /\ Weight(Live, Lengths) \in Nat
      /\ Lengths' = [c \in Live' |-> Len(cache'[c])]
  <2>1. Live \in SUBSET Live
    OBVIOUS
  <2>2. RowOK
    BY DEF PoolInv
  <2>3. /\ IsFiniteSet(Live)
        /\ \A c \in Live : Lengths[c] = Len(cache[c]) /\ Lengths[c] \in Nat
    BY <2>1, <2>2, CachedIsWeight
  <2>4. Weight(Live, Lengths) \in Nat
    BY <2>3, UnitsFinite
  <2>5. cached_positions = Weight(Live, Lengths)
    BY SumOfChains DEF GaugeIsSum
  <2>6. Lengths' = [c \in Live' |-> Len(cache'[c])]
    BY DEF Lengths
  <2>. QED
    BY <2>2, <2>3, <2>4, <2>5, <2>6 DEF RowOK
<1>1. ASSUME cache' = cache, cached_positions' = cached_positions, Live' = Live
      PROVE  cached_positions' = Weight(Live', Lengths')
  <2>1. Lengths' = Lengths
    BY <1>0, <1>1 DEF Lengths
  <2>. QED
    BY <1>0, <1>1, <2>1
<1>2. CASE Idle \/ OpenWindow
  <2>1. cache' = cache /\ cached_positions' = cached_positions /\ Live' = Live
    BY <1>2, IdleStep, LiveIs DEF OpenWindow, row
  <2>. QED
    BY <1>1, <2>1
<1>3. CASE FillRow
  <2>1. /\ cached_positions' = 0 /\ cache' = Carry(cache, Live', <<>>)
        /\ \A c \in Live : cache[c] = <<>>
    BY <1>3 DEF FillRow, PoolInv, Untouched, Started
  <2>2. \A c \in Live' : cache'[c] = <<>>
    BY <1>0, <2>1 DEF Carry
  <2>3. \A c \in Live' : Lengths'[c] = 0
    BY <1>0, <2>2, EmptySeq
  <2>4. Weight(Live', Lengths') = 0
    BY <2>3, UnitsNone
  <2>. QED
    BY <2>1, <2>4
<1>4. ASSUME NEW f \in Files, Ingest(f)
      PROVE  cached_positions' = Weight(Live', Lengths')
  <2>. DEFINE gone == Live \ Live'
              stay == Live \cap Live'
              came == Live' \ Live
  <2>1. /\ cache' = Carry(cache, Live', <<>>)
        /\ cached_positions' = cached_positions - CachedIn(gone)
        /\ PoolInv'
    BY <1>4, IngestPool DEF Ingest, AddNewChunkSource, CachedInEvicted
  <2>2. IsFiniteSet(Live')
    BY <2>1, LiveIs, RowChunks DEF PoolInv, RowOK
  <2>3. /\ IsFiniteSet(gone) /\ IsFiniteSet(stay) /\ IsFiniteSet(came)
        /\ gone \cap stay = {} /\ stay \cap came = {}
        /\ gone \cup stay = Live /\ stay \cup came = Live'
    BY <1>0, <2>2, FS_Subset
  <2>4. CachedIn(gone) = Weight(gone, Lengths)
    <3>1. gone \in SUBSET Live
      OBVIOUS
    <3>. QED
      BY <1>0, <3>1, CachedIsWeight
  <2>5. /\ \A c \in stay : Lengths'[c] = Lengths[c] /\ Lengths'[c] \in Nat
        /\ \A c \in came : Lengths'[c] = 0
    <3>1. \A c \in stay : cache'[c] = cache[c]
      BY <1>0, <2>1 DEF Carry
    <3>2. \A c \in came : cache'[c] = <<>>
      BY <1>0, <2>1 DEF Carry
    <3>. QED
      BY <1>0, <3>1, <3>2, EmptySeq
  <2>. HIDE DEF gone, stay, came
  <2>6. Weight(gone \cup stay, Lengths) = Weight(gone, Lengths) + Weight(stay, Lengths)
    <3>1. \A c \in gone \cup stay : Lengths[c] \in Nat
      BY <1>0, <2>3
    <3>. QED
      BY <2>3, <3>1, UnitsSplit
  <2>7. Weight(stay \cup came, Lengths') = Weight(stay, Lengths') + Weight(came, Lengths')
    <3>1. \A c \in stay \cup came : Lengths'[c] \in Nat
      BY <2>5
    <3>. QED
      BY <2>3, <3>1, UnitsSplit
  <2>8. Weight(stay, Lengths') = Weight(stay, Lengths) /\ Weight(came, Lengths') = 0
    BY <2>5, UnitsSame, UnitsNone
  <2>9. Weight(gone, Lengths) \in Nat /\ Weight(stay, Lengths) \in Nat
    <3>1. \A c \in gone : Lengths[c] \in Nat
      BY <1>0, <2>3
    <3>2. \A c \in stay : Lengths[c] \in Nat
      BY <1>0, <2>3
    <3>. QED
      BY <2>3, <3>1, <3>2, UnitsFinite
  <2>10. /\ Weight(Live, Lengths) = Weight(gone, Lengths) + Weight(stay, Lengths)
         /\ Weight(Live', Lengths') = Weight(stay, Lengths)
    <3>1. Weight(Live, Lengths) = Weight(gone, Lengths) + Weight(stay, Lengths)
      BY <2>3, <2>6, Zenon
    <3>2. Weight(Live', Lengths') = Weight(stay, Lengths') + Weight(came, Lengths')
      BY <2>3, <2>7, Zenon
    <3>3. Weight(Live', Lengths') = Weight(stay, Lengths) + 0
      BY <2>8, <3>2, Zenon
    <3>4. Weight(stay, Lengths) + 0 = Weight(stay, Lengths)
      BY <2>9
    <3>. QED
      BY <3>1, <3>3, <3>4, Zenon
  <2>. QED
    BY <1>0, <2>1, <2>4, <2>9, <2>10
<1>5. ASSUME NEW d \in Live, Draw(d)
      PROVE  cached_positions' = Weight(Live', Lengths')
  <2>1. Live' = Live
    BY <1>5, DrawEffects, Drawn
  <2>2. CASE cache' = cache /\ cached_positions' = cached_positions
    BY <1>1, <2>1, <2>2
  <2>3. CASE /\ cache[d] # <<>> /\ cache' = [cache EXCEPT ![d] = Tail(cache[d])]
             /\ cached_positions' = cached_positions - 1
    <3>1. /\ cache[d] \in Seq(Nat) /\ Len(cache[d]) \in Nat \ {0}
          /\ Len(Tail(cache[d])) = Len(cache[d]) - 1
      <4>1. cache[d] \in Seq(Nat)
        BY <1>0
      <4>. QED
        BY <2>3, <4>1, HeadTailProperties, LenProperties, EmptySeq
    <3>2. /\ Lengths'[d] = Len(cache[d]) - 1 /\ Lengths'[d] \in Nat
          /\ \A c \in Live : c # d => Lengths'[c] = Len(cache[c])
      <4>1. cache'[d] = Tail(cache[d]) /\ \A c \in Live : c # d => cache'[c] = cache[c]
        BY <1>0, <2>3
      <4>2. Lengths'[d] = Len(cache[d]) - 1 /\ \A c \in Live : c # d => Lengths'[c] = Len(cache[c])
        BY <1>0, <2>1, <3>1, <4>1
      <4>. QED
        BY <3>1, <4>2
    <3>3. Weight(Live, Lengths') = Weight(Live, Lengths) - Len(cache[d]) + Lengths'[d]
      BY <1>0, <3>2, OneChainChanges
    <3>. QED
      BY <1>0, <2>1, <2>3, <3>1, <3>2, <3>3
  <2>. QED
    BY <1>5, <2>2, <2>3, DrawUses
<1>6. ASSUME NEW r \in requests, NEW n \in Nat, ExtendCache(r, n)
      PROVE  cached_positions' = Weight(Live', Lengths')
  <2>. DEFINE d == r.chunk
  <2>1. /\ d \in Live /\ Live' = Live
        /\ cache[d] \in Seq(Nat) /\ Added(r, n) \in Seq(Nat)
        /\ Len(cache[d]) \in Nat /\ Len(Added(r, n)) \in Nat
        /\ cache' = [cache EXCEPT ![d] = cache[d] \o Added(r, n)]
        /\ cached_positions' = cached_positions + Len(Added(r, n))
    BY <1>6, Extended
  <2>. HIDE DEF d
  <2>2. Len(cache[d] \o Added(r, n)) = Len(cache[d]) + Len(Added(r, n))
    BY <2>1, ConcatProperties
  <2>3. cache'[d] = cache[d] \o Added(r, n) /\ \A c \in Live : c # d => cache'[c] = cache[c]
    BY <1>0, <2>1
  <2>4. /\ Lengths'[d] = Len(cache[d]) + Len(Added(r, n))
        /\ \A c \in Live : c # d => Lengths'[c] = Len(cache[c])
    BY <1>0, <2>1, <2>2, <2>3
  <2>5. Lengths'[d] \in Nat
    BY <2>1, <2>4
  <2>6. Weight(Live, Lengths') = Weight(Live, Lengths) - Len(cache[d]) + Lengths'[d]
    BY <1>0, <2>1, <2>4, <2>5, OneChainChanges
  <2>. QED
    BY <1>0, <2>1, <2>4, <2>6
<1>. QED
  <2>1. 0 .. Prefetch \subseteq Nat
    OBVIOUS
  <2>. QED
    BY <1>2, <1>3, <1>4, <1>5, <1>6, <2>1, StepKinds

(* The gauge of cached positions that the pool reports is what the chains  *)
(* hold, through hits, requests and evictions.                             *)
THEOREM GaugeOfCachedPositions == Spec => []CachedPositionsExact
<1>1. Init => CachedPositionsExact
  <2>. SUFFICES ASSUME Init PROVE CachedPositionsExact
    OBVIOUS
  <2>1. Live = {} /\ cached_positions = 0
    BY EmptySeq DEF Init, Live
  <2>2. UNION {{c} \X DOMAIN cache[c] : c \in Live} = {}
    BY <2>1
  <2>3. CachedIn(Live) = 0
    BY <2>2, FS_EmptySet DEF CachedIn
  <2>. QED
    BY <2>1, <2>3 DEF CachedPositionsExact
<1>2. PoolInv /\ PoolInv' /\ CachedPositionsExact /\ [Next]_vars => CachedPositionsExact'
  <2>. SUFFICES ASSUME PoolInv, PoolInv', CachedPositionsExact, [Next]_vars
                PROVE  CachedPositionsExact'
    OBVIOUS
  <2>1. GaugeIsSum'
    BY SumOfChains, PTL
  <2>2. cached_positions' = Weight(Live', Lengths')
    BY NextGauge
  <2>. QED
    BY <2>1, <2>2 DEF GaugeIsSum
<1>. QED
  BY <1>1, <1>2, PoolInvariant, PTL DEF Spec

-----------------------------------------------------------------------------
(* How evenly the chunks are used.                                         *)

(* The uses of a chunk, with the one it is still due in this round.  No    *)
(* chunk is ahead of another that is older.                                *)
Level(c) == use_counts[c] + IF c \in fresh THEN 1 ELSE 0
Readable == (lower .. upper - 1) \ dropped

Even ==
  ~hanse => \A c \in Readable : /\ Level(c) >= 1
                                /\ \A d \in Readable : c < d => Level(d) =< Level(c)

(* Every number that can be drawn is in the row.                           *)
WindowInRow == lower .. upper - 1 \subseteq Live

LEMMA WindowLive == PoolInv => WindowInRow
<1>. SUFFICES ASSUME PoolInv PROVE lower .. upper - 1 \subseteq Live
  BY DEF WindowInRow
<1>1. CASE Started
  <2>1. /\ Numbered(sources) /\ Trimmed(sources)
        /\ upper = End(sources) /\ lower = WindowStart(sources)
    BY <1>1 DEF PoolInv, RowOK, WindowOK
  <2>. QED
    BY <2>1, RowWindow, LiveIs
<1>2. CASE ~Started
  <2>1. lower = 0 /\ upper = 0
    BY <1>2 DEF PoolInv, Untouched
  <2>. QED
    BY <2>1
<1>. QED
  BY <1>1, <1>2

(* The levels after a step, of chunks whose levels do not fall apart.      *)
LEMMA LevelsKept ==
  ASSUME NEW i \in {0, 1}, Even, hanse' = hanse,
         \A c \in Readable : Level(c) \in Nat,
         Readable' \subseteq Readable,
         \A c \in Readable' : Level(c)' = Level(c) + i
  PROVE  Even'
<1>. SUFFICES ASSUME ~hanse, NEW c \in Readable'
              PROVE  /\ Level(c)' >= 1
                     /\ \A d \in Readable' : c < d => Level(d)' =< Level(c)'
  BY DEF Even
<1>1. /\ Level(c) >= 1 /\ Level(c) \in Nat /\ Level(c)' = Level(c) + i
      /\ \A d \in Readable' : c < d => Level(d) =< Level(c)
  BY DEF Even
<1>2. \A d \in Readable' : Level(d) \in Nat /\ Level(d)' = Level(d) + i
  OBVIOUS
<1>. QED
  BY <1>1, <1>2

LEMMA NextEven ==
  ASSUME MaxUses < UseModulus, PoolInv, Even, [Next]_vars
  PROVE  Even'
<1>0. /\ use_counts \in [Live -> 0 .. UseModulus - 1] /\ lower \in Nat /\ upper \in Nat
      /\ fresh \subseteq lower .. upper - 1 /\ UseModulus \in Nat
  BY UseAssumption DEF PoolInv, RowOK
<1>1. \A c \in Readable : c \in Live /\ Level(c) \in Nat /\ c \in Nat
  <2>1. lower .. upper - 1 \subseteq Live
    BY WindowLive DEF WindowInRow
  <2>2. ASSUME NEW c \in Live
        PROVE  Level(c) \in Nat
    <3>1. use_counts[c] \in Nat
      BY <1>0
    <3>. QED
      BY <3>1 DEF Level
  <2>3. Readable \subseteq lower .. upper - 1
    BY DEF Readable
  <2>4. lower .. upper - 1 \subseteq Nat
    BY <1>0
  <2>. QED
    BY <2>1, <2>2, <2>3, <2>4
<1>2. ASSUME UNCHANGED <<use_counts, dropped, window, hanse>>
      PROVE  Even'
  BY <1>2 DEF Even, Readable, Level, window
<1>3. CASE Idle \/ \E r \in requests, n \in 0 .. Prefetch : ExtendCache(r, n)
  <2>1. UNCHANGED <<use_counts, dropped, window, hanse>>
    BY <1>3, IdleStep DEF ExtendCache, row, config
  <2>. QED
    BY <1>2, <2>1
<1>4. CASE FillRow
  <2>1. lower' = 0 /\ upper' = 0
    BY <1>4 DEF FillRow, PoolInv, Untouched, Started, window
  <2>2. Readable' = {}
    BY <2>1 DEF Readable
  <2>. QED
    BY <2>2 DEF Even
<1>5. CASE OpenWindow
  <2>1. /\ fresh' = lower' .. upper' - 1 /\ dropped' = {}
        /\ use_counts' = use_counts /\ Live' = Live /\ \A c \in Live : use_counts[c] = 0
        /\ PoolInv'
    BY <1>5, OpenWindowPool, LiveIs DEF OpenWindow, PoolInv, Untouched, Started, row
  <2>2. \A c \in Readable' : c \in Live
    <3>1. WindowInRow'
      BY <2>1, WindowLive, PTL
    <3>. QED
      BY <2>1, <3>1 DEF WindowInRow, Readable
  <2>3. \A c \in Readable' : Level(c)' = 1
    <3>1. ASSUME NEW c \in Readable'
          PROVE  Level(c)' = 1
      <4>1. c \in fresh' /\ use_counts'[c] = 0
        BY <2>1, <2>2 DEF Readable
      <4>. QED
        BY <4>1 DEF Level
    <3>. QED
      BY <3>1
  <2>. QED
    BY <2>3 DEF Even
<1>6. ASSUME NEW f \in Files, Ingest(f)
      PROVE  Even'
  <2>1. /\ phase = "ready" /\ AddNewChunkSource(f) /\ hanse' = hanse
        /\ use_counts' = Carry(use_counts, Live', 0)
        /\ dropped' = dropped \cap Live'
    BY <1>6 DEF Ingest, AddNewChunkSource, config
  <2>2. /\ Numbered(sources') /\ Trimmed(sources')
        /\ upper' = End(sources') /\ lower' = WindowStart(sources')
        /\ lower' \in Nat /\ upper' \in Nat /\ lower' >= lower /\ upper' >= upper
        /\ fresh' = {c \in fresh \cup upper .. upper' - 1 : c >= lower'}
        /\ Live \subseteq 0 .. upper - 1
        /\ \A c \in Live' : c < upper => c \in Live
    BY <2>1, Ingested
  <2>3. lower' .. upper' - 1 \subseteq Live'
    BY <2>2, RowWindow, LiveIs
  <2>4. ASSUME NEW c \in Readable'
        PROVE  /\ c \in Nat /\ c >= lower' /\ c < upper' /\ c \in Live'
               /\ c < upper => c \in Readable /\ Level(c)' = Level(c)
               /\ ~(c < upper) => Level(c)' = 1
    <3>1. c \in lower' .. upper' - 1 /\ c \notin dropped'
      BY DEF Readable
    <3>2. c \in Nat /\ c >= lower' /\ c < upper' /\ c \in Live'
      BY <2>2, <2>3, <3>1
    <3>3. CASE c < upper
      <4>1. c \in Live /\ c \notin dropped /\ c \in lower .. upper - 1
        <5>1. c \in Live /\ c \notin dropped
          BY <2>1, <2>2, <3>1, <3>2, <3>3
        <5>2. c >= lower
          BY <1>0, <2>2, <3>2
        <5>. QED
          BY <1>0, <3>2, <3>3, <5>1, <5>2
      <4>2. use_counts'[c] = use_counts[c]
        BY <1>0, <2>1, <3>2, <4>1 DEF Carry
      <4>3. c \in fresh' <=> c \in fresh
        <5>1. c \notin upper .. upper' - 1
          BY <1>0, <3>3
        <5>. QED
          BY <2>2, <3>2, <5>1
      <4>. QED
        BY <3>2, <3>3, <4>1, <4>2, <4>3 DEF Readable, Level
    <3>4. CASE ~(c < upper)
      <4>1. c \notin Live
        BY <1>0, <2>2, <3>2, <3>4
      <4>2. use_counts'[c] = 0
        BY <1>0, <2>1, <3>2, <4>1 DEF Carry
      <4>3. c \in fresh'
        <5>1. c \in upper .. upper' - 1
          BY <1>0, <2>2, <3>2, <3>4
        <5>. QED
          BY <2>2, <3>2, <5>1
      <4>4. Level(c)' = 1
        BY <4>2, <4>3 DEF Level
      <4>. QED
        BY <3>2, <3>4, <4>4
    <3>. QED
      BY <3>3, <3>4
  <2>. SUFFICES ASSUME ~hanse, NEW c \in Readable'
                PROVE  /\ Level(c)' >= 1
                       /\ \A d \in Readable' : c < d => Level(d)' =< Level(c)'
    BY <2>1 DEF Even
  <2>5. CASE c < upper
    <3>1. /\ Level(c)' = Level(c) /\ Level(c) >= 1 /\ Level(c) \in Nat
          /\ \A d \in Readable : c < d => Level(d) =< Level(c)
      BY <1>1, <2>4, <2>5 DEF Even
    <3>2. \A d \in Readable' : c < d => Level(d)' =< Level(c)'
      <4>. SUFFICES ASSUME NEW d \in Readable', c < d
                    PROVE  Level(d)' =< Level(c)'
        OBVIOUS
      <4>1. CASE d < upper
        <5>1. d \in Readable /\ Level(d)' = Level(d)
          BY <2>4, <4>1
        <5>. QED
          BY <3>1, <5>1
      <4>2. CASE ~(d < upper)
        <5>1. Level(d)' = 1
          BY <2>4, <4>2
        <5>. QED
          BY <3>1, <5>1
      <4>. QED
        BY <4>1, <4>2
    <3>. QED
      BY <3>1, <3>2
  <2>6. CASE ~(c < upper)
    <3>1. Level(c)' = 1
      BY <2>4, <2>6
    <3>2. \A d \in Readable' : c < d => Level(d)' = 1
      <4>. SUFFICES ASSUME NEW d \in Readable', c < d
                    PROVE  Level(d)' = 1
        OBVIOUS
      <4>1. c \in Nat /\ d \in Nat
        BY <2>4
      <4>2. ~(d < upper)
        BY <1>0, <2>6, <4>1
      <4>. QED
        BY <2>4, <4>2
    <3>. QED
      BY <3>1, <3>2
  <2>. QED
    BY <2>5, <2>6
<1>7. ASSUME NEW e \in Live, Draw(e)
      PROVE  Even'
  <2>1. /\ lower' = lower /\ upper' = upper /\ Live' = Live
        /\ e \in lower .. upper - 1
        /\ fresh = {} => fresh' = (lower .. upper - 1) \ {e}
        /\ fresh # {} => e \in fresh /\ fresh' = fresh \ {e}
        /\ hanse' = hanse
    BY <1>7, DrawEffects, Drawn DEF DrawNumber, config
  <2>2. CASE hanse
    BY <2>1, <2>2 DEF Even
  <2>3. CASE ~hanse
    <3>1. \/ e \in dropped /\ use_counts' = use_counts /\ dropped' = dropped
          \/ /\ Accept(e) /\ use_counts' = [use_counts EXCEPT ![e] = NextUse(e)]
             /\ dropped' = dropped \/ dropped' = dropped \cup {e}
      BY <1>7, <2>3 DEF Draw, SkipDropped, FailToWeigh, Reject, CacheHit, CacheMiss,
                        FailToLoad, Accept
    <3>2. Readable' \subseteq Readable
      BY <2>1, <3>1 DEF Readable
    <3>3. Accept(e) => NextUse(e) = use_counts[e] + 1
      <4>. SUFFICES ASSUME Accept(e) PROVE NextUse(e) = use_counts[e] + 1
        OBVIOUS
      <4>1. use_counts[e] \in Nat /\ use_counts[e] < MaxUses /\ MaxUses \in Nat
        BY <1>0, UseAssumption DEF Accept
      <4>2. use_counts[e] + 1 \in 0 .. UseModulus - 1
        BY <1>0, <4>1
      <4>3. (UseModulus * 0 + (use_counts[e] + 1)) % UseModulus = use_counts[e] + 1
        BY <4>2, UseAssumption, Remains
      <4>4. UseModulus * 0 + (use_counts[e] + 1) = use_counts[e] + 1
        BY <1>0, <4>1
      <4>. QED
        BY <4>3, <4>4 DEF NextUse
    <3>. DEFINE i == IF fresh = {} THEN 1 ELSE 0
    <3>4. ASSUME NEW c \in Readable'
          PROVE  Level(c)' = Level(c) + i
      <4>1. /\ c \in Readable /\ c \in Live /\ use_counts[c] \in Nat
            /\ c \in lower .. upper - 1 /\ c \notin dropped /\ c \notin dropped'
        BY <1>0, <1>1, <3>1, <3>2 DEF Readable
      <4>2. CASE c = e
        <5>1. use_counts'[c] = use_counts[c] + 1
          BY <1>0, <3>1, <3>3, <4>1, <4>2
        <5>2. c \notin fresh' /\ (c \in fresh <=> fresh # {})
          BY <2>1, <4>2
        <5>. QED
          BY <4>1, <5>1, <5>2 DEF Level
      <4>3. CASE c # e
        <5>1. use_counts'[c] = use_counts[c]
          BY <1>0, <3>1, <4>1, <4>3
        <5>2. CASE fresh = {}
          <6>1. c \in fresh' /\ c \notin fresh
            BY <2>1, <4>1, <4>3, <5>2
          <6>. QED
            BY <4>1, <5>1, <5>2, <6>1 DEF Level
        <5>3. CASE fresh # {}
          <6>1. c \in fresh' <=> c \in fresh
            BY <2>1, <4>3, <5>3
          <6>. QED
            BY <4>1, <5>1, <5>3, <6>1 DEF Level
        <5>. QED
          BY <5>2, <5>3
      <4>. QED
        BY <4>2, <4>3
    <3>5. i \in {0, 1}
      OBVIOUS
    <3>. HIDE DEF i
    <3>. QED
      BY <1>1, <2>1, <3>2, <3>4, <3>5, LevelsKept
  <2>. QED
    BY <2>2, <2>3
<1>. QED
  BY <1>3, <1>4, <1>5, <1>6, <1>7, StepKinds

(* Without Hanse sampling, no chunk of the window is used again while      *)
(* another that has been there as long still waits, as long as the uint16_t*)
(* use counts do not wrap around.                                          *)
THEOREM ChunksUsedEvenly ==
  ASSUME MaxUses < UseModulus
  PROVE  Spec => []UsedEvenly
<1>1. Init => Even
  <2>. SUFFICES ASSUME Init PROVE Even
    OBVIOUS
  <2>1. Readable = {}
    BY DEF Init, Readable
  <2>. QED
    BY <2>1 DEF Even
<1>2. PoolInv /\ Even /\ [Next]_vars => Even'
  BY NextEven
<1>3. PoolInv /\ Even => UsedEvenly
  <2>. SUFFICES ASSUME PoolInv, Even, ~hanse,
                       NEW c \in Readable, NEW d \in Readable, c < d
                PROVE  use_counts[d] =< use_counts[c] + 1
    BY DEF UsedEvenly, Readable
  <2>1. Level(d) =< Level(c)
    BY DEF Even
  <2>2. c \in Live /\ d \in Live
    BY WindowLive DEF WindowInRow, Readable
  <2>3. use_counts[c] \in Nat /\ use_counts[d] \in Nat
    BY <2>2 DEF PoolInv, RowOK
  <2>. QED
    BY <2>1, <2>3 DEF Level
<1>. QED
  BY <1>1, <1>2, <1>3, PoolInvariant, PTL DEF Spec
=============================================================================
