--------------------------- MODULE StreamShuffler ---------------------------
(***************************************************************************)
(* Class StreamShuffler of csrc/utils/stream_shuffler.cc: the numbers of   *)
(* a sliding window, in shuffled order, kept in buckets of bounded size.   *)
(*                                                                         *)
(* An iteration of a loop of the code is a step; `call` says which loop is *)
(* under way.  The class is not thread-safe, so one call ends before the   *)
(* next begins.  The order of the items inside a bucket is left out: the   *)
(* index that picks one is uniform, and every use of it is followed by the *)
(* same treatment of all items.                                            *)
(***************************************************************************)
EXTENDS Integers, Sequences, FiniteSets

CONSTANTS BucketSize,  \* bucket_size_
          Nothing,     \* std::nullopt
          MaxBound     \* bound: the highest bound a caller sets

ASSUME BucketAssumption == BucketSize \in Nat \ {0}
ASSUME MaxBoundAssumption == MaxBound \in Nat
ASSUME NothingAssumption == Nothing \notin Nat

VARIABLES
  buckets,                   \* buckets_, each with its upper_bound_ and items
  stream_size,               \* stream_size_
  upper_bound, lower_bound,  \* upper_bound_, lower_bound_
  target,                    \* the bound SetUpperBound is raising upper_bound_ to
  call,                      \* the loop under way
  answer                     \* what the last GetNextItem returned

vars == <<buckets, stream_size, upper_bound, lower_bound, target, call, answer>>

(* none: no call; grow: the loop of SetUpperBound; shrink: the loop of     *)
(* SetLowerBound; fetch: the loop of GetNextItem.                          *)
Loops == {"none", "grow", "shrink", "fetch"}

MinOf(a, b) == IF a =< b THEN a ELSE b

-----------------------------------------------------------------------------
(* Buckets.                                                                *)

Bucket == [upper : Nat, items : SUBSET Nat]

NewBucket(lower) == [upper |-> lower, items |-> {}]

(* Mutant of Room: the items in the bucket are forgotten.                   *)
RoomForgettingItems(b) == BucketSize

(* GetRemainingCapacity: an item fetched leaves room for one more.         *)
Room(b) == BucketSize - Cardinality(b.items)

Extend(b, new_upper) ==
  [upper |-> new_upper, items |-> b.items \cup b.upper .. new_upper - 1]

Fetch(b, item) == [b EXCEPT !.items = @ \ {item}]

(* The items below the new bound stay where the bucket holds more than     *)
(* half of what is left of its range.                                      *)
DeclareLowerBound(b, new_lower) ==
  IF b.upper - new_lower < 2 * Cardinality(b.items)
  THEN b
  ELSE [b EXCEPT !.items = {x \in @ : x >= new_lower}]

Back == buckets[Len(buckets)]

Held == UNION {buckets[i].items : i \in DOMAIN buckets}

-----------------------------------------------------------------------------
Init == /\ buckets = <<>>
        /\ stream_size = 0
        /\ upper_bound = 0 /\ lower_bound = 0
        /\ target = 0
        /\ call = "none"
        /\ answer = Nothing

(* SetUpperBound: the size is raised first, the buckets follow.            *)
SetUpperBound(upper) ==
  /\ call = "none" /\ upper >= upper_bound
  /\ stream_size' = stream_size + (upper - upper_bound)
  /\ target' = upper
  /\ call' = IF upper > upper_bound THEN "grow" ELSE "none"
  /\ UNCHANGED <<buckets, upper_bound, lower_bound, answer>>

(* Mutant of NeedsBucket: a full bucket is not followed by another one.     *)
NeedsBucketAtFirst == buckets = <<>>

NeedsBucket == buckets = <<>> \/ Room(Back) = 0

(* One iteration of the loop of SetUpperBound.                             *)
GrowStep ==
  /\ call = "grow"
  /\ LET filled == IF NeedsBucket THEN Append(buckets, NewBucket(upper_bound))
                                  ELSE buckets
         last == filled[Len(filled)]
         reached == MinOf(target, upper_bound + Room(last))
     IN /\ buckets' = [filled EXCEPT ![Len(filled)] = Extend(last, reached)]
        /\ upper_bound' = reached
        /\ call' = IF reached < target THEN "grow" ELSE "none"
  /\ UNCHANGED <<stream_size, lower_bound, target, answer>>

(* SetLowerBound, at or past the upper bound: everything is dropped.       *)
JumpPast(lower) ==
  /\ call = "none" /\ lower >= lower_bound /\ lower >= upper_bound
  /\ buckets' = <<>>
  /\ stream_size' = 0
  /\ lower_bound' = lower /\ upper_bound' = lower /\ target' = lower
  /\ UNCHANGED <<call, answer>>

SetLowerBound(lower) ==
  /\ call = "none" /\ lower >= lower_bound /\ lower < upper_bound
  /\ lower_bound' = lower
  /\ call' = "shrink"
  /\ UNCHANGED <<buckets, stream_size, upper_bound, target, answer>>

FrontIsPast == buckets # <<>> /\ Head(buckets).upper =< lower_bound

PopFront ==
  /\ call = "shrink" /\ FrontIsPast
  /\ stream_size' = stream_size - Cardinality(Head(buckets).items)
  /\ buckets' = Tail(buckets)
  /\ UNCHANGED <<upper_bound, lower_bound, target, call, answer>>

(* Mutant of TrimFront: the size is not lowered by the items removed.       *)
TrimFrontKeepingSize ==
  /\ call = "shrink" /\ ~FrontIsPast
  /\ buckets' = [buckets EXCEPT ![1] = DeclareLowerBound(@, lower_bound)]
  /\ call' = "none"
  /\ UNCHANGED <<stream_size, upper_bound, lower_bound, target, answer>>

(* The end of SetLowerBound.  There is a front bucket, for the last one    *)
(* reaches up to upper_bound_.                                             *)
TrimFront ==
  /\ call = "shrink" /\ ~FrontIsPast
  /\ LET front == buckets[1]
         trimmed == DeclareLowerBound(front, lower_bound)
     IN /\ buckets' = [buckets EXCEPT ![1] = trimmed]
        /\ stream_size' = stream_size - (Cardinality(front.items)
                                         - Cardinality(trimmed.items))
  /\ call' = "none"
  /\ UNCHANGED <<upper_bound, lower_bound, target, answer>>

GetNextItem ==
  /\ call = "none"
  /\ call' = "fetch"
  /\ UNCHANGED <<buckets, stream_size, upper_bound, lower_bound, target, answer>>

(* Mutant of Returns: the lower bound is taken as exclusive.                *)
ReturnsAbove(item) == item > lower_bound

Returns(item) == item >= lower_bound

(* One iteration of the loop of GetNextItem: an item that the window has   *)
(* left behind is thrown away and another one is tried.                    *)
TryFetch(i, item) ==
  /\ call = "fetch" /\ stream_size > 0
  /\ buckets' = [buckets EXCEPT ![i] = Fetch(@, item)]
  /\ stream_size' = stream_size - 1
  /\ \/ Returns(item) /\ answer' = item /\ call' = "none"
     \/ ~Returns(item) /\ UNCHANGED <<answer, call>>
  /\ UNCHANGED <<upper_bound, lower_bound, target>>

(* nullopt: there is nothing left.                                          *)
ReturnNothing ==
  /\ call = "fetch" /\ stream_size = 0
  /\ answer' = Nothing
  /\ call' = "none"
  /\ UNCHANGED <<buckets, stream_size, upper_bound, lower_bound, target>>

(* Reset ends in SetUpperBound when there is a range to fill.              *)
Reset(lower, upper) ==
  /\ call = "none" /\ lower =< upper
  /\ buckets' = <<>>
  /\ lower_bound' = lower /\ upper_bound' = lower
  /\ target' = upper
  /\ stream_size' = upper - lower
  /\ call' = IF upper > lower THEN "grow" ELSE "none"
  /\ UNCHANGED answer

LoopStep == \/ GrowStep \/ PopFront \/ TrimFront \/ ReturnNothing
            \/ \E i \in DOMAIN buckets : \E item \in buckets[i].items :
                  TryFetch(i, item)

Next == \/ LoopStep
        \/ GetNextItem
        \/ \E b \in 0 .. MaxBound :
              SetUpperBound(b) \/ SetLowerBound(b) \/ JumpPast(b)
        \/ \E lower, upper \in 0 .. MaxBound : Reset(lower, upper)

(* A call that is under way keeps running.                                 *)
Spec == Init /\ [][Next]_vars /\ WF_vars(LoopStep)

-----------------------------------------------------------------------------
(* Properties.                                                             *)

(* The counters are natural numbers, a bucket never holds more items than  *)
(* its array has room for (the assertion in Extend), and the window is     *)
(* never inside out.                                                       *)
TypeOK ==
  /\ buckets \in Seq(Bucket)
  /\ \A i \in DOMAIN buckets : /\ IsFiniteSet(buckets[i].items)
                               /\ Cardinality(buckets[i].items) =< BucketSize
  /\ stream_size \in Nat
  /\ upper_bound \in Nat /\ lower_bound \in Nat /\ lower_bound =< upper_bound
  /\ target \in Nat /\ target >= upper_bound
  /\ call \in Loops
  /\ answer \in Nat \cup {Nothing}

(* The size from which GetNextItem draws its index is the number of items  *)
(* in the buckets, so the search through them always ends inside one: the  *)
(* logic_error "item index out of bounds" is never thrown, and no item is  *)
(* left behind when nullopt is returned.                                   *)
IndexInBounds == call \in {"none", "fetch"} => stream_size = Cardinality(Held)

(* Every loop of the class ends.                                           *)
EveryCallReturns == call # "none" ~> call = "none"

(* The buckets, the free room reused after fetches, the items the window   *)
(* left behind and the lazy trimming are invisible: callers see a sampler  *)
(* that draws each number of the window once.  The numbers that            *)
(* SetUpperBound has promised and not yet put into a bucket are fresh too. *)
fresh == {x \in Held \cup upper_bound .. target - 1 : x >= lower_bound}

Sampler == INSTANCE WindowSampler
             WITH lower <- lower_bound, upper <- target, asked <- call = "fetch"

ImplementsSampler == Sampler!Spec
=============================================================================
