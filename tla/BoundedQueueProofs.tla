------------------------- MODULE BoundedQueueProofs -------------------------
(***************************************************************************)
(* Theorems about BoundedQueue, for any threads, values, capacity and      *)
(* batches: types, no lost wakeup, the balance of the counters, and that   *)
(* the ring implements the channel.                                        *)
(***************************************************************************)
EXTENDS BoundedQueue, FiniteSetTheorems, SequenceTheorems, TLAPS

(* Reducing an index modulo the capacity, where the code does it.          *)
LEMMA ModRange ==
  ASSUME NEW C \in Nat \ {0}, NEW x \in Int
  PROVE  x % C \in 0 .. C - 1
BY SMT

(* The offset of a slot is the index of a slot.                            *)
LEMMA OffsetType ==
  ASSUME NEW s \in Slots, NEW from \in Slots
  PROVE  Offset(s, from) \in Slots
BY CapacityAssumption, ModRange DEF Offset, Slots

-----------------------------------------------------------------------------
(* Type correctness.                                                       *)

(* The state is of its type when the queue is constructed.                 *)
LEMMA InitTypeOK == Init => TypeOK
<1>. SUFFICES ASSUME Init
              PROVE  TypeOK
  OBVIOUS
<1>1. <<>> \in Seq(Items) /\ <<>> \in Seq(Items \cup {NoItem})
  OBVIOUS
<1>2. call \in [Threads -> Calls]
  BY <1>1 DEF Init, NoCall, Calls
<1>3. result \in [Threads -> Seq(Items \cup {NoItem})]
  BY <1>1 DEF Init
<1>4. head \in Slots /\ tail \in Slots /\ size \in 0 .. Capacity
  BY CapacityAssumption DEF Init, Slots
<1>. QED
  BY <1>2, <1>3, <1>4 DEF Init, TypeOK, Places

(* A part of a batch of values is a batch of values.                       *)
LEMMA RestOfBatch ==
  ASSUME NEW S, NEW s \in Seq(S), NEW n \in 0 .. Len(s)
  PROVE  SubSeq(s, n + 1, Len(s)) \in Seq(S)
BY SubSeqProperties, LenProperties

(* Waking the sleepers leaves every thread in one of its places.           *)
LEMMA SignalAllType == TypeOK => SignalAll \in [Threads -> Places]
BY DEF TypeOK, SignalAll, Places

(* A thread that returns is in one of its places and has no call.          *)
LEMMA ReturnType ==
  ASSUME TypeOK, NEW t \in Threads, NEW places \in [Threads -> Places], Return(t, places)
  PROVE  /\ pc' \in [Threads -> Places]
         /\ call' \in [Threads -> Calls]
<1>1. NoCall \in Calls
  BY DEF NoCall, Calls
<1>. QED
  BY <1>1 DEF TypeOK, Return, Places

(* Beginning a call keeps the types.                                       *)
LEMMA BeginType ==
  ASSUME TypeOK, NEW t \in Threads,
         NEW c \in Calls,
         Begin(t, c)
  PROVE  TypeOK'
BY DEF TypeOK, Begin, Places, Slots, ring, tokens, counters

(* Storing a part of a batch keeps the types, and the ring within capacity.*)
LEMMA StoreType ==
  ASSUME TypeOK, NEW t \in Threads, NEW n \in Nat, NEW evicted \in 0 .. size,
         n =< Len(call[t].items), size - evicted + n =< Capacity,
         Store(t, n, evicted)
  PROVE  TypeOK'
<1>1. call[t].items \in Seq(Items)
  BY DEF TypeOK, Calls
<1>2. buffer' \in [Slots -> Items \cup {NoItem}]
  <2>1. ASSUME NEW s \in Slots, Offset(s, tail) < n
        PROVE  call[t].items[Offset(s, tail) + 1] \in Items
    <3>1. Offset(s, tail) + 1 \in 1 .. Len(call[t].items)
      <4>1. Offset(s, tail) \in Slots
        BY OffsetType DEF TypeOK
      <4>2. Offset(s, tail) \in Nat /\ Len(call[t].items) \in Nat
        BY <4>1, <1>1, CapacityAssumption, LenProperties DEF Slots
      <4>. QED  BY <4>2, <2>1
    <3>. QED  BY <3>1, <1>1, ElementOfSeq
  <2>. QED  BY <2>1 DEF Store, TypeOK
<1>3. /\ head' \in Slots /\ tail' \in Slots
  BY ModRange, CapacityAssumption DEF Store, TypeOK, Slots
<1>4. /\ size' \in 0 .. Capacity
      /\ total_put_count' \in Nat /\ total_drop_count' \in Nat
  BY CapacityAssumption DEF Store, TypeOK, CountOnEntry
<1>5. /\ pc' \in [Threads -> Places]
      /\ call' \in [Threads -> Calls]
  <2>1. CASE n = Len(call[t].items)
    BY <2>1, ReturnType, SignalAllType DEF Store
  <2>2. CASE n # Len(call[t].items)
    <3>1. SubSeq(call[t].items, n + 1, Len(call[t].items)) \in Seq(Items)
      BY <1>1, RestOfBatch, LenProperties
    <3>2. Remainder(t, SubSeq(call[t].items, n + 1, Len(call[t].items)), 0) \in Calls
      BY <3>1 DEF Remainder, TypeOK, Calls
    <3>. QED  BY <2>2, <3>2, SignalAllType DEF Store, TypeOK, Places
  <2>. QED  BY <2>1, <2>2
<1>. QED
  BY <1>2, <1>3, <1>4, <1>5 DEF Store, TypeOK, tokens

(* Moving elements out keeps the types.                                    *)
LEMMA MoveOutType ==
  ASSUME TypeOK, NEW t \in Threads, NEW n \in 0 .. size, MoveOut(t, n)
  PROVE  /\ buffer' \in [Slots -> Items \cup {NoItem}]
         /\ head' \in Slots /\ tail' \in Slots /\ size' \in 0 .. Capacity
         /\ total_get_count' \in Nat
         /\ result' \in [Threads -> Seq(Items \cup {NoItem})]
<1>1. [i \in 1 .. n |-> buffer[(head + i - 1) % Capacity]] \in Seq(Items \cup {NoItem})
  <2>1. ASSUME NEW i \in 1 .. n
        PROVE  buffer[(head + i - 1) % Capacity] \in Items \cup {NoItem}
    BY CapacityAssumption, ModRange DEF TypeOK, Slots
  <2>. QED  BY <2>1, IsASeq
<1>2. result' \in [Threads -> Seq(Items \cup {NoItem})]
  BY <1>1, ConcatProperties DEF MoveOut, TypeOK
<1>3. head' \in Slots
  BY ModRange, CapacityAssumption DEF MoveOut, TypeOK, Slots
<1>. QED
  BY <1>2, <1>3, CapacityAssumption DEF MoveOut, TypeOK

(* Every step inside a call keeps the types.                               *)
LEMMA WorkType ==
  ASSUME TypeOK, NEW t \in Threads, Work(t)
  PROVE  TypeOK'
<1>. USE CapacityAssumption
<1>1. CASE ThrowClosed(t)
  BY <1>1, ReturnType DEF ThrowClosed, TypeOK, ring, tokens, counters
<1>2. CASE ThrowCancelled(t)
  <2>1. total_put_count' \in Nat
    BY <1>2 DEF ThrowCancelled, CountOnEntry, TypeOK
  <2>. QED  BY <1>2, <2>1, ReturnType DEF ThrowCancelled, TypeOK, ring, tokens
<1>3. CASE FindsNothing(t)
  <2>1. total_put_count' \in Nat
    BY <1>3 DEF FindsNothing, CountOnEntry, TypeOK
  <2>. QED  BY <1>3, <2>1 DEF FindsNothing, TypeOK, Places, ring, tokens
<1>4. CASE WaitOnCondVar(t)
  BY <1>4 DEF WaitOnCondVar, TypeOK, Places, ring, tokens, counters
<1>5. CASE PutStores(t)
  <2>1. call[t].items \in Seq(Items) /\ Len(call[t].items) \in Nat
    BY LenProperties DEF TypeOK, Calls
  <2>. DEFINE n == MinOf(Len(call[t].items), Capacity - size)
  <2>2. n \in Nat /\ n =< Len(call[t].items) /\ size + n =< Capacity
    BY <2>1, <1>5 DEF PutStores, MinOf, TypeOK
  <2>3. Store(t, n, 0)
    BY <1>5 DEF PutStores
  <2>4. size - 0 + n =< Capacity /\ 0 \in 0 .. size
    BY <2>2 DEF TypeOK
  <2>. HIDE DEF n
  <2>. QED  BY <2>2, <2>3, <2>4, StoreType
<1>6. CASE PutDrops(t)
  <2>1. Len(call[t].items) \in Nat
    BY LenProperties DEF TypeOK, Calls
  <2>2. total_put_count' \in Nat /\ total_drop_count' \in Nat
    BY <1>6, <2>1 DEF PutDrops, TypeOK
  <2>. QED  BY <1>6, <2>2, ReturnType DEF PutDrops, TypeOK, ring, tokens
<1>7. CASE PutKeepsNewest(t)
  <2>1. call[t].items \in Seq(Items) /\ Len(call[t].items) \in Nat
    BY LenProperties DEF TypeOK, Calls
  <2>. DEFINE n == MinOf(Len(call[t].items), Capacity)
  <2>2. n \in Nat /\ n =< Len(call[t].items) /\ n =< Capacity
    BY <2>1 DEF MinOf
  <2>3. Excess(n) \in 0 .. size /\ size - Excess(n) + n =< Capacity
    BY <2>2 DEF Excess, TypeOK
  <2>4. Store(t, n, Excess(n))
    BY <1>7 DEF PutKeepsNewest
  <2>. HIDE DEF n
  <2>. QED  BY <2>2, <2>3, <2>4, StoreType
<1>8. CASE GetTakes(t)
  <2>. DEFINE n == MinOf(call[t].need, size)
  <2>1. call[t].need \in Nat /\ size \in 0 .. Capacity /\ size > 0
    BY <1>8 DEF TypeOK, Calls, GetTakes
  <2>2. MoveOut(t, n)
    BY <1>8 DEF GetTakes
  <2>3. n \in 0 .. size /\ n =< call[t].need
    BY <2>1 DEF MinOf
  <2>4. /\ pc' \in [Threads -> Places]
        /\ call' \in [Threads -> Calls]
    <3>1. CASE n = call[t].need
      BY <3>1, <1>8, ReturnType, SignalAllType DEF GetTakes
    <3>2. CASE n # call[t].need
      <4>1. /\ pc' = [SignalAll EXCEPT ![t] = "entering"]
            /\ call' = [call EXCEPT ![t] = Remainder(t, <<>>, call[t].need - n)]
        BY <3>2, <1>8 DEF GetTakes
      <4>. HIDE DEF n
      <4>2. Remainder(t, <<>>, call[t].need - n) \in Calls
        BY <2>1, <2>3 DEF Remainder, TypeOK, Calls
      <4>. QED  BY <4>1, <4>2, SignalAllType DEF TypeOK, Places
    <3>. QED  BY <3>1, <3>2
  <2>. HIDE DEF n
  <2>. QED  BY <2>2, <2>3, <2>4, MoveOutType DEF TypeOK, MoveOut, tokens
<1>9. CASE MaybeGet(t)
  <2>1. CASE size = 0
    BY <2>1, <1>9, ReturnType DEF MaybeGet, TypeOK, ring, tokens, counters
  <2>2. CASE size # 0
    <3>1. MoveOut(t, 1) /\ Return(t, SignalAll) /\ 1 \in 0 .. size
      BY <2>2, <1>9 DEF MaybeGet, TypeOK
    <3>. QED  BY <3>1, MoveOutType, ReturnType, SignalAllType DEF TypeOK, MoveOut, tokens
  <2>. QED  BY <2>1, <2>2
<1>10. CASE WaitForReturns(t)
  BY <1>10, ReturnType DEF WaitForReturns, TypeOK, ring, tokens, counters
<1>. QED
  BY <1>1, <1>2, <1>3, <1>4, <1>5, <1>6, <1>7, <1>8, <1>9, <1>10 DEF Work

(* Every step of a producer keeps the types.                               *)
LEMMA ProduceType ==
  ASSUME TypeOK, TokensCounted, NEW t \in Producers, Produce(t)
  PROVE  TypeOK'
<1>. USE CapacityAssumption DEF Threads
<1>1. CASE CreateProducer(t)
  BY <1>1 DEF CreateProducer, TypeOK, ring, counters
<1>2. CASE RemoveProducer(t)
  <2>1. producer_count > 0
    <3>1. IsFiniteSet({u \in Threads : token[u]})
      BY ThreadAssumption, FS_Subset
    <3>2. {u \in Threads : token[u]} # {}
      BY <1>2 DEF RemoveProducer
    <3>. QED  BY <3>1, <3>2, FS_EmptySet, FS_CardinalityType DEF TokensCounted
  <2>2. producer_count' \in Nat
    BY <1>2, <2>1 DEF RemoveProducer, TypeOK
  <2>. QED  BY <1>2, <2>2, SignalAllType DEF RemoveProducer, TypeOK, ring, counters
<1>3. ASSUME NEW items \in Batches, BeginPut(t, items)
      PROVE  TypeOK'
  <2>1. items \in Seq(Items)
    BY BoundAssumption
  <2>. QED  BY <1>3, <2>1, BeginType DEF BeginPut, PutOps, Calls
<1>. QED
  BY <1>1, <1>2, <1>3 DEF Produce

(* Every call a consumer begins keeps the types.                           *)
LEMMA ConsumeType ==
  ASSUME TypeOK, NEW t \in Consumers, Consume(t)
  PROVE  TypeOK'
<1>. USE DEF Threads
<1>0. <<>> \in Seq(Items)
  OBVIOUS
<1>1. CASE BeginMaybeGet(t)
  BY <1>1, <1>0, BeginType DEF BeginMaybeGet, Calls
<1>2. ASSUME NEW n \in GetSizes, BeginGet(t, n)
      PROVE  TypeOK'
  BY <1>2, <1>0, BoundAssumption, BeginType DEF BeginGet, Calls
<1>3. ASSUME NEW w \in Waits, BeginWaitFor(t, w)
      PROVE  TypeOK'
  BY <1>3, <1>0, BoundAssumption, BeginType DEF BeginWaitFor, Calls
<1>. QED
  BY <1>1, <1>2, <1>3 DEF Consume

(* Every step keeps the types; no token is removed that was not counted.   *)
LEMMA NextTypeOK == TypeOK /\ TokensCounted /\ [Next]_vars => TypeOK'
<1>. SUFFICES ASSUME TypeOK, TokensCounted, [Next]_vars
              PROVE  TypeOK'
  OBVIOUS
<1>1. ASSUME NEW t \in Producers, Produce(t)
      PROVE  TypeOK'
  BY <1>1, ProduceType
<1>2. ASSUME NEW t \in Consumers, Consume(t)
      PROVE  TypeOK'
  BY <1>2, ConsumeType
<1>3. ASSUME NEW t \in Threads, Work(t)
      PROVE  TypeOK'
  BY <1>3, WorkType
<1>4. ASSUME NEW t \in Threads, Close(t)
      PROVE  TypeOK'
  BY <1>4, SignalAllType DEF Close, TypeOK, ring, tokens, counters
<1>5. ASSUME NEW t \in Threads, SpuriousWakeup(t)
      PROVE  TypeOK'
  BY <1>5 DEF SpuriousWakeup, TypeOK, Places, ring, tokens, counters
<1>6. ASSUME NEW t \in Threads, RequestStop(t)
      PROVE  TypeOK'
  BY <1>6 DEF RequestStop, TypeOK, ring, tokens, counters
<1>7. ASSUME NEW t \in Threads, StopCallback(t)
      PROVE  TypeOK'
  BY <1>7, SignalAllType DEF StopCallback, TypeOK, ring, tokens, counters
<1>8. CASE FlushCounters
  BY <1>8 DEF FlushCounters, TypeOK, ring, tokens
<1>9. CASE UNCHANGED vars
  BY <1>9 DEF vars, TypeOK, ring, tokens, counters
<1>. QED
  BY <1>1, <1>2, <1>3, <1>4, <1>5, <1>6, <1>7, <1>8, <1>9 DEF Next

(* producer_count_ changes with the set of live tokens.                    *)
LEMMA NextTokensCounted ==
  TypeOK /\ TokensCounted /\ [Next]_vars => TokensCounted'
<1>. SUFFICES ASSUME TypeOK, TokensCounted, [Next]_vars
              PROVE  TokensCounted'
  OBVIOUS
<1>. DEFINE Live == {t \in Threads : token[t]}
<1>0. IsFiniteSet(Live) /\ Cardinality(Live) \in Nat
  BY ThreadAssumption, FS_Subset, FS_CardinalityType
<1>1. ASSUME NEW t \in Producers, CreateProducer(t)
      PROVE  TokensCounted'
  <2>1. Live' = Live \cup {t} /\ t \notin Live
    BY <1>1 DEF CreateProducer, TypeOK, Threads
  <2>2. Cardinality(Live') = Cardinality(Live) + 1
    BY <2>1, <1>0, FS_AddElement
  <2>. QED  BY <1>1, <2>2 DEF CreateProducer, TokensCounted
<1>2. ASSUME NEW t \in Producers, RemoveProducer(t)
      PROVE  TokensCounted'
  <2>1. Live' = Live \ {t} /\ t \in Live
    BY <1>2 DEF RemoveProducer, TypeOK, Threads
  <2>2. Cardinality(Live') = Cardinality(Live) - 1
    BY <2>1, <1>0, FS_RemoveElement
  <2>. QED  BY <1>2, <2>2 DEF RemoveProducer, TokensCounted
<1>3. CASE UNCHANGED tokens
  BY <1>3 DEF tokens, TokensCounted
<1>4. [Next]_vars => \/ \E t \in Producers : CreateProducer(t) \/ RemoveProducer(t)
                     \/ UNCHANGED tokens
  BY DEF Next, vars, Produce, Consume, Work, Close, SpuriousWakeup, RequestStop,
         StopCallback, FlushCounters, BeginPut, BeginGet, BeginMaybeGet, BeginWaitFor,
         Begin, ThrowClosed, ThrowCancelled, FindsNothing, WaitOnCondVar, PutStores,
         PutDrops, PutKeepsNewest, GetTakes, MaybeGet, WaitForReturns, Store, MoveOut
<1>. QED
  BY <1>1, <1>2, <1>3, <1>4

(* Every value the queue's state takes is of its type, whatever the calls. *)
THEOREM TypeCorrect == Spec => []TypeOK
<1>1. Init => TypeOK /\ TokensCounted
  <2>1. Init => {t \in Threads : token[t]} = {}
    BY DEF Init
  <2>. QED  BY <2>1, InitTypeOK, FS_EmptySet DEF Init, TokensCounted
<1>2. TypeOK /\ TokensCounted /\ [Next]_vars => (TypeOK /\ TokensCounted)'
  BY NextTypeOK, NextTokensCounted
<1>. QED
  BY <1>1, <1>2, PTL DEF Spec

-----------------------------------------------------------------------------
(* No lost wakeup.  A step either wakes every sleeper while mutex_ is free *)
(* or leaves alone all that a wait loop tests.                             *)

WaitInv == MutualExclusion /\ CheckStillHolds /\ NoStrandedWaiter

Asleep(t) == pc[t] \in {"checked", "waiting"}

(* Nobody is asleep after the step.                                        *)
Wakes == \A u \in Threads : ~Asleep(u)'

(* The step changes nothing a sleeper tests, and whoever is asleep after   *)
(* it was asleep before or has just found its condition false.             *)
LeavesAlone ==
  /\ size' = size /\ closed' = closed
  /\ \A u \in Threads : Asleep(u)' =>
        /\ call'[u] = call[u]
        /\ Asleep(u) \/ (~Ready(call[u]) /\ ~closed)

(* A step wakes every sleeper or leaves what they wait for as it was.      *)
LEMMA StepWakesOrLeaves ==
  ASSUME TypeOK, [Next]_vars
  PROVE  Wakes \/ LeavesAlone
<1>. USE DEF Asleep
<1>1. ASSUME NEW t \in Threads, NEW c, Begin(t, c)
      PROVE  LeavesAlone
  BY <1>1 DEF Begin, LeavesAlone, TypeOK, ring
<1>2. ASSUME NEW t \in Threads, MutexFree, pc' = SignalAll
      PROVE  Wakes
  BY <1>2 DEF MutexFree, SignalAll, Wakes
<1>3. ASSUME NEW t \in Threads, MutexFree,
             NEW place \in {"idle", "entering"}, pc' = [SignalAll EXCEPT ![t] = place]
      PROVE  Wakes
  BY <1>3, SignalAllType DEF MutexFree, SignalAll, Wakes
<1>4. ASSUME NEW t \in Producers, Produce(t)
      PROVE  Wakes \/ LeavesAlone
  <2>1. CASE CreateProducer(t)
    BY <2>1 DEF CreateProducer, LeavesAlone, ring
  <2>2. CASE RemoveProducer(t)
    <3>1. CASE producer_count' = 0 /\ ~closed
      BY <2>2, <3>1, <1>2 DEF RemoveProducer, Threads
    <3>2. CASE ~(producer_count' = 0 /\ ~closed)
      BY <2>2, <3>2 DEF RemoveProducer, LeavesAlone, ring
    <3>. QED  BY <3>1, <3>2
  <2>3. CASE \E items \in Batches : BeginPut(t, items)
    BY <2>3, <1>1 DEF BeginPut, Threads
  <2>. QED  BY <1>4, <2>1, <2>2, <2>3 DEF Produce
<1>5. ASSUME NEW t \in Consumers, Consume(t)
      PROVE  LeavesAlone
  BY <1>5, <1>1 DEF Consume, BeginMaybeGet, BeginGet, BeginWaitFor, Threads
<1>6. ASSUME NEW t \in Threads, Work(t)
      PROVE  Wakes \/ LeavesAlone
  <2>1. CASE ThrowClosed(t)
    BY <2>1 DEF ThrowClosed, Return, LeavesAlone, TypeOK, ring
  <2>2. CASE ThrowCancelled(t)
    BY <2>2 DEF ThrowCancelled, Return, LeavesAlone, TypeOK, ring
  <2>3. CASE FindsNothing(t)
    BY <2>3 DEF FindsNothing, LeavesAlone, TypeOK, ring
  <2>4. CASE WaitOnCondVar(t)
    BY <2>4 DEF WaitOnCondVar, LeavesAlone, TypeOK, ring
  <2>5. ASSUME NEW n, NEW evicted, MutexFree, Store(t, n, evicted)
        PROVE  Wakes
    BY <2>5, <1>3 DEF Store, Return
  <2>6. CASE PutStores(t)
    BY <2>6, <2>5 DEF PutStores, Locks
  <2>7. CASE PutDrops(t)
    BY <2>7 DEF PutDrops, Return, LeavesAlone, TypeOK, ring
  <2>8. CASE PutKeepsNewest(t)
    BY <2>8, <2>5 DEF PutKeepsNewest, Locks
  <2>9. CASE GetTakes(t)
    BY <2>9, <1>3 DEF GetTakes, Locks, Return
  <2>10. CASE MaybeGet(t)
    <3>1. CASE size = 0
      BY <2>10, <3>1 DEF MaybeGet, Return, LeavesAlone, TypeOK, ring
    <3>2. CASE size # 0
      BY <2>10, <3>2, <1>3 DEF MaybeGet, Locks, Return
    <3>. QED  BY <3>1, <3>2
  <2>11. CASE WaitForReturns(t)
    BY <2>11 DEF WaitForReturns, Return, LeavesAlone, TypeOK, ring
  <2>. QED
    BY <1>6, <2>1, <2>2, <2>3, <2>4, <2>6, <2>7, <2>8, <2>9, <2>10, <2>11 DEF Work
<1>7. ASSUME NEW t \in Threads, Close(t)
      PROVE  Wakes
  BY <1>7, <1>2 DEF Close
<1>8. ASSUME NEW t \in Threads, SpuriousWakeup(t)
      PROVE  LeavesAlone
  BY <1>8 DEF SpuriousWakeup, LeavesAlone, TypeOK, ring
<1>9. ASSUME NEW t \in Threads, RequestStop(t) \/ StopCallback(t)
      PROVE  LeavesAlone
  BY <1>9 DEF RequestStop, StopCallback, SignalAll, LeavesAlone, ring
<1>10. CASE FlushCounters
  BY <1>10 DEF FlushCounters, LeavesAlone, ring
<1>11. CASE UNCHANGED vars
  BY <1>11 DEF vars, LeavesAlone, ring
<1>. QED
  BY <1>4, <1>5, <1>6, <1>7, <1>8, <1>9, <1>10, <1>11 DEF Next

(* A thread takes mutex_ only when it is free.                             *)
LEMMA NextMutualExclusion ==
  ASSUME TypeOK, MutualExclusion, [Next]_vars
  PROVE  MutualExclusion'
<1>1. ASSUME NEW t \in Threads, FindsNothing(t)
      PROVE  MutualExclusion'
  BY <1>1 DEF FindsNothing, Locks, MutexFree, MutualExclusion, TypeOK
<1>2. ASSUME \A u \in Threads : pc'[u] = "checked" => pc[u] = "checked"
      PROVE  MutualExclusion'
  BY <1>2 DEF MutualExclusion
<1>3. \/ \E t \in Threads : FindsNothing(t)
      \/ \A u \in Threads : pc'[u] = "checked" => pc[u] = "checked"
  <2>1. ASSUME NEW t \in Threads, NEW places \in [Threads -> Places],
               \A u \in Threads : places[u] = "checked" => pc[u] = "checked",
               NEW place \in {"idle", "entering", "waiting", "woken"},
               pc' = [places EXCEPT ![t] = place]
        PROVE  \A u \in Threads : pc'[u] = "checked" => pc[u] = "checked"
    BY <2>1
  <2>2. /\ SignalAll \in [Threads -> Places] /\ pc \in [Threads -> Places]
        /\ \A u \in Threads : SignalAll[u] = "checked" => pc[u] = "checked"
    BY SignalAllType DEF SignalAll, TypeOK
  <2>3. ASSUME NEW t \in Threads, Work(t), ~FindsNothing(t)
        PROVE  \E places \in {pc, SignalAll}, place \in {"idle", "entering", "waiting"} :
                  pc' = [places EXCEPT ![t] = place]
    BY <2>3 DEF Work, ThrowClosed, ThrowCancelled, WaitOnCondVar, PutStores, PutDrops,
         PutKeepsNewest, Store, GetTakes, MaybeGet, WaitForReturns, Return
  <2>4. ASSUME NEW t \in Threads, NEW c, Begin(t, c)
        PROVE  pc' = [pc EXCEPT ![t] = "entering"]
    BY <2>4 DEF Begin
  <2>5. ASSUME NEW t \in Threads, Produce(t) \/ Consume(t) \/ Close(t) \/ RequestStop(t)
                                   \/ SpuriousWakeup(t) \/ StopCallback(t)
        PROVE  \/ pc' = pc \/ pc' = SignalAll
               \/ \E place \in {"entering", "woken"} : pc' = [pc EXCEPT ![t] = place]
    BY <2>5, <2>4 DEF Produce, Consume, CreateProducer, RemoveProducer, BeginPut, BeginGet,
         BeginMaybeGet, BeginWaitFor, Close, SpuriousWakeup, RequestStop, StopCallback
  <2>6. FlushCounters \/ UNCHANGED vars => pc' = pc
    BY DEF FlushCounters, vars
  <2>. QED
    BY <2>1, <2>2, <2>3, <2>5, <2>6 DEF Next, Threads
<1>. QED
  BY <1>1, <1>2, <1>3

(* No step lets a sleeper wait for what is true.                           *)
LEMMA NextWaitInv ==
  ASSUME TypeOK, WaitInv, [Next]_vars
  PROVE  WaitInv'
<1>1. MutualExclusion'
  BY NextMutualExclusion DEF WaitInv
<1>2. CASE Wakes
  BY <1>1, <1>2 DEF Wakes, Asleep, WaitInv, CheckStillHolds, NoStrandedWaiter
<1>3. CASE LeavesAlone
  <2>1. ASSUME NEW u \in Threads, Asleep(u)'
        PROVE  ~Ready(call[u])' /\ ~closed'
    <3>1. ~Ready(call[u]) /\ ~closed
      BY <2>1, <1>3 DEF LeavesAlone, Asleep, WaitInv, CheckStillHolds, NoStrandedWaiter
    <3>2. size' = size /\ closed' = closed /\ call'[u] = call[u]
      BY <2>1, <1>3 DEF LeavesAlone
    <3>. QED
      BY <3>1, <3>2 DEF Ready, CanPutOne, CanGet, HasRoomAtLeast, HasRoomAtMost,
           HasSizeAtLeast, HasSizeAtMost
  <2>. QED
    BY <1>1, <2>1 DEF Asleep, WaitInv, CheckStillHolds, NoStrandedWaiter
<1>. QED
  BY <1>2, <1>3, StepWakesOrLeaves

(* No thread sleeps on cond_var_ while what it waits for is true or the    *)
(* queue is closed, for any number of threads waiting for any mixture of   *)
(* conditions.                                                             *)
THEOREM NoLostWakeup == Spec => []NoStrandedWaiter
<1>1. Init => WaitInv
  BY DEF Init, WaitInv, MutualExclusion, CheckStillHolds, NoStrandedWaiter
<1>2. TypeOK /\ WaitInv /\ [Next]_vars => WaitInv'
  BY NextWaitInv
<1>3. WaitInv => NoStrandedWaiter
  BY DEF WaitInv
<1>. QED
  BY <1>1, <1>2, <1>3, TypeCorrect, PTL DEF Spec

-----------------------------------------------------------------------------
(* The calls.                                                              *)

(* A Put has one value, a batch at least one, any other call none; a Get   *)
(* needs at least one.                                                     *)
WellFormed(c) ==
  /\ c.op = "Put" => Len(c.items) = 1
  /\ c.op \in PutOps => c.items # <<>>
  /\ c.op \notin PutOps => c.items = <<>>
  /\ c.op = "Get" => c.need # 0

(* A thread outside any call has none, and only one that may wait does.    *)
CallsOK ==
  \A t \in Threads :
    /\ WellFormed(call[t])
    /\ pc[t] = "idle" => call[t] = NoCall
    /\ pc[t] \in {"checked", "waiting", "woken"} => MayWait(call[t])

(* A step that touches neither the ring nor a call and at most wakes.      *)
Aside ==
  /\ UNCHANGED <<overflow_behavior, ring, call, result>>
  /\ closed => closed'
  /\ \A u \in Threads : pc'[u] = pc[u] \/ (pc[u] = "waiting" /\ pc'[u] = "woken")
  /\ FlushCounters \/ UNCHANGED counters

(* A thread with no call begins one that is well formed.                   *)
Begins == \E t \in Threads, c \in Calls : WellFormed(c) /\ Begin(t, c)

LEMMA StepKinds ==
  TypeOK /\ [Next]_vars => Begins \/ Aside \/ \E t \in Threads : Work(t)
<1>. SUFFICES ASSUME TypeOK, [Next]_vars
              PROVE  Begins \/ Aside \/ \E t \in Threads : Work(t)
  OBVIOUS
<1>0. <<>> \in Seq(Items)
  OBVIOUS
<1>1. ASSUME NEW t \in Producers, Produce(t)
      PROVE  Begins \/ Aside
  <2>1. CASE CreateProducer(t) \/ RemoveProducer(t)
    BY <2>1 DEF CreateProducer, RemoveProducer, SignalAll, Aside
  <2>2. ASSUME NEW items \in Batches, BeginPut(t, items)
        PROVE  Begins
    <3>1. items \in Seq(Items) /\ items # <<>> /\ t \in Threads
      BY BoundAssumption DEF Threads
    <3>. DEFINE c(op) == [op |-> op, items |-> items, need |-> 0]
    <3>2. c("Put") \in Calls /\ c("PutBatch") \in Calls
      BY <3>1 DEF Calls, PutOps
    <3>3. (Len(items) = 1 => WellFormed(c("Put"))) /\ WellFormed(c("PutBatch"))
      BY <3>1 DEF WellFormed, PutOps
    <3>4. (Len(items) = 1 /\ Begin(t, c("Put"))) \/ Begin(t, c("PutBatch"))
      BY <2>2 DEF BeginPut
    <3>. HIDE DEF c
    <3>. QED
      BY <3>1, <3>2, <3>3, <3>4 DEF Begins
  <2>. QED
    BY <1>1, <2>1, <2>2 DEF Produce
<1>2. ASSUME NEW t \in Consumers, Consume(t)
      PROVE  Begins
  <2>1. \E op \in WaitOps \cup {"Get", "MaybeGet"}, need \in Nat :
           /\ op = "Get" => need # 0
           /\ Begin(t, [op |-> op, items |-> <<>>, need |-> need])
    <3>1. CASE BeginMaybeGet(t)
      BY <3>1 DEF BeginMaybeGet
    <3>2. ASSUME NEW n \in GetSizes, BeginGet(t, n)
          PROVE  n \in Nat /\ n # 0 /\ Begin(t, [op |-> "Get", items |-> <<>>, need |-> n])
      BY <3>2, BoundAssumption DEF BeginGet
    <3>3. ASSUME NEW w \in Waits, BeginWaitFor(t, w)
          PROVE  /\ w[1] \in WaitOps /\ w[2] \in Nat /\ w[1] # "Get"
                 /\ Begin(t, [op |-> w[1], items |-> <<>>, need |-> w[2]])
      BY <3>3, BoundAssumption DEF BeginWaitFor, WaitOps
    <3>. QED
      BY <1>2, <3>1, <3>2, <3>3 DEF Consume
  <2>2. ASSUME NEW op \in WaitOps \cup {"Get", "MaybeGet"}, NEW need \in Nat,
               op = "Get" => need # 0
        PROVE  /\ [op |-> op, items |-> <<>>, need |-> need] \in Calls
               /\ WellFormed([op |-> op, items |-> <<>>, need |-> need])
    BY <1>0, <2>2 DEF Calls, WellFormed, PutOps, WaitOps
  <2>. QED
    BY <2>1, <2>2 DEF Begins, Threads
<1>3. ASSUME NEW t \in Threads, Close(t) \/ RequestStop(t) \/ StopCallback(t)
      PROVE  Aside
  BY <1>3 DEF Close, RequestStop, StopCallback, SignalAll, Aside
<1>4. ASSUME NEW t \in Threads, SpuriousWakeup(t)
      PROVE  Aside
  BY <1>4 DEF SpuriousWakeup, TypeOK, Aside
<1>5. CASE FlushCounters
  BY <1>5 DEF FlushCounters, Aside
<1>6. CASE UNCHANGED vars
  BY <1>6 DEF vars, Aside
<1>. QED
  BY <1>1, <1>2, <1>3, <1>4, <1>5, <1>6 DEF Next

LEMMA InitCallsOK == Init => CallsOK
BY DEF Init, CallsOK, WellFormed, NoCall, PutOps

(* A Put that stores puts at least one value, and no more than fits.       *)
LEMMA PutsStore ==
  ASSUME TypeOK, CallsOK, NEW t \in Threads, PutStores(t) \/ PutKeepsNewest(t)
  PROVE  /\ call[t].op \in PutOps /\ call[t].items \in Seq(Items) /\ ~closed
         /\ \E n \in Nat, evicted \in 0 .. size :
               /\ n # 0 /\ n =< Len(call[t].items) /\ size - evicted + n =< Capacity
               /\ evicted > 0 => overflow_behavior = "KEEP_NEWEST"
               /\ Store(t, n, evicted)
<1>1. call[t].op \in PutOps /\ call[t].items \in Seq(Items) /\ ~closed
  BY DEF PutStores, PutKeepsNewest, TypeOK, Calls
<1>2. Len(call[t].items) \in Nat \ {0}
  BY <1>1, EmptySeq, LenProperties DEF CallsOK, WellFormed
<1>3. size \in 0 .. Capacity
  BY DEF TypeOK
<1>4. CASE PutStores(t)
  <2>. DEFINE n == MinOf(Len(call[t].items), Capacity - size)
  <2>1. size < Capacity /\ Store(t, n, 0)
    BY <1>4 DEF PutStores
  <2>2. n \in Nat /\ n # 0 /\ n =< Len(call[t].items) /\ size - 0 + n =< Capacity
    BY <1>2, <1>3, <2>1, CapacityAssumption DEF MinOf
  <2>. HIDE DEF n
  <2>. QED
    BY <1>1, <1>3, <2>1, <2>2
<1>5. CASE PutKeepsNewest(t)
  <2>. DEFINE n == MinOf(Len(call[t].items), Capacity)
  <2>1. n \in Nat /\ n # 0 /\ n =< Len(call[t].items) /\ n =< Capacity
    BY <1>2, CapacityAssumption DEF MinOf
  <2>2. Store(t, n, Excess(n)) /\ overflow_behavior = "KEEP_NEWEST"
    BY <1>5 DEF PutKeepsNewest
  <2>. HIDE DEF n
  <2>3. Excess(n) \in 0 .. size /\ size - Excess(n) + n =< Capacity
    BY <1>3, <2>1, CapacityAssumption DEF Excess
  <2>. QED
    BY <1>1, <2>1, <2>2, <2>3
<1>. QED
  BY <1>4, <1>5

(* How a step of Work leaves the calls: the thread returns, goes on, or    *)
(* waits for what it has found false.                                      *)
LEMMA NextCallsOK == TypeOK /\ CallsOK /\ [Next]_vars => CallsOK'
<1>. SUFFICES ASSUME TypeOK, CallsOK, [Next]_vars
              PROVE  CallsOK'
  OBVIOUS
<1>0. WellFormed(NoCall)
  BY DEF WellFormed, NoCall, PutOps
<1>1. CASE Begins
  <2>1. PICK t \in Threads, c \in Calls : WellFormed(c) /\ Begin(t, c)
    BY <1>1 DEF Begins
  <2>. QED
    BY <2>1 DEF Begin, CallsOK, TypeOK, MayWait
<1>2. CASE Aside
  BY <1>2 DEF Aside, CallsOK, MayWait
<1>3. ASSUME NEW t \in Threads, Work(t)
      PROVE  CallsOK'
  <2>0. UNCHANGED overflow_behavior
    BY <1>3 DEF Work, ThrowClosed, ThrowCancelled, FindsNothing, WaitOnCondVar,
         PutStores, PutDrops, PutKeepsNewest, Store, GetTakes, MaybeGet, MoveOut,
         WaitForReturns
  <2>1. ASSUME NEW places \in {pc, SignalAll}, Return(t, places)
        PROVE  CallsOK'
    BY <1>0, <2>0, <2>1 DEF Return, CallsOK, TypeOK, MayWait, SignalAll
  <2>2. ASSUME NEW c, WellFormed(c), pc' = [SignalAll EXCEPT ![t] = "entering"],
               call' = [call EXCEPT ![t] = c]
        PROVE  CallsOK'
    BY <2>0, <2>2 DEF CallsOK, TypeOK, MayWait, SignalAll
  <2>3. CASE FindsNothing(t)
    BY <2>0, <2>3 DEF FindsNothing, CallsOK, TypeOK, MayWait
  <2>4. CASE WaitOnCondVar(t)
    BY <2>0, <2>4 DEF WaitOnCondVar, CallsOK, TypeOK, MayWait
  <2>5. ASSUME NEW n \in Nat, NEW evicted, call[t].op \in PutOps,
               n =< Len(call[t].items), n # 0,
               Store(t, n, evicted)
        PROVE  CallsOK'
    <3>1. call[t].items \in Seq(Items) /\ Len(call[t].items) \in Nat
      BY LenProperties DEF TypeOK, Calls
    <3>2. CASE n = Len(call[t].items)
      BY <2>1, <2>5, <3>2 DEF Store
    <3>3. CASE n # Len(call[t].items)
      <4>. DEFINE rest == SubSeq(call[t].items, n + 1, Len(call[t].items))
                  c == Remainder(t, rest, 0)
      <4>1. Len(rest) = Len(call[t].items) - n
        BY <2>5, <3>1, <3>3, SubSeqProperties
      <4>2. rest # <<>> /\ call[t].op # "Put"
        <5>1. call[t].op = "Put" => Len(call[t].items) = 1
          BY DEF CallsOK, WellFormed
        <5>2. Len(rest) # 0
          BY <2>5, <3>1, <3>3, <4>1
        <5>3. Len(<<>>) = 0
          BY EmptySeq
        <5>4. call[t].op # "Put"
          <6>1. n # 0 /\ n =< Len(call[t].items)
            BY <2>5
          <6>2. \A len \in Nat : n # 0 /\ n =< len /\ n # len => len # 1
            OBVIOUS
          <6>. QED
            BY <3>1, <3>3, <5>1, <6>1, <6>2, Zenon
        <5>. QED
          BY <5>2, <5>3, <5>4, Zenon
      <4>3. pc' = [SignalAll EXCEPT ![t] = "entering"] /\ call' = [call EXCEPT ![t] = c]
        BY <2>5, <3>3 DEF Store
      <4>4. WellFormed(c)
        BY <2>5, <4>2 DEF WellFormed, Remainder, PutOps
      <4>. HIDE DEF c
      <4>. QED
        BY <2>2, <4>3, <4>4
    <3>. QED
      BY <3>2, <3>3
  <2>6. CASE PutStores(t) \/ PutKeepsNewest(t)
    BY <2>5, <2>6, PutsStore
  <2>7. CASE GetTakes(t)
    <3>1. \/ Return(t, SignalAll)
          \/ \E need : /\ need # 0
                       /\ pc' = [SignalAll EXCEPT ![t] = "entering"]
                       /\ call' = [call EXCEPT ![t] = Remainder(t, <<>>, need)]
      <4>. DEFINE n == MinOf(call[t].need, size)
      <4>1. n # call[t].need => call[t].need - n # 0
        BY CapacityAssumption DEF MinOf, TypeOK, Calls
      <4>2. IF n = call[t].need
            THEN Return(t, SignalAll)
            ELSE /\ pc' = [SignalAll EXCEPT ![t] = "entering"]
                 /\ call' = [call EXCEPT ![t] = Remainder(t, <<>>, call[t].need - n)]
        BY <2>7 DEF GetTakes
      <4>. HIDE DEF n
      <4>. QED
        BY <4>1, <4>2
    <3>2. \A need : need # 0 => WellFormed(Remainder(t, <<>>, need))
      BY <2>7 DEF GetTakes, WellFormed, Remainder, PutOps
    <3>. QED
      BY <2>1, <2>2, <3>1, <3>2
  <2>8. CASE ThrowClosed(t) \/ ThrowCancelled(t) \/ PutDrops(t) \/ MaybeGet(t)
             \/ WaitForReturns(t)
    <3>1. \E places \in {pc, SignalAll} : Return(t, places)
      BY <2>8 DEF ThrowClosed, ThrowCancelled, PutDrops, MaybeGet, WaitForReturns
    <3>. QED
      BY <2>1, <3>1
  <2>. QED
    BY <1>3, <2>3, <2>4, <2>6, <2>7, <2>8 DEF Work
<1>. QED
  BY <1>1, <1>2, <1>3, StepKinds

-----------------------------------------------------------------------------
(* The counters.                                                           *)

Balance == total_put_count - total_get_count - total_drop_count
             - size - Cardinality(Pending)

LEMMA PendingTypes ==
  /\ IsFiniteSet(Pending) /\ Cardinality(Pending) \in Nat
  /\ \A t \in Pending : Cardinality(Pending \ {t}) = Cardinality(Pending) - 1
  /\ \A t \in Threads \ Pending : Cardinality(Pending \cup {t}) = Cardinality(Pending) + 1
<1>1. IsFiniteSet(Pending)
  BY ThreadAssumption, FS_Subset DEF Pending
<1>. QED
  BY <1>1, FS_CardinalityType, FS_RemoveElement, FS_AddElement

(* A Put that waits is counted once, when it begins to wait.               *)
LEMMA PendingAfterReturn ==
  ASSUME TypeOK, CallsOK, NEW t \in Threads, NEW places \in {pc, SignalAll},
         Return(t, places)
  PROVE  Pending' = Pending \ {t}
BY DEF TypeOK, Return, Pending, SignalAll, NoCall

LEMMA PendingAfterLoop ==
  ASSUME TypeOK, NEW t \in Threads, NEW c, pc' = [SignalAll EXCEPT ![t] = "entering"],
         call' = [call EXCEPT ![t] = c], call[t].op # "Put"
  PROVE  Pending' = Pending /\ t \notin Pending
BY DEF TypeOK, Pending, SignalAll

LEMMA StoreBalance ==
  ASSUME TypeOK, CallsOK, NEW t \in Threads, NEW n \in Nat, NEW evicted \in 0 .. size,
         n =< Len(call[t].items), n # 0, Locks(t), call[t].op \in PutOps,
         Store(t, n, evicted)
  PROVE  Balance' = Balance
<1>0. /\ total_put_count \in Nat /\ total_get_count \in Nat
      /\ total_drop_count \in Nat /\ size \in Nat /\ evicted \in Nat
      /\ Cardinality(Pending) \in Nat /\ Cardinality(Pending') \in Nat
      /\ Len(call[t].items) \in Nat
  <2>1. size \in Nat /\ Pending' \subseteq Threads
    BY CapacityAssumption DEF TypeOK, Pending
  <2>2. IsFiniteSet(Pending')
    BY <2>1, ThreadAssumption, FS_Subset
  <2>. QED
    BY <2>1, <2>2, PendingTypes, FS_CardinalityType, LenProperties DEF TypeOK, Calls
<1>1. /\ size' = size - evicted + n /\ total_get_count' = total_get_count
      /\ total_drop_count' = total_drop_count + evicted
  BY DEF Store
<1>2. total_put_count' =
        total_put_count + n + Cardinality(Pending') - Cardinality(Pending)
  <2>1. CASE call[t].op = "Put"
    <3>1. n = 1 /\ n = Len(call[t].items)
      <4>1. Len(call[t].items) = 1
        BY <2>1 DEF CallsOK, WellFormed
      <4>. QED
        BY <4>1
    <3>2. Pending' = Pending \ {t}
      BY <3>1, PendingAfterReturn DEF Store
    <3>3. total_put_count' = total_put_count + CountOnEntry(t)
      BY <2>1 DEF Store
    <3>4. CASE t \in Pending
      <4>1. CountOnEntry(t) = 0
        BY <3>4 DEF CountOnEntry, Pending
      <4>2. Cardinality(Pending') = Cardinality(Pending) - 1
        BY <3>2, <3>4, PendingTypes
      <4>. QED
        BY <1>0, <3>1, <3>3, <4>1, <4>2
    <3>5. CASE t \notin Pending
      <4>1. CountOnEntry(t) = 1
        BY <2>1, <3>5 DEF CountOnEntry, Pending, Locks
      <4>2. Pending' = Pending
        BY <3>2, <3>5
      <4>. QED
        BY <1>0, <3>1, <3>3, <4>1, <4>2
    <3>. QED
      BY <3>4, <3>5
  <2>2. CASE call[t].op # "Put"
    <3>1. total_put_count' = total_put_count + n
      BY <2>2 DEF Store
    <3>2. Pending' = Pending
      <4>1. CASE n = Len(call[t].items)
        <5>1. Pending' = Pending \ {t} /\ t \notin Pending
          BY <2>2, <4>1, PendingAfterReturn DEF Store, Pending
        <5>. QED
          BY <5>1
      <4>2. CASE n # Len(call[t].items)
        BY <2>2, <4>2, PendingAfterLoop DEF Store
      <4>. QED
        BY <4>1, <4>2
    <3>. QED
      BY <1>0, <3>1, <3>2
  <2>. QED
    BY <2>1, <2>2
<1>. QED
  BY <1>0, <1>1, <1>2 DEF Balance

LEMMA StepBalance ==
  ASSUME TypeOK, CallsOK, [Next]_vars
  PROVE  \/ FlushCounters
         \/ \E t \in Threads : ThrowClosed(t) \/ ThrowCancelled(t)
         \/ Balance' = Balance
<1>0. /\ total_put_count \in Nat /\ total_get_count \in Nat
      /\ total_drop_count \in Nat /\ size \in 0 .. Capacity
      /\ Cardinality(Pending) \in Nat
  BY PendingTypes DEF TypeOK
<1>1. CASE Begins
  <2>1. PICK t \in Threads, c \in Calls : Begin(t, c)
    BY <1>1 DEF Begins
  <2>2. Pending' = Pending
    BY <2>1 DEF Begin, TypeOK, Pending
  <2>3. UNCHANGED <<size, counters>>
    BY <2>1 DEF Begin, ring
  <2>. QED
    BY <2>2, <2>3 DEF Balance, counters
<1>2. CASE Aside /\ ~FlushCounters
  <2>1. UNCHANGED <<size, counters>>
    BY <1>2 DEF Aside, ring
  <2>2. Pending' = Pending
    BY <1>2 DEF Aside, Pending
  <2>. QED
    BY <2>1, <2>2 DEF Balance, counters
<1>3. ASSUME NEW t \in Threads, Work(t), ~ThrowClosed(t), ~ThrowCancelled(t)
      PROVE  Balance' = Balance
  <2>1. CASE FindsNothing(t)
    <3>1. /\ UNCHANGED <<size, total_get_count, total_drop_count>>
          /\ total_put_count' = total_put_count + CountOnEntry(t)
      BY <2>1 DEF FindsNothing, ring
    <3>2. CASE t \notin Pending /\ call[t].op = "Put"
      <4>1. CountOnEntry(t) = 1
        BY <2>1, <3>2 DEF FindsNothing, Locks, CountOnEntry, Pending
      <4>2. Pending' = Pending \cup {t}
        BY <2>1, <3>2 DEF FindsNothing, TypeOK, Pending
      <4>3. Cardinality(Pending') = Cardinality(Pending) + 1
        BY <3>2, <4>2, PendingTypes
      <4>. QED
        BY <1>0, <3>1, <4>1, <4>3 DEF Balance
    <3>3. CASE t \in Pending \/ call[t].op # "Put"
      <4>1. CountOnEntry(t) = 0
        BY <3>3 DEF CountOnEntry, Pending
      <4>2. Pending' = Pending
        BY <2>1, <3>3 DEF FindsNothing, TypeOK, Pending
      <4>. QED
        BY <1>0, <3>1, <4>1, <4>2 DEF Balance
    <3>. QED
      BY <3>2, <3>3
  <2>2. CASE WaitOnCondVar(t)
    <3>1. UNCHANGED <<size, counters>>
      BY <2>2 DEF WaitOnCondVar, ring
    <3>2. Pending' = Pending
      BY <2>2 DEF WaitOnCondVar, TypeOK, Pending
    <3>. QED
      BY <3>1, <3>2 DEF Balance, counters
  <2>3. CASE PutStores(t) \/ PutKeepsNewest(t)
    BY <2>3, PutsStore, StoreBalance DEF PutStores, PutKeepsNewest
  <2>4. CASE PutDrops(t)
    <3>1. Len(call[t].items) \in Nat
      BY LenProperties DEF TypeOK, Calls
    <3>2. /\ total_put_count' = total_put_count + Len(call[t].items)
          /\ total_drop_count' = total_drop_count + Len(call[t].items)
          /\ UNCHANGED <<size, total_get_count>>
      BY <2>4 DEF PutDrops, ring
    <3>3. t \notin Pending
      BY <2>4 DEF PutDrops, Pending, CallsOK, MayWait
    <3>4. Pending' = Pending
      BY <2>4, <3>3, PendingAfterReturn DEF PutDrops
    <3>. QED
      BY <1>0, <3>1, <3>2, <3>4 DEF Balance
  <2>5. ASSUME NEW n \in 0 .. size, MoveOut(t, n), Pending' = Pending
        PROVE  Balance' = Balance
    <3>1. /\ size' = size - n /\ total_get_count' = total_get_count + n
          /\ UNCHANGED <<total_put_count, total_drop_count>>
      BY <2>5 DEF MoveOut
    <3>2. n \in Nat /\ size \in Nat
      BY <1>0, CapacityAssumption
    <3>. QED
      BY <1>0, <2>5, <3>1, <3>2 DEF Balance
  <2>6. CASE GetTakes(t)
    <3>1. \E n \in 0 .. size : MoveOut(t, n)
      <4>1. MinOf(call[t].need, size) \in 0 .. size
        BY <1>0, CapacityAssumption DEF TypeOK, Calls, MinOf
      <4>. QED
        BY <2>6, <4>1 DEF GetTakes
    <3>2. t \notin Pending /\ call[t].op # "Put"
      BY <2>6 DEF GetTakes, Pending
    <3>3. \/ Return(t, SignalAll)
          \/ \E c : /\ pc' = [SignalAll EXCEPT ![t] = "entering"]
                    /\ call' = [call EXCEPT ![t] = c]
      BY <2>6 DEF GetTakes
    <3>4. Pending' = Pending
      <4>1. CASE Return(t, SignalAll)
        BY <3>2, <4>1, PendingAfterReturn
      <4>2. CASE ~Return(t, SignalAll)
        BY <3>2, <3>3, <4>2, PendingAfterLoop
      <4>. QED
        BY <4>1, <4>2
    <3>. QED
      BY <2>5, <3>1, <3>4
  <2>7. CASE MaybeGet(t) \/ WaitForReturns(t)
    <3>1. t \notin Pending
      BY <2>7 DEF MaybeGet, WaitForReturns, WaitOps, Pending
    <3>2. \E places \in {pc, SignalAll} : Return(t, places)
      BY <2>7 DEF MaybeGet, WaitForReturns
    <3>3. Pending' = Pending
      BY <3>1, <3>2, PendingAfterReturn
    <3>4. \/ UNCHANGED <<size, counters>>
          \/ 1 \in 0 .. size /\ MoveOut(t, 1)
      BY <1>0, <2>7 DEF MaybeGet, WaitForReturns, ring
    <3>. QED
      BY <2>5, <3>3, <3>4 DEF Balance, counters
  <2>. QED
    BY <1>3, <2>1, <2>2, <2>3, <2>4, <2>6, <2>7 DEF Work
<1>. QED
  BY <1>1, <1>2, <1>3, StepKinds

(* Whatever batches, overflow behaviour, closes and cancellations: only a  *)
(* flush of the metrics and a call that throws change the balance of the   *)
(* counters with what is in the queue and in the Puts that wait (Put,      *)
(* PutInternal, Get in queue.h).                                           *)
THEOREM CountersKeepBalance == Spec => CountersBalance
<1>1. TypeOK /\ CallsOK /\ [Next]_vars =>
        [\/ FlushCounters
         \/ \E t \in Threads : ThrowClosed(t) \/ ThrowCancelled(t)
         \/ total_put_count' - total_get_count' - total_drop_count'
               - size' - Cardinality(Pending')
             = total_put_count - total_get_count - total_drop_count
               - size - Cardinality(Pending)]_vars
  BY StepBalance DEF Balance
<1>. QED
  BY <1>1, TypeCorrect, InitCallsOK, NextCallsOK, PTL DEF Spec, CountersBalance

-----------------------------------------------------------------------------
(* The ring.                                                               *)

(* Going round the ring, at most once.                                     *)
LEMMA Mod ==
  ASSUME NEW C \in Nat \ {0}, NEW x \in Nat, x < C
  PROVE  x % C = x /\ (x + C) % C = x
BY SMT

LEMMA Round ==
  ASSUME NEW s \in Slots, NEW k \in 0 .. Capacity
  PROVE  /\ (s + k) % Capacity = IF s + k < Capacity THEN s + k ELSE s + k - Capacity
         /\ (s + k) % Capacity \in Slots
<1>1. CASE s + k < Capacity
  BY <1>1, CapacityAssumption, Mod DEF Slots
<1>2. CASE s + k >= Capacity
  <2>. DEFINE x == s + k - Capacity
  <2>1. x \in Nat /\ x < Capacity /\ s + k = x + Capacity
    BY <1>2, CapacityAssumption DEF Slots
  <2>2. (x + Capacity) % Capacity = x
    BY <2>1, CapacityAssumption, Mod
  <2>. QED
    BY <1>2, <2>1, <2>2, CapacityAssumption DEF Slots
<1>. QED
  BY <1>1, <1>2, CapacityAssumption DEF Slots

LEMMA OffsetRound ==
  ASSUME NEW s \in Slots, NEW from \in Slots
  PROVE  Offset(s, from) = IF s >= from THEN s - from ELSE s - from + Capacity
<1>1. CASE s >= from
  <2>1. s - from \in Nat /\ s - from < Capacity
    BY <1>1, CapacityAssumption DEF Slots
  <2>2. (s - from + Capacity) % Capacity = s - from
    BY <2>1, CapacityAssumption, Mod
  <2>. QED
    BY <1>1, <2>2 DEF Offset
<1>2. CASE s < from
  <2>1. s - from + Capacity \in Nat /\ s - from + Capacity < Capacity
    BY <1>2, CapacityAssumption DEF Slots
  <2>2. (s - from + Capacity) % Capacity = s - from + Capacity
    BY <2>1, CapacityAssumption, Mod
  <2>. QED
    BY <1>2, <2>2, CapacityAssumption DEF Offset, Slots
<1>. QED
  BY <1>1, <1>2, CapacityAssumption DEF Slots

(* The slot of the element that k others are older than.                   *)
Slot(k) == (head + k) % Capacity

(* The next element goes where the ones that are in the ring end.          *)
RingOK == tail = Slot(size)

ContentsOfRing ==
  /\ contents \in Seq(Items \cup {NoItem}) /\ Len(contents) = size
  /\ \A i \in 1 .. size : contents[i] = buffer[Slot(i - 1)]

LEMMA Contents == TypeOK => ContentsOfRing
<1>. SUFFICES ASSUME TypeOK
              PROVE  ContentsOfRing
  OBVIOUS
<1>1. size \in Nat
  BY CapacityAssumption DEF TypeOK
<1>2. \A i \in 1 .. size : Slot(i - 1) = (head + i - 1) % Capacity
  BY CapacityAssumption, <1>1 DEF Slot, TypeOK, Slots
<1>3. \A i \in 1 .. size : buffer[(head + i - 1) % Capacity] \in Items \cup {NoItem}
  <2>. SUFFICES ASSUME NEW i \in 1 .. size
                PROVE  (head + i - 1) % Capacity \in Slots
    BY DEF TypeOK
  <2>. QED
    BY CapacityAssumption, ModRange DEF TypeOK, Slots
<1>4. contents \in Seq(Items \cup {NoItem})
  BY <1>1, <1>3, IsASeq DEF contents
<1>. QED
  BY <1>1, <1>2, <1>4 DEF contents, ContentsOfRing

(* Storing n values when `evicted` make room: the oldest go, the new ones  *)
(* come behind the others, in their order.                                 *)
LEMMA StoreContents ==
  ASSUME TypeOK, RingOK, NEW t \in Threads, NEW n \in Nat, NEW evicted \in 0 .. size,
         n =< Len(call[t].items), size - evicted + n =< Capacity,
         Store(t, n, evicted)
  PROVE  /\ contents' = SubSeq(contents, evicted + 1, Len(contents))
                          \o SubSeq(call[t].items, 1, n)
         /\ RingOK'
<1>. DEFINE items == call[t].items
            kept == SubSeq(contents, evicted + 1, Len(contents))
            new == SubSeq(items, 1, n)
<1>0. /\ head \in Slots /\ tail \in Slots /\ size \in 0 .. Capacity /\ size \in Nat
      /\ Capacity \in Nat \ {0} /\ evicted \in Nat
      /\ items \in Seq(Items) /\ Len(items) \in Nat
      /\ ContentsOfRing /\ ContentsOfRing'
  <2>1. TypeOK'
    BY StoreType
  <2>2. ContentsOfRing /\ ContentsOfRing'
    BY <2>1, Contents, PTL
  <2>. QED
    BY <2>2, CapacityAssumption, LenProperties DEF TypeOK, Calls
<1>1. /\ head' = Slot(evicted) /\ size' = size - evicted + n /\ n =< Capacity
      /\ tail' = (tail + n) % Capacity /\ tail = Slot(size)
      /\ \A s \in Slots : buffer'[s] = IF Offset(s, tail) < n
                                       THEN items[Offset(s, tail) + 1] ELSE buffer[s]
  BY <1>0 DEF Store, Slot, RingOK
<1>. HIDE DEF items
<1>2. /\ kept \in Seq(Items \cup {NoItem}) /\ Len(kept) = size - evicted
      /\ \A i \in 1 .. size - evicted : kept[i] = contents[evicted + i]
  <2>1. /\ contents \in Seq(Items \cup {NoItem}) /\ Len(contents) = size
        /\ evicted + 1 \in 1 .. size + 1
    BY <1>0 DEF ContentsOfRing
  <2>2. evicted + 1 .. size \subseteq 1 .. size
    BY <1>0
  <2>3. /\ kept \in Seq(Items \cup {NoItem})
        /\ Len(kept) = size - (evicted + 1) + 1
        /\ \A i \in 1 .. size - (evicted + 1) + 1 : kept[i] = contents[(evicted + 1) + i - 1]
    BY <1>0, <2>1, SubSeqProperties
  <2>4. \A i \in 1 .. size - evicted : (evicted + 1) + i - 1 = evicted + i
    BY <1>0
  <2>5. size - (evicted + 1) + 1 = size - evicted
    BY <1>0
  <2>. HIDE DEF kept
  <2>. QED
    BY <2>3, <2>4, <2>5
<1>3. /\ new \in Seq(Items) /\ Len(new) = n /\ \A i \in 1 .. n : new[i] = items[i]
  BY <1>0, SubSeqProperties DEF items
<1>. HIDE DEF kept, new
<1>4. /\ contents' \in Seq(Items \cup {NoItem}) /\ Len(contents') = size - evicted + n
      /\ \A i \in 1 .. size - evicted + n : contents'[i] = buffer'[Slot(i - 1)']
  BY <1>0, <1>1 DEF ContentsOfRing
<1>5. RingOK'
  <2>1. /\ tail' = IF tail + n < Capacity THEN tail + n ELSE tail + n - Capacity
        /\ tail = IF head + size < Capacity THEN head + size ELSE head + size - Capacity
        /\ head' = IF head + evicted < Capacity THEN head + evicted
                   ELSE head + evicted - Capacity
        /\ head' \in Slots
    <3>1. n \in 0 .. Capacity /\ evicted \in 0 .. Capacity
      BY <1>0, <1>1
    <3>. QED
      BY <1>0, <1>1, <3>1, Round DEF Slot
  <2>2. Slot(size)' = IF head' + size' < Capacity THEN head' + size'
                      ELSE head' + size' - Capacity
    <3>1. size' \in 0 .. Capacity
      BY <1>0, <1>1
    <3>. QED
      BY <2>1, <3>1, Round DEF Slot
  <2>3. tail' = Slot(size)'
    BY <1>0, <1>1, <2>1, <2>2 DEF Slots
  <2>. QED
    BY <2>3 DEF RingOK
<1>6. ASSUME NEW i \in 1 .. size - evicted + n
      PROVE  contents'[i] = IF i =< size - evicted THEN kept[i]
                            ELSE new[i - (size - evicted)]
  <2>. DEFINE s == Slot(i - 1)'
  <2>1. /\ s = IF head' + (i - 1) < Capacity THEN head' + (i - 1)
               ELSE head' + (i - 1) - Capacity
        /\ s \in Slots
        /\ tail = IF head + size < Capacity THEN head + size ELSE head + size - Capacity
        /\ head' = IF head + evicted < Capacity THEN head + evicted
                   ELSE head + evicted - Capacity
    <3>1. /\ i - 1 \in 0 .. Capacity /\ size \in 0 .. Capacity
          /\ evicted \in 0 .. Capacity /\ head' \in Slots
      BY <1>0, <1>1, Round DEF Slot
    <3>. QED
      BY <1>0, <1>1, <3>1, Round DEF Slot
  <2>2. contents'[i] = buffer'[s]
    BY <1>4
  <2>. HIDE DEF s
  <2>3. Offset(s, tail) = IF s >= tail THEN s - tail ELSE s - tail + Capacity
    BY <1>0, <2>1, OffsetRound
  <2>4. CASE i =< size - evicted
    <3>1. Offset(s, tail) >= n
      <4>1. i \in 1 .. size - evicted
        BY <1>0, <2>4
      <4>2. CASE s >= tail
        <5>1. Offset(s, tail) = s - tail
          BY <2>3, <4>2
        <5>. QED
          BY <1>0, <1>1, <2>1, <4>1, <4>2, <5>1 DEF Slots
      <4>3. CASE ~(s >= tail)
        <5>1. Offset(s, tail) = s - tail + Capacity
          BY <2>3, <4>3
        <5>. QED
          BY <1>0, <1>1, <2>1, <4>1, <4>3, <5>1 DEF Slots
      <4>. QED
        BY <4>2, <4>3
    <3>2. ~(Offset(s, tail) < n)
      BY <1>0, <1>1, <2>1, <2>3, <3>1 DEF Slots
    <3>3. buffer'[s] = buffer[s]
      BY <1>1, <2>1, <3>2
    <3>4. contents[evicted + i] = buffer[Slot(evicted + i - 1)]
      <4>1. evicted + i \in 1 .. size
        BY <1>0, <2>4
      <4>. QED
        BY <1>0, <4>1 DEF ContentsOfRing
    <3>5. Slot(evicted + i - 1) = s
      <4>1. evicted + i - 1 \in 0 .. Capacity
        BY <1>0, <2>4
      <4>2. Slot(evicted + i - 1) =
              IF head + (evicted + i - 1) < Capacity THEN head + (evicted + i - 1)
              ELSE head + (evicted + i - 1) - Capacity
        BY <1>0, <4>1, Round DEF Slot
      <4>. QED
        BY <1>0, <2>1, <2>4, <4>2 DEF Slots
    <3>6. kept[i] = contents[evicted + i]
      BY <1>0, <1>2, <2>4
    <3>. QED
      BY <2>2, <2>4, <3>3, <3>4, <3>5, <3>6
  <2>5. CASE i > size - evicted
    <3>1. Offset(s, tail) = i - (size - evicted) - 1
      BY <1>0, <1>1, <2>1, <2>3, <2>5 DEF Slots
    <3>2. /\ i - (size - evicted) \in 1 .. n
          /\ Offset(s, tail) + 1 = i - (size - evicted) /\ Offset(s, tail) < n
      BY <1>0, <2>5, <3>1
    <3>3. buffer'[s] = items[i - (size - evicted)]
      BY <1>1, <2>1, <3>2
    <3>4. new[i - (size - evicted)] = items[i - (size - evicted)]
      BY <1>3, <3>2
    <3>. QED
      BY <1>0, <2>2, <2>5, <3>3, <3>4
  <2>. QED
    BY <1>0, <2>4, <2>5
<1>7. contents' = kept \o new
  <2>1. kept \in Seq(Items \cup {NoItem}) /\ new \in Seq(Items \cup {NoItem})
    BY <1>2, <1>3
  <2>2. /\ kept \o new \in Seq(Items \cup {NoItem})
        /\ Len(kept \o new) = size - evicted + n
        /\ \A i \in 1 .. size - evicted + n :
             (kept \o new)[i] = IF i =< size - evicted THEN kept[i]
                                ELSE new[i - (size - evicted)]
    <3>1. /\ kept \o new \in Seq(Items \cup {NoItem})
          /\ Len(kept \o new) = Len(kept) + Len(new)
          /\ \A i \in 1 .. Len(kept) + Len(new) :
               (kept \o new)[i] = IF i =< Len(kept) THEN kept[i]
                                  ELSE new[i - Len(kept)]
      BY <2>1, ConcatProperties
    <3>. QED
      BY <1>2, <1>3, <3>1
  <2>. QED
    BY <1>4, <1>6, <2>2, SeqEqual
<1>. QED
  BY <1>5, <1>7 DEF kept, new, items

(* Moving n values out: the oldest go, in their order.                     *)
LEMMA MoveOutContents ==
  ASSUME TypeOK, RingOK, NEW t \in Threads, NEW n \in 0 .. size, MoveOut(t, n), TypeOK'
  PROVE  /\ contents' = SubSeq(contents, n + 1, Len(contents))
         /\ result' = [result EXCEPT ![t] = @ \o SubSeq(contents, 1, n)]
         /\ RingOK'
<1>. DEFINE kept == SubSeq(contents, n + 1, Len(contents))
            first == SubSeq(contents, 1, n)
            moved == [i \in 1 .. n |-> buffer[(head + i - 1) % Capacity]]
<1>0. /\ head \in Slots /\ tail \in Slots /\ size \in 0 .. Capacity /\ size \in Nat
      /\ Capacity \in Nat \ {0} /\ n \in Nat
      /\ ContentsOfRing /\ ContentsOfRing'
  <2>1. ContentsOfRing /\ ContentsOfRing'
    BY Contents, PTL
  <2>. QED
    BY <2>1, CapacityAssumption DEF TypeOK
<1>1. /\ head' = Slot(n) /\ size' = size - n /\ tail' = tail /\ tail = Slot(size)
      /\ \A s \in Slots : buffer'[s] = IF Offset(s, head) < n THEN NoItem ELSE buffer[s]
      /\ result' = [result EXCEPT ![t] = @ \o moved]
  BY <1>0 DEF MoveOut, Slot, RingOK
<1>. HIDE DEF moved
<1>2. /\ contents \in Seq(Items \cup {NoItem}) /\ Len(contents) = size
      /\ \A i \in 1 .. size : contents[i] = buffer[Slot(i - 1)]
  BY <1>0 DEF ContentsOfRing
<1>3. /\ kept \in Seq(Items \cup {NoItem}) /\ Len(kept) = size - n
      /\ \A i \in 1 .. size - n : kept[i] = contents[n + i]
  BY <1>0, <1>2, SubSeqProperties
<1>4. /\ first \in Seq(Items \cup {NoItem}) /\ Len(first) = n
      /\ \A i \in 1 .. n : first[i] = contents[i]
  BY <1>0, <1>2, SubSeqProperties
<1>. HIDE DEF kept, first
<1>5. first = moved
  <2>1. \A i \in 1 .. n : first[i] = buffer[(head + i - 1) % Capacity]
    <3>1. \A i \in 1 .. n : i \in 1 .. size
      BY <1>0
    <3>2. \A i \in 1 .. size : contents[i] = buffer[(head + i - 1) % Capacity]
      BY DEF contents
    <3>. QED
      BY <1>4, <3>1, <3>2
  <2>2. first \in [1 .. n -> Items \cup {NoItem}]
    BY <1>4, LenProperties
  <2>. QED
    BY <2>1, <2>2 DEF moved
<1>6. /\ contents' \in Seq(Items \cup {NoItem}) /\ Len(contents') = size - n
      /\ \A i \in 1 .. size - n : contents'[i] = buffer'[Slot(i - 1)']
  BY <1>0, <1>1 DEF ContentsOfRing
<1>7. /\ tail = IF head + size < Capacity THEN head + size ELSE head + size - Capacity
      /\ head' = IF head + n < Capacity THEN head + n ELSE head + n - Capacity
      /\ head' \in Slots
  BY <1>0, <1>1, Round DEF Slot
<1>8. RingOK'
  <2>1. size' \in 0 .. Capacity
    BY <1>0, <1>1
  <2>2. Slot(size)' = IF head' + size' < Capacity THEN head' + size'
                      ELSE head' + size' - Capacity
    BY <1>7, <2>1, Round DEF Slot
  <2>3. tail' = Slot(size)'
    BY <1>0, <1>1, <1>7, <2>2 DEF Slots
  <2>. QED
    BY <2>3 DEF RingOK
<1>9. ASSUME NEW i \in 1 .. size - n
      PROVE  contents'[i] = kept[i]
  <2>. DEFINE s == Slot(i - 1)'
  <2>1. /\ s = IF head' + (i - 1) < Capacity THEN head' + (i - 1)
               ELSE head' + (i - 1) - Capacity
        /\ s \in Slots
    <3>1. i - 1 \in 0 .. Capacity
      BY <1>0
    <3>. QED
      BY <1>7, <3>1, Round DEF Slot
  <2>2. contents'[i] = buffer'[s]
    BY <1>6
  <2>3. Slot(n + i - 1) = s /\ n + i \in 1 .. size
    <3>1. n + i - 1 \in 0 .. Capacity /\ n + i \in 1 .. size
      BY <1>0
    <3>2. Slot(n + i - 1) =
            IF head + (n + i - 1) < Capacity THEN head + (n + i - 1)
            ELSE head + (n + i - 1) - Capacity
      BY <1>0, <3>1, Round DEF Slot
    <3>. HIDE DEF s
    <3>. QED
      BY <1>0, <1>7, <2>1, <3>1, <3>2 DEF Slots
  <2>. HIDE DEF s
  <2>4. ~(Offset(s, head) < n)
    <3>1. Offset(s, head) = IF s >= head THEN s - head ELSE s - head + Capacity
      BY <1>0, <2>1, OffsetRound
    <3>. QED
      BY <1>0, <1>7, <2>1, <3>1 DEF Slots
  <2>5. buffer'[s] = buffer[s]
    BY <1>1, <2>1, <2>4
  <2>6. kept[i] = buffer[Slot(n + i - 1)]
    BY <1>2, <1>3, <2>3
  <2>. QED
    BY <2>2, <2>3, <2>5, <2>6
<1>10. contents' = kept
  BY <1>3, <1>6, <1>9, SeqEqual
<1>. QED
  BY <1>1, <1>5, <1>8, <1>10 DEF kept, first

-----------------------------------------------------------------------------
(* The ring implements the channel.                                        *)

(* What the channel sees of the calls.                                     *)
outbox == [t \in Threads |-> call[t].items]

LEMMA OutboxAfterStep ==
  ASSUME TypeOK, NEW t \in Threads, NEW c, call' = [call EXCEPT ![t] = c]
  PROVE  outbox' = [outbox EXCEPT ![t] = c.items] /\ outbox'[t] = c.items
BY DEF TypeOK, outbox

(* A thread that returns has nothing left to send.                         *)
LEMMA OutboxAfterReturn ==
  ASSUME TypeOK, NEW t \in Threads, NEW places, Return(t, places)
  PROVE  outbox' = [outbox EXCEPT ![t] = <<>>]
BY DEF TypeOK, Return, NoCall, outbox

LEMMA InitChannel == Init => Queue!Init /\ RingOK
<1>. SUFFICES ASSUME Init
              PROVE  Queue!Init /\ RingOK
  OBVIOUS
<1>1. contents = <<>>
  BY DEF Init, contents
<1>2. outbox = [t \in Threads |-> <<>>]
  BY DEF Init, NoCall, outbox
<1>3. RingOK
  BY CapacityAssumption, Mod DEF Init, RingOK, Slot
<1>. QED
  BY <1>1, <1>2, <1>3 DEF Init, Queue!Init, outbox

(* Steps that leave the ring, what a thread has to send and what it has    *)
(* received are steps of the channel only if they close it.                *)
LEMMA StutterChannel ==
  ASSUME UNCHANGED <<overflow_behavior, ring, result, outbox>>, closed \in BOOLEAN,
         closed' \in BOOLEAN, closed => closed'
  PROVE  [Queue!Next]_(Queue!vars)
<1>1. contents' = contents
  BY DEF contents, ring
<1>2. CASE closed' = closed
  BY <1>1, <1>2 DEF Queue!vars, outbox
<1>3. CASE closed' # closed
  BY <1>1, <1>3 DEF Queue!Next, Queue!Shut, outbox
<1>. QED
  BY <1>2, <1>3

LEMMA StepChannel ==
  ASSUME TypeOK, TypeOK', CallsOK, RingOK, [Next]_vars
  PROVE  [Queue!Next]_(Queue!vars) /\ RingOK'
<1>0. closed \in BOOLEAN /\ closed' \in BOOLEAN /\ size \in Nat
      /\ ContentsOfRing /\ Len(contents) = size
  BY CapacityAssumption, Contents DEF TypeOK, ContentsOfRing
<1>1. ASSUME UNCHANGED ring
      PROVE  RingOK' /\ contents' = contents
  BY <1>1 DEF ring, RingOK, Slot, contents
<1>2. CASE Begins
  <2>1. PICK t \in Threads, c \in Calls : WellFormed(c) /\ Begin(t, c)
    BY <1>2 DEF Begins
  <2>2. /\ UNCHANGED <<overflow_behavior, ring, closed>>
        /\ call' = [call EXCEPT ![t] = c] /\ result' = [result EXCEPT ![t] = <<>>]
        /\ call[t] = NoCall
    BY <2>1 DEF Begin, CallsOK
  <2>3. /\ outbox[t] = <<>> /\ outbox'[t] = c.items /\ c.items \in Seq(Items)
        /\ outbox' = [outbox EXCEPT ![t] = c.items]
    <3>1. outbox[t] = <<>>
      BY <2>2 DEF NoCall, outbox
    <3>2. c.items \in Seq(Items)
      BY DEF Calls
    <3>. QED
      BY <2>2, <3>1, <3>2, OutboxAfterStep
  <2>4. contents' = contents /\ RingOK'
    BY <1>1, <2>2
  <2>5. Queue!Start(t)
    BY <2>2, <2>3, <2>4 DEF Queue!Start, outbox
  <2>. QED
    BY <2>4, <2>5 DEF Queue!Next
<1>3. CASE Aside
  <2>1. /\ UNCHANGED <<overflow_behavior, ring, result, outbox>>
        /\ closed => closed'
    BY <1>3 DEF Aside, outbox
  <2>. QED
    BY <1>0, <1>1, <2>1, StutterChannel
<1>4. ASSUME NEW t \in Threads, Work(t)
      PROVE  [Queue!Next]_(Queue!vars) /\ RingOK'
  <2>0. UNCHANGED <<overflow_behavior, closed>>
    BY <1>4 DEF Work, ThrowClosed, ThrowCancelled, FindsNothing, WaitOnCondVar,
         PutStores, PutDrops, PutKeepsNewest, Store, GetTakes, MaybeGet, MoveOut,
         WaitForReturns
  <2>1. ASSUME call[t].op \notin PutOps
        PROVE  outbox[t] = <<>>
    BY <2>1 DEF CallsOK, WellFormed, outbox
  <2>2. CASE ThrowClosed(t) \/ ThrowCancelled(t) \/ PutDrops(t)
    <3>1. UNCHANGED <<ring, result>> /\ Return(t, pc)
      BY <2>2 DEF ThrowClosed, ThrowCancelled, PutDrops
    <3>2. outbox' = [outbox EXCEPT ![t] = <<>>]
      BY <3>1, OutboxAfterReturn
    <3>3. contents' = contents /\ RingOK'
      BY <1>1, <3>1
    <3>4. CASE closed \/ size = Capacity
      <4>1. Queue!Abandon(t)
        BY <1>0, <2>0, <3>1, <3>2, <3>3, <3>4 DEF Queue!Abandon, outbox
      <4>. QED
        BY <3>3, <4>1 DEF Queue!Next
    <3>5. CASE ~closed /\ size # Capacity
      <4>1. call[t].op \notin PutOps
        <5>1. ThrowCancelled(t)
          BY <2>2, <3>5 DEF ThrowClosed, PutDrops
        <5>2. ~Ready(call[t]) /\ size < Capacity
          BY <3>5, <5>1, CapacityAssumption DEF ThrowCancelled, TypeOK
        <5>. QED
          BY <5>2 DEF Ready, CanPutOne
      <4>2. outbox' = outbox
        BY <2>1, <3>2, <4>1 DEF outbox
      <4>. QED
        BY <1>0, <2>0, <3>1, <3>3, <4>2, StutterChannel
    <3>. QED
      BY <3>4, <3>5
  <2>3. CASE FindsNothing(t) \/ WaitOnCondVar(t)
    <3>1. UNCHANGED <<ring, result, call>>
      BY <2>3 DEF FindsNothing, WaitOnCondVar
    <3>2. outbox' = outbox
      BY <3>1 DEF outbox
    <3>. QED
      BY <1>0, <1>1, <2>0, <3>1, <3>2, StutterChannel
  <2>4. CASE PutStores(t) \/ PutKeepsNewest(t)
    <3>1. /\ call[t].items \in Seq(Items) /\ ~closed
          /\ \E n \in Nat, evicted \in 0 .. size :
               /\ n # 0 /\ n =< Len(call[t].items) /\ size - evicted + n =< Capacity
               /\ evicted > 0 => overflow_behavior = "KEEP_NEWEST"
               /\ Store(t, n, evicted)
      BY <2>4, PutsStore
    <3>2. PICK n \in Nat, evicted \in 0 .. size :
            /\ n # 0 /\ n =< Len(call[t].items) /\ size - evicted + n =< Capacity
            /\ evicted > 0 => overflow_behavior = "KEEP_NEWEST"
            /\ Store(t, n, evicted)
      BY <3>1
    <3>3. /\ contents' = Queue!Skip(evicted, contents) \o Queue!Take(n, outbox[t])
          /\ RingOK'
      BY <3>2, StoreContents DEF Queue!Skip, Queue!Take, outbox
    <3>4. outbox' = [outbox EXCEPT ![t] = Queue!Skip(n, outbox[t])]
      <4>1. CASE n = Len(call[t].items)
        <5>1. outbox' = [outbox EXCEPT ![t] = <<>>]
          BY <3>2, <4>1, OutboxAfterReturn DEF Store
        <5>2. SubSeq(call[t].items, n + 1, Len(call[t].items)) = <<>>
          BY <3>1, <4>1, SubSeqEmpty
        <5>. QED
          BY <5>1, <5>2 DEF Queue!Skip, outbox
      <4>2. CASE n # Len(call[t].items)
        <5>. DEFINE c == Remainder(t, SubSeq(call[t].items, n + 1, Len(call[t].items)), 0)
        <5>1. call' = [call EXCEPT ![t] = c]
          BY <3>2, <4>2 DEF Store
        <5>2. c.items = Queue!Skip(n, outbox[t])
          BY DEF Remainder, Queue!Skip, outbox
        <5>. HIDE DEF c
        <5>. QED
          BY <5>1, <5>2, OutboxAfterStep
      <4>. QED
        BY <4>1, <4>2
    <3>5. Len(contents') =< Capacity
      <4>1. ContentsOfRing'
        BY Contents, PTL
      <4>. QED
        BY <4>1, CapacityAssumption DEF ContentsOfRing, TypeOK
    <3>6. n \in 1 .. Len(outbox[t]) /\ evicted \in 0 .. Len(contents)
      BY <1>0, <3>1, <3>2, LenProperties DEF outbox
    <3>7. Queue!Send(t)
      <4>1. evicted > 0 => overflow_behavior = "KEEP_NEWEST"
        BY <3>2
      <4>2. UNCHANGED result
        BY <3>2 DEF Store
      <4>. QED
        BY <2>0, <3>1, <3>3, <3>4, <3>5, <3>6, <4>1, <4>2 DEF Queue!Send, outbox
    <3>. QED
      BY <3>3, <3>7 DEF Queue!Next
  <2>5. ASSUME NEW n \in 1 .. size, MoveOut(t, n), outbox' = outbox
        PROVE  [Queue!Next]_(Queue!vars) /\ RingOK'
    <3>1. n \in 0 .. size /\ n \in 1 .. Len(contents)
      BY <1>0, <2>5
    <3>2. /\ contents' = Queue!Skip(n, contents)
          /\ result' = [result EXCEPT ![t] = @ \o Queue!Take(n, contents)]
          /\ RingOK'
      BY <2>5, <3>1, MoveOutContents DEF Queue!Skip, Queue!Take
    <3>3. Queue!Receive(t)
      BY <2>0, <2>5, <3>1, <3>2 DEF Queue!Receive, outbox
    <3>. QED
      BY <3>2, <3>3 DEF Queue!Next
  <2>6. CASE GetTakes(t)
    <3>. DEFINE n == MinOf(call[t].need, size)
    <3>1. MoveOut(t, n) /\ size > 0
      BY <2>6 DEF GetTakes
    <3>2. outbox' = outbox
      <4>1. outbox[t] = <<>>
        BY <2>1, <2>6 DEF GetTakes, PutOps
      <4>2. \E c : call' = [call EXCEPT ![t] = c] /\ c.items = <<>>
        <5>1. \/ call' = [call EXCEPT ![t] = NoCall]
              \/ call' = [call EXCEPT ![t] = Remainder(t, <<>>, call[t].need - n)]
          BY <2>6 DEF GetTakes, Return
        <5>2. NoCall.items = <<>> /\ Remainder(t, <<>>, call[t].need - n).items = <<>>
          BY DEF NoCall, Remainder
        <5>. QED
          BY <5>1, <5>2
      <4>3. PICK c : call' = [call EXCEPT ![t] = c] /\ c.items = <<>>
        BY <4>2
      <4>4. outbox' = [outbox EXCEPT ![t] = <<>>]
        BY <4>3, OutboxAfterStep
      <4>. QED
        BY <4>1, <4>4 DEF outbox
    <3>3. n \in 1 .. size
      BY <1>0, <3>1, <2>6 DEF GetTakes, CallsOK, WellFormed, MinOf, TypeOK, Calls
    <3>. HIDE DEF n
    <3>. QED
      BY <2>5, <3>1, <3>2, <3>3
  <2>7. CASE MaybeGet(t) \/ WaitForReturns(t)
    <3>1. outbox[t] = <<>> /\ \E places : Return(t, places)
      BY <2>1, <2>7 DEF MaybeGet, WaitForReturns, PutOps, WaitOps
    <3>2. outbox' = outbox
      <4>1. outbox' = [outbox EXCEPT ![t] = <<>>]
        BY <3>1, OutboxAfterReturn
      <4>. QED
        BY <3>1, <4>1 DEF outbox
    <3>3. \/ UNCHANGED <<ring, result>>
          \/ 1 \in 1 .. size /\ MoveOut(t, 1)
      BY <1>0, <2>7 DEF MaybeGet, WaitForReturns
    <3>. QED
      BY <1>0, <1>1, <2>0, <2>5, <3>2, <3>3, StutterChannel
  <2>. QED
    BY <1>4, <2>2, <2>3, <2>4, <2>6, <2>7 DEF Work
<1>. QED
  BY <1>2, <1>3, <1>4, StepKinds

(* Whatever the threads, batches, overflow behaviour, wraps of the ring,   *)
(* closes and cancellations, class Queue of queue.h is a first-in          *)
(* first-out channel.                                                      *)
THEOREM RingImplementsChannel == Spec => ImplementsChannel
<1>1. Init => Queue!Init /\ RingOK /\ CallsOK
  BY InitChannel, InitCallsOK
<1>2. TypeOK /\ TypeOK' /\ CallsOK /\ RingOK /\ [Next]_vars =>
        [Queue!Next]_(Queue!vars) /\ RingOK'
  BY StepChannel
<1>3. TypeOK /\ CallsOK /\ [Next]_vars => CallsOK'
  BY NextCallsOK
<1>. QED
  BY <1>1, <1>2, <1>3, TypeCorrect, PTL DEF Spec, ImplementsChannel, Queue!Spec
=============================================================================
