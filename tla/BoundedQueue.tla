---------------------------- MODULE BoundedQueue ----------------------------
(***************************************************************************)
(* The queue every pair of pipeline stages shares: class Queue<T> of       *)
(* csrc/utils/queue.h.  A ring buffer under one mutex and one condition    *)
(* variable, put into through producer tokens, with batch operations,      *)
(* three overflow behaviours, closing, and cancellation by stop tokens.    *)
(*                                                                         *)
(* A critical section of mutex_ is one step, except where it ends in       *)
(* cond_var_.Wait: the test of the wait loop and the wait are two steps,   *)
(* because a stop callback signals without taking the mutex.               *)
(***************************************************************************)
EXTENDS Integers, Sequences, FiniteSets

CONSTANTS Producers,  \* the threads that create producer tokens and put
          Consumers,  \* the threads that get and wait
          Stoppable,  \* the threads that pass a stop token to their calls
          Items,      \* the values put into the queue
          NoItem,     \* what a slot holds before its first value and after a move
          Capacity,   \* capacity_
          Batches,    \* bound: the sequences of values a call puts
          GetSizes,   \* bound: the numbers of elements a call gets
          Waits       \* bound: the <<condition, threshold>> pairs a call waits for

Threads == Producers \cup Consumers
WaitOps == {"RoomAtLeast", "RoomAtMost", "SizeAtLeast", "SizeAtMost"}

ASSUME ThreadAssumption == IsFiniteSet(Threads) /\ Stoppable \subseteq Threads
ASSUME CapacityAssumption == Capacity \in Nat \ {0}
ASSUME ItemAssumption == NoItem \notin Items
ASSUME BoundAssumption == /\ Batches \subseteq Seq(Items) \ {<<>>}
                          /\ GetSizes \subseteq Nat \ {0}
                          /\ Waits \subseteq WaitOps \X Nat

VARIABLES
  overflow_behavior,  \* overflow_behavior_, fixed when the queue is constructed
  buffer,             \* buffer_: the slots of the ring
  head, tail, size,   \* head_, tail_, size_
  token,              \* token[t]: thread t holds a live Producer
  producer_count,     \* producer_count_
  closed,             \* closed_
  total_put_count, total_get_count, total_drop_count,
  pc,                 \* where thread t is in its call
  call,               \* what the call of thread t still has to do
  result,             \* what the Get of thread t has moved out so far
  stop                \* the state of thread t's stop token

counters == <<total_put_count, total_get_count, total_drop_count>>
ring == <<buffer, head, tail, size>>
tokens == <<token, producer_count>>
vars == <<overflow_behavior, ring, tokens, closed, counters, pc, call, result, stop>>

Slots == 0 .. Capacity - 1
OverflowBehavior == {"BLOCK", "DROP_NEW", "KEEP_NEWEST"}

PutOps == {"Put", "PutBatch"}
Calls == [op : PutOps \cup WaitOps \cup {"Get", "MaybeGet", "none"},
          items : Seq(Items), need : Nat]
NoCall == [op |-> "none", items |-> <<>>, need |-> 0]

(* idle:     outside any call                                              *)
(* entering: about to lock mutex_, at the start of a call or of the next   *)
(*           iteration of a batch                                          *)
(* checked:  holds mutex_, has found nothing to do, is about to wait       *)
(* waiting:  asleep on cond_var_                                           *)
(* woken:    signalled, has to lock mutex_ again                           *)
Places == {"idle", "entering", "checked", "waiting", "woken"}

MinOf(a, b) == IF a =< b THEN a ELSE b

-----------------------------------------------------------------------------
(* Conditions.                                                             *)

MutexFree == \A t \in Threads : pc[t] # "checked"

StopRequested(t) == stop[t] # "no"

CanPutOne == closed \/ size < Capacity
CanGet == closed \/ size > 0
HasRoomAtLeast(room) == Capacity - size >= room
HasRoomAtMost(room) == Capacity - size =< room
HasSizeAtLeast(n) == size >= n
HasSizeAtMost(n) == size =< n

(* The condition that ends the wait loop of the call c.                    *)
Ready(c) == \/ c.op \in PutOps /\ CanPutOne
            \/ c.op = "Get" /\ CanGet
            \/ c.op = "RoomAtLeast" /\ HasRoomAtLeast(c.need)
            \/ c.op = "RoomAtMost" /\ HasRoomAtMost(c.need)
            \/ c.op = "SizeAtLeast" /\ HasSizeAtLeast(c.need)
            \/ c.op = "SizeAtMost" /\ HasSizeAtMost(c.need)

(* Only a blocking queue makes a Put wait.                                 *)
MayWait(c) == /\ c.op # "MaybeGet"
              /\ c.op \in PutOps => overflow_behavior = "BLOCK"

(* Mutant of SignalAll: only one waiter is woken.                           *)
SignalOne == IF \E t \in Threads : pc[t] = "waiting"
             THEN [pc EXCEPT ![CHOOSE t \in Threads : pc[t] = "waiting"] = "woken"]
             ELSE pc

(* cond_var_.SignalAll, as it changes pc.                                   *)
SignalAll == [t \in Threads |-> IF pc[t] = "waiting" THEN "woken" ELSE pc[t]]

(* How far slot s lies after slot `from`, going round the ring.            *)
Offset(s, from) == (s - from + Capacity) % Capacity

-----------------------------------------------------------------------------
Init ==
  /\ overflow_behavior \in OverflowBehavior
  /\ buffer = [s \in Slots |-> NoItem]
  /\ head = 0 /\ tail = 0 /\ size = 0
  /\ token = [t \in Threads |-> FALSE]
  /\ producer_count = 0
  /\ closed = FALSE
  /\ total_put_count = 0 /\ total_get_count = 0 /\ total_drop_count = 0
  /\ pc = [t \in Threads |-> "idle"]
  /\ call = [t \in Threads |-> NoCall]
  /\ result = [t \in Threads |-> <<>>]
  /\ stop = [t \in Threads |-> "no"]

-----------------------------------------------------------------------------
(* Calls begin.  The environment decides which thread calls what.          *)

Begin(t, c) ==
  /\ pc[t] = "idle"
  /\ pc' = [pc EXCEPT ![t] = "entering"]
  /\ call' = [call EXCEPT ![t] = c]
  /\ result' = [result EXCEPT ![t] = <<>>]
  /\ UNCHANGED <<overflow_behavior, ring, tokens, closed, counters, stop>>

BeginPut(t, items) ==
  /\ token[t]
  /\ \/ Len(items) = 1 /\ Begin(t, [op |-> "Put", items |-> items, need |-> 0])
     \/ Begin(t, [op |-> "PutBatch", items |-> items, need |-> 0])

BeginGet(t, n) ==
  Begin(t, [op |-> "Get", items |-> <<>>, need |-> n])

BeginMaybeGet(t) ==
  Begin(t, [op |-> "MaybeGet", items |-> <<>>, need |-> 1])

BeginWaitFor(t, w) == Begin(t, [op |-> w[1], items |-> <<>>, need |-> w[2]])

-----------------------------------------------------------------------------
(* Inside a call.                                                          *)

(* Thread t locks mutex_ at the start of an iteration or after a wait.     *)
Locks(t) == pc[t] \in {"entering", "woken"} /\ MutexFree

(* Mutant of CountOnEntry: every iteration of the wait loop counts.         *)
CountOnEveryTry(t) == IF call[t].op = "Put" THEN 1 ELSE 0

(* A single Put counts its element before it waits for room, once.         *)
CountOnEntry(t) == IF call[t].op = "Put" /\ pc[t] = "entering" THEN 1 ELSE 0

Return(t, places) ==
  /\ pc' = [places EXCEPT ![t] = "idle"]
  /\ call' = [call EXCEPT ![t] = NoCall]

(* QueueClosedException.  A Get throws only when nothing is left to get;   *)
(* what an interrupted batch has already moved out is not given back.      *)
ThrowClosed(t) ==
  /\ Locks(t)
  /\ closed
  /\ \/ call[t].op \in PutOps
     \/ call[t].op = "Get" /\ size = 0
     \/ call[t].op \in WaitOps /\ ~Ready(call[t])
  /\ Return(t, pc)
  /\ UNCHANGED <<overflow_behavior, ring, tokens, closed, counters, result, stop>>

(* QueueRequestCancelled.                                                  *)
ThrowCancelled(t) ==
  /\ Locks(t)
  /\ MayWait(call[t]) /\ ~Ready(call[t]) /\ ~closed
  /\ StopRequested(t)
  /\ Return(t, pc)
  /\ total_put_count' = total_put_count + CountOnEntry(t)
  /\ UNCHANGED <<overflow_behavior, ring, tokens, closed, total_get_count,
                 total_drop_count, result, stop>>

(* Nothing to do and no stop requested: the thread is about to wait.       *)
FindsNothing(t) ==
  /\ Locks(t)
  /\ MayWait(call[t]) /\ ~Ready(call[t]) /\ ~closed
  /\ ~StopRequested(t)
  /\ pc' = [pc EXCEPT ![t] = "checked"]
  /\ total_put_count' = total_put_count + CountOnEntry(t)
  /\ UNCHANGED <<overflow_behavior, ring, tokens, closed, total_get_count,
                 total_drop_count, call, result, stop>>

(* cond_var_.Wait releases mutex_ and sleeps.                              *)
WaitOnCondVar(t) ==
  /\ pc[t] = "checked"
  /\ pc' = [pc EXCEPT ![t] = "waiting"]
  /\ UNCHANGED <<overflow_behavior, ring, tokens, closed, counters, call, result, stop>>

SpuriousWakeup(t) ==
  /\ pc[t] = "waiting"
  /\ pc' = [pc EXCEPT ![t] = "woken"]
  /\ UNCHANGED <<overflow_behavior, ring, tokens, closed, counters, call, result, stop>>

(* What is left of a batch for the next iteration of its loop.             *)
Remainder(t, items, need) == [op |-> call[t].op, items |-> items, need |-> need]

(* The first n items of the call go into the ring after `evicted` slots    *)
(* were freed at its head; the rest is for the next iteration.             *)
Store(t, n, evicted) ==
  LET items == call[t].items
  IN /\ buffer' = [s \in Slots |-> IF Offset(s, tail) < n
                                   THEN items[Offset(s, tail) + 1] ELSE buffer[s]]
     /\ head' = (head + evicted) % Capacity
     /\ tail' = (tail + n) % Capacity
     /\ size' = size - evicted + n
     /\ total_put_count' = total_put_count
                           + (IF call[t].op = "Put" THEN CountOnEntry(t) ELSE n)
     /\ total_drop_count' = total_drop_count + evicted
     /\ IF n = Len(items)
        THEN Return(t, SignalAll)
        ELSE /\ pc' = [SignalAll EXCEPT ![t] = "entering"]
             /\ call' = [call EXCEPT ![t] = Remainder(t, SubSeq(items, n + 1, Len(items)), 0)]
     /\ UNCHANGED <<overflow_behavior, tokens, closed, total_get_count, result, stop>>

(* There is room (BLOCK, DROP_NEW): as much of the batch as fits.          *)
PutStores(t) ==
  /\ Locks(t)
  /\ call[t].op \in PutOps
  /\ ~closed
  /\ overflow_behavior # "KEEP_NEWEST"
  /\ size < Capacity
  /\ Store(t, MinOf(Len(call[t].items), Capacity - size), 0)

(* DROP_NEW and no room: all that remains of the batch is dropped.         *)
PutDrops(t) ==
  /\ Locks(t)
  /\ call[t].op \in PutOps
  /\ ~closed
  /\ overflow_behavior = "DROP_NEW"
  /\ size = Capacity
  /\ total_put_count' = total_put_count + Len(call[t].items)
  /\ total_drop_count' = total_drop_count + Len(call[t].items)
  /\ Return(t, pc)
  /\ UNCHANGED <<overflow_behavior, ring, tokens, closed, total_get_count, result, stop>>

(* Mutant of Excess: one slot is freed, whatever the size of the batch.     *)
ExcessOfOne(n) == IF size = Capacity THEN 1 ELSE 0

(* How many of the oldest elements make room for n new ones.               *)
Excess(n) == IF size + n > Capacity THEN size + n - Capacity ELSE 0

(* KEEP_NEWEST: the oldest elements make room.                             *)
PutKeepsNewest(t) ==
  /\ Locks(t)
  /\ call[t].op \in PutOps
  /\ ~closed
  /\ overflow_behavior = "KEEP_NEWEST"
  /\ LET n == MinOf(Len(call[t].items), Capacity)
     IN Store(t, n, Excess(n))

(* Mutant of MoveOut: the head advances by one, whatever was taken.         *)
MoveOutAdvancingByOne(t, n) ==
  /\ buffer' = [s \in Slots |-> IF Offset(s, head) < n THEN NoItem ELSE buffer[s]]
  /\ result' = [result EXCEPT
                  ![t] = @ \o [i \in 1 .. n |-> buffer[(head + i - 1) % Capacity]]]
  /\ head' = (head + 1) % Capacity
  /\ size' = size - n
  /\ total_get_count' = total_get_count + n
  /\ UNCHANGED <<overflow_behavior, tail, tokens, closed, total_put_count,
                 total_drop_count, stop>>

(* Thread t moves the n oldest elements out.                               *)
MoveOut(t, n) ==
  /\ buffer' = [s \in Slots |-> IF Offset(s, head) < n THEN NoItem ELSE buffer[s]]
  /\ result' = [result EXCEPT
                  ![t] = @ \o [i \in 1 .. n |-> buffer[(head + i - 1) % Capacity]]]
  /\ head' = (head + n) % Capacity
  /\ size' = size - n
  /\ total_get_count' = total_get_count + n
  /\ UNCHANGED <<overflow_behavior, tail, tokens, closed, total_put_count,
                 total_drop_count, stop>>

(* Get takes what there is, up to what it still needs.                     *)
GetTakes(t) ==
  /\ Locks(t)
  /\ call[t].op = "Get"
  /\ size > 0
  /\ LET n == MinOf(call[t].need, size)
     IN /\ MoveOut(t, n)
        /\ IF n = call[t].need
           THEN Return(t, SignalAll)
           ELSE /\ pc' = [SignalAll EXCEPT ![t] = "entering"]
                /\ call' = [call EXCEPT ![t] = Remainder(t, <<>>, call[t].need - n)]

(* MaybeGet never waits; it returns nullopt when there is nothing to get.  *)
MaybeGet(t) ==
  /\ Locks(t)
  /\ call[t].op = "MaybeGet"
  /\ IF size = 0
     THEN /\ Return(t, pc)
          /\ UNCHANGED <<overflow_behavior, ring, tokens, closed, counters, result, stop>>
     ELSE MoveOut(t, 1) /\ Return(t, SignalAll)

WaitForReturns(t) ==
  /\ Locks(t)
  /\ call[t].op \in WaitOps
  /\ Ready(call[t])
  /\ Return(t, pc)
  /\ UNCHANGED <<overflow_behavior, ring, tokens, closed, counters, result, stop>>

-----------------------------------------------------------------------------
(* Calls that are one critical section and hand nothing out.               *)

Close(t) ==
  /\ pc[t] = "idle" /\ MutexFree
  /\ ~closed
  /\ closed' = TRUE
  /\ pc' = SignalAll
  /\ UNCHANGED <<overflow_behavior, ring, tokens, counters, call, result, stop>>

CreateProducer(t) ==
  /\ pc[t] = "idle" /\ MutexFree
  /\ ~closed
  /\ ~token[t]
  /\ token' = [token EXCEPT ![t] = TRUE]
  /\ producer_count' = producer_count + 1
  /\ UNCHANGED <<overflow_behavior, ring, closed, counters, pc, call, result, stop>>

(* The token of t is closed or destroyed; the last one closes the queue.   *)
RemoveProducer(t) ==
  /\ pc[t] = "idle" /\ MutexFree
  /\ token[t]
  /\ token' = [token EXCEPT ![t] = FALSE]
  /\ producer_count' = producer_count - 1
  /\ IF producer_count' = 0 /\ ~closed
     THEN closed' = TRUE /\ pc' = SignalAll
     ELSE UNCHANGED <<closed, pc>>
  /\ UNCHANGED <<overflow_behavior, ring, counters, call, result, stop>>

(* The metrics thread reads the counters and resets them, one at a time.   *)
FlushCounters ==
  /\ MutexFree
  /\ \/ total_put_count > 0 /\ total_put_count' = 0
        /\ UNCHANGED <<total_get_count, total_drop_count>>
     \/ total_get_count > 0 /\ total_get_count' = 0
        /\ UNCHANGED <<total_put_count, total_drop_count>>
     \/ total_drop_count > 0 /\ total_drop_count' = 0
        /\ UNCHANGED <<total_put_count, total_get_count>>
  /\ UNCHANGED <<overflow_behavior, ring, tokens, closed, pc, call, result, stop>>

-----------------------------------------------------------------------------
(* Cancellation.                                                           *)

RequestStop(t) ==
  /\ t \in Stoppable
  /\ stop[t] = "no"
  /\ stop' = [stop EXCEPT ![t] = "requested"]
  /\ UNCHANGED <<overflow_behavior, ring, tokens, closed, counters, pc, call, result>>

(* The stop callback of t's call, if one is registered, signals cond_var_. *)
(* It does not take mutex_.                                                *)
StopCallback(t) ==
  /\ stop[t] = "requested"
  /\ stop' = [stop EXCEPT ![t] = "delivered"]
  /\ pc' = IF pc[t] \in {"checked", "waiting", "woken"} THEN SignalAll ELSE pc
  /\ UNCHANGED <<overflow_behavior, ring, tokens, closed, counters, call, result>>

-----------------------------------------------------------------------------
Work(t) ==
  \/ ThrowClosed(t) \/ ThrowCancelled(t) \/ FindsNothing(t) \/ WaitOnCondVar(t)
  \/ PutStores(t) \/ PutDrops(t) \/ PutKeepsNewest(t)
  \/ GetTakes(t) \/ MaybeGet(t) \/ WaitForReturns(t)

Produce(t) ==
  \/ CreateProducer(t) \/ RemoveProducer(t)
  \/ \E items \in Batches : BeginPut(t, items)

Consume(t) ==
  \/ BeginMaybeGet(t)
  \/ \E n \in GetSizes : BeginGet(t, n)
  \/ \E w \in Waits : BeginWaitFor(t, w)

Next == \/ \E t \in Producers : Produce(t)
        \/ \E t \in Consumers : Consume(t)
        \/ \E t \in Threads : \/ Work(t) \/ Close(t) \/ SpuriousWakeup(t)
                             \/ RequestStop(t) \/ StopCallback(t)
        \/ FlushCounters

Spec == Init /\ [][Next]_vars

-----------------------------------------------------------------------------
(* Properties.                                                             *)

(* Types; the ring never holds more than its capacity.                      *)
TypeOK ==
  /\ overflow_behavior \in OverflowBehavior
  /\ buffer \in [Slots -> Items \cup {NoItem}]
  /\ head \in Slots /\ tail \in Slots /\ size \in 0 .. Capacity
  /\ token \in [Threads -> BOOLEAN]
  /\ producer_count \in Nat
  /\ closed \in BOOLEAN
  /\ total_put_count \in Nat /\ total_get_count \in Nat /\ total_drop_count \in Nat
  /\ pc \in [Threads -> Places]
  /\ call \in [Threads -> Calls]
  /\ result \in [Threads -> Seq(Items \cup {NoItem})]
  /\ stop \in [Threads -> {"no", "requested", "delivered"}]

(* producer_count_ counts the live tokens.                                 *)
TokensCounted == producer_count = Cardinality({t \in Threads : token[t]})

(* The elements in the queue, oldest first.                                *)
contents == [i \in 1 .. size |-> buffer[(head + i - 1) % Capacity]]

Queue == INSTANCE Channel WITH outbox <- [t \in Threads |-> call[t].items],
                               inbox <- result,
                               open <- ~closed,
                               lossy <- overflow_behavior = "KEEP_NEWEST"

(* The ring is a first-in first-out channel: whatever batches, wraps,      *)
(* evictions, closes and cancellations happen, the elements of a batch     *)
(* enter in order and once, only while the queue is open; they are lost    *)
(* only to a full or closed queue; and a caller is handed the oldest ones  *)
(* in order, never a slot that was moved from.                             *)
ImplementsChannel == Queue!Spec

(* Nobody sleeps on a condition that holds: a thread on cond_var_ waits    *)
(* for something that is still false, whatever the others did after it     *)
(* tested it, so full and empty waiters, batches, closing and room waiters *)
(* can share one condition variable.                                       *)
NoStrandedWaiter ==
  \A t \in Threads : pc[t] = "waiting" => ~Ready(call[t]) /\ ~closed

(* mutex_ has one holder at most, and what it found when it tested its     *)
(* condition still holds when it starts to wait.                           *)
MutualExclusion ==
  \A t, u \in Threads : pc[t] = "checked" /\ pc[u] = "checked" => t = u
CheckStillHolds ==
  \A t \in Threads : pc[t] = "checked" => ~Ready(call[t]) /\ ~closed

(* A requested stop ends a blocking call: no thread is left asleep with    *)
(* its stop request delivered.                                             *)
StopReleasesWaiter ==
  \A t \in Threads : ~(pc[t] = "waiting" /\ stop[t] = "delivered")

(* The single Puts that are counted and not stored yet.                    *)
Pending == {t \in Threads : call[t].op = "Put" /\ pc[t] \in {"checked", "waiting", "woken"}}

(* The counters account for every element: what was put was got, was       *)
(* dropped, is in the buffer or is in a Put that waits.  Only a flush, and *)
(* a Put that throws, change the balance.                                  *)
CountersBalance ==
  [][\/ FlushCounters
     \/ \E t \in Threads : ThrowClosed(t) \/ ThrowCancelled(t)
     \/ total_put_count' - total_get_count' - total_drop_count'
           - size' - Cardinality(Pending')
         = total_put_count - total_get_count - total_drop_count
           - size - Cardinality(Pending)]_vars
=============================================================================
