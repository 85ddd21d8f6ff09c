------------------------------ MODULE Channel ------------------------------
(***************************************************************************)
(* What a pipeline stage is promised by the queue between it and its       *)
(* neighbour (class Queue of csrc/utils/queue.h): a first-in first-out     *)
(* channel of bounded length that can be closed once and for all.          *)
(* BoundedQueue is shown to implement it.                                  *)
(***************************************************************************)
EXTENDS Naturals, Sequences

CONSTANTS Threads,    \* the threads that send and receive
          Items,      \* the values sent
          Capacity    \* the longest the channel can be

VARIABLES contents,   \* the values sent and not yet received, oldest first
          outbox,     \* outbox[t]: what the call of thread t has yet to send
          inbox,      \* inbox[t]: what the call of thread t has received
          open,       \* FALSE once the channel is closed
          lossy       \* TRUE when a sender may push the oldest values out

vars == <<contents, outbox, inbox, open, lossy>>

Skip(k, s) == SubSeq(s, k + 1, Len(s))
Take(k, s) == SubSeq(s, 1, k)

Init == /\ contents = <<>>
        /\ outbox = [t \in Threads |-> <<>>]
        /\ inbox = [t \in Threads |-> <<>>]
        /\ open = TRUE
        /\ lossy \in BOOLEAN

(* A thread starts a call, with something to send or nothing.              *)
Start(t) == /\ outbox[t] = <<>>
            /\ outbox'[t] \in Seq(Items)
            /\ outbox' = [outbox EXCEPT ![t] = outbox'[t]]
            /\ inbox' = [inbox EXCEPT ![t] = <<>>]
            /\ UNCHANGED <<contents, open, lossy>>

(* The first j values of a call enter the open channel, in their order,    *)
(* once; in a lossy channel, and only there, the k oldest make room.       *)
Send(t) == /\ open
           /\ \E j \in 1 .. Len(outbox[t]), k \in 0 .. Len(contents) :
                 /\ k > 0 => lossy
                 /\ contents' = Skip(k, contents) \o Take(j, outbox[t])
                 /\ outbox' = [outbox EXCEPT ![t] = Skip(j, @)]
           /\ Len(contents') =< Capacity
           /\ UNCHANGED <<inbox, open, lossy>>

(* A call gives up what it has yet to send, only when the channel is       *)
(* closed or full.                                                         *)
Abandon(t) == /\ ~open \/ Len(contents) = Capacity
              /\ outbox' = [outbox EXCEPT ![t] = <<>>]
              /\ UNCHANGED <<contents, inbox, open, lossy>>

(* A receiver is handed the k oldest values, in their order.               *)
Receive(t) == \E k \in 1 .. Len(contents) :
                 /\ inbox' = [inbox EXCEPT ![t] = @ \o Take(k, contents)]
                 /\ contents' = Skip(k, contents)
                 /\ UNCHANGED <<outbox, open, lossy>>

Shut == /\ open
        /\ open' = FALSE
        /\ UNCHANGED <<contents, outbox, inbox, lossy>>

Next == \/ Shut
        \/ \E t \in Threads : Start(t) \/ Send(t) \/ Abandon(t) \/ Receive(t)

Spec == Init /\ [][Next]_vars
=============================================================================
