--------------------------- MODULE MCBoundedQueue ---------------------------
(* A small instance of BoundedQueue for TLC.                               *)
EXTENDS BoundedQueue

CONSTANTS a, b

MCItems == {a, b}
MCBatches == {<<a>>, <<b, a, a>>}
MCWaits == {<<"RoomAtLeast", 2>>, <<"SizeAtLeast", 2>>}

(* The statistics counters only grow or go back to 0, and no guard reads   *)
(* them: states that differ in them alone behave alike.  CountersBalance   *)
(* compares the two sides of a step and is checked on every step.          *)
IgnoringCounters == <<overflow_behavior, ring, tokens, closed, pc, call, result, stop>>
=============================================================================
