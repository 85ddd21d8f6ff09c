--------------------------- MODULE WindowSampler ---------------------------
(***************************************************************************)
(* What the shuffling chunk pool is promised by StreamShuffler             *)
(* (csrc/utils/stream_shuffler.h): a window of numbers whose two bounds    *)
(* only rise, from which each number is drawn at most once, in any order,  *)
(* until the sampler is restarted.  StreamShuffler is shown to implement   *)
(* it.                                                                     *)
(***************************************************************************)
EXTENDS Naturals

CONSTANT Nothing      \* the answer of an exhausted sampler

VARIABLES lower, upper,  \* the window lower .. upper - 1
          fresh,         \* the numbers of the window not drawn yet
          asked,         \* a draw is under way
          answer         \* the result of the last draw

vars == <<lower, upper, fresh, asked, answer>>

Init == /\ lower = 0 /\ upper = 0
        /\ fresh = {}
        /\ asked = FALSE
        /\ answer = Nothing

Grow == /\ ~asked
        /\ upper' \in Nat /\ upper' >= upper
        /\ fresh' = fresh \cup upper .. upper' - 1
        /\ UNCHANGED <<lower, asked, answer>>

(* The window may be moved past its own end, and is then empty.            *)
Shrink == /\ ~asked
          /\ lower' \in Nat /\ lower' >= lower
          /\ upper' = IF lower' > upper THEN lower' ELSE upper
          /\ fresh' = {x \in fresh : x >= lower'}
          /\ UNCHANGED <<asked, answer>>

Restart == /\ ~asked
           /\ lower' \in Nat /\ upper' \in Nat /\ lower' =< upper'
           /\ fresh' = lower' .. upper' - 1
           /\ UNCHANGED <<asked, answer>>

Ask == /\ ~asked
       /\ asked' = TRUE
       /\ UNCHANGED <<lower, upper, fresh, answer>>

Draw == /\ asked
        /\ answer' \in fresh
        /\ fresh' = fresh \ {answer'}
        /\ asked' = FALSE
        /\ UNCHANGED <<lower, upper>>

(* There is no answer only when every number of the window was drawn.      *)
Exhaust == /\ asked
           /\ fresh = {}
           /\ answer' = Nothing
           /\ asked' = FALSE
           /\ UNCHANGED <<lower, upper, fresh>>

Next == Grow \/ Shrink \/ Restart \/ Ask \/ Draw \/ Exhaust

Spec == Init /\ [][Next]_vars
=============================================================================
