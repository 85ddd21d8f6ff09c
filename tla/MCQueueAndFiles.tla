--------------------------- MODULE MCQueueAndFiles ---------------------------
(* The queue, and the thread that finds the files, each on its own.  The    *)
(* tree has a root and two directories, beside one another or one in the    *)
(* other, with a file in each.                                              *)
EXTENDS MCBoundedQueue, FilePathProvider, TLC

CONSTANTS Inner, Outer, InRoot, InInner, InOuter

MCDirectoryOf == InRoot :> Root @@ InOuter :> Outer @@ InInner :> Inner
MCParents == {Outer :> Root @@ Inner :> Root, Outer :> Root @@ Inner :> Outer}

VARIABLE system

NoDirectory ==
  /\ parent = (Outer :> Root @@ Inner :> Root)
  /\ exists = {Root} /\ content = [f \in DirFiles |-> "none"]

MCInit ==
  /\ Init /\ ProviderInit
  /\ \/ system = "queue" /\ NoDirectory
     \/ system = "provider" /\ overflow_behavior = "BLOCK"

MCNext == \/ system = "queue" /\ Next /\ UNCHANGED <<system, providerVars>>
          \/ system = "provider" /\ ProviderNext /\ UNCHANGED <<system, vars>>

MCSpec == MCInit /\ [][MCNext]_<<system, vars, providerVars>>

(* What is not of the system does not change. *)
MCView == <<system, IF system = "queue" THEN IgnoringCounters ELSE providerVars>>
=============================================================================
