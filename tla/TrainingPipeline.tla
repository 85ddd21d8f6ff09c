-------------------------- MODULE TrainingPipeline --------------------------
(***************************************************************************)
(* Class TrainingPipeline of src/lczero_training/daemon/pipeline.py, run   *)
(* by TrainingDaemon (daemon.py): wait for chunks, train a network, save a *)
(* checkpoint, export the network, and again; with forced starts, signals, *)
(* crashes and restarts.                                                   *)
(*                                                                         *)
(* Of the data loader, there is what the pipeline sees of it: the initial  *)
(* load and the ingestion of chunk sources as far as they move the anchor  *)
(* and the counter of the shuffling chunk pool, and stopping.  A source    *)
(* has one chunk, and is named by its sort key.                            *)
(***************************************************************************)
EXTENDS Integers, FiniteSets

CONSTANTS Keys,              \* bound: the chunk sources that ever arrive
          PoolSize,          \* the chunks the initial load stops at
          ChunksPerNetwork,  \* chunks_per_network
          MaxForced,         \* bound: forced starts
          MaxCrashes,        \* bound: crashes
          MaxBuffered        \* bound: networks in the queues of a stopped loader

ASSUME KeysAssumption == Keys \subseteq Nat \ {0}
ASSUME PoolAssumption == PoolSize \in Nat \ {0}
ASSUME ScheduleAssumption == ChunksPerNetwork \in Nat
ASSUME BoundAssumption == {MaxForced, MaxCrashes, MaxBuffered} \subseteq Nat

VARIABLES
  files,               \* the sources on disk
  loader,              \* how far the data loader is
  stopped,             \* whether it has been told to stop
  scan,                \* the sources found by its initial scan
  row,                 \* the sources it has indexed or ingested
  last,                \* the key of chunk_sources_.back(), 0 when it is empty
  anchor,              \* anchor_, 0 for the empty string
  chunks_since_anchor,
  batches,             \* the networks it has tensors left for then
  pc,                  \* what the pipeline does next
  chunks_to_wait,      \* _chunks_to_wait
  force,               \* _force_training_event
  forced,              \* the cycle under way was started by it
  state,               \* _training_state
  saving,              \* the state the checkpoint manager is writing, if any
  checkpoint,          \* the checkpoint a restart finds
  exported,            \* the steps of the networks exported so far
  signalled,           \* the daemon has had its signal
  forces, crashes,     \* how many there were
  served,              \* the forced starts answered, or lost with the process
  early, overtaken     \* whether the anchor was reset during an initial load,
                       \* and whether a source has arrived after a newer one

feed == <<loader, stopped, batches>>
pool == <<scan, row, last, anchor, chunks_since_anchor>>
cycle == <<chunks_to_wait, force, forced>>
disk == <<saving, checkpoint, exported>>
bounds == <<forces, crashes, served>>
seen == <<early, overtaken>>
vars == <<files, feed, pool, pc, cycle, state, disk, signalled, bounds, seen>>

(* off: not started; failed: the initial load gave up                      *)
LoaderPhases == {"off", "indexing", "ready", "failed"}

(* down: no process; init: the pipeline is being constructed               *)
Stages == {"down", "init", "starting", "waiting", "resetting", "training",
           "saving", "exporting"}

(* What a checkpoint holds: the step, counted in networks, and the anchor. *)
(* used and due are kept for the properties: the chunks that were counted  *)
(* for its networks, and ChunksPerNetwork for each that had to wait.       *)
State == [step : Nat, last_chunk_source : Keys \cup {0}, used : Nat, due : Nat]

MaxOf(a, b) == IF a >= b THEN a ELSE b

Init ==
  /\ files = {}
  /\ loader = "off" /\ stopped = FALSE /\ batches = 0
  /\ scan = {} /\ row = {} /\ last = 0
  /\ anchor = 0 /\ chunks_since_anchor = 0
  /\ pc = "down"
  /\ chunks_to_wait = ChunksPerNetwork /\ force = FALSE /\ forced = FALSE
  /\ state = [step |-> 0, last_chunk_source |-> 0, used |-> 0, due |-> 0]
  /\ saving = {} /\ checkpoint = state /\ exported = {}
  /\ signalled = FALSE
  /\ forces = 0 /\ crashes = 0 /\ served = 0
  /\ early = FALSE /\ overtaken = FALSE

-----------------------------------------------------------------------------
(* The data loader.                                                        *)

Arrive(f) ==
  /\ f \in Keys \ files
  /\ files' = files \cup {f}
  /\ UNCHANGED <<feed, pool, pc, cycle, state, disk, signalled, bounds, seen>>

IsNewest(f, sources) == \A g \in sources : g =< f

(* Mutant of Counts: the source of the anchor itself is counted.           *)
CountsAnchor(f) == IF f >= anchor THEN 1 ELSE 0

(* The initial load counts what is newer than the anchor.                  *)
Counts(f) == IF f > anchor THEN 1 ELSE 0

(* The initial load, newest source first.                                  *)
IndexSource ==
  /\ loader = "indexing" /\ scan # row /\ Cardinality(row) < PoolSize
  /\ \E f \in scan \ row :
       /\ IsNewest(f, scan \ row)
       /\ row' = row \cup {f}
       /\ chunks_since_anchor' = chunks_since_anchor + Counts(f)
  /\ UNCHANGED <<files, feed, scan, last, anchor, pc, cycle, state, disk,
                 signalled, bounds, seen>>

FinishLoad ==
  /\ loader = "indexing" /\ row # {}
  /\ scan = row \/ Cardinality(row) >= PoolSize
  /\ loader' = "ready"
  /\ \E f \in row : IsNewest(f, row) /\ last' = f
  /\ UNCHANGED <<files, stopped, batches, scan, row, anchor, chunks_since_anchor,
                 pc, cycle, state, disk, signalled, bounds, seen>>

(* The scan finds nothing, or the loader is stopped before it is over.     *)
GiveUp ==
  /\ loader = "indexing" /\ row = {}
  /\ scan = {} \/ stopped
  /\ loader' = "failed"
  /\ batches' = 0
  /\ UNCHANGED <<files, stopped, pool, pc, cycle, state, disk, signalled, bounds,
                 seen>>

(* Sources that arrive later are counted whatever their key.               *)
Ingest(f) ==
  /\ loader = "ready" /\ f \in files \ (scan \cup row)
  /\ row' = row \cup {f}
  /\ last' = f
  /\ chunks_since_anchor' = chunks_since_anchor + 1
  /\ overtaken' = (overtaken \/ f < last)
  /\ UNCHANGED <<files, feed, scan, anchor, pc, cycle, state, disk, signalled,
                 bounds, early>>

-----------------------------------------------------------------------------
(* The process.                                                            *)

Launch ==
  /\ pc = "down"
  /\ pc' = "init"
  /\ UNCHANGED <<files, feed, pool, cycle, state, disk, signalled, bounds, seen>>

(* TrainingPipeline.__init__: the checkpoint is restored and its anchor    *)
(* handed to the pool.                                                     *)
Construct ==
  /\ pc = "init"
  /\ pc' = "starting"
  /\ state' = checkpoint
  /\ anchor' = checkpoint.last_chunk_source
  /\ chunks_to_wait' = ChunksPerNetwork
  /\ UNCHANGED <<files, feed, scan, row, last, chunks_since_anchor, force, forced,
                 disk, signalled, bounds, seen>>

(* What was stopped before it is started fails on its closed queues.       *)
StartLoader ==
  /\ pc = "starting"
  /\ pc' = "waiting"
  /\ loader' = IF stopped THEN "failed" ELSE "indexing"
  /\ scan' = IF stopped THEN {} ELSE files
  /\ UNCHANGED <<files, stopped, batches, row, last, anchor, chunks_since_anchor,
                 cycle, state, disk, signalled, bounds, seen>>

(* The process is gone, with a checkpoint that is still being written.     *)
End ==
  /\ pc' = "down"
  /\ loader' = "off" /\ stopped' = FALSE /\ batches' = 0
  /\ scan' = {} /\ row' = {} /\ last' = 0
  /\ anchor' = 0 /\ chunks_since_anchor' = 0
  /\ force' = FALSE /\ forced' = FALSE
  /\ saving' = {}
  /\ signalled' = FALSE
  /\ served' = forces
  /\ UNCHANGED <<files, chunks_to_wait, state, checkpoint, exported, forces, seen>>

Crash ==
  /\ pc # "down" /\ crashes < MaxCrashes
  /\ crashes' = crashes + 1
  /\ End

(* The first signal stops the data loader, unless there is no pipeline     *)
(* yet.  The thread that waits for it ends, and the signals stay blocked.  *)
Signal ==
  /\ pc # "down" /\ ~signalled
  /\ signalled' = TRUE
  /\ stopped' = (pc # "init")
  /\ batches' \in IF stopped' /\ loader \in {"indexing", "ready"}
                 THEN 0 .. MaxBuffered ELSE {0}
  /\ UNCHANGED <<files, loader, pool, pc, cycle, state, disk, bounds, seen>>

(* Mutant of StartImmediately: it only wakes a pipeline that waits.        *)
StartWaiting ==
  /\ pc \notin {"down", "init"} /\ forces < MaxForced
  /\ forces' = forces + 1
  /\ force' = (force \/ pc = "waiting")
  /\ UNCHANGED <<files, feed, pool, pc, chunks_to_wait, forced, state, disk,
                 signalled, crashes, served, seen>>

(* A request to start at once is dropped before there is a pipeline.       *)
StartImmediately ==
  /\ pc \notin {"down", "init"} /\ forces < MaxForced
  /\ forces' = forces + 1
  /\ force' = TRUE
  /\ UNCHANGED <<files, feed, pool, pc, chunks_to_wait, forced, state, disk,
                 signalled, crashes, served, seen>>

-----------------------------------------------------------------------------
(* The cycle.                                                              *)

(* _wait_for_chunks: a forced start lowers what there was to wait for.     *)
SkipWait ==
  /\ pc = "waiting" /\ force
  /\ pc' = "resetting"
  /\ force' = FALSE /\ forced' = TRUE
  /\ chunks_to_wait' = chunks_since_anchor
  /\ served' = forces
  /\ UNCHANGED <<files, feed, pool, state, disk, signalled, forces, crashes, seen>>

EndWait ==
  /\ pc = "waiting" /\ ~force
  /\ chunks_since_anchor >= chunks_to_wait
  /\ pc' = "resetting"
  /\ forced' = FALSE
  /\ UNCHANGED <<files, feed, pool, chunks_to_wait, force, state, disk,
                 signalled, bounds, seen>>

(* Mutants of NextWait: the debt is forgotten; there is no least wait.     *)
NextWaitOfHalf(used) == ChunksPerNetwork \div 2
NextWaitUnbounded(used) == chunks_to_wait + ChunksPerNetwork - used

(* What is used beyond what had to be waited for shortens the next wait,   *)
(* down to a half.                                                         *)
NextWait(used) ==
  MaxOf(chunks_to_wait + ChunksPerNetwork - used, ChunksPerNetwork \div 2)

(* Mutant of LatestChunk: the anchor is only ever set by a restart.        *)
OldAnchor == anchor

LatestChunk == IF last = 0 THEN anchor ELSE last

(* _reset_chunk_anchor, and what run makes of its answer.                  *)
ResetChunkAnchor ==
  /\ pc = "resetting"
  /\ pc' = "training"
  /\ anchor' = LatestChunk
  /\ chunks_since_anchor' = 0
  /\ chunks_to_wait' = NextWait(chunks_since_anchor)
  /\ state' = [step |-> state.step,
               last_chunk_source |-> anchor',
               used |-> state.used + chunks_since_anchor,
               due |-> state.due + IF forced THEN 0 ELSE ChunksPerNetwork]
  /\ early' = (early \/ loader = "indexing")
  /\ UNCHANGED <<files, feed, scan, row, last, force, forced, disk, signalled,
                 bounds, overtaken>>

(* _train_one_network.                                                     *)
Train ==
  /\ pc = "training"
  /\ \/ loader = "ready" /\ ~stopped /\ UNCHANGED batches
     \/ stopped /\ batches > 0 /\ batches' = batches - 1
  /\ pc' = "saving"
  /\ state' = [state EXCEPT !.step = @ + 1]
  /\ UNCHANGED <<files, loader, stopped, pool, cycle, disk, signalled, bounds, seen>>

(* Mutant of Drained: a stopped loader leaves its last queue open.         *)
DrainedByFailure == loader = "failed"

(* The last queue is closed and empty.                                     *)
Drained == loader = "failed" \/ (stopped /\ batches = 0)

(* The exception of from_dataloader ends the process.                      *)
TrainingRaises ==
  /\ pc = "training" /\ Drained
  /\ End
  /\ UNCHANGED crashes

(* Mutant of CanSave: the writing of the state before is abandoned.        *)
AlwaysSave == TRUE

(* The checkpoint manager writes in the background, one state at a time.   *)
CanSave == saving = {}

(* _save_checkpoint.                                                       *)
SaveCheckpoint ==
  /\ pc = "saving" /\ CanSave
  /\ pc' = "exporting"
  /\ saving' = {state}
  /\ UNCHANGED <<files, feed, pool, cycle, state, checkpoint, exported, signalled,
                 bounds, seen>>

Commit ==
  /\ \E s \in saving : checkpoint' = s
  /\ saving' = {}
  /\ UNCHANGED <<files, feed, pool, pc, cycle, state, exported, signalled, bounds,
                 seen>>

(* _export_network, _save_network and _upload_network.                     *)
ExportNetwork ==
  /\ pc = "exporting"
  /\ pc' = "waiting"
  /\ exported' = exported \cup {state.step}
  /\ UNCHANGED <<files, feed, pool, cycle, state, saving, checkpoint,
                 signalled, bounds, seen>>

-----------------------------------------------------------------------------
Run == \/ Construct \/ StartLoader \/ SkipWait \/ EndWait \/ ResetChunkAnchor
       \/ Train \/ TrainingRaises \/ SaveCheckpoint \/ ExportNetwork

Load == IndexSource \/ FinishLoad \/ GiveUp

Next == \/ Run \/ Load \/ Commit
        \/ \E f \in Keys : Arrive(f) \/ Ingest(f)
        \/ Launch \/ Crash \/ Signal \/ StartImmediately

Spec == Init /\ [][Next]_vars

(* The main thread, the initial load and the writing of a checkpoint go on *)
(* as long as the process lives.                                           *)
FairSpec == Spec /\ WF_vars(Run) /\ WF_vars(Load) /\ WF_vars(Commit)

-----------------------------------------------------------------------------
(* Properties.                                                             *)

(* Types.                                                                  *)
TypeOK ==
  /\ files \subseteq Keys /\ scan \subseteq Keys /\ row \subseteq Keys
  /\ loader \in LoaderPhases
  /\ last \in Keys \cup {0} /\ anchor \in Keys \cup {0}
  /\ chunks_since_anchor \in Nat /\ batches \in Nat
  /\ pc \in Stages
  /\ chunks_to_wait \in Nat
  /\ state \in State /\ checkpoint \in State
  /\ saving \subseteq State /\ Cardinality(saving) =< 1
  /\ exported \subseteq Nat
  /\ stopped \in BOOLEAN /\ force \in BOOLEAN /\ forced \in BOOLEAN
  /\ signalled \in BOOLEAN /\ early \in BOOLEAN /\ overtaken \in BOOLEAN
  /\ forces \in Nat /\ crashes \in Nat /\ served \in Nat

(* No network is trained ahead of its chunks: through waits shortened by   *)
(* earlier surplus, forced starts, crashes and restarts, the chunks that   *)
(* were counted cover ChunksPerNetwork for each network that had to wait.  *)
NeverAhead == \A s \in {state, checkpoint} \cup saving : s.due =< s.used

(* The counter is the number of sources newer than the anchor, whether a   *)
(* restart or the ingestion counted them, unless sources arrive out of     *)
(* order or the anchor is reset in an initial load.                        *)
CounterMatchesAnchor ==
  loader = "ready" /\ ~early /\ ~overtaken =>
    chunks_since_anchor = Cardinality({f \in row : f > anchor})

(* With the same exceptions, no chunk is used twice: those used for the    *)
(* networks of a checkpoint are not newer than its anchor, so that a       *)
(* restart does not count them again.                                      *)
ChunksUsedOnce ==
  ~early /\ ~overtaken =>
    LET anchored == {f \in files : f =< checkpoint.last_chunk_source}
    IN checkpoint.used =< Cardinality(anchored)

(* A network is exported while its checkpoint is being written, but never  *)
(* two ahead of what a restart finds.                                      *)
ExportsNotAhead == \A step \in exported : step =< checkpoint.step + 1

(* A forced start that was accepted, whatever the pipeline was doing,      *)
(* starts a cycle later, unless the process ends.                          *)
ForcedStartHonoured ==
  \A n \in 1 .. MaxForced : (forces = n) ~> (served >= n)

(* Once the data loader is told to stop, the pipeline trains on what is    *)
(* left in the queues, and then ends or waits for ever.                    *)
StopEndsTraining == stopped ~> (pc = "down" \/ [](pc = "waiting"))

(* What docs/loader.md says of ResetAnchor: the anchor is the latest chunk *)
(* seen so far.                                                            *)
ResetAnchorsToSeen == [][ResetChunkAnchor /\ row # {} => anchor' \in row]_vars
=============================================================================
