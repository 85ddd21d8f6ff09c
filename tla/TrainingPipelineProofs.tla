----------------------- MODULE TrainingPipelineProofs -----------------------
(***************************************************************************)
(* Proofs about TrainingPipeline, for every value of its constants: its    *)
(* types, that no network is trained ahead of its chunks (NeverAhead),     *)
(* that no network is exported two ahead of the checkpoint that a restart  *)
(* finds (ExportsNotAhead), that the counter of chunks and its anchor      *)
(* agree (CounterMatchesAnchor), and that no chunk is used twice           *)
(* (ChunksUsedOnce).                                                       *)
(***************************************************************************)
EXTENDS TrainingPipeline, TLAPS, FiniteSetTheorems

(* The chunks used, with those still to be waited for, cover the networks  *)
(* that had to wait and the next one.  From a forced start to the reset    *)
(* chunks_to_wait is lowered, and this need not hold.                      *)
Balance ==
  pc \notin {"down", "init"} /\ ~(pc = "resetting" /\ forced) =>
    state.due + ChunksPerNetwork =< state.used + chunks_to_wait

(* The counter does not fall between the end of the wait and the reset.    *)
WaitOver == pc = "resetting" => chunks_to_wait =< chunks_since_anchor

(* The last step that was handed to the checkpoint manager.                *)
SavedStep == IF pc = "saving" THEN state.step - 1 ELSE state.step

(* What is saved is what the checkpoint holds, or is being written and one *)
(* step after it.                                                          *)
Lag ==
  /\ pc \in {"down", "init"} => saving = {}
  /\ pc \notin {"down", "init"} =>
       IF saving = {} THEN SavedStep = checkpoint.step
       ELSE \A s \in saving : s.step = checkpoint.step + 1 /\ s.step = SavedStep

Inv == TypeOK /\ NeverAhead /\ Balance /\ WaitOver /\ Lag /\ ExportsNotAhead

-----------------------------------------------------------------------------
(* Lemmas.                                                                 *)

(* The next wait is a number of chunks, and no less than what is owed.     *)
LEMMA NextWaitBounds ==
  ASSUME TypeOK, NEW used \in Nat
  PROVE  /\ NextWait(used) \in Nat
         /\ NextWait(used) >= chunks_to_wait + ChunksPerNetwork - used
<1>1. ChunksPerNetwork \div 2 \in Nat
  BY ScheduleAssumption
<1>. QED
  BY <1>1, ScheduleAssumption DEF NextWait, MaxOf, TypeOK

(* At most one state is being written.                                     *)
LEMMA SingletonSaved ==
  ASSUME NEW s \in State
  PROVE  {s} \subseteq State /\ Cardinality({s}) =< 1
<1>1. Cardinality({s}) = 1
  BY FS_Singleton
<1>. QED
  BY <1>1

LEMMA NothingSaved == {} \subseteq State /\ Cardinality({}) =< 1
<1>1. Cardinality({}) = 0
  BY FS_EmptySet, Zenon
<1>. QED
  BY <1>1

-----------------------------------------------------------------------------
LEMMA InitInv == Init => Inv
<1>. SUFFICES ASSUME Init
              PROVE  Inv
  OBVIOUS
<1>1. state \in State /\ checkpoint = state /\ saving = {} /\ exported = {}
  BY DEF Init, State
<1>2. TypeOK
  <2>1. saving \subseteq State /\ Cardinality(saving) =< 1
    BY <1>1, NothingSaved, Zenon
  <2>. QED
    BY <1>1, <2>1, ScheduleAssumption DEF Init, TypeOK, LoaderPhases, Stages
<1>3. NeverAhead /\ Balance /\ WaitOver /\ Lag /\ ExportsNotAhead
  BY <1>1 DEF Init, NeverAhead, Balance, WaitOver, Lag, ExportsNotAhead
<1>. QED
  BY <1>2, <1>3 DEF Inv

(* A step that leaves the pipeline itself alone, and lowers no counter.    *)
Aside ==
  /\ UNCHANGED <<pc, chunks_to_wait, forced, state, disk>>
  /\ chunks_since_anchor' >= chunks_since_anchor

LEMMA AsideInv == Inv /\ Aside /\ TypeOK' => Inv'
<1>. SUFFICES ASSUME Inv, Aside, TypeOK'
              PROVE  Inv'
  OBVIOUS
<1>1. NeverAhead' /\ Balance'
  BY DEF Inv, Aside, disk, NeverAhead, Balance
<1>2. WaitOver'
  BY DEF Inv, Aside, WaitOver, TypeOK
<1>3. Lag' /\ ExportsNotAhead'
  BY DEF Inv, Aside, disk, Lag, SavedStep, ExportsNotAhead
<1>. QED
  BY <1>1, <1>2, <1>3 DEF Inv

-----------------------------------------------------------------------------
(* Types, action by action.                                                *)
LEMMA LoaderTypes ==
  TypeOK /\ (Load \/ \E f \in Keys : Arrive(f) \/ Ingest(f)) => TypeOK'
<1>. SUFFICES ASSUME TypeOK, Load \/ \E f \in Keys : Arrive(f) \/ Ingest(f)
              PROVE  TypeOK'
  OBVIOUS
<1>. USE DEF TypeOK, pool, feed, cycle, disk, bounds, seen
<1>1. CASE \E f \in Keys : Arrive(f)
  BY <1>1 DEF Arrive
<1>2. CASE \E f \in Keys : Ingest(f)
  BY <1>2 DEF Ingest
<1>3. CASE IndexSource
  BY <1>3 DEF IndexSource, Counts
<1>4. CASE FinishLoad
  BY <1>4 DEF FinishLoad, LoaderPhases
<1>5. CASE GiveUp
  BY <1>5 DEF GiveUp, LoaderPhases
<1>. QED
  BY <1>1, <1>2, <1>3, <1>4, <1>5 DEF Load

LEMMA EndTypes == TypeOK /\ End /\ crashes' \in Nat => TypeOK'
<1>. SUFFICES ASSUME TypeOK, End, crashes' \in Nat
              PROVE  TypeOK'
  OBVIOUS
<1>1. saving' \subseteq State /\ Cardinality(saving') =< 1
  BY NothingSaved, Zenon DEF End
<1>. QED
  BY <1>1 DEF End, TypeOK, LoaderPhases, Stages, seen

LEMMA ProcessTypes ==
  TypeOK /\ (Launch \/ Construct \/ StartLoader \/ Crash \/ Signal \/ StartImmediately)
    => TypeOK'
<1>. SUFFICES ASSUME TypeOK,
                     \/ Launch \/ Construct \/ StartLoader
                     \/ Crash \/ Signal \/ StartImmediately
              PROVE  TypeOK'
  OBVIOUS
<1>. USE DEF TypeOK, pool, feed, cycle, disk, bounds, seen, Stages
<1>1. CASE Launch
  BY <1>1 DEF Launch
<1>2. CASE Construct
  BY <1>2, ScheduleAssumption DEF Construct, State
<1>3. CASE StartLoader
  BY <1>3 DEF StartLoader, LoaderPhases
<1>4. CASE Crash
  <2>1. crashes' \in Nat
    BY <1>4 DEF Crash
  <2>. QED
    BY <1>4, <2>1, EndTypes DEF Crash
<1>5. CASE Signal
  <2>1. batches' \in Nat
    BY <1>5, BoundAssumption DEF Signal
  <2>. QED
    BY <1>5, <2>1 DEF Signal
<1>6. CASE StartImmediately
  BY <1>6 DEF StartImmediately
<1>. QED
  BY <1>1, <1>2, <1>3, <1>4, <1>5, <1>6

(* What a cycle adds to the state when the anchor is reset.                *)
LEMMA ResetState ==
  ASSUME TypeOK, ResetChunkAnchor, anchor' \in Keys \cup {0}
  PROVE  /\ state' \in State
         /\ state'.step = state.step
         /\ state'.used = state.used + chunks_since_anchor
         /\ state'.due = state.due + IF forced THEN 0 ELSE ChunksPerNetwork
BY ScheduleAssumption DEF TypeOK, ResetChunkAnchor, State

LEMMA CycleTypes ==
  TypeOK /\ ( \/ SkipWait \/ EndWait \/ ResetChunkAnchor \/ Train
             \/ TrainingRaises \/ SaveCheckpoint \/ Commit \/ ExportNetwork )
    => TypeOK'
<1>. SUFFICES ASSUME TypeOK,
                     \/ SkipWait \/ EndWait \/ ResetChunkAnchor \/ Train
                     \/ TrainingRaises \/ SaveCheckpoint \/ Commit \/ ExportNetwork
              PROVE  TypeOK'
  OBVIOUS
<1>. USE DEF TypeOK, pool, feed, cycle, disk, bounds, seen, Stages
<1>1. CASE SkipWait
  BY <1>1 DEF SkipWait
<1>2. CASE EndWait
  BY <1>2 DEF EndWait
<1>3. CASE ResetChunkAnchor
  <2>1. anchor' \in Keys \cup {0}
    BY <1>3 DEF ResetChunkAnchor, LatestChunk
  <2>2. chunks_to_wait' \in Nat
    BY <1>3, NextWaitBounds DEF ResetChunkAnchor
  <2>3. state' \in State
    BY <1>3, <2>1, ResetState
  <2>4. early' \in BOOLEAN
    BY <1>3, Zenon DEF ResetChunkAnchor
  <2>5. UNCHANGED <<files, feed, scan, row, last, force, forced, disk, signalled,
                    bounds, overtaken>>
    BY <1>3 DEF ResetChunkAnchor
  <2>6. pc' = "training" /\ chunks_since_anchor' = 0
    BY <1>3 DEF ResetChunkAnchor
  <2>. QED
    BY <2>1, <2>2, <2>3, <2>4, <2>5, <2>6
<1>4. CASE Train
  <2>1. state' \in State
    BY <1>4 DEF Train, State
  <2>2. batches' \in Nat
    BY <1>4 DEF Train
  <2>. QED
    BY <1>4, <2>1, <2>2 DEF Train
<1>5. CASE TrainingRaises
  BY <1>5, EndTypes DEF TrainingRaises
<1>6. CASE SaveCheckpoint
  <2>1. saving' \subseteq State /\ Cardinality(saving') =< 1
    BY <1>6, SingletonSaved, Zenon DEF SaveCheckpoint
  <2>. QED
    BY <1>6, <2>1 DEF SaveCheckpoint
<1>7. CASE Commit
  <2>1. saving' \subseteq State /\ Cardinality(saving') =< 1
    BY <1>7, NothingSaved, Zenon DEF Commit
  <2>. QED
    BY <1>7, <2>1 DEF Commit
<1>8. CASE ExportNetwork
  BY <1>8 DEF ExportNetwork, State
<1>. QED
  BY <1>1, <1>2, <1>3, <1>4, <1>5, <1>6, <1>7, <1>8

LEMMA TypesKept == TypeOK /\ [Next]_vars => TypeOK'
<1>. SUFFICES ASSUME TypeOK, [Next]_vars
              PROVE  TypeOK'
  OBVIOUS
<1>1. CASE UNCHANGED vars
  BY <1>1 DEF vars, feed, pool, cycle, disk, bounds, seen, TypeOK
<1>. QED
  BY <1>1, LoaderTypes, ProcessTypes, CycleTypes DEF Next, Run

-----------------------------------------------------------------------------
(* The invariant, action by action.                                        *)

(* A process that has ended leaves nothing behind but the checkpoint.      *)
LEMMA EndInv == Inv /\ End /\ TypeOK' => Inv'
<1>. SUFFICES ASSUME Inv, End, TypeOK'
              PROVE  Inv'
  OBVIOUS
<1>1. NeverAhead'
  BY DEF Inv, End, NeverAhead
<1>2. Balance' /\ WaitOver' /\ Lag' /\ ExportsNotAhead'
  BY DEF Inv, End, Balance, WaitOver, Lag, ExportsNotAhead
<1>. QED
  BY <1>1, <1>2 DEF Inv

LEMMA ConstructInv == Inv /\ Construct /\ TypeOK' => Inv'
<1>. SUFFICES ASSUME Inv, Construct, TypeOK'
              PROVE  Inv'
  OBVIOUS
<1>1. state' = checkpoint /\ pc' = "starting" /\ chunks_to_wait' = ChunksPerNetwork
      /\ saving' = saving /\ checkpoint' = checkpoint /\ exported' = exported
      /\ saving = {}
  BY DEF Inv, Construct, Lag, disk
<1>2. NeverAhead'
  BY <1>1 DEF Inv, NeverAhead
<1>3. Balance'
  BY <1>1, ScheduleAssumption DEF Inv, NeverAhead, Balance, TypeOK, State
<1>4. WaitOver' /\ Lag' /\ ExportsNotAhead'
  BY <1>1 DEF Inv, WaitOver, Lag, SavedStep, ExportsNotAhead
<1>. QED
  BY <1>2, <1>3, <1>4 DEF Inv

(* From here on, the pipeline moves on and the state stays.                *)
LEMMA WaitInv ==
  Inv /\ TypeOK' /\ (Launch \/ StartLoader \/ SkipWait \/ EndWait) => Inv'
<1>. SUFFICES ASSUME Inv, TypeOK', Launch \/ StartLoader \/ SkipWait \/ EndWait
              PROVE  Inv'
  OBVIOUS
<1>1. UNCHANGED <<state, saving, checkpoint, exported>>
  BY DEF Launch, StartLoader, SkipWait, EndWait, disk
<1>2. NeverAhead' /\ ExportsNotAhead'
  BY <1>1 DEF Inv, NeverAhead, ExportsNotAhead
<1>3. Lag'
  BY <1>1 DEF Inv, Lag, SavedStep, Launch, StartLoader, SkipWait, EndWait
<1>4. Balance'
  BY <1>1 DEF Inv, Balance, Launch, StartLoader, SkipWait, EndWait, cycle
<1>5. WaitOver'
  BY DEF Inv, TypeOK, WaitOver, Launch, StartLoader, SkipWait, EndWait, pool
<1>. QED
  BY <1>2, <1>3, <1>4, <1>5 DEF Inv

(* The chunks used are as many as were waited for, and the next wait makes *)
(* up for what is owed then.                                               *)
LEMMA ResetInv == Inv /\ ResetChunkAnchor /\ TypeOK' => Inv'
<1>. SUFFICES ASSUME Inv, ResetChunkAnchor, TypeOK'
              PROVE  Inv'
  OBVIOUS
<1>1. /\ pc = "resetting" /\ pc' = "training"
      /\ UNCHANGED <<saving, checkpoint, exported, forced>>
      /\ chunks_to_wait' = NextWait(chunks_since_anchor)
  BY DEF ResetChunkAnchor, disk
<1>2. /\ state'.step = state.step
      /\ state'.used = state.used + chunks_since_anchor
      /\ state'.due = state.due + IF forced THEN 0 ELSE ChunksPerNetwork
  BY ResetState DEF Inv, TypeOK, ResetChunkAnchor
<1>3. /\ chunks_to_wait =< chunks_since_anchor
      /\ state.due =< state.used
      /\ ~forced => state.due + ChunksPerNetwork =< state.used + chunks_to_wait
  BY <1>1 DEF Inv, WaitOver, NeverAhead, Balance
<1>4. /\ state.due \in Nat /\ state.used \in Nat
      /\ chunks_to_wait \in Nat /\ chunks_since_anchor \in Nat
  BY DEF Inv, TypeOK, State
<1>5. chunks_to_wait' \in Nat
      /\ chunks_to_wait' >= chunks_to_wait + ChunksPerNetwork - chunks_since_anchor
  BY <1>1, <1>4, NextWaitBounds DEF Inv
<1>6. NeverAhead'
  <2>1. state'.due =< state'.used
    BY <1>2, <1>3, <1>4, ScheduleAssumption
  <2>. QED
    BY <1>1, <2>1 DEF Inv, NeverAhead
<1>7. Balance'
  BY <1>1, <1>2, <1>3, <1>4, <1>5, ScheduleAssumption DEF Balance
<1>8. WaitOver' /\ Lag' /\ ExportsNotAhead'
  BY <1>1, <1>2 DEF Inv, WaitOver, Lag, SavedStep, ExportsNotAhead
<1>. QED
  BY <1>6, <1>7, <1>8 DEF Inv

LEMMA TrainInv == Inv /\ Train /\ TypeOK' => Inv'
<1>. SUFFICES ASSUME Inv, Train, TypeOK'
              PROVE  Inv'
  OBVIOUS
<1>1. /\ pc = "training" /\ pc' = "saving"
      /\ UNCHANGED <<saving, checkpoint, exported, chunks_to_wait>>
  BY DEF Train, disk, cycle
<1>2. /\ state'.step = state.step + 1
      /\ state'.used = state.used /\ state'.due = state.due
  BY DEF Inv, TypeOK, Train, State
<1>3. NeverAhead' /\ Balance' /\ WaitOver' /\ ExportsNotAhead'
  BY <1>1, <1>2 DEF Inv, NeverAhead, Balance, WaitOver, ExportsNotAhead
<1>4. SavedStep' = SavedStep
  BY <1>1, <1>2 DEF Inv, TypeOK, State, SavedStep
<1>5. Lag'
  BY <1>1, <1>4 DEF Inv, Lag
<1>. QED
  BY <1>3, <1>5 DEF Inv

(* The manager takes a state only when the one before is in a checkpoint.  *)
LEMMA SaveInv == Inv /\ SaveCheckpoint /\ TypeOK' => Inv'
<1>. SUFFICES ASSUME Inv, SaveCheckpoint, TypeOK'
              PROVE  Inv'
  OBVIOUS
<1>1. /\ pc = "saving" /\ pc' = "exporting"
      /\ saving = {} /\ saving' = {state}
      /\ UNCHANGED <<state, checkpoint, exported, chunks_to_wait>>
  BY DEF SaveCheckpoint, CanSave, cycle
<1>2. NeverAhead' /\ Balance' /\ WaitOver' /\ ExportsNotAhead'
  BY <1>1 DEF Inv, NeverAhead, Balance, WaitOver, ExportsNotAhead
<1>3. state.step = checkpoint.step + 1
  BY <1>1 DEF Inv, Lag, SavedStep, TypeOK, State
<1>4. Lag'
  BY <1>1, <1>3 DEF Lag, SavedStep
<1>. QED
  BY <1>2, <1>4 DEF Inv

LEMMA CommitInv == Inv /\ Commit /\ TypeOK' => Inv'
<1>. SUFFICES ASSUME Inv, Commit, TypeOK'
              PROVE  Inv'
  OBVIOUS
<1>1. PICK s \in saving : checkpoint' = s
  BY DEF Commit
<1>2. saving' = {} /\ UNCHANGED <<pc, state, exported, chunks_to_wait, forced>>
      /\ UNCHANGED chunks_since_anchor
  BY DEF Commit, cycle, pool
<1>3. pc \notin {"down", "init"} /\ s.step = checkpoint.step + 1 /\ s.step = SavedStep
  BY <1>1 DEF Inv, Lag
<1>4. NeverAhead' /\ Balance' /\ WaitOver'
  BY <1>1, <1>2 DEF Inv, NeverAhead, Balance, WaitOver
<1>5. Lag'
  BY <1>1, <1>2, <1>3 DEF Lag, SavedStep
<1>6. ExportsNotAhead'
  BY <1>1, <1>2, <1>3 DEF Inv, ExportsNotAhead, TypeOK, State
<1>. QED
  BY <1>4, <1>5, <1>6 DEF Inv

LEMMA ExportInv == Inv /\ ExportNetwork /\ TypeOK' => Inv'
<1>. SUFFICES ASSUME Inv, ExportNetwork, TypeOK'
              PROVE  Inv'
  OBVIOUS
<1>1. /\ pc = "exporting" /\ pc' = "waiting"
      /\ exported' = exported \cup {state.step}
      /\ UNCHANGED <<state, saving, checkpoint, chunks_to_wait>>
  BY DEF ExportNetwork, cycle
<1>2. NeverAhead' /\ Balance' /\ WaitOver' /\ Lag'
  BY <1>1 DEF Inv, NeverAhead, Balance, WaitOver, Lag, SavedStep
<1>3. state.step =< checkpoint.step + 1
  BY <1>1 DEF Inv, Lag, SavedStep, TypeOK, State
<1>4. ExportsNotAhead'
  BY <1>1, <1>3 DEF Inv, ExportsNotAhead
<1>. QED
  BY <1>2, <1>4 DEF Inv

(* What the loader, a signal or a request does is aside of the cycle.      *)
LEMMA AsideSteps ==
  TypeOK /\ ( \/ Load \/ (\E f \in Keys : Arrive(f) \/ Ingest(f))
             \/ Signal \/ StartImmediately \/ UNCHANGED vars )
    => Aside
<1>. USE DEF TypeOK, Aside, pool, cycle, disk
<1>1. TypeOK /\ Load => Aside
  BY DEF Load, IndexSource, Counts, FinishLoad, GiveUp
<1>2. TypeOK /\ (\E f \in Keys : Arrive(f) \/ Ingest(f)) => Aside
  BY DEF Arrive, Ingest
<1>3. TypeOK /\ (Signal \/ StartImmediately \/ UNCHANGED vars) => Aside
  BY DEF Signal, StartImmediately, vars
<1>. QED
  BY <1>1, <1>2, <1>3

LEMMA StepInv == Inv /\ [Next]_vars => Inv'
<1>. SUFFICES ASSUME Inv, [Next]_vars
              PROVE  Inv'
  OBVIOUS
<1>1. TypeOK /\ TypeOK'
  BY TypesKept DEF Inv
<1>2. CASE Load \/ (\E f \in Keys : Arrive(f) \/ Ingest(f))
           \/ Signal \/ StartImmediately \/ UNCHANGED vars
  BY <1>1, <1>2, AsideSteps, AsideInv
<1>3. CASE Launch \/ StartLoader \/ SkipWait \/ EndWait
  BY <1>1, <1>3, WaitInv
<1>4. CASE Crash \/ TrainingRaises
  BY <1>1, <1>4, EndInv DEF Crash, TrainingRaises
<1>5. CASE Run \/ Commit
  BY <1>1, <1>3, <1>4, <1>5, ConstructInv, ResetInv, TrainInv, SaveInv, CommitInv,
     ExportInv
  DEF Run
<1>. QED
  BY <1>2, <1>3, <1>4, <1>5 DEF Next

-----------------------------------------------------------------------------
(* The inductive invariant holds of every reachable state.                 *)
THEOREM InvInvariant == Spec => []Inv
BY InitInv, StepInv, PTL DEF Spec

(* Types: among them, that the wait for chunks is never negative (max in   *)
(* run of pipeline.py) and that one checkpoint is written at a time.       *)
THEOREM PipelineTypes == Spec => []TypeOK
<1>1. Inv => TypeOK
  BY DEF Inv
<1>. QED
  BY <1>1, InvInvariant, PTL

(* For every number of chunks per network, and any number of crashes,      *)
(* restarts and forced starts, no network is trained ahead of the chunks   *)
(* that _wait_for_chunks had to wait for.                                  *)
THEOREM TrainsOnlyWhatWasWaitedFor == Spec => []NeverAhead
<1>1. Inv => NeverAhead
  BY DEF Inv
<1>. QED
  BY <1>1, InvInvariant, PTL

(* However often the process ends, what _export_network has put out is at  *)
(* most one network ahead of the checkpoint of _save_checkpoint.           *)
THEOREM ExportsFollowCheckpoints == Spec => []ExportsNotAhead
<1>1. Inv => ExportsNotAhead
  BY DEF Inv
<1>. QED
  BY <1>1, InvInvariant, PTL

-----------------------------------------------------------------------------
(* The counter of chunks since the anchor, and the chunks used.            *)

(* Sources are counted while they come in order and the anchor is not      *)
(* reset in an initial load.                                               *)
InOrder == ~early /\ ~overtaken

Newer(sources, key) == {f \in sources : f > key}
Upto(sources, key) == {f \in sources : f =< key}

(* What the loader has taken is on disk; the initial load takes the newest *)
(* sources first, and its end finds the anchor of the checkpoint among     *)
(* those it has scanned; the last source of the row is the newest, as long *)
(* as none was overtaken.                                                  *)
Scanned ==
  /\ row \subseteq scan
  /\ anchor \in scan \cup {0}
  /\ \A f \in row, g \in scan \ row : g < f
LastIsNewest ==
  /\ last \in row
  /\ ~overtaken => \A f \in row \cup {anchor} : f =< last
Sources ==
  /\ IsFiniteSet(files) /\ row \subseteq files /\ scan \subseteq files
  /\ anchor \in files \cup {0}
  /\ loader = "off" <=> pc \in {"down", "init", "starting"}
  /\ loader \in {"off", "failed"} => row = {}
  /\ loader # "ready" => last = 0
  /\ loader = "indexing" => Scanned
  /\ loader = "ready" => LastIsNewest

(* The counter, whatever the loader is doing.                              *)
Counter == InOrder => chunks_since_anchor = Cardinality(Newer(row, anchor))

(* The chunks used for a state are not newer than its anchor.              *)
UsedUpto(s) ==
  /\ s.last_chunk_source \in files \cup {0}
  /\ InOrder => s.used =< Cardinality(Upto(files, s.last_chunk_source))
Used == \A s \in {state, checkpoint} \cup saving : UsedUpto(s)

(* The state and the pool have one anchor.                                 *)
Anchored == pc \notin {"down", "init"} => state.last_chunk_source = anchor

Accounts == Sources /\ Counter /\ Used /\ Anchored

(* Sets of sources that are counted.                                       *)
LEMMA FiniteCount ==
  ASSUME NEW S, IsFiniteSet(S), NEW T \in SUBSET S
  PROVE  IsFiniteSet(T) /\ Cardinality(T) \in Nat /\ Cardinality(T) =< Cardinality(S)
BY FS_Subset, FS_CardinalityType

LEMMA CountOne ==
  ASSUME NEW S, IsFiniteSet(S), NEW f, f \notin S, NEW key
  PROVE  Cardinality(Newer(S \cup {f}, key)) =
           Cardinality(Newer(S, key)) + IF f > key THEN 1 ELSE 0
<1>1. IsFiniteSet(Newer(S, key)) /\ Cardinality(Newer(S, key)) \in Nat
  BY FiniteCount DEF Newer
<1>2. CASE f > key
  <2>1. Newer(S \cup {f}, key) = Newer(S, key) \cup {f} /\ f \notin Newer(S, key)
    BY <1>2 DEF Newer
  <2>. QED
    BY <1>1, <1>2, <2>1, FS_AddElement
<1>3. CASE ~(f > key)
  <2>1. Newer(S \cup {f}, key) = Newer(S, key)
    BY <1>3 DEF Newer
  <2>. QED
    BY <1>1, <1>3, <2>1
<1>. QED
  BY <1>2, <1>3

(* A reset counts what lies between two anchors.                           *)
LEMMA CountBetween ==
  ASSUME NEW S \in SUBSET Nat, IsFiniteSet(S), NEW T \in SUBSET S,
         NEW key \in Nat, NEW next \in Nat, key =< next,
         \A f \in T : f =< next
  PROVE  Cardinality(Upto(S, key)) + Cardinality(Newer(T, key))
           =< Cardinality(Upto(S, next))
<1>. DEFINE A == Upto(S, key)
            B == Newer(T, key)
<1>1. IsFiniteSet(A) /\ IsFiniteSet(B) /\ Cardinality(A) \in Nat /\ Cardinality(B) \in Nat
  BY FiniteCount DEF Upto, Newer
<1>2. A \cap B = {}
  <2>1. \A f \in A : f \in Nat /\ f =< key
    BY DEF Upto
  <2>2. \A f \in B : f > key
    BY DEF Newer
  <2>. QED
    BY <2>1, <2>2
<1>3. A \cup B \subseteq Upto(S, next)
  <2>1. A \subseteq Upto(S, next)
    <3>1. ASSUME NEW f \in A
          PROVE  f \in S /\ f =< next
      <4>1. f \in Nat /\ f \in S /\ f =< key
        BY DEF Upto
      <4>. QED
        BY <4>1
    <3>. QED
      BY <3>1 DEF Upto
  <2>2. B \subseteq Upto(S, next)
    BY DEF Upto, Newer
  <2>. QED
    BY <2>1, <2>2
<1>4. IsFiniteSet(Upto(S, next))
  BY FiniteCount DEF Upto
<1>5. Cardinality(A \cup B) = Cardinality(A) + Cardinality(B)
  <2>1. Cardinality(A \cap B) = 0
    BY <1>2, FS_EmptySet
  <2>2. Cardinality(A \cup B) = Cardinality(A) + Cardinality(B) - Cardinality(A \cap B)
    BY <1>1, FS_Union
  <2>. QED
    BY <1>1, <2>1, <2>2
<1>. QED
  BY <1>3, <1>4, <1>5, FiniteCount

(* More sources on disk leave what is used below an anchor as it was.      *)
LEMMA UptoGrows ==
  ASSUME NEW S, NEW f, IsFiniteSet(S), NEW key
  PROVE  /\ IsFiniteSet(S \cup {f})
         /\ Cardinality(Upto(S, key)) \in Nat
         /\ Cardinality(Upto(S \cup {f}, key)) \in Nat
         /\ Cardinality(Upto(S, key)) =< Cardinality(Upto(S \cup {f}, key))
<1>1. IsFiniteSet(S \cup {f})
  BY FS_AddElement
<1>2. IsFiniteSet(Upto(S \cup {f}, key))
  BY <1>1, FiniteCount DEF Upto
<1>3. Upto(S, key) \subseteq Upto(S \cup {f}, key)
  BY DEF Upto
<1>. QED
  BY <1>1, <1>2, <1>3, FiniteCount, FS_CardinalityType

LEMMA NoneNewer == \A key : Cardinality(Newer({}, key)) = 0
<1>1. \A key : Newer({}, key) = {}
  BY DEF Newer
<1>. QED
  BY <1>1, FS_EmptySet

LEMMA InitAccounts == Init => Accounts
<1>. SUFFICES ASSUME Init
              PROVE  Accounts
  OBVIOUS
<1>1. Sources
  BY FS_EmptySet DEF Init, Sources
<1>2. Counter
  BY NoneNewer DEF Init, Counter
<1>3. Used
  <2>1. state.used = 0 /\ state.last_chunk_source = 0
        /\ {state, checkpoint} \cup saving = {state} /\ files = {}
    BY DEF Init
  <2>2. Cardinality(Upto(files, 0)) \in Nat
    BY <2>1, FS_EmptySet, FiniteCount DEF Upto
  <2>. QED
    BY <2>1, <2>2 DEF Used, UsedUpto
<1>. QED
  BY <1>1, <1>2, <1>3 DEF Accounts, Anchored, Init

(* The row, as the loader takes sources into it.                           *)
LEMMA SourcesKept == TypeOK /\ Sources /\ Used /\ [Next]_vars => Sources'
<1>. SUFFICES ASSUME TypeOK, Sources, Used, [Next]_vars
              PROVE  Sources'
  OBVIOUS
<1>. USE DEF Sources, feed, pool
<1>1. ASSUME NEW f \in Keys, Arrive(f)
      PROVE  Sources'
  <2>1. files' = files \cup {f} /\ IsFiniteSet(files')
    BY <1>1, FS_AddElement DEF Arrive
  <2>2. UNCHANGED <<loader, pc, scan, row, last, anchor, overtaken>>
    BY <1>1 DEF Arrive, seen
  <2>. QED
    BY <2>1, <2>2 DEF Scanned, LastIsNewest
<1>2. ASSUME NEW f \in Keys, Ingest(f)
      PROVE  Sources'
  <2>1. LastIsNewest'
    <3>1. last' = f /\ f \in row' /\ anchor' = anchor
      BY <1>2 DEF Ingest
    <3>2. ASSUME ~overtaken', NEW g \in row' \cup {anchor'}
          PROVE  g =< last'
      <4>1. ~overtaken /\ ~(f < last) /\ LastIsNewest /\ row' = row \cup {f}
        BY <1>2, <3>2 DEF Ingest, seen
      <4>2. f \in Nat /\ last \in Nat /\ anchor \in Nat /\ row \subseteq Nat
        BY KeysAssumption DEF TypeOK
      <4>. QED
        BY <3>1, <4>1, <4>2 DEF LastIsNewest
    <3>. QED
      BY <3>1, <3>2 DEF LastIsNewest
  <2>. QED
    BY <1>2, <2>1 DEF Ingest
<1>3. CASE IndexSource
  <2>1. PICK f \in scan \ row : IsNewest(f, scan \ row) /\ row' = row \cup {f}
    BY <1>3 DEF IndexSource
  <2>2. scan \subseteq Nat
    BY KeysAssumption DEF TypeOK
  <2>3. Scanned'
    <3>1. ASSUME NEW g \in row', NEW h \in scan' \ row'
          PROVE  h < g
      <4>1. h \in scan \ row /\ h # f
        BY <1>3, <2>1 DEF IndexSource
      <4>2. h =< f
        BY <4>1, <2>1 DEF IsNewest
      <4>. QED
        BY <1>3, <2>1, <2>2, <4>1, <4>2 DEF IndexSource, Scanned
    <3>. QED
      BY <1>3, <2>1, <3>1 DEF IndexSource, Scanned
  <2>. QED
    BY <1>3, <2>1, <2>3 DEF IndexSource
<1>4. CASE FinishLoad
  <2>1. PICK f \in row : IsNewest(f, row) /\ last' = f
    BY <1>4 DEF FinishLoad
  <2>2. anchor =< f
    <3>1. Scanned /\ scan \subseteq Nat /\ f \in Nat
      BY <1>4, KeysAssumption DEF FinishLoad, TypeOK
    <3>2. CASE anchor \in row
      BY <2>1, <3>2 DEF IsNewest
    <3>3. CASE anchor \in scan \ row
      BY <2>1, <3>1, <3>3 DEF Scanned
    <3>. QED
      BY <3>1, <3>2, <3>3 DEF Scanned
  <2>3. LastIsNewest'
    BY <1>4, <2>1, <2>2 DEF FinishLoad, IsNewest, LastIsNewest
  <2>. QED
    BY <1>4, <2>3 DEF FinishLoad
<1>5. CASE GiveUp
  BY <1>5 DEF GiveUp
<1>6. CASE Launch \/ StartLoader
  BY <1>6 DEF Launch, StartLoader, Scanned
<1>7. CASE Crash \/ TrainingRaises
  BY <1>7 DEF Crash, TrainingRaises, End
<1>8. CASE ResetChunkAnchor
  <2>1. UNCHANGED <<files, row, scan, loader, last, overtaken>>
        /\ pc = "resetting" /\ pc' = "training"
    BY <1>8 DEF ResetChunkAnchor
  <2>2. anchor' = IF last = 0 THEN anchor ELSE last
    BY <1>8 DEF ResetChunkAnchor, LatestChunk
  <2>3. anchor' \in files \cup {0}
    BY <2>2 DEF LastIsNewest
  <2>4. loader = "indexing" => Scanned'
    BY <2>1, <2>2 DEF Scanned
  <2>5. loader = "ready" => LastIsNewest'
    <3>1. loader = "ready" => last \in Nat \ {0} /\ anchor' = last
      BY <2>2, KeysAssumption DEF LastIsNewest, TypeOK
    <3>. QED
      BY <2>1, <3>1 DEF LastIsNewest
  <2>. QED
    BY <2>1, <2>3, <2>4, <2>5
<1>9. CASE \/ SkipWait \/ EndWait \/ Train \/ SaveCheckpoint \/ ExportNetwork
           \/ Signal \/ StartImmediately \/ Commit \/ UNCHANGED vars
  <2>1. UNCHANGED <<files, row, scan, loader, last, anchor, overtaken>>
    BY <1>9 DEF SkipWait, EndWait, Train, SaveCheckpoint, ExportNetwork, Signal,
                StartImmediately, Commit, vars, seen
  <2>2. \/ pc' = pc
        \/ {pc, pc'} \cap {"down", "init", "starting"} = {}
    BY <1>9 DEF SkipWait, EndWait, Train, SaveCheckpoint, ExportNetwork, Signal,
                StartImmediately, Commit, vars
  <2>. QED
    BY <2>1, <2>2 DEF Scanned, LastIsNewest
<1>10. CASE Construct
  <2>1. anchor' \in files \cup {0}
    BY <1>10 DEF Construct, Used, UsedUpto
  <2>. QED
    BY <1>10, <2>1 DEF Construct
<1>. QED
  BY <1>1, <1>2, <1>3, <1>4, <1>5, <1>6, <1>7, <1>8, <1>9, <1>10
  DEF Next, Run, Load

(* What the exceptions remember is not forgotten.                          *)
LEMMA SeenStays == [Next]_vars /\ InOrder' => InOrder
<1>. SUFFICES ASSUME [Next]_vars
              PROVE  (early => early') /\ (overtaken => overtaken')
  BY DEF InOrder
<1>. USE DEF seen
<1>1. CASE Load
  BY <1>1 DEF Load, IndexSource, FinishLoad, GiveUp
<1>2. CASE \E f \in Keys : Arrive(f) \/ Ingest(f)
  <2>1. CASE \E f \in Keys : Arrive(f)
    BY <2>1 DEF Arrive
  <2>2. ASSUME NEW f \in Keys, Ingest(f)
        PROVE  (early => early') /\ (overtaken => overtaken')
    <3>1. UNCHANGED early /\ overtaken' = (overtaken \/ f < last)
      BY <2>2 DEF Ingest
    <3>. QED
      BY <3>1, Zenon
  <2>. QED
    BY <1>2, <2>1, <2>2
<1>3. CASE Launch \/ Construct \/ StartLoader \/ Signal \/ StartImmediately
  BY <1>3 DEF Launch, Construct, StartLoader, Signal, StartImmediately
<1>4. CASE Crash \/ TrainingRaises
  BY <1>4 DEF Crash, TrainingRaises, End
<1>5. CASE SkipWait \/ EndWait \/ ResetChunkAnchor \/ Train
  <2>1. CASE SkipWait \/ EndWait \/ Train
    BY <2>1 DEF SkipWait, EndWait, Train
  <2>2. CASE ResetChunkAnchor
    <3>1. UNCHANGED overtaken /\ early' = (early \/ loader = "indexing")
      BY <2>2 DEF ResetChunkAnchor
    <3>. QED
      BY <3>1, Zenon
  <2>. QED
    BY <1>5, <2>1, <2>2
<1>6. CASE SaveCheckpoint \/ Commit \/ ExportNetwork \/ UNCHANGED vars
  BY <1>6 DEF SaveCheckpoint, Commit, ExportNetwork, vars
<1>. QED
  BY <1>1, <1>2, <1>3, <1>4, <1>5, <1>6 DEF Next, Run

(* The counter rises with the row, and starts over when the anchor moves.  *)
LEMMA CounterKept ==
  TypeOK /\ Sources /\ Counter /\ Sources' /\ [Next]_vars => Counter'
<1>. SUFFICES ASSUME TypeOK, Sources, Counter, Sources', [Next]_vars, InOrder'
              PROVE  chunks_since_anchor' = Cardinality(Newer(row', anchor'))
  BY DEF Counter
<1>0. /\ InOrder
      /\ chunks_since_anchor = Cardinality(Newer(row, anchor))
      /\ IsFiniteSet(row) /\ chunks_since_anchor \in Nat
  <2>1. InOrder
    BY SeenStays
  <2>2. IsFiniteSet(row)
    BY FiniteCount DEF Sources
  <2>. QED
    BY <2>1, <2>2 DEF Counter, TypeOK
<1>1. ASSUME NEW f \in Keys, Ingest(f)
      PROVE  chunks_since_anchor' = Cardinality(Newer(row', anchor'))
  <2>1. /\ f \notin row /\ row' = row \cup {f} /\ anchor' = anchor /\ last' = f
        /\ chunks_since_anchor' = chunks_since_anchor + 1 /\ ~(f < last)
        /\ last \in row /\ anchor =< last
    BY <1>0, <1>1 DEF Ingest, InOrder, Sources, LastIsNewest
  <2>2. f > anchor
    BY <2>1, KeysAssumption DEF TypeOK
  <2>. QED
    BY <1>0, <2>1, <2>2, CountOne
<1>2. CASE IndexSource
  <2>1. PICK f \in scan \ row :
          row' = row \cup {f} /\ chunks_since_anchor' = chunks_since_anchor + Counts(f)
    BY <1>2 DEF IndexSource
  <2>2. anchor' = anchor
    BY <1>2 DEF IndexSource
  <2>. QED
    BY <1>0, <2>1, <2>2, CountOne DEF Counts
<1>3. CASE ResetChunkAnchor
  <2>1. loader # "indexing" /\ row' = row /\ chunks_since_anchor' = 0
        /\ anchor' = LatestChunk /\ loader # "off"
    BY <1>3 DEF ResetChunkAnchor, InOrder, Sources
  <2>2. CASE loader = "ready"
    <3>1. last \in Nat \ {0} /\ \A f \in row : f =< last
      BY <1>0, <2>2, KeysAssumption DEF Sources, LastIsNewest, InOrder, TypeOK
    <3>2. Newer(row, last) = {}
      <4>1. ASSUME NEW f \in row, f > last
            PROVE  FALSE
        BY <3>1, <4>1, KeysAssumption DEF TypeOK
      <4>. QED
        BY <4>1 DEF Newer
    <3>. QED
      BY <2>1, <3>1, <3>2, FS_EmptySet DEF LatestChunk
  <2>3. CASE loader = "failed"
    BY <2>1, <2>3, NoneNewer DEF Sources
  <2>. QED
    BY <2>1, <2>2, <2>3 DEF TypeOK, LoaderPhases
<1>4. CASE Crash \/ TrainingRaises
  BY <1>4, NoneNewer DEF Crash, TrainingRaises, End
<1>5. CASE Construct
  <2>1. row = {} /\ UNCHANGED <<row, chunks_since_anchor>>
    BY <1>5 DEF Construct, Sources
  <2>. QED
    BY <1>0, <2>1, NoneNewer
<1>6. CASE \/ FinishLoad \/ GiveUp \/ (\E f \in Keys : Arrive(f)) \/ Launch
           \/ StartLoader \/ Signal \/ StartImmediately \/ SkipWait \/ EndWait
           \/ Train \/ SaveCheckpoint \/ Commit \/ ExportNetwork \/ UNCHANGED vars
  <2>1. UNCHANGED <<row, anchor, chunks_since_anchor>>
    BY <1>6 DEF FinishLoad, GiveUp, Arrive, Launch, StartLoader, Signal,
                StartImmediately, SkipWait, EndWait, Train, SaveCheckpoint,
                Commit, ExportNetwork, vars, pool
  <2>. QED
    BY <1>0, <2>1
<1>. QED
  BY <1>1, <1>2, <1>3, <1>4, <1>5, <1>6 DEF Next, Run, Load

(* What was within an anchor stays so, as more sources come.               *)
LEMMA UsedStays ==
  ASSUME TypeOK, Sources, [Next]_vars, NEW s \in State, UsedUpto(s),
         NEW t, t.used = s.used, t.last_chunk_source = s.last_chunk_source,
         files' = files \/ \E f \in Keys : files' = files \cup {f}
  PROVE  UsedUpto(t)'
<1>1. s.used \in Nat /\ (InOrder' => InOrder)
  BY SeenStays DEF State
<1>2. IsFiniteSet(files)
  BY DEF Sources
<1>3. CASE files' = files
  BY <1>1, <1>3 DEF UsedUpto
<1>4. ASSUME NEW f \in Keys, files' = files \cup {f}
      PROVE  UsedUpto(t)'
  <2>. DEFINE key == s.last_chunk_source
  <2>1. Cardinality(Upto(files, key)) =< Cardinality(Upto(files', key))
        /\ Cardinality(Upto(files, key)) \in Nat
        /\ Cardinality(Upto(files', key)) \in Nat
    BY <1>2, <1>4, UptoGrows
  <2>. QED
    BY <1>1, <1>4, <2>1 DEF UsedUpto
<1>. QED
  BY <1>3, <1>4

(* Only a reset of the anchor uses chunks, those between the two anchors.  *)
LEMMA ResetUses ==
  TypeOK /\ TypeOK' /\ Accounts /\ ResetChunkAnchor => UsedUpto(state)' /\ Anchored'
<1>. SUFFICES ASSUME TypeOK, TypeOK', Accounts, ResetChunkAnchor
              PROVE  UsedUpto(state)' /\ Anchored'
  OBVIOUS
<1>1. /\ pc = "resetting" /\ pc' = "training" /\ anchor' = LatestChunk
      /\ UNCHANGED <<files, row, overtaken>>
      /\ early' = (early \/ loader = "indexing")
  BY DEF ResetChunkAnchor
<1>2. /\ state'.used = state.used + chunks_since_anchor
      /\ state'.last_chunk_source = anchor'
  BY ScheduleAssumption DEF ResetChunkAnchor, TypeOK, State
<1>3. anchor' \in files \cup {0}
  BY <1>1 DEF LatestChunk, Accounts, Sources, LastIsNewest
<1>4. ASSUME InOrder'
      PROVE  state'.used =< Cardinality(Upto(files, anchor'))
  <2>1. InOrder /\ loader # "indexing" /\ loader # "off"
    BY <1>1, <1>4 DEF InOrder, Accounts, Sources
  <2>2. /\ chunks_since_anchor = Cardinality(Newer(row, anchor))
        /\ state.last_chunk_source = anchor
        /\ state.used =< Cardinality(Upto(files, anchor))
    BY <1>1, <2>1 DEF Accounts, Counter, Anchored, Used, UsedUpto
  <2>3. anchor =< anchor' /\ \A f \in row : f =< anchor'
    <3>1. last \in Nat /\ anchor \in Nat
      BY KeysAssumption DEF TypeOK
    <3>2. CASE loader = "ready"
      <4>1. last # 0
        BY <3>2, KeysAssumption DEF Accounts, Sources, LastIsNewest, TypeOK
      <4>. QED
        BY <1>1, <2>1, <3>2, <4>1 DEF InOrder, Accounts, Sources, LastIsNewest, LatestChunk
    <3>3. CASE loader = "failed"
      BY <1>1, <3>1, <3>3 DEF Accounts, Sources, LatestChunk
    <3>. QED
      BY <2>1, <3>2, <3>3 DEF TypeOK, LoaderPhases
  <2>4. /\ files \in SUBSET Nat /\ IsFiniteSet(files) /\ row \in SUBSET files
        /\ anchor \in Nat /\ anchor' \in Nat
    BY KeysAssumption DEF TypeOK, Accounts, Sources
  <2>5. Cardinality(Upto(files, anchor)) + Cardinality(Newer(row, anchor))
          =< Cardinality(Upto(files, anchor'))
    BY <2>3, <2>4, CountBetween
  <2>6. /\ Cardinality(Upto(files, anchor)) \in Nat
        /\ Cardinality(Newer(row, anchor)) \in Nat
        /\ Cardinality(Upto(files, anchor')) \in Nat
    <3>1. IsFiniteSet(row)
      BY <2>4, FiniteCount
    <3>. QED
      BY <2>4, <3>1, FiniteCount DEF Upto, Newer
  <2>7. state.used \in Nat
    BY DEF TypeOK, State
  <2>. QED
    BY <1>2, <2>2, <2>5, <2>6, <2>7
<1>. QED
  BY <1>1, <1>2, <1>3, <1>4 DEF UsedUpto, Anchored

LEMMA UsedKept ==
  TypeOK /\ TypeOK' /\ Accounts /\ [Next]_vars => Used' /\ Anchored'
<1>. SUFFICES ASSUME TypeOK, TypeOK', Accounts, [Next]_vars
              PROVE  Used' /\ Anchored'
  OBVIOUS
<1>. USE DEF disk
<1>1. \A s \in {state, checkpoint} \cup saving : s \in State /\ UsedUpto(s)
  BY DEF TypeOK, Accounts, Used
<1>2. Sources
  BY DEF Accounts
<1>3. CASE ResetChunkAnchor
  <2>1. UNCHANGED <<files, saving, checkpoint>>
    BY <1>3 DEF ResetChunkAnchor
  <2>2. \A s \in {checkpoint} \cup saving : UsedUpto(s)'
    BY <1>1, <1>2, <2>1, UsedStays
  <2>. QED
    BY <1>3, <2>1, <2>2, ResetUses DEF Used
<1>4. CASE Train
  <2>1. /\ UNCHANGED <<files, saving, checkpoint, anchor>>
        /\ state'.used = state.used
        /\ state'.last_chunk_source = state.last_chunk_source
        /\ pc = "training"
    BY <1>4 DEF Train, pool, TypeOK, State
  <2>2. \A s \in {state', checkpoint'} \cup saving' : UsedUpto(s)'
    BY <1>1, <1>2, <2>1, UsedStays
  <2>3. Anchored'
    BY <2>1 DEF Accounts, Anchored
  <2>. QED
    BY <2>2, <2>3 DEF Used
<1>5. CASE \/ \E f \in Keys : Arrive(f) \/ Ingest(f)
           \/ Load \/ Launch \/ StartLoader \/ Signal \/ StartImmediately
           \/ SkipWait \/ EndWait \/ SaveCheckpoint \/ Commit \/ ExportNetwork
           \/ Construct \/ Crash \/ TrainingRaises \/ UNCHANGED vars
  <2>1. files' = files \/ \E f \in Keys : files' = files \cup {f}
    <3>1. CASE \E f \in Keys : Arrive(f) \/ Ingest(f)
      BY <3>1 DEF Arrive, Ingest
    <3>2. CASE Load \/ Crash \/ TrainingRaises \/ UNCHANGED vars
      BY <3>2 DEF Load, IndexSource, FinishLoad, GiveUp, Crash, TrainingRaises,
                  End, vars
    <3>3. CASE Launch \/ StartLoader \/ Signal \/ StartImmediately \/ SkipWait
               \/ EndWait \/ SaveCheckpoint \/ Commit \/ ExportNetwork \/ Construct
      BY <3>3 DEF Launch, StartLoader, Signal, StartImmediately, SkipWait, EndWait,
                  SaveCheckpoint, Commit, ExportNetwork, Construct
    <3>. QED
      BY <1>5, <3>1, <3>2, <3>3
  <2>2. {state', checkpoint'} \cup saving' \subseteq {state, checkpoint} \cup saving
    <3>1. CASE (\E f \in Keys : Arrive(f) \/ Ingest(f)) \/ Load
      BY <3>1 DEF Arrive, Ingest, Load, IndexSource, FinishLoad, GiveUp
    <3>2. CASE Crash \/ TrainingRaises \/ UNCHANGED vars
      BY <3>2 DEF Crash, TrainingRaises, End, vars
    <3>3. CASE Launch \/ StartLoader \/ Signal \/ StartImmediately \/ SkipWait
               \/ EndWait
      BY <3>3 DEF Launch, StartLoader, Signal, StartImmediately, SkipWait, EndWait
    <3>4. CASE SaveCheckpoint \/ Commit \/ ExportNetwork \/ Construct
      BY <3>4 DEF SaveCheckpoint, Commit, ExportNetwork, Construct
    <3>. QED
      BY <1>5, <3>1, <3>2, <3>3, <3>4
  <2>3. \A s \in {state', checkpoint'} \cup saving' : UsedUpto(s)'
    BY <1>1, <1>2, <2>1, <2>2, UsedStays
  <2>4. Anchored'
    <3>1. CASE (\E f \in Keys : Arrive(f) \/ Ingest(f)) \/ Load
      BY <3>1 DEF Arrive, Ingest, Load, IndexSource, FinishLoad, GiveUp, pool,
                  Accounts, Anchored
    <3>2. CASE Crash \/ TrainingRaises \/ UNCHANGED vars
      BY <3>2 DEF Crash, TrainingRaises, End, vars, pool, Accounts, Anchored
    <3>3. CASE Launch \/ StartLoader \/ Signal \/ StartImmediately \/ SkipWait
               \/ EndWait
      BY <3>3 DEF Launch, StartLoader, Signal, StartImmediately, SkipWait, EndWait,
                  pool, Accounts, Anchored
    <3>4. CASE SaveCheckpoint \/ Commit \/ ExportNetwork \/ Construct
      BY <3>4 DEF SaveCheckpoint, Commit, ExportNetwork, Construct, pool, Accounts,
                  Anchored
    <3>. QED
      BY <1>5, <3>1, <3>2, <3>3, <3>4
  <2>. QED
    BY <2>3, <2>4 DEF Used
<1>. QED
  BY <1>3, <1>4, <1>5 DEF Next, Run

LEMMA StepAccounts == TypeOK /\ Accounts /\ [Next]_vars => Accounts'
<1>. SUFFICES ASSUME TypeOK, Accounts, [Next]_vars
              PROVE  Accounts'
  OBVIOUS
<1>1. TypeOK'
  BY TypesKept
<1>2. Sources'
  BY SourcesKept DEF Accounts
<1>3. Counter'
  BY <1>2, CounterKept DEF Accounts
<1>. QED
  BY <1>1, <1>2, <1>3, UsedKept DEF Accounts

(* The counter and the uses are accounted for in every reachable state.    *)
THEOREM AccountsInvariant == Spec => []Accounts
<1>1. Init => Accounts
  BY InitAccounts
<1>2. TypeOK /\ Accounts /\ [Next]_vars => Accounts'
  BY StepAccounts
<1>. QED
  BY <1>1, <1>2, PipelineTypes, PTL DEF Spec

(* For any sources, in any order of arrival, and any number of crashes,    *)
(* restarts and resets, chunks_since_anchor_ is the number of sources in   *)
(* the row that are newer than anchor_: what the initial load counts by    *)
(* comparing keys and what ingestion counts one by one agree.              *)
THEOREM CounterFollowsAnchor == Spec => []CounterMatchesAnchor
<1>1. Accounts => CounterMatchesAnchor
  BY DEF Accounts, Counter, InOrder, Newer, CounterMatchesAnchor
<1>. QED
  BY <1>1, AccountsInvariant, PTL

(* A restart from any checkpoint does not count a chunk again that was     *)
(* used for the networks of that checkpoint.                               *)
THEOREM NoChunkUsedTwice == Spec => []ChunksUsedOnce
<1>1. Accounts => ChunksUsedOnce
  BY DEF Accounts, Used, UsedUpto, InOrder, Upto, ChunksUsedOnce
<1>. QED
  BY <1>1, AccountsInvariant, PTL
=============================================================================
