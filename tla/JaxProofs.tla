------------------------------ MODULE JaxProofs ------------------------------
(***************************************************************************)
(* Proofs about JaxTraining, for every configuration, model, schedule and  *)
(* net file: that a training which ends has left its last state as the     *)
(* latest checkpoint (FinishedRunIsLatest), that one which is started from *)
(* a network trains that network (TrainsFromNetwork), and that every       *)
(* checkpoint is of one training (CheckpointsOfOneRun), given that the     *)
(* learning rate of each step is what the schedule written out says.       *)
(*                                                                         *)
(* About WeightWrappers, for scripts of any length: that every save writes *)
(* what the script gave the layers (SavesAsMeant).                         *)
(*                                                                         *)
(* And about JaxConversion, for models of any configurations: that a net   *)
(* is loaded as the weights it was written from (NetsRoundTrip).  The      *)
(* parameters, their fields and their shapes are the rows of a table, in   *)
(* which no path and no field is there twice.                              *)
(***************************************************************************)
EXTENDS JaxTraining, JaxConversion, WeightWrappers, SequenceTheorems, FiniteSetTheorems, TLAPS

Rates == {LearningRate(n) : n \in Nat} \cup {0}
Tags == {"fresh", "net", "net, other swa", "override", "declared", "update"}
Entry == Tags \X Nat \X Rates
Log == Seq(Entry)

FullState ==
  [step : Nat, count : Nat, model : Log, swa_state : SUBSET Log, num_averages : Nat]
OldState ==
  [step : Nat, count : Nat, model : Log, num_averages : Nat]
Fields == {"step", "count", "model", "swa_state", "num_averages"}

(* The log of the weights of one training, up to the given step.           *)
OfOneTraining(log, step) ==
  /\ Len(log) > 0 /\ log[Len(log)][2] = step /\ log[1][1] # "update"
  /\ \A i \in 2 .. Len(log) : log[i][1] = "update" =>
       log[i][2] = log[i - 1][2] + 1 /\ log[i][3] = LearningRate(log[i - 1][2])

(* The user said what the averaged weights are.                            *)
Told(log) == \E i \in 1 .. Len(log) : log[i][1] \in {"net, other swa", "declared"}

(* The one log is the beginning of the other.                              *)
Begins(early, log) ==
  Len(early) =< Len(log) /\ \A i \in 1 .. Len(early) : early[i] = log[i]

Averaged(s) ==
  s.num_averages > 0 /\ ~Told(s.model) =>
    \A snapshot \in s.swa_state : Begins(snapshot, s.model)

Sound(s) ==
  /\ s.count = s.step /\ OfOneTraining(s.model, s.step)
  /\ s \in FullState => Averaged(s)
  /\ s \in OldState => s.num_averages = 0

HasLatest(saved) == \E n \in DOMAIN saved : \A m \in DOMAIN saved : m =< n

(* Whichever checkpoints are deleted, one of those that are left is last.  *)
AnyHaveLatest(saved) ==
  \A left \in SUBSET (DOMAIN saved) : left # {} => \E n \in left : \A m \in left : m =< n

Directory(saved) ==
  /\ DOMAIN saved \subseteq Nat
  /\ AnyHaveLatest(saved)
  /\ \A n \in DOMAIN saved : saved[n] \in FullState \cup OldState /\ Sound(saved[n])

Types ==
  /\ config \in DOMAIN Configs
  /\ net_file.training_steps \in Nat
  /\ local_step \in Nat
  /\ state \in FullState
  /\ options.resumed \in Nat

(* While the steps are counted from the checkpoint the run resumed, no     *)
(* other is ahead of it, and one of the same step is of the same state.    *)
Behind ==
  pc \in {"step", "hook save", "hook export"} /\ options.resumed = state.step - local_step =>
    \A n \in DOMAIN checkpoints :
      /\ n =< state.step
      /\ pc = "hook save" => n < state.step
      /\ n = state.step /\ local_step > 0 => checkpoints[n] = state

Inv == Types /\ Directory(checkpoints) /\ Sound(state) /\ Behind

-----------------------------------------------------------------------------
(* Lemmas.                                                                 *)

LEMMA Latest ==
  ASSUME NEW saved, HasLatest(saved)
  PROVE  /\ LatestStep(saved) \in DOMAIN saved
         /\ \A m \in DOMAIN saved : m =< LatestStep(saved)
BY DEF HasLatest, LatestStep

LEMMA DirectoryHasLatest ==
  ASSUME NEW saved, Directory(saved), DOMAIN saved # {}
  PROVE  HasLatest(saved)
BY DEF Directory, AnyHaveLatest, HasLatest

LEMMA SavedHolds ==
  ASSUME NEW saved, NEW step \in Nat, NEW s, Directory(saved),
         s \in FullState \cup OldState, Sound(s)
  PROVE  Directory(Saved(saved, step, s)) /\ DOMAIN Saved(saved, step, s) # {}
<1>1. CASE \E n \in DOMAIN saved : step <= n
  BY <1>1 DEF Saved
<1>2. CASE ~\E n \in DOMAIN saved : step <= n
  <2>. DEFINE after == Saved(saved, step, s)
  <2>1. /\ DOMAIN after = DOMAIN saved \cup {step} /\ after[step] = s
        /\ \A n \in DOMAIN saved : n # step => after[n] = saved[n]
    BY <1>2 DEF Saved
  <2>. HIDE DEF after
  <2>2. AnyHaveLatest(after)
    <3>. SUFFICES ASSUME NEW left \in SUBSET (DOMAIN after), left # {}
                  PROVE  \E n \in left : \A m \in left : m =< n
      BY DEF AnyHaveLatest
    <3>1. CASE step \in left
      <4>1. \A m \in left : m =< step
        BY <1>2, <2>1 DEF Directory
      <4>. QED
        BY <3>1, <4>1
    <3>2. CASE step \notin left
      <4>1. left \in SUBSET (DOMAIN saved)
        BY <2>1, <3>2
      <4>. QED
        BY <4>1 DEF Directory, AnyHaveLatest
    <3>. QED
      BY <3>1, <3>2
  <2>3. Directory(after) /\ DOMAIN after # {}
    BY <2>1, <2>2 DEF Directory
  <2>. QED
    BY <2>3 DEF after
<1>. QED
  BY <1>1, <1>2

(* What is left when a process dies after it deleted a checkpoint.         *)
LEMMA DeletedHolds ==
  ASSUME NEW saved, NEW step, Directory(saved)
  PROVE  Directory(Deleted(saved, step))
<1>. DEFINE without == Deleted(saved, step)
<1>1. /\ DOMAIN without \subseteq DOMAIN saved
      /\ \A n \in DOMAIN without : without[n] = saved[n]
  BY DEF Deleted
<1>. HIDE DEF without
<1>2. AnyHaveLatest(without)
  BY <1>1 DEF Directory, AnyHaveLatest
<1>3. Directory(without)
  BY <1>1, <1>2 DEF Directory
<1>. QED
  BY <1>3 DEF without

(* A checkpoint that is deleted and saved again under the same number is   *)
(* there, or others are above it.                                          *)
LEMMA ReplacedHolds ==
  ASSUME NEW saved, NEW step \in Nat, NEW s, Directory(saved),
         s \in FullState \cup OldState, Sound(s)
  PROVE  LET after == Saved(Deleted(saved, step), step, s) IN
         Directory(after) /\ DOMAIN after # {}
BY DeletedHolds, SavedHolds

(* A longer log has the same beginnings.                                   *)
LEMMA Longer ==
  ASSUME NEW log \in Log, Len(log) > 0, NEW entry \in Entry
  PROVE  LET longer == Append(log, entry) IN
         /\ longer \in Log /\ Len(longer) = Len(log) + 1 /\ longer[Len(longer)] = entry
         /\ \A i \in 1 .. Len(log) : longer[i] = log[i]
         /\ \A early \in Log : Begins(early, log) => Begins(early, longer)
         /\ Told(log) => Told(longer)
<1>. DEFINE longer == Append(log, entry)
<1>1. /\ longer \in Log /\ Len(longer) = Len(log) + 1 /\ longer[Len(longer)] = entry
      /\ \A i \in 1 .. Len(log) : longer[i] = log[i]
  BY DEF Log
<1>. HIDE DEF longer
<1>2. Len(log) \in Nat /\ \A early \in Log : Len(early) \in Nat
  BY DEF Log
<1>3. \A early \in Log : Begins(early, log) => Begins(early, longer)
  BY <1>1, <1>2 DEF Begins
<1>4. Told(log) => Told(longer)
  <2>1. 1 .. Len(log) \subseteq 1 .. Len(longer)
    BY <1>1, <1>2
  <2>. QED
    BY <1>1, <2>1, Zenon DEF Told
<1>. QED
  BY <1>1, <1>3, <1>4 DEF longer

(* A log goes on with an update from its step, or with anything else.      *)
LEMMA GoesOn ==
  ASSUME NEW log \in Log, NEW step \in Nat, NEW entry \in Entry, OfOneTraining(log, step),
         entry[1] = "update" => entry[2] = step + 1 /\ entry[3] = LearningRate(step)
  PROVE  Append(log, entry) \in Log /\ OfOneTraining(Append(log, entry), entry[2])
<1>. DEFINE longer == Append(log, entry)
<1>1. /\ longer \in Log /\ Len(longer) = Len(log) + 1 /\ longer[Len(longer)] = entry
      /\ \A i \in 1 .. Len(log) : longer[i] = log[i]
  BY Longer DEF OfOneTraining
<1>. HIDE DEF longer
<1>2. Len(log) \in Nat /\ Len(log) > 0 /\ log[Len(log)][2] = step /\ log[1][1] # "update"
  BY DEF Log, OfOneTraining
<1>3. Len(longer) > 0 /\ longer[Len(longer)][2] = entry[2] /\ longer[1][1] # "update"
  BY <1>1, <1>2
<1>4. ASSUME NEW i \in 2 .. Len(longer), longer[i][1] = "update"
      PROVE  longer[i][2] = longer[i - 1][2] + 1 /\ longer[i][3] = LearningRate(longer[i - 1][2])
  <2>1. CASE i = Len(longer)
    <3>1. i - 1 = Len(log) /\ longer[i - 1] = log[Len(log)]
      BY <1>1, <1>2, <2>1
    <3>. QED
      BY <1>1, <1>2, <1>4, <2>1, <3>1
  <2>2. CASE i # Len(longer)
    <3>1. i \in 2 .. Len(log) /\ i \in 1 .. Len(log) /\ i - 1 \in 1 .. Len(log)
      BY <1>1, <1>2, <2>2
    <3>2. longer[i] = log[i] /\ longer[i - 1] = log[i - 1]
      BY <1>1, <3>1
    <3>. QED
      BY <1>4, <3>1, <3>2 DEF OfOneTraining
  <2>. QED
    BY <2>1, <2>2
<1>5. OfOneTraining(longer, entry[2])
  BY <1>3, <1>4 DEF OfOneTraining
<1>. QED
  BY <1>1, <1>5 DEF longer

LEMMA FreshLog ==
  ASSUME NEW entry \in Entry, entry[1] # "update"
  PROVE  <<entry>> \in Log /\ OfOneTraining(<<entry>>, entry[2]) /\ Begins(<<entry>>, <<entry>>)
<1>. DEFINE log == <<entry>>
<1>1. log \in Log /\ Len(log) = 1 /\ log[1] = entry
  BY DEF Log
<1>. HIDE DEF log
<1>2. OfOneTraining(log, entry[2]) /\ Begins(log, log)
  BY <1>1 DEF OfOneTraining, Begins
<1>. QED
  BY <1>1, <1>2 DEF log

(* The entries that the commands make.                                     *)
LEMMA Entries ==
  ASSUME NEW tag \in Tags, NEW n \in Nat
  PROVE  <<tag, n, 0>> \in Entry
BY DEF Entry, Tags, Rates

LEMMA FreshSound == NewFromConfig \in FullState /\ Sound(NewFromConfig)
<1>. DEFINE entry == <<"fresh", 0, 0>>
<1>1. entry \in Entry /\ entry[1] # "update" /\ entry[2] = 0
  <2>1. entry \in Entry
    BY Entries DEF Tags
  <2>. QED
    BY <2>1
<1>. HIDE DEF entry
<1>2. <<entry>> \in Log /\ OfOneTraining(<<entry>>, 0)
  BY <1>1, FreshLog
<1>3. Fresh = <<entry>>
  BY DEF Fresh, entry
<1>4. NewFromConfig \in FullState
  BY <1>2, <1>3 DEF NewFromConfig, FullState
<1>5. NewFromConfig \notin OldState
  <2>1. "swa_state" \in DOMAIN NewFromConfig
    BY DEF NewFromConfig
  <2>. QED
    BY <2>1 DEF OldState
<1>6. Averaged(NewFromConfig) /\ NewFromConfig.step = 0 /\ NewFromConfig.count = 0
      /\ NewFromConfig.model = Fresh
  BY DEF NewFromConfig, Averaged
<1>. QED
  BY <1>2, <1>3, <1>4, <1>5, <1>6 DEF Sound

-----------------------------------------------------------------------------
(* What the commands and the training make of a sound state is sound.      *)

LEMMA FullStates ==
  ASSUME NEW s \in FullState
  PROVE  /\ DOMAIN s = Fields /\ Restorable(s) /\ s \notin OldState
         /\ s.step \in Nat /\ s.count \in Nat /\ s.model \in Log /\ s.swa_state \in SUBSET Log
         /\ s.num_averages \in Nat
<1>1. DOMAIN s = Fields
  BY DEF FullState, Fields
<1>2. DOMAIN NewFromConfig = Fields
  BY DEF NewFromConfig, Fields
<1>3. s \notin OldState
  BY <1>1 DEF OldState, Fields
<1>. QED
  BY <1>1, <1>2, <1>3 DEF FullState, Restorable

LEMMA OldStates ==
  ASSUME NEW s \in OldState
  PROVE  /\ DOMAIN s = Fields \ {"swa_state"} /\ ~Restorable(s) /\ s \notin FullState
         /\ s.step \in Nat /\ s.count \in Nat /\ s.model \in Log /\ s.num_averages \in Nat
<1>1. DOMAIN s = Fields \ {"swa_state"}
  BY DEF OldState, Fields
<1>2. DOMAIN NewFromConfig = Fields
  BY DEF NewFromConfig, Fields
<1>3. s \notin FullState
  BY <1>1 DEF FullState, Fields
<1>. QED
  BY <1>1, <1>2, <1>3 DEF OldState, Restorable, Fields

(* Soundness, field by field.                                              *)
LEMMA SoundFields ==
  ASSUME NEW s \in FullState, s.count = s.step, OfOneTraining(s.model, s.step),
         s.num_averages > 0 /\ ~Told(s.model) =>
           \A snapshot \in s.swa_state : Begins(snapshot, s.model)
  PROVE  Sound(s)
BY FullStates DEF Sound, Averaged

(* A step of the optimizer.                                                *)
LEMMA TrainedSound ==
  ASSUME NEW s \in FullState, Sound(s)
  PROVE  /\ Trained(s) \in FullState /\ Sound(Trained(s)) /\ Trained(s).step = s.step + 1
<1>. DEFINE rate == LearningRate(s.count)
            next == s.step + 1
            entry == <<"update", next, rate>>
            log == Append(s.model, entry)
            t == Trained(s)
<1>1. /\ s.step \in Nat /\ s.count = s.step /\ s.model \in Log /\ s.swa_state \in SUBSET Log
      /\ s.num_averages \in Nat /\ OfOneTraining(s.model, s.step) /\ Averaged(s)
  BY FullStates DEF Sound
<1>2. entry \in Entry /\ entry[1] = "update" /\ entry[2] = s.step + 1 /\ entry[3] = LearningRate(s.step)
  <2>1. rate \in Rates /\ rate = LearningRate(s.step)
    BY <1>1, Zenon DEF Rates
  <2>2. next \in Nat /\ next = s.step + 1
    BY <1>1
  <2>. HIDE DEF rate, next
  <2>. QED
    BY <2>1, <2>2 DEF Entry, Tags
<1>3. t = [s EXCEPT !.step = s.step + 1, !.count = s.count + 1, !.model = log]
  BY DEF Trained
<1>. HIDE DEF t, entry
<1>4. log \in Log /\ OfOneTraining(log, s.step + 1)
  BY <1>1, <1>2, GoesOn
<1>5. (\A early \in Log : Begins(early, s.model) => Begins(early, log)) /\ (Told(s.model) => Told(log))
  BY <1>1, <1>2, Longer DEF OfOneTraining
<1>. HIDE DEF log
<1>6. /\ t \in FullState /\ t.step = s.step + 1 /\ t.count = s.step + 1 /\ t.model = log
      /\ t.swa_state = s.swa_state /\ t.num_averages = s.num_averages
  <2>1. t = [s EXCEPT !.step = next, !.count = next, !.model = log]
    BY <1>1, <1>3
  <2>2. next \in Nat /\ next = s.step + 1
    BY <1>1
  <2>. HIDE DEF next
  <2>3. /\ t \in FullState /\ t.step = next /\ t.count = next /\ t.model = log
        /\ t.swa_state = s.swa_state /\ t.num_averages = s.num_averages
    BY <1>4, <2>1, <2>2 DEF FullState
  <2>. QED
    BY <2>2, <2>3
<1>7. s.num_averages > 0 /\ ~Told(log) => \A snapshot \in s.swa_state : Begins(snapshot, log)
  BY <1>1, <1>5 DEF Averaged
<1>8. Sound(t)
  BY <1>4, <1>6, <1>7, SoundFields
<1>. QED
  BY <1>6, <1>8 DEF t

(* An average of the weights, with a weight that may be none.              *)
LEMMA UpdateSwaSound ==
  ASSUME config \in DOMAIN Configs, NEW s \in FullState, Sound(s), NEW weight \in Nat
  PROVE  /\ UpdateSwa(s, weight) \in FullState /\ Sound(UpdateSwa(s, weight))
         /\ UpdateSwa(s, weight).step = s.step
<1>. DEFINE most == Unit * training.swa.num_averages
            sum == s.num_averages + weight
            n == IF sum < most THEN sum ELSE most
            swa == (IF s.num_averages = 0 THEN {} ELSE s.swa_state) \cup {s.model}
            t == UpdateSwa(s, weight)
<1>1. /\ s.step \in Nat /\ s.count = s.step /\ s.model \in Log /\ s.swa_state \in SUBSET Log
      /\ s.num_averages \in Nat /\ OfOneTraining(s.model, s.step) /\ Averaged(s)
  BY FullStates DEF Sound
<1>2. n \in Nat
  <2>1. training.swa.num_averages \in Nat
    BY NumbersAssumption DEF training
  <2>2. most \in Nat
    BY <2>1 DEF Unit
  <2>. HIDE DEF most
  <2>. QED
    BY <1>1, <2>2
<1>3. t = [s EXCEPT !.swa_state = swa, !.num_averages = n]
  BY DEF UpdateSwa
<1>4. Begins(s.model, s.model)
  BY <1>1 DEF Begins, Log
<1>5. ~Told(s.model) => \A snapshot \in swa : Begins(snapshot, s.model)
  BY <1>1, <1>4 DEF Averaged
<1>6. swa \in SUBSET Log
  BY <1>1
<1>. HIDE DEF n, swa, t
<1>7. /\ t \in FullState /\ t.step = s.step /\ t.count = s.step /\ t.model = s.model
      /\ t.swa_state = swa /\ t.num_averages = n
  BY <1>1, <1>2, <1>3, <1>6 DEF FullState
<1>8. Sound(t)
  BY <1>1, <1>5, <1>7, SoundFields
<1>. QED
  BY <1>7, <1>8 DEF t

LEMMA MaybeUpdateSwaSound ==
  ASSUME config \in DOMAIN Configs, NEW s \in FullState, Sound(s), NEW n \in Nat
  PROVE  /\ MaybeUpdateSwa(s, n) \in FullState /\ Sound(MaybeUpdateSwa(s, n))
         /\ MaybeUpdateSwa(s, n).step = s.step
<1>. DEFINE period == training.swa.period_steps
            part == (Unit * (n % period)) \div period
<1>1. Unit \in Nat
  BY DEF Unit
<1>2. CASE training.swa.enabled
  <2>1. period \in Nat \ {0}
    BY <1>2, PeriodsDivideUnit, NumbersAssumption DEF training
  <2>2. part \in Nat
    <3>. HIDE DEF period
    <3>1. n % period \in Nat
      BY <2>1
    <3>2. \A x \in Nat : (Unit * x) \div period \in Nat
      <4>1. \A y \in Nat : y \div period \in Nat
        BY <2>1, Z3
      <4>2. \A x \in Nat : Unit * x \in Nat
        BY <1>1
      <4>. QED
        BY <4>1, <4>2
    <3>. QED
      BY <3>1, <3>2
  <2>. QED
    BY <1>1, <1>2, <2>2, UpdateSwaSound DEF MaybeUpdateSwa
<1>3. CASE ~training.swa.enabled
  BY <1>3 DEF MaybeUpdateSwa
<1>. QED
  BY <1>2, <1>3

(* What init begins from is the checkpoint it restores, or a new state.    *)
Base == IF directory THEN checkpoints[LatestStep(checkpoints)] ELSE NewFromConfig

LEMMA BaseSound ==
  ASSUME Directory(checkpoints), NEW o, InitAccepts(o)
  PROVE  Base \in FullState /\ Sound(Base)
<1>1. CASE directory
  <2>1. LatestStep(checkpoints) \in DOMAIN checkpoints /\ Restorable(checkpoints[LatestStep(checkpoints)])
    BY <1>1, Latest, DirectoryHasLatest DEF InitAccepts
  <2>. QED
    BY <1>1, <2>1, OldStates DEF Directory, Base
<1>2. CASE ~directory
  BY <1>2, FreshSound DEF Base
<1>. QED
  BY <1>1, <1>2

(* The options of init that the commands can give.                         *)
Given(o) == o.override \in Nat \cup {-1} /\ o.swa_initial_nets \in Nat
StepGiven(o) == IF o.override >= 0 THEN o.override ELSE net_file.training_steps

(* The weights of a net file are a new beginning.                          *)
LEMMA LoadedSound ==
  ASSUME Types, Directory(checkpoints), NEW o, Given(o), InitAccepts(o), o.lczero_model
  PROVE  LET s == InitState(o) IN
         /\ s \in FullState /\ Sound(s) /\ s.step = StepGiven(o)
         /\ ~o.no_copy_swa /\ o.swa_initial_nets = 0 =>
              /\ s.model = <<<<"net", s.step, 0>>>> /\ s.count = s.step
              /\ s.num_averages = 0 /\ s.swa_state = {s.model}
<1>. DEFINE step == StepGiven(o)
            entry == <<IF o.no_copy_swa THEN "net, other swa" ELSE "net", step, 0>>
            loaded == <<entry>>
            swa == IF o.no_copy_swa THEN Base.swa_state ELSE {loaded}
            n == IF training.swa.enabled THEN Unit * o.swa_initial_nets ELSE 0
            t == [Base EXCEPT !.model = loaded, !.swa_state = swa, !.num_averages = n]
            s == InitState(o)
<1>1. step \in Nat
  BY DEF StepGiven, Given, Types
<1>2. n \in Nat /\ (o.swa_initial_nets = 0 => n = 0)
  BY DEF Given, Unit
<1>3. entry \in Entry /\ entry[1] # "update" /\ entry[2] = step
      /\ (o.no_copy_swa => entry[1] = "net, other swa")
  BY <1>1, Entries DEF Tags
<1>4. s = [t EXCEPT !.step = step, !.count = step]
  BY DEF InitState, WithUpdatedStep, Base, StepGiven
<1>5. Base \in FullState
  BY BaseSound
<1>6. ~o.no_copy_swa => swa = {loaded} /\ entry = <<"net", step, 0>>
  OBVIOUS
<1>. HIDE DEF step, entry
<1>7. loaded \in Log /\ OfOneTraining(loaded, step) /\ Begins(loaded, loaded)
      /\ loaded[1] = entry /\ Len(loaded) = 1
  BY <1>3, FreshLog
<1>. HIDE DEF loaded
<1>8. swa \in SUBSET Log
  BY <1>5, <1>7, FullStates
<1>9. ~Told(loaded) => \A snapshot \in swa : Begins(snapshot, loaded)
  <2>1. CASE o.no_copy_swa
    <3>1. 1 \in 1 .. Len(loaded) /\ loaded[1][1] = "net, other swa"
      <4>1. loaded[1] = entry /\ entry[1] = "net, other swa" /\ Len(loaded) = 1
        BY <1>3, <1>7, <2>1
      <4>2. 1 \in 1 .. 1
        OBVIOUS
      <4>. QED
        BY <4>1, <4>2, Zenon
    <3>. QED
      BY <3>1 DEF Told
  <2>2. CASE ~o.no_copy_swa
    BY <1>7, <2>2
  <2>. QED
    BY <2>1, <2>2
<1>. HIDE DEF swa, n
<1>10. t \in FullState /\ t.model = loaded /\ t.swa_state = swa /\ t.num_averages = n
  BY <1>2, <1>5, <1>7, <1>8 DEF FullState
<1>. HIDE DEF s, t
<1>11. /\ s \in FullState /\ s.step = step /\ s.count = step
       /\ s.model = loaded /\ s.swa_state = swa /\ s.num_averages = n
  BY <1>1, <1>4, <1>10 DEF FullState
<1>12. Sound(s)
  BY <1>7, <1>9, <1>11, SoundFields
<1>13. s.step = step /\ (~o.no_copy_swa /\ o.swa_initial_nets = 0 =>
              /\ s.model = <<<<"net", s.step, 0>>>> /\ s.count = s.step
              /\ s.num_averages = 0 /\ s.swa_state = {s.model})
  BY <1>2, <1>6, <1>11 DEF loaded
<1>. QED
  BY <1>11, <1>12, <1>13 DEF s, step

(* The step of a checkpoint is given another number.                       *)
Overridden(o) ==
  IF o.override < 0 THEN Base
  ELSE [WithUpdatedStep(Base, o.override) EXCEPT !.model = Append(@, <<"override", o.override, 0>>)]

LEMMA OverriddenSound ==
  ASSUME Directory(checkpoints), NEW o, Given(o), InitAccepts(o)
  PROVE  Overridden(o) \in FullState /\ Sound(Overridden(o))
<1>1. Base \in FullState /\ Sound(Base)
  BY BaseSound
<1>2. CASE o.override < 0
  BY <1>1, <1>2 DEF Overridden
<1>3. CASE ~(o.override < 0)
  <2>. DEFINE base == Base
              step == o.override
              entry == <<"override", step, 0>>
              log == Append(base.model, entry)
              t == [base EXCEPT !.step = step, !.count = step]
              s == Overridden(o)
  <2>1. step \in Nat
    BY <1>3 DEF Given
  <2>2. entry \in Entry /\ entry[1] # "update" /\ entry[2] = step
    BY <2>1, Entries DEF Tags
  <2>3. /\ base.model \in Log /\ base.step \in Nat /\ OfOneTraining(base.model, base.step)
        /\ Averaged(base) /\ base.swa_state \in SUBSET Log /\ base.num_averages \in Nat
        /\ base \in FullState
    BY <1>1, FullStates DEF Sound
  <2>4. s = [t EXCEPT !.model = Append(t.model, entry)]
    BY <1>3 DEF Overridden, WithUpdatedStep
  <2>. HIDE DEF base, step, entry, s
  <2>5. /\ t \in FullState /\ t.step = step /\ t.count = step /\ t.model = base.model
        /\ t.swa_state = base.swa_state /\ t.num_averages = base.num_averages
    BY <2>1, <2>3 DEF FullState
  <2>6. log \in Log /\ OfOneTraining(log, step)
    BY <2>1, <2>2, <2>3, GoesOn
  <2>7. (\A early \in Log : Begins(early, base.model) => Begins(early, log))
        /\ (Told(base.model) => Told(log))
    BY <2>2, <2>3, Longer DEF OfOneTraining
  <2>8. s = [t EXCEPT !.model = log]
    BY <2>4, <2>5
  <2>. HIDE DEF t, log
  <2>9. /\ s \in FullState /\ s.step = step /\ s.count = step /\ s.model = log
        /\ s.swa_state = base.swa_state /\ s.num_averages = base.num_averages
    BY <2>5, <2>6, <2>8 DEF FullState
  <2>10. s.num_averages > 0 /\ ~Told(log) => \A snapshot \in s.swa_state : Begins(snapshot, log)
    BY <2>3, <2>7, <2>9 DEF Averaged
  <2>11. Sound(s)
    BY <2>6, <2>9, <2>10, SoundFields
  <2>. QED
    BY <2>9, <2>11 DEF s
<1>. QED
  BY <1>2, <1>3

LEMMA InitStateSound ==
  ASSUME Types, Directory(checkpoints), NEW o, Given(o), InitAccepts(o)
  PROVE  InitState(o) \in FullState /\ Sound(InitState(o))
<1>1. CASE o.lczero_model
  BY <1>1, LoadedSound
<1>2. CASE ~o.lczero_model /\ ~(training.swa.enabled /\ o.swa_initial_nets > 0)
  <2>1. InitState(o) = Overridden(o)
    BY <1>2 DEF InitState, Overridden, Base
  <2>. QED
    BY <2>1, OverriddenSound
<1>3. CASE ~o.lczero_model /\ training.swa.enabled /\ o.swa_initial_nets > 0
  <2>. DEFINE t == Overridden(o)
              last == Last(t.model)[2]
              entry == <<"declared", last, 0>>
              log == Append(t.model, entry)
              n == Unit * o.swa_initial_nets
              s == InitState(o)
  <2>1. s = [t EXCEPT !.num_averages = n, !.model = log]
    BY <1>3 DEF InitState, Overridden, Base
  <2>2. t \in FullState /\ Sound(t)
    BY OverriddenSound
  <2>. HIDE DEF t, s
  <2>3. /\ t.step \in Nat /\ t.count = t.step /\ t.model \in Log /\ OfOneTraining(t.model, t.step)
        /\ t.swa_state \in SUBSET Log
    BY <2>2, FullStates DEF Sound
  <2>4. last = t.step
    BY <2>3 DEF OfOneTraining, Last
  <2>5. n \in Nat
    BY DEF Given, Unit
  <2>. HIDE DEF last, n
  <2>6. entry \in Entry /\ entry[1] = "declared" /\ entry[2] = t.step
    BY <2>3, <2>4, Entries DEF Tags
  <2>. HIDE DEF entry
  <2>7. log \in Log /\ OfOneTraining(log, t.step)
    BY <2>3, <2>6, GoesOn
  <2>8. Len(log) = Len(t.model) + 1 /\ Len(t.model) \in Nat /\ log[Len(log)] = entry
    BY <2>3, <2>6, Longer DEF OfOneTraining, Log
  <2>. HIDE DEF log
  <2>9. Told(log)
    <3>1. Len(log) \in 1 .. Len(log)
      BY <2>8
    <3>. QED
      BY <2>6, <2>8, <3>1 DEF Told
  <2>10. s \in FullState /\ s.step = t.step /\ s.count = t.step /\ s.model = log
    BY <2>1, <2>2, <2>3, <2>5, <2>7 DEF FullState
  <2>11. Sound(s)
    BY <2>7, <2>9, <2>10, SoundFields
  <2>. QED
    BY <2>10, <2>11 DEF s
<1>. QED
  BY <1>1, <1>2, <1>3

LEMMA StateOfFields ==
  ASSUME NEW g, g = [field \in Fields |-> g[field]],
         g.step \in Nat, g.count \in Nat, g.model \in Log, g.swa_state \in SUBSET Log,
         g.num_averages \in Nat
  PROVE  g \in FullState
BY DEF FullState, Fields

LEMMA OneElement ==
  ASSUME NEW S, NEW a \in S, NEW s, s = <<a>>
  PROVE  DOMAIN s = {1} /\ s[1] = a
<1>1. s \in Seq(S) /\ Len(s) = 1 /\ s[1] = a
  OBVIOUS
<1>2. DOMAIN s = 1 .. Len(s) /\ 1 .. 1 = {1}
  BY <1>1
<1>. QED
  BY <1>1, <1>2

(* A migration keeps the step, the optimizer's count and the weights, and  *)
(* the averaged weights with their number or none of them.                 *)
LEMMA MigrationSound ==
  ASSUME NEW old \in FullState \cup OldState, Sound(old), NEW rules \in RuleSets,
         ~Migration(old, NewFromConfig, rules).errors
  PROVE  LET new == Migration(old, NewFromConfig, rules).state IN
         new \in FullState /\ Sound(new)
<1>. DEFINE source == DOMAIN old \ {rules[i].from : i \in DOMAIN rules}
            dest == DOMAIN NewFromConfig \ {rules[i].to : i \in DOMAIN rules}
            moves == {i \in DOMAIN rules : rules[i].from \in DOMAIN old}
            new == Migration(old, NewFromConfig, rules).state
<1>. SUFFICES new \in FullState /\ Sound(new)
  OBVIOUS
<1>1. source = dest /\ RulesFit(old, NewFromConfig, rules)
  BY DEF Migration
<1>2. new = [field \in DOMAIN NewFromConfig |->
               IF field \in source \cap dest THEN old[field]
               ELSE IF \E i \in moves : rules[i].to = field
               THEN old[rules[CHOOSE i \in moves : rules[i].to = field].from]
               ELSE NewFromConfig[field]]
  BY DEF Migration
<1>3. DOMAIN NewFromConfig = Fields
  BY DEF NewFromConfig, Fields
<1>4. NewFromConfig.num_averages = 0 /\ NewFromConfig.swa_state \in SUBSET Log
  BY FreshSound, FullStates DEF NewFromConfig
<1>5. /\ old.step \in Nat /\ old.count = old.step /\ old.model \in Log /\ old.num_averages \in Nat
      /\ OfOneTraining(old.model, old.step)
  BY FullStates, OldStates DEF Sound
<1>. HIDE DEF new
<1>6. DOMAIN new = Fields /\ new = [field \in Fields |-> new[field]]
  BY <1>2, <1>3
<1>7. CASE rules = <<>>
  <2>1. source = DOMAIN old /\ dest = Fields
    <3>1. DOMAIN rules = {}
      BY <1>7
    <3>. QED
      BY <1>3, <3>1
  <2>2. old \in FullState
    BY <1>1, <2>1, OldStates DEF Fields
  <2>3. /\ new.swa_state = old.swa_state /\ new.num_averages = old.num_averages
        /\ new.step = old.step /\ new.count = old.count /\ new.model = old.model
    BY <1>1, <1>2, <1>3, <2>1 DEF Fields
  <2>4. new \in FullState
    BY <1>5, <1>6, <2>2, <2>3, FullStates, StateOfFields
  <2>. QED
    BY <1>5, <2>2, <2>3, <2>4, SoundFields DEF Sound, Averaged
<1>8. CASE rules = <<Rule("", "swa_state")>>
  <2>1. DOMAIN rules = {1} /\ rules[1].from = "" /\ rules[1].to = "swa_state"
    <3>. DEFINE rule == Rule("", "swa_state")
    <3>1. rule.from = "" /\ rule.to = "swa_state"
      BY DEF Rule
    <3>2. rules = <<rule>> /\ rule \in {rule}
      BY <1>8
    <3>. HIDE DEF rule
    <3>3. DOMAIN rules = {1} /\ rules[1] = rule
      BY <3>2, OneElement, Zenon
    <3>. QED
      BY <3>1, <3>3
  <2>2. "" \notin Fields
    BY DEF Fields
  <2>3. DOMAIN old \subseteq Fields
    BY FullStates, OldStates
  <2>4. source = DOMAIN old /\ dest = Fields \ {"swa_state"} /\ moves = {}
    BY <1>3, <2>1, <2>2, <2>3
  <2>5. old \in OldState
    BY <1>1, <2>4, FullStates DEF Fields
  <2>6. /\ new.step = old.step /\ new.count = old.count /\ new.model = old.model
        /\ new.swa_state = NewFromConfig.swa_state /\ new.num_averages = 0
    BY <1>1, <1>2, <1>3, <2>4, <2>5 DEF Fields, Sound
  <2>7. new \in FullState
    BY <1>4, <1>5, <1>6, <2>6, StateOfFields
  <2>. QED
    BY <1>5, <2>6, <2>7, SoundFields
<1>9. CASE rules = << Rule("swa_state", ""), Rule("num_averages", ""),
                       Rule("", "swa_state"), Rule("", "num_averages") >>
  <2>1. /\ DOMAIN rules = 1 .. 4
        /\ rules[1].from = "swa_state" /\ rules[1].to = ""
        /\ rules[2].from = "num_averages" /\ rules[2].to = ""
        /\ rules[3].from = "" /\ rules[3].to = "swa_state"
        /\ rules[4].from = "" /\ rules[4].to = "num_averages"
    <3>. DEFINE r1 == Rule("swa_state", "")  r2 == Rule("num_averages", "")
                r3 == Rule("", "swa_state")  r4 == Rule("", "num_averages")
    <3>1. /\ r1.from = "swa_state" /\ r1.to = "" /\ r2.from = "num_averages" /\ r2.to = ""
          /\ r3.from = "" /\ r3.to = "swa_state" /\ r4.from = "" /\ r4.to = "num_averages"
      BY DEF Rule
    <3>2. rules = <<r1, r2, r3, r4>>
      BY <1>9
    <3>. HIDE DEF r1, r2, r3, r4
    <3>3. DOMAIN rules = 1 .. 4 /\ rules[1] = r1 /\ rules[2] = r2 /\ rules[3] = r3 /\ rules[4] = r4
      BY <3>2
    <3>. QED
      BY <3>1, <3>3
  <2>2. 1 .. 4 = {1, 2, 3, 4}
    OBVIOUS
  <2>3. /\ dest = Fields \ {"swa_state", "num_averages"}
        /\ \A i \in moves : rules[i].to = ""
    <3>1. "" \notin Fields
      BY DEF Fields
    <3>2. DOMAIN old \subseteq Fields
      BY FullStates, OldStates
    <3>. QED
      BY <1>3, <2>1, <2>2, <3>1, <3>2
  <2>4. /\ new.step = old.step /\ new.count = old.count /\ new.model = old.model
        /\ new.swa_state = NewFromConfig.swa_state /\ new.num_averages = 0
    BY <1>1, <1>2, <1>3, <1>4, <2>3 DEF Fields
  <2>5. new \in FullState
    BY <1>4, <1>5, <1>6, <2>4, StateOfFields
  <2>. QED
    BY <1>5, <2>4, <2>5, SoundFields
<1>. QED
  BY <1>7, <1>8, <1>9 DEF RuleSets

-----------------------------------------------------------------------------
(* The invariant.                                                          *)

LEMMA InitHolds == Init => Inv
<1>. SUFFICES ASSUME Init PROVE Inv
  OBVIOUS
<1>1. Types
  <2>1. net_file.training_steps \in Nat
    BY NumbersAssumption DEF Init, ForeignFile
  <2>2. options.resumed \in Nat
    BY DEF Init, NoOptions
  <2>. QED
    BY <2>1, <2>2, FreshSound DEF Init, Types
<1>2. Sound(state)
  BY FreshSound DEF Init
<1>3. Behind
  BY DEF Init, Behind
<1>4. Directory(checkpoints)
  <2>1. CASE checkpoints = <<>>
    BY <2>1 DEF Directory, AnyHaveLatest
  <2>2. ASSUME NEW n \in Overrides,
               checkpoints = [m \in {n} |-> [step |-> n, count |-> n, model |-> <<<<"net", n, 0>>>>,
                                             num_averages |-> 0]]
        PROVE  Directory(checkpoints)
    <3>. DEFINE entry == <<"net", n, 0>>
                log == <<entry>>
                s == [step |-> n, count |-> n, model |-> log, num_averages |-> 0]
    <3>1. n \in Nat
      BY NumbersAssumption
    <3>2. entry \in Entry /\ entry[1] # "update" /\ entry[2] = n
      BY <3>1, Entries DEF Tags
    <3>3. checkpoints = [m \in {n} |-> s]
      BY <2>2
    <3>. HIDE DEF entry
    <3>4. log \in Log /\ OfOneTraining(log, n)
      BY <3>2, FreshLog
    <3>. HIDE DEF log
    <3>5. s \in OldState /\ s.step = n /\ s.count = n /\ s.model = log /\ s.num_averages = 0
      BY <3>1, <3>4 DEF OldState
    <3>. HIDE DEF s
    <3>6. Sound(s)
      BY <3>4, <3>5, OldStates DEF Sound
    <3>7. DOMAIN checkpoints = {n} /\ checkpoints[n] = s
      BY <3>3
    <3>8. AnyHaveLatest(checkpoints)
      BY <3>1, <3>7 DEF AnyHaveLatest
    <3>. QED
      BY <3>1, <3>5, <3>6, <3>7, <3>8 DEF Directory
  <2>. QED
    BY <2>1, <2>2 DEF Init
<1>. QED
  BY <1>1, <1>2, <1>3, <1>4 DEF Inv

(* What the options of init are in the steps.                              *)
LEMMA FromNetworkGiven ==
  ASSUME NEW ignore \in BOOLEAN, NEW override \in Overrides \cup {-1}
  PROVE  /\ Given(FromNetwork(override, ignore)) /\ FromNetwork(override, ignore).lczero_model
         /\ ~FromNetwork(override, ignore).no_copy_swa
         /\ FromNetwork(override, ignore).swa_initial_nets = 0
BY NumbersAssumption DEF FromNetwork, Given

LEMMA InitializedHolds ==
  ASSUME Inv, NEW o, Given(o), InitAccepts(o)
  PROVE  Directory(Initialized(o)) /\ DOMAIN Initialized(o) # {}
<1>1. InitState(o) \in FullState /\ Sound(InitState(o)) /\ InitState(o).step \in Nat
  BY InitStateSound, FullStates DEF Inv
<1>2. Directory(checkpoints)
  BY DEF Inv
<1>. QED
  BY <1>1, <1>2, ReplacedHolds DEF Initialized

(* A checkpoint of the older layout gets the model's weights as averages.  *)
Resumed(s) ==
  IF Restorable(s) THEN s
  ELSE [field \in DOMAIN NewFromConfig |-> IF field = "swa_state" THEN {s.model} ELSE s[field]]

LEMMA ResumedSound ==
  ASSUME NEW s \in FullState \cup OldState, Sound(s)
  PROVE  Resumed(s) \in FullState /\ Sound(Resumed(s)) /\ Resumed(s).step = s.step
<1>1. CASE s \in FullState
  BY <1>1, FullStates DEF Resumed
<1>2. CASE s \in OldState
  <2>. DEFINE g == Resumed(s)
  <2>1. DOMAIN NewFromConfig = Fields
    BY DEF NewFromConfig, Fields
  <2>2. g = [field \in Fields |-> IF field = "swa_state" THEN {s.model} ELSE s[field]]
    BY <1>2, <2>1, OldStates DEF Resumed
  <2>. HIDE DEF g
  <2>3. /\ g.step = s.step /\ g.count = s.count /\ g.model = s.model /\ g.swa_state = {s.model}
        /\ g.num_averages = s.num_averages /\ g = [field \in Fields |-> g[field]]
    BY <2>2 DEF Fields
  <2>4. /\ s.step \in Nat /\ s.count = s.step /\ s.model \in Log /\ s.num_averages = 0
        /\ OfOneTraining(s.model, s.step)
    BY <1>2, OldStates DEF Sound
  <2>5. g \in FullState
    BY <2>3, <2>4, StateOfFields
  <2>6. Sound(g)
    BY <2>3, <2>4, <2>5, SoundFields
  <2>. QED
    BY <2>3, <2>5, <2>6 DEF g
<1>. QED
  BY <1>1, <1>2

LEMMA StoppedHolds ==
  ASSUME Inv, Stopped, UNCHANGED config, net_file'.training_steps \in Nat, UNCHANGED checkpoints
  PROVE  Inv'
<1>1. Types'
  BY FreshSound DEF Inv, Types, Stopped, NoOptions
<1>2. Sound(state)'
  BY FreshSound DEF Stopped
<1>3. Behind'
  BY DEF Stopped, Behind
<1>. QED
  BY <1>1, <1>2, <1>3 DEF Inv

(* A command of which the training process is not a part.                  *)
LEMMA CommandHolds ==
  ASSUME Inv, pc = "down", UNCHANGED <<pc, local_step, state, options>>,
         config' \in DOMAIN Configs, net_file'.training_steps \in Nat, Directory(checkpoints')
  PROVE  Inv'
<1>1. Types'
  BY DEF Inv, Types
<1>2. Sound(state)' /\ Behind'
  BY DEF Inv, Behind
<1>. QED
  BY <1>1, <1>2 DEF Inv

LEMMA StartTrainingHolds ==
  ASSUME Inv, NEW from_network \in BOOLEAN, NEW ignore \in BOOLEAN,
         NEW override \in Overrides \cup {-1}, NEW every \in Intervals,
         StartTraining(from_network, override, ignore, every)
  PROVE  Inv'
<1>. DEFINE o == FromNetwork(override, ignore)
            saved == IF from_network THEN Initialized(o) ELSE checkpoints
            latest == saved[LatestStep(saved)]
<1>1. /\ pc = "down" /\ (from_network => InitAccepts(o)) /\ checkpoints' = saved
      /\ local_step' = 0 /\ UNCHANGED <<config, net_file>>
  BY DEF StartTraining, Command
<1>2. Given(o)
  BY FromNetworkGiven
<1>3. Directory(saved)
  BY <1>1, <1>2, InitializedHolds DEF Inv
<1>4. CASE UNCHANGED <<pc, state, options>>
  <2>1. Types'
    BY <1>1, <1>4 DEF Inv, Types
  <2>2. Sound(state)' /\ Behind'
    BY <1>1, <1>4 DEF Inv, Behind
  <2>. QED
    BY <1>1, <1>3, <2>1, <2>2 DEF Inv
<1>5. CASE /\ DOMAIN saved # {} /\ pc' = "step" /\ state' = Resumed(latest)
           /\ options'.resumed = LatestStep(saved)
  <2>. HIDE DEF saved
  <2>1. /\ LatestStep(saved) \in DOMAIN saved /\ \A n \in DOMAIN saved : n =< LatestStep(saved)
        /\ LatestStep(saved) \in Nat
    BY <1>3, <1>5, Latest, DirectoryHasLatest DEF Directory
  <2>2. latest \in FullState \cup OldState /\ Sound(latest)
    BY <1>3, <2>1 DEF Directory
  <2>3. state' \in FullState /\ Sound(state')
    BY <1>5, <2>2, ResumedSound
  <2>4. Types'
    BY <1>1, <1>5, <2>1, <2>3 DEF Inv, Types
  <2>5. Behind'
    <3>1. state'.step \in Nat
      BY <2>3, FullStates
    <3>2. options'.resumed = state'.step - local_step' => LatestStep(saved) = state'.step
      BY <1>1, <1>5, <2>1, <3>1
    <3>. QED
      BY <1>1, <1>5, <2>1, <3>1, <3>2 DEF Behind
  <2>. QED
    BY <1>1, <1>3, <2>3, <2>4, <2>5 DEF Inv
<1>. QED
  BY <1>4, <1>5 DEF StartTraining, Resumed

LEMMA TrainStepHolds ==
  ASSUME Inv, TrainStep
  PROVE  Inv'
<1>1. /\ pc = "step" /\ pc' = "hook save" /\ local_step' = local_step + 1
      /\ state' = MaybeUpdateSwa(Trained(state), local_step + 1)
      /\ UNCHANGED <<config, checkpoints, net_file, options>>
  BY DEF TrainStep
<1>2. /\ state \in FullState /\ Sound(state) /\ local_step \in Nat /\ config \in DOMAIN Configs
      /\ Directory(checkpoints) /\ options.resumed \in Nat /\ net_file.training_steps \in Nat
  BY DEF Inv, Types
<1>3. /\ Trained(state) \in FullState /\ Sound(Trained(state))
      /\ Trained(state).step = state.step + 1
  BY <1>2, TrainedSound
<1>4. local_step + 1 \in Nat
  BY <1>2
<1>5. state' \in FullState /\ Sound(state') /\ state'.step = state.step + 1
  BY <1>1, <1>2, <1>3, <1>4, MaybeUpdateSwaSound
<1>6. Types'
  BY <1>1, <1>2, <1>4, <1>5 DEF Types
<1>7. Behind'
  <2>. DEFINE step == state.step  next == state'.step  resumed == options.resumed
  <2>1. /\ step \in Nat /\ DOMAIN checkpoints \subseteq Nat /\ next = step + 1
        /\ local_step \in Nat /\ local_step' = local_step + 1 /\ resumed \in Nat
    BY <1>1, <1>2, <1>5, FullStates DEF Directory
  <2>2. /\ options'.resumed = resumed /\ checkpoints' = checkpoints /\ pc = "step"
    BY <1>1
  <2>3. resumed = step - local_step => \A n \in DOMAIN checkpoints : n =< step
    BY <2>2 DEF Inv, Behind
  <2>4. Behind' = (pc' \in {"step", "hook save", "hook export"} /\ options'.resumed = next - local_step' =>
          \A n \in DOMAIN checkpoints' :
            /\ n =< next
            /\ pc' = "hook save" => n < next
            /\ n = next /\ local_step' > 0 => checkpoints'[n] = state')
    BY DEF Behind
  <2>. HIDE DEF step, next, resumed
  <2>5. resumed = next - local_step' => \A n \in DOMAIN checkpoints : n < next
    BY <2>1, <2>3
  <2>6. options'.resumed = next - local_step' =>
          \A n \in DOMAIN checkpoints' : n \in Nat /\ n < next
    BY <2>1, <2>2, <2>5
  <2>7. next \in Nat /\ \A n \in Nat : n < next => n =< next /\ n # next
    BY <2>1
  <2>. QED
    BY <2>4, <2>6, <2>7
<1>. QED
  BY <1>1, <1>2, <1>5, <1>6, <1>7 DEF Inv

LEMMA HookSaveHolds ==
  ASSUME Inv, HookSave
  PROVE  Inv'
<1>1. /\ pc = "hook save" /\ pc' = "hook export"
      /\ UNCHANGED <<config, net_file, local_step, state, options>>
      /\ checkpoints' \in {checkpoints, Saved(checkpoints, state.step, state)}
  BY DEF HookSave
<1>2. state \in FullState /\ Sound(state) /\ Directory(checkpoints) /\ state.step \in Nat
  BY FullStates DEF Inv, Types
<1>3. Directory(checkpoints')
  BY <1>1, <1>2, SavedHolds
<1>4. Behind'
  <2>1. DOMAIN checkpoints \subseteq Nat
    BY <1>2 DEF Directory
  <2>2. ASSUME options.resumed = state.step - local_step
        PROVE  \A n \in DOMAIN checkpoints' : n =< state.step /\ (n = state.step => checkpoints'[n] = state)
    <3>1. \A n \in DOMAIN checkpoints : n < state.step
      BY <1>1, <2>2 DEF Inv, Behind
    <3>2. CASE checkpoints' = checkpoints
      BY <1>2, <2>1, <3>1, <3>2
    <3>3. CASE checkpoints' = Saved(checkpoints, state.step, state)
      <4>1. ~ \E n \in DOMAIN checkpoints : state.step <= n
        BY <1>2, <2>1, <3>1
      <4>2. checkpoints' = [n \in DOMAIN checkpoints \cup {state.step} |->
                              IF n = state.step THEN state ELSE checkpoints[n]]
        BY <3>3, <4>1 DEF Saved
      <4>. QED
        BY <1>2, <2>1, <3>1, <4>2
    <3>. QED
      BY <1>1, <3>2, <3>3
  <2>. QED
    BY <1>1, <2>2 DEF Behind
<1>5. Types' /\ Sound(state)'
  BY <1>1 DEF Inv, Types
<1>. QED
  BY <1>3, <1>4, <1>5 DEF Inv

LEMMA NextHolds == Inv /\ [Next]_run => Inv'
<1>. SUFFICES ASSUME Inv, [Next]_run PROVE Inv'
  OBVIOUS
<1>1. /\ Types /\ Directory(checkpoints) /\ Sound(state)
      /\ config \in DOMAIN Configs /\ net_file.training_steps \in Nat
  BY DEF Inv, Types
<1>2. CASE UNCHANGED run
  BY <1>2 DEF run, Inv, Types, Behind
<1>3. CASE EditConfig
  BY <1>1, <1>3, CommandHolds DEF EditConfig, Command
<1>4. ASSUME NEW o \in InitOptions, InitCheckpoint(o) \/ InitDies(o)
      PROVE  Inv'
  <2>1. Given(o)
    <3>1. o.override \in Overrides \cup {-1} /\ o.swa_initial_nets \in {0, 1}
      BY DEF InitOptions
    <3>2. Overrides \subseteq Nat
      BY NumbersAssumption
    <3>. QED
      BY <3>1, <3>2, {0, 1} \subseteq Nat, Zenon DEF Given
  <2>2. /\ pc = "down" /\ InitAccepts(o)
        /\ checkpoints' \in {Initialized(o), Deleted(checkpoints, InitState(o).step)}
        /\ UNCHANGED <<config, net_file, pc, local_step, state, options>>
    BY <1>4 DEF InitCheckpoint, InitDies, Command
  <2>3. Directory(checkpoints')
    BY <1>1, <2>1, <2>2, InitializedHolds, DeletedHolds
  <2>. QED
    BY <1>1, <2>2, <2>3, CommandHolds
<1>5. ASSUME NEW from_network \in BOOLEAN, NEW ignore \in BOOLEAN,
             NEW override \in Overrides \cup {-1}, NEW every \in Intervals,
             StartTraining(from_network, override, ignore, every)
      PROVE  Inv'
  BY <1>5, StartTrainingHolds
<1>6. CASE TrainStep
  BY <1>6, TrainStepHolds
<1>7. CASE HookSave
  BY <1>7, HookSaveHolds
<1>8. CASE HookExport
  <2>1. Types'
    BY <1>1, <1>8 DEF HookExport, Types, OwnFile
  <2>2. Behind'
    BY <1>8 DEF HookExport, Inv, Behind
  <2>. QED
    BY <1>8, <2>1, <2>2 DEF HookExport, Inv
<1>9. CASE FinalSave
  <2>1. state \in FullState /\ state.step \in Nat
    BY <1>1, FullStates DEF Types
  <2>2. Directory(checkpoints')
    BY <1>1, <1>9, <2>1, SavedHolds DEF FinalSave
  <2>3. Types' /\ Sound(state)' /\ Behind'
    BY <1>1, <1>9 DEF FinalSave, Types, Behind
  <2>. QED
    BY <2>2, <2>3 DEF Inv
<1>10. CASE FinalExport
  BY <1>1, <1>10, StoppedHolds DEF FinalExport, OwnFile
<1>11. CASE Crash
  BY <1>1, <1>11, StoppedHolds DEF Crash
<1>12. CASE ExportLatest
  <2>1. LatestStep(checkpoints) \in DOMAIN checkpoints
    BY <1>1, <1>12, Latest, DirectoryHasLatest DEF ExportLatest
  <2>2. checkpoints[LatestStep(checkpoints)].step \in Nat
    BY <1>1, <2>1, FullStates, OldStates DEF Directory
  <2>3. net_file'.training_steps \in Nat
    BY <1>12, <2>2 DEF ExportLatest, OwnFile
  <2>. QED
    BY <1>1, <1>12, <2>3, CommandHolds DEF ExportLatest, Command
<1>13. ASSUME NEW step \in DOMAIN checkpoints, NEW rules \in RuleSets,
              NEW new_step \in {step} \cup Overrides, MigrateCheckpoint(step, rules, new_step)
       PROVE  Inv'
  <2>. DEFINE m == Migration(checkpoints[step], NewFromConfig, rules)
  <2>1. /\ pc = "down" /\ ~m.errors
        /\ checkpoints' = Saved(Deleted(checkpoints, new_step), new_step, m.state)
        /\ UNCHANGED <<config, net_file, pc, local_step, state, options>>
    BY <1>13 DEF MigrateCheckpoint, Command
  <2>2. new_step \in Nat
    BY <1>1, NumbersAssumption DEF Directory
  <2>3. checkpoints[step] \in FullState \cup OldState /\ Sound(checkpoints[step])
    BY <1>1 DEF Directory
  <2>4. m.state \in FullState /\ Sound(m.state)
    BY <2>1, <2>3, MigrationSound
  <2>. HIDE DEF m
  <2>5. Directory(checkpoints')
    BY <1>1, <2>1, <2>2, <2>4, ReplacedHolds
  <2>. QED
    BY <1>1, <2>1, <2>5, CommandHolds
<1>14. ASSUME NEW step, NEW rules, NEW new_step, MigrationDies(step, rules, new_step)
       PROVE  Inv'
  <2>1. /\ pc = "down" /\ checkpoints' = Deleted(checkpoints, new_step)
        /\ UNCHANGED <<config, net_file, pc, local_step, state, options>>
    BY <1>14 DEF MigrationDies, Command
  <2>2. Directory(checkpoints')
    BY <1>1, <2>1, DeletedHolds
  <2>. QED
    BY <1>1, <2>1, <2>2, CommandHolds
<1>. QED
  BY <1>2, <1>3, <1>4, <1>5, <1>6, <1>7, <1>8, <1>9, <1>10, <1>11, <1>12, <1>13, <1>14 DEF Next

THEOREM DirectoryHolds == Spec => []Inv
BY InitHolds, NextHolds, PTL DEF Spec

-----------------------------------------------------------------------------
(* What follows from the invariant.                                        *)

LEMMA LatestIs ==
  ASSUME NEW saved, NEW step \in DOMAIN saved, DOMAIN saved \subseteq Nat,
         \A n \in DOMAIN saved : n =< step
  PROVE  LatestStep(saved) = step
<1>1. HasLatest(saved)
  BY DEF HasLatest
<1>2. /\ LatestStep(saved) \in DOMAIN saved /\ step \in Nat
      /\ LatestStep(saved) \in Nat /\ step =< LatestStep(saved) /\ LatestStep(saved) =< step
  BY <1>1, Latest
<1>. QED
  BY <1>2

LEMMA FinalSaveIsLatest ==
  ASSUME Inv, FinalSave, options.resumed = state.step - local_step
  PROVE  checkpoints'[LatestStep(checkpoints')] = state
<1>. DEFINE step == state.step
<1>1. /\ step \in Nat /\ DOMAIN checkpoints \subseteq Nat /\ Directory(checkpoints)
      /\ pc = "step" /\ checkpoints' = Saved(checkpoints, step, state)
  BY FullStates DEF Inv, Types, Directory, FinalSave
<1>2. local_step > 0
  <2>1. training.steps_per_network \in Nat \ {0}
    BY NumbersAssumption DEF Inv, Types, training
  <2>2. local_step = training.steps_per_network
    BY DEF FinalSave
  <2>3. \A n \in Nat \ {0} : n > 0
    OBVIOUS
  <2>. QED
    BY <2>1, <2>2, <2>3, Zenon
<1>3. \A n \in DOMAIN checkpoints : n =< step /\ (n = step => checkpoints[n] = state)
  BY <1>1, <1>2 DEF Inv, Behind
<1>. HIDE DEF step
<1>4. CASE \E n \in DOMAIN checkpoints : step <= n
  <2>1. checkpoints' = checkpoints
    BY <1>1, <1>4 DEF Saved
  <2>2. step \in DOMAIN checkpoints
    BY <1>1, <1>3, <1>4
  <2>3. LatestStep(checkpoints) = step
    BY <1>1, <1>3, <2>2, LatestIs
  <2>. QED
    BY <1>3, <2>1, <2>2, <2>3
<1>5. CASE ~ \E n \in DOMAIN checkpoints : step <= n
  <2>. DEFINE saved == Saved(checkpoints, step, state)
  <2>1. saved = [n \in DOMAIN checkpoints \cup {step} |-> IF n = step THEN state ELSE checkpoints[n]]
    BY <1>5 DEF Saved
  <2>. HIDE DEF saved
  <2>2. /\ step \in DOMAIN saved /\ DOMAIN saved \subseteq Nat /\ saved[step] = state
        /\ \A n \in DOMAIN saved : n =< step
    BY <1>1, <1>3, <2>1
  <2>3. LatestStep(saved) = step
    BY <2>2, LatestIs
  <2>. QED
    BY <1>1, <2>2, <2>3 DEF saved
<1>. QED
  BY <1>4, <1>5

(* A training that ends has left its last state as the latest checkpoint,  *)
(* whatever was restored, trained, saved or interrupted before: the final  *)
(* save of Training.run is refused by the checkpoint manager only when the *)
(* hook has saved that very state.                                         *)
THEOREM FinishedIsLatest == Spec => FinishedRunIsLatest
<1>1. Inv /\ [Next]_run =>
        [FinalSave /\ options.resumed = state.step - local_step =>
           checkpoints'[LatestStep(checkpoints')] = state]_run
  BY FinalSaveIsLatest
<1>. QED
  BY <1>1, DirectoryHolds, PTL DEF Spec, FinishedRunIsLatest

LEMMA TrainsIt ==
  ASSUME Inv, Next, pc = "down", pc' = "step", options'.from_network,
         \A n \in DOMAIN checkpoints : n <= options'.from_step
  PROVE  /\ state'.model = <<<<"net", options'.from_step, 0>>>>
         /\ state'.step = options'.from_step /\ state'.count = options'.from_step
         /\ state'.num_averages = 0 /\ state'.swa_state = {state'.model}
<1>1. PICK from_network \in BOOLEAN, ignore \in BOOLEAN, override \in Overrides \cup {-1},
           every \in Intervals : StartTraining(from_network, override, ignore, every)
  <2>1. "down" # "step"
    OBVIOUS
  <2>2. ~EditConfig /\ ~ExportLatest
    BY <2>1 DEF EditConfig, ExportLatest
  <2>3. ~TrainStep /\ ~HookSave /\ ~HookExport /\ ~FinalSave /\ ~FinalExport /\ ~Crash
    BY DEF TrainStep, HookSave, HookExport, FinalSave, FinalExport, Crash
  <2>4. /\ \A o : ~InitCheckpoint(o)
        /\ \A o : ~InitDies(o)
        /\ \A step, rules, new_step : /\ ~MigrateCheckpoint(step, rules, new_step)
                                      /\ ~MigrationDies(step, rules, new_step)
    BY <2>1 DEF InitCheckpoint, InitDies, MigrateCheckpoint, MigrationDies
  <2>. QED
    BY <2>2, <2>3, <2>4 DEF Next
<1>. DEFINE o == FromNetwork(override, ignore)
            s == InitState(o)
            saved == Initialized(o)
<1>2. Given(o) /\ o.lczero_model /\ ~o.no_copy_swa /\ o.swa_initial_nets = 0
  BY FromNetworkGiven
<1>3. /\ InitAccepts(o) /\ options'.from_step = s.step
      /\ state' = Resumed(saved[LatestStep(saved)])
  <2>1. from_network
    BY <1>1 DEF StartTraining
  <2>. QED
    BY <1>1, <2>1 DEF StartTraining, Resumed
<1>. HIDE DEF o
<1>4. /\ s \in FullState /\ s.model = <<<<"net", s.step, 0>>>> /\ s.count = s.step
      /\ s.num_averages = 0 /\ s.swa_state = {s.model} /\ s.step \in Nat
  BY <1>2, <1>3, LoadedSound, FullStates DEF Inv
<1>. HIDE DEF s
<1>5. saved[LatestStep(saved)] = s
  <2>. DEFINE step == s.step
              without == Deleted(checkpoints, step)
  <2>1. saved = Saved(without, step, s)
    BY DEF Initialized, s
  <2>2. /\ DOMAIN without = DOMAIN checkpoints \ {step} /\ step \in Nat
        /\ DOMAIN checkpoints \subseteq Nat /\ \A n \in DOMAIN checkpoints : n <= step
    BY <1>3, <1>4 DEF Deleted, Inv, Directory
  <2>. HIDE DEF without, step, saved
  <2>3. ~ \E n \in DOMAIN without : step <= n
    BY <2>2
  <2>4. saved = [n \in DOMAIN without \cup {step} |-> IF n = step THEN s ELSE without[n]]
    BY <2>1, <2>3 DEF Saved
  <2>5. /\ step \in DOMAIN saved /\ DOMAIN saved \subseteq Nat /\ saved[step] = s
        /\ \A n \in DOMAIN saved : n =< step
    BY <2>2, <2>4
  <2>6. LatestStep(saved) = step
    BY <2>5, LatestIs
  <2>. QED
    BY <2>5, <2>6
<1>6. state' = s
  BY <1>3, <1>4, <1>5, FullStates DEF Resumed
<1>. QED
  BY <1>3, <1>4, <1>6

(* A training that is started from a network trains that network from the  *)
(* step asked for, and has averaged nothing yet, unless the directory has  *)
(* a checkpoint of a later step, for every file, configuration and content *)
(* of the directory: what init wrote is what the training restores.        *)
THEOREM TrainsTheNetwork == Spec => TrainsFromNetwork
<1>1. Inv /\ [Next]_run =>
        [pc = "down" /\ pc' = "step" /\ options'.from_network
           /\ (\A n \in DOMAIN checkpoints : n <= options'.from_step) =>
           /\ state'.model = <<<<"net", options'.from_step, 0>>>>
           /\ state'.step = options'.from_step /\ state'.count = options'.from_step
           /\ state'.num_averages = 0 /\ state'.swa_state = {state'.model}]_run
  BY TrainsIt
<1>. QED
  BY <1>1, DirectoryHolds, PTL DEF Spec, TrainsFromNetwork

LEMMA BeginsIsPrefix ==
  ASSUME NEW early \in Log, NEW log \in Log, Begins(early, log)
  PROVE  IsPrefix(early, log)
<1>1. /\ Len(early) \in Nat /\ Len(log) \in Nat /\ Len(early) =< Len(log)
      /\ \A i \in 1 .. Len(early) : early[i] = log[i]
  BY DEF Begins, Log
<1>2. SubSeq(early, 1, Len(early)) = SubSeq(log, 1, Len(early))
  BY <1>1 DEF Log
<1>. QED
  BY <1>1, <1>2 DEF IsPrefix

LEMMA SoundIsOfOneRun ==
  ASSUME \A n \in Nat : LearningRate(n) = RateOfStep(n),
         NEW s \in FullState \cup OldState, Sound(s)
  PROVE  OfOneRun(s)
<1>. DEFINE log == s.model
<1>1. /\ s.step \in Nat /\ s.count = s.step /\ log \in Log /\ s.num_averages \in Nat
      /\ OfOneTraining(log, s.step)
  BY FullStates, OldStates DEF Sound
<1>. HIDE DEF log
<1>2. Len(log) \in Nat /\ Len(log) > 0 /\ DOMAIN log = 1 .. Len(log)
      /\ log[1][1] # "update" /\ \A i \in 1 .. Len(log) : log[i] \in Entry
  BY <1>1 DEF OfOneTraining, Log
<1>3. Last(log)[2] = s.step
  BY <1>1, <1>2 DEF OfOneTraining, Last
<1>4. ASSUME NEW i \in DOMAIN log, log[i][1] = "update"
      PROVE  log[i][2] = log[i - 1][2] + 1 /\ log[i][3] = RateOfStep(log[i - 1][2])
  <2>1. i # 1
    BY <1>2, <1>4
  <2>2. i \in 2 .. Len(log) /\ i - 1 \in 1 .. Len(log)
    BY <1>2, <2>1
  <2>3. log[i][2] = log[i - 1][2] + 1 /\ log[i][3] = LearningRate(log[i - 1][2])
    BY <1>1, <1>4, <2>2 DEF OfOneTraining
  <2>4. log[i - 1][2] \in Nat
    <3>1. \A e \in Entry : e[2] \in Nat
      BY DEF Entry
    <3>. QED
      BY <1>2, <2>2, <3>1
  <2>. QED
    BY <2>3, <2>4
<1>5. ASSUME "swa_state" \in DOMAIN s, s.num_averages > 0,
             ~ \E i \in DOMAIN log : log[i][1] \in {"net, other swa", "declared"},
             NEW snapshot \in s.swa_state
      PROVE  IsPrefix(snapshot, log)
  <2>1. s \in FullState
    BY <1>5, OldStates
  <2>2. ~Told(log)
    BY <1>2, <1>5, Zenon DEF Told
  <2>3. Begins(snapshot, log)
    BY <1>5, <2>1, <2>2 DEF Sound, Averaged, log
  <2>4. snapshot \in Log
    BY <2>1, FullStates
  <2>. QED
    BY <1>1, <2>3, <2>4, BeginsIsPrefix
<1>. QED
  BY <1>1, <1>3, <1>4, <1>5 DEF OfOneRun, log

(* Whatever is initialized, overridden, migrated, interrupted and resumed, *)
(* every checkpoint is of one training without gaps or repetitions, and    *)
(* its averaged weights are of moments of that training; each update has   *)
(* the rate that the schedule gives its step if the two ways to compute    *)
(* the rate, by rule and written out, agree.                               *)
THEOREM OneRunEach ==
  ASSUME \A n \in Nat : LearningRate(n) = RateOfStep(n)
  PROVE  Spec => []CheckpointsOfOneRun
<1>1. Inv => CheckpointsOfOneRun
  BY SoundIsOfOneRun DEF Inv, Directory, CheckpointsOfOneRun
<1>. QED
  BY <1>1, DirectoryHolds, PTL

-----------------------------------------------------------------------------
(* WeightWrappers: for any number of operations of a script.             *)

(* What the wrapper of a layer shows is what the script means.             *)
Kept(layer, wrapper, want, lost) ==
  /\ wrapper.modified => wrapper.decoded
  /\ ~lost =>
       /\ want = {} => layer = Unset /\ ~wrapper.modified
       /\ want # {} /\ wrapper.modified => wrapper.value = want
       /\ want # {} /\ ~wrapper.modified => Decode(layer, Fallback) = want
       /\ wrapper.decoded /\ ~wrapper.modified => wrapper.value = Decode(layer, Fallback)

WrapperShape(wrapper) ==
  /\ DOMAIN wrapper = {"value", "decoded", "modified"}
  /\ wrapper.decoded \in BOOLEAN /\ wrapper.modified \in BOOLEAN

Shapes ==
  /\ DOMAIN layers = Nets /\ DOMAIN wrappers = Nets /\ DOMAIN meant = Nets /\ DOMAIN excused = Nets
  /\ \A n \in Nets : /\ DOMAIN layers[n] = Leaves /\ DOMAIN meant[n] = Leaves
                     /\ excused[n] \subseteq Leaves
                     /\ DOMAIN wrappers[n] = Keys
                     /\ \A key \in Keys : WrapperShape(wrappers[n][key])

(* The lists are filled from the front, and only what is there is read.    *)
Lists ==
  \A n \in Nets : /\ layers[n]["enc0"] # Unset
                  /\ wrappers[n]["enc1"].decoded => layers[n]["enc1"] # Unset

Meant ==
  \A n \in Nets, leaf \in Leaves :
    Kept(layers[n][leaf], wrappers[n][leaf], meant[n][leaf], leaf \in excused[n])

ScriptInv == Shapes /\ Lists /\ Meant

-----------------------------------------------------------------------------
LEMMA LastIsLeaf ==
  ASSUME ScriptInv, NEW n \in Nets
  PROVE  /\ Length(n) \in {1, 2}
         /\ Leaf(n, "last") \in {"enc0", "enc1"} /\ Has(n, Leaf(n, "last"))
<1>1. Has(n, "enc0") /\ List[1] = "enc0" /\ List[2] = "enc1" /\ 1 .. 2 = {1, 2}
  BY DEF ScriptInv, Lists, Has, List
<1>2. CASE Has(n, "enc1")
  <2>1. {i \in 1 .. 2 : Has(n, List[i])} = 1 .. 2
    BY <1>1, <1>2
  <2>2. Cardinality(1 .. 2) = 2
    BY FS_Interval, 1 \in Int, 2 \in Int, ~(1 > 2), 2 - 1 + 1 = 2
  <2>3. Length(n) = 2
    BY <2>1, <2>2, Zenon DEF Length
  <2>. QED
    BY <1>1, <1>2, <2>3 DEF Leaf
<1>3. CASE ~Has(n, "enc1")
  <2>1. {i \in 1 .. 2 : Has(n, List[i])} = {1}
    BY <1>1, <1>3
  <2>2. Length(n) = 1
    BY <2>1, FS_Singleton DEF Length
  <2>. QED
    BY <1>1, <2>2 DEF Leaf
<1>. QED
  BY <1>2, <1>3

LEMMA KeyIsLeaf ==
  ASSUME ScriptInv, NEW n \in Nets, NEW key \in Keys
  PROVE  /\ Leaf(n, key) \in Leaves
         /\ key \in Leaves => Leaf(n, key) = key
         /\ key \notin Leaves => key = "last" /\ Leaf(n, key) \in {"enc0", "enc1"} /\ Has(n, Leaf(n, key))
         /\ key = "enc1" /\ Reachable(n, key) => Has(n, key)
<1>1. "last" \notin Leaves /\ Leaves \subseteq Keys /\ {"enc0", "enc1"} \subseteq Leaves
      /\ key \in Leaves \cup {"last"}
  BY DEF Leaves, Keys
<1>2. key = "enc1" => (Reachable(n, key) <=> Has(n, key))
  BY DEF Reachable, List
<1>. QED
  BY <1>1, <1>2, LastIsLeaf DEF Leaf

(* What was written to the wrapper of a layer can be read again.           *)
LEMMA WrittenIsReachable ==
  ASSUME ScriptInv, NEW n \in Nets, NEW leaf \in Leaves,
         wrappers[n][leaf].decoded
  PROVE  leaf \in Keys /\ Leaf(n, leaf) = leaf /\ Reachable(n, leaf)
<1>1. leaf \in Keys /\ leaf # "last" /\ List[1] = "enc0" /\ List[2] = "enc1"
  BY DEF Keys, Leaves, List
<1>2. leaf \in {"enc0", "enc1"} => Has(n, leaf)
  BY DEF ScriptInv, Lists, Has
<1>. QED
  BY <1>1, <1>2, KeyIsLeaf DEF Reachable

(* Encoding loses nothing that the model tells apart.                      *)
LEMMA EncodedIsDecoded ==
  ASSUME NEW value, NEW encoding \in Encodings
  PROVE  /\ Encode(value, encoding) # Unset
         /\ Decode(Encode(value, encoding), Fallback) = value
BY DEF Encode, Decode, Unset, Empty, Encodings, FLOAT16, BFLOAT16

LEMMA EmptyIsDecoded ==
  Decode(Unset, Fallback) = {0} /\ Decode(Empty, Fallback) = {0} /\ Empty # Unset
<1>1. Empty # Unset
  <2>1. Empty.value = {0} /\ Unset.value = {}
    BY DEF Empty, Unset
  <2>. QED
    BY <2>1, 0 \in {0}
<1>2. ASSUME NEW layer \in {Unset, Empty}
      PROVE  Decode(layer, Fallback) = {0}
  <2>1. layer.encoding = 0 /\ layer.bytes = 0
    BY <1>2 DEF Unset, Empty
  <2>. QED
    BY <1>2, <2>1 DEF Decode, Fallback, LINEAR16
<1>. QED
  BY <1>1, <1>2

(* Of a layer that is not given up, the wrapper's value is the meant one.  *)
LEMMA ValueIsMeant ==
  ASSUME ScriptInv, NEW n \in Nets, NEW leaf \in Leaves, leaf \notin excused[n], meant[n][leaf] # {}
  PROVE  Value(n, leaf) = meant[n][leaf]
<1>1. Leaf(n, leaf) = leaf
  BY KeyIsLeaf DEF Keys
<1>2. Kept(layers[n][leaf], wrappers[n][leaf], meant[n][leaf], leaf \in excused[n])
  BY DEF ScriptInv, Meant
<1>3. WrapperShape(wrappers[n][leaf])
  BY DEF ScriptInv, Shapes, Keys
<1>. QED
  BY <1>1, <1>2, <1>3 DEF Value, Kept, WrapperShape

(* Reading decodes the layer and shows the value it showed before.         *)
LEMMA ReadKeeps ==
  ASSUME ScriptInv, NEW n \in Nets, NEW key \in Keys
  PROVE  /\ WrapperShape(Decoded(n, key)) /\ Decoded(n, key).decoded
         /\ key \in Leaves =>
              Kept(layers[n][key], Decoded(n, key), meant[n][key], key \in excused[n])
<1>1. WrapperShape(wrappers[n][key])
  BY DEF ScriptInv, Shapes
<1>2. /\ WrapperShape(Decoded(n, key)) /\ Decoded(n, key).decoded
      /\ Decoded(n, key).value = Value(n, key)
      /\ Decoded(n, key).modified = wrappers[n][key].modified
  BY <1>1 DEF Decoded, WrapperShape
<1>3. ASSUME key \in Leaves
      PROVE  Kept(layers[n][key], Decoded(n, key), meant[n][key], key \in excused[n])
  <2>1. Kept(layers[n][key], wrappers[n][key], meant[n][key], key \in excused[n])
    BY <1>3 DEF ScriptInv, Meant
  <2>2. Leaf(n, key) = key
    BY <1>3, KeyIsLeaf
  <2>3. Value(n, key) = IF wrappers[n][key].decoded THEN wrappers[n][key].value
                        ELSE Decode(layers[n][key], Fallback)
    BY <2>2 DEF Value
  <2>. QED
    BY <1>1, <1>2, <2>1, <2>3 DEF Kept, WrapperShape
<1>. QED
  BY <1>2, <1>3

LEMMA ShapesOfNew ==
  /\ WrapperShape(NoWrapper) /\ ~NoWrapper.decoded /\ ~NoWrapper.modified /\ Wrapped = NoWrapper
  /\ \A v : WrapperShape([value |-> v, decoded |-> TRUE, modified |-> TRUE])
BY DEF WrapperShape, NoWrapper, Wrapped

-----------------------------------------------------------------------------
(* WeightWrappers.  The operations of a script.                            *)

LEMMA ReadInv ==
  ASSUME ScriptInv, NEW n \in Nets, NEW key \in Keys, Read(n, key)
  PROVE  ScriptInv'
<1>. USE DEF Read
<1>1. UNCHANGED <<layers, meant, excused>> /\ Reachable(n, key)
  OBVIOUS
<1>2. /\ DOMAIN wrappers' = Nets
      /\ \A x \in Nets : DOMAIN wrappers'[x] = Keys
      /\ \A x \in Nets, k \in Keys :
           wrappers'[x][k] = IF x = n /\ k = key THEN Decoded(n, key) ELSE wrappers[x][k]
  BY DEF ScriptInv, Shapes
<1>3. Shapes'
  BY <1>1, <1>2, ReadKeeps DEF ScriptInv, Shapes
<1>4. Lists'
  <2>1. key = "enc1" => layers[n]["enc1"] # Unset
    BY <1>1, KeyIsLeaf DEF Has
  <2>2. "enc1" \in Keys
    BY DEF Keys, Leaves
  <2>. QED
    BY <1>1, <1>2, <2>1, <2>2 DEF ScriptInv, Lists
<1>5. Meant'
  <2>1. Leaves \subseteq Keys
    BY DEF Keys
  <2>. QED
    BY <1>1, <1>2, <2>1, ReadKeeps DEF ScriptInv, Meant
<1>. QED
  BY <1>3, <1>4, <1>5 DEF ScriptInv

LEMMA WriteInv ==
  ASSUME ScriptInv, NEW n \in Nets, NEW key \in Keys, NEW v, Write(n, key, v)
  PROVE  ScriptInv'
<1>. DEFINE leaf == Leaf(n, key)
            written == [value |-> {v}, decoded |-> TRUE, modified |-> TRUE]
<1>1. UNCHANGED layers /\ Reachable(n, key) /\ leaf \in Leaves /\ Leaves \subseteq Keys
  BY KeyIsLeaf DEF Write, Keys
<1>2. /\ DOMAIN wrappers' = Nets
      /\ \A x \in Nets : DOMAIN wrappers'[x] = Keys
      /\ \A x \in Nets, k \in Keys :
           wrappers'[x][k] = IF x = n /\ k = key THEN written ELSE wrappers[x][k]
  BY DEF ScriptInv, Shapes, Write
<1>3. /\ DOMAIN meant' = Nets /\ DOMAIN excused' = Nets
      /\ \A x \in Nets : DOMAIN meant'[x] = Leaves
      /\ \A x \in Nets, k \in Leaves :
           meant'[x][k] = IF x = n /\ k = leaf THEN {v} ELSE meant[x][k]
      /\ \A x \in Nets : excused'[x] = IF x # n THEN excused[x]
           ELSE IF key = "last" THEN excused[n] \cup {leaf} ELSE excused[n] \ {leaf}
  BY <1>1 DEF ScriptInv, Shapes, Write, Excuse
<1>4. Shapes'
  BY <1>1, <1>2, <1>3, ShapesOfNew DEF ScriptInv, Shapes
<1>5. Lists'
  <2>1. key = "enc1" => layers[n]["enc1"] # Unset
    BY <1>1, KeyIsLeaf DEF Has
  <2>2. "enc1" \in Keys
    BY DEF Keys, Leaves
  <2>. QED
    BY <1>1, <1>2, <2>1, <2>2 DEF ScriptInv, Lists
<1>6. Meant'
  <2>. SUFFICES ASSUME NEW x \in Nets, NEW k \in Leaves
                PROVE  Kept(layers'[x][k], wrappers'[x][k], meant'[x][k], k \in excused'[x])
    BY DEF Meant
  <2>1. Kept(layers[x][k], wrappers[x][k], meant[x][k], k \in excused[x])
    BY DEF ScriptInv, Meant
  <2>2. CASE x = n /\ k = leaf /\ key \in Leaves
    <3>1. key = leaf /\ wrappers'[x][k] = written /\ meant'[x][k] = {v} /\ k \in Keys
      BY <1>1, <1>2, <1>3, <2>2, KeyIsLeaf
    <3>. QED
      BY <3>1 DEF Kept
  <2>3. CASE x = n /\ k = leaf /\ key \notin Leaves
    <3>1. key = "last" /\ k \in excused'[x] /\ wrappers'[x][k] = wrappers[x][k]
      BY <1>1, <1>2, <1>3, <2>3, KeyIsLeaf
    <3>. QED
      BY <2>1, <3>1 DEF Kept
  <2>4. CASE ~(x = n /\ k = leaf)
    <3>1. x = n => k # key
      BY <2>4, KeyIsLeaf
    <3>2. /\ wrappers'[x][k] = wrappers[x][k] /\ meant'[x][k] = meant[x][k]
          /\ (k \in excused'[x]) = (k \in excused[x]) /\ layers' = layers
      <4>1. (k \in excused'[x]) = (k \in excused[x])
        BY <1>3, <2>4
      <4>. QED
        BY <1>1, <1>2, <1>3, <2>4, <3>1, <4>1
    <3>. QED
      BY <2>1, <3>2
  <2>. QED
    BY <2>2, <2>3, <2>4
<1>. QED
  BY <1>4, <1>5, <1>6 DEF ScriptInv


LEMMA GraftInv ==
  ASSUME ScriptInv, NEW n \in Nets, NEW m \in Nets, NEW key \in Keys, Graft(n, m, key)
  PROVE  ScriptInv'
<1>. DEFINE leaf == Leaf(n, key)
            other == Leaf(m, key)
            lost == \/ other \in excused[m]
                    \/ Uncommitted(m, other)
                    \/ key = "last" /\ wrappers[n][leaf].decoded
<1>1. leaf \in Leaves /\ other \in Leaves /\ Leaves \subseteq Keys /\ n # m /\ Reachable(m, key)
  BY KeyIsLeaf DEF Graft, Keys
<1>2. Copied(layers[m][other]) # Unset
  BY EmptyIsDecoded DEF Copied
<1>3. /\ DOMAIN layers' = Nets
      /\ \A x \in Nets : DOMAIN layers'[x] = Leaves
      /\ \A x \in Nets, k \in Leaves : layers'[x][k] =
           IF x = n /\ k = leaf THEN Copied(layers[m][other]) ELSE layers[x][k]
  BY <1>1 DEF ScriptInv, Shapes, Graft, Assign
<1>4. /\ DOMAIN wrappers' = Nets
      /\ \A x \in Nets : DOMAIN wrappers'[x] = Keys
      /\ \A x \in Nets, k \in Keys :
           wrappers'[x][k] = IF x = n /\ k = key THEN NoWrapper ELSE wrappers[x][k]
  BY DEF ScriptInv, Shapes, Graft, Assign, Wrapped
<1>5. /\ DOMAIN meant' = Nets /\ DOMAIN excused' = Nets
      /\ \A x \in Nets : DOMAIN meant'[x] = Leaves
      /\ \A x \in Nets, k \in Leaves : meant'[x][k] =
           IF x = n /\ k = leaf THEN (IF meant[m][other] # {} THEN meant[m][other] ELSE {0})
           ELSE meant[x][k]
      /\ \A x \in Nets : excused'[x] = IF x # n THEN excused[x]
           ELSE IF lost THEN excused[n] \cup {leaf} ELSE excused[n] \ {leaf}
  BY <1>1 DEF ScriptInv, Shapes, Graft, Excuse
<1>6. Shapes'
  <2>1. \A x \in Nets : excused'[x] \subseteq Leaves
    BY <1>1, <1>5 DEF ScriptInv, Shapes
  <2>. QED
    BY <1>3, <1>4, <1>5, <2>1, ShapesOfNew DEF ScriptInv, Shapes
<1>7. Lists'
  <2>1. "enc0" \in Leaves /\ "enc1" \in Leaves
    BY DEF Leaves
  <2>2. \A x \in Nets : wrappers'[x]["enc1"].decoded => wrappers[x]["enc1"].decoded
    BY <1>1, <1>4, <2>1, ShapesOfNew
  <2>3. \A x \in Nets, k \in Leaves : layers[x][k] # Unset => layers'[x][k] # Unset
    BY <1>2, <1>3
  <2>. QED
    BY <2>1, <2>2, <2>3 DEF ScriptInv, Lists
<1>8. Meant'
  <2>. SUFFICES ASSUME NEW x \in Nets, NEW k \in Leaves
                PROVE  Kept(layers'[x][k], wrappers'[x][k], meant'[x][k], k \in excused'[x])
    BY DEF Meant
  <2>1. Kept(layers[x][k], wrappers[x][k], meant[x][k], k \in excused[x])
    BY DEF ScriptInv, Meant
  <2>2. CASE x = n /\ k = leaf
    <3>1. layers'[x][k] = Copied(layers[m][other]) /\ k \in Keys
      BY <1>1, <1>3, <2>2
    <3>2. ~lost => ~wrappers'[x][k].modified /\ ~wrappers'[x][k].decoded
      <4>1. CASE key \in Leaves
        BY <1>1, <1>4, <2>2, <4>1, KeyIsLeaf, ShapesOfNew
      <4>2. CASE key \notin Leaves
        <5>1. key = "last" /\ k # key
          BY <4>2, KeyIsLeaf
        <5>2. ~lost => ~wrappers[x][k].decoded
          BY <2>2, <5>1
        <5>3. wrappers'[x][k] = wrappers[x][k]
          BY <1>4, <3>1, <5>1
        <5>. QED
          BY <2>1, <5>2, <5>3 DEF Kept
      <4>. QED
        BY <4>1, <4>2
    <3>3. wrappers'[x][k].modified => wrappers'[x][k].decoded
      BY <1>4, <2>1, <3>1, ShapesOfNew DEF Kept
    <3>4. CASE lost
      <4>1. k \in excused'[x]
        BY <1>5, <2>2, <3>4
      <4>. QED
        BY <3>3, <4>1 DEF Kept
    <3>5. CASE ~lost
      <4>1. Kept(layers[m][other], wrappers[m][other], meant[m][other], FALSE)
        <5>1. Kept(layers[m][other], wrappers[m][other], meant[m][other], other \in excused[m])
          BY <1>1 DEF ScriptInv, Meant
        <5>2. other \notin excused[m]
          BY <3>5
        <5>. QED
          BY <5>1, <5>2 DEF Kept
      <4>2. Has(m, other) => ~wrappers[m][other].modified
        <5>1. Has(m, other) => Reachable(m, other) /\ Leaf(m, other) = other
          BY <1>1, KeyIsLeaf DEF Reachable, Leaves, Keys, List, Leaf
        <5>. QED
          BY <1>1, <3>5, <5>1 DEF Uncommitted
      <4>3. meant'[x][k] = IF meant[m][other] # {} THEN meant[m][other] ELSE {0}
        BY <1>1, <1>5, <2>2
      <4>4. meant'[x][k] # {} /\ Decode(layers'[x][k], Fallback) = meant'[x][k]
        <5>1. CASE Has(m, other)
          BY <3>1, <4>1, <4>2, <4>3, <5>1 DEF Kept, Has, Copied
        <5>2. CASE ~Has(m, other)
          <6>1. Decode(layers'[x][k], Fallback) = {0}
            BY <3>1, <5>2, EmptyIsDecoded DEF Has, Copied
          <6>2. meant[m][other] # {} => meant[m][other] = {0}
            <7>1. ~wrappers[m][other].modified
              BY <1>1, <3>5, <4>1, WrittenIsReachable DEF Uncommitted, Kept
            <7>. QED
              BY <4>1, <5>2, <7>1, EmptyIsDecoded DEF Kept, Has
          <6>. QED
            BY <4>3, <6>1, <6>2, 0 \in {0}
        <5>. QED
          BY <5>1, <5>2
      <4>. QED
        BY <3>2, <3>5, <4>4 DEF Kept
    <3>. QED
      BY <3>4, <3>5
  <2>3. CASE ~(x = n /\ k = leaf)
    <3>1. x = n => k # key
      BY <2>3, KeyIsLeaf
    <3>2. wrappers'[x][k] = wrappers[x][k] /\ meant'[x][k] = meant[x][k] /\ layers'[x][k] = layers[x][k]
      BY <1>1, <1>3, <1>4, <1>5, <2>3, <3>1
    <3>3. (k \in excused'[x]) = (k \in excused[x])
      BY <1>5, <2>3
    <3>. QED
      BY <2>1, <3>2, <3>3
  <2>. QED
    BY <2>2, <2>3
<1>. QED
  BY <1>6, <1>7, <1>8 DEF ScriptInv

LEMMA GraftSumInv ==
  ASSUME ScriptInv, NEW n \in Nets, NEW m \in Nets, NEW key \in Keys, GraftSum(n, m, key)
  PROVE  ScriptInv'
<1>. DEFINE leaf == Leaf(n, key)
            sum == {Max(meant[n][leaf]) + Max(meant[m][Leaf(m, key)])}
<1>1. leaf \in Leaves /\ Leaves \subseteq Keys /\ Reachable(m, key)
  BY KeyIsLeaf DEF GraftSum, Keys
<1>2. /\ DOMAIN layers' = Nets
      /\ \A x \in Nets : DOMAIN layers'[x] = Leaves
      /\ \A x \in Nets, k \in Leaves : layers'[x][k] =
           IF x = n /\ k = leaf THEN Empty ELSE layers[x][k]
  BY <1>1 DEF ScriptInv, Shapes, GraftSum
<1>3. /\ DOMAIN wrappers' = Nets
      /\ \A x \in Nets : DOMAIN wrappers'[x] = Keys
      /\ \A x \in Nets, k \in Keys : wrappers'[x][k] =
           IF k # key THEN wrappers[x][k]
           ELSE IF x = n THEN NoWrapper
           ELSE IF x = m THEN Decoded(m, key) ELSE wrappers[x][k]
  BY DEF ScriptInv, Shapes, GraftSum, Wrapped
<1>4. /\ DOMAIN meant' = Nets /\ DOMAIN excused' = Nets
      /\ \A x \in Nets : DOMAIN meant'[x] = Leaves
      /\ \A x \in Nets, k \in Leaves : meant'[x][k] =
           IF x = n /\ k = leaf THEN sum ELSE meant[x][k]
      /\ \A x \in Nets : excused'[x] = IF x = n THEN excused[n] \cup {leaf} ELSE excused[x]
  BY <1>1 DEF ScriptInv, Shapes, GraftSum
<1>5. Shapes'
  <2>1. \A x \in Nets : excused'[x] \subseteq Leaves
    BY <1>1, <1>4 DEF ScriptInv, Shapes
  <2>2. \A x \in Nets, k \in Keys : WrapperShape(wrappers'[x][k])
    BY <1>3, ReadKeeps, ShapesOfNew DEF ScriptInv, Shapes
  <2>. QED
    BY <1>2, <1>3, <1>4, <2>1, <2>2 DEF Shapes
<1>6. Lists'
  <2>1. "enc0" \in Leaves /\ "enc1" \in Leaves
    BY DEF Leaves
  <2>2. \A x \in Nets, k \in Leaves : layers[x][k] # Unset => layers'[x][k] # Unset
    BY <1>2, EmptyIsDecoded
  <2>3. \A x \in Nets : wrappers'[x]["enc1"].decoded =>
          wrappers[x]["enc1"].decoded \/ (x = m /\ layers[x]["enc1"] # Unset)
    <3>1. key = "enc1" => layers[m]["enc1"] # Unset
      BY <1>1, KeyIsLeaf DEF Has
    <3>. QED
      BY <1>1, <1>3, <2>1, <3>1, ShapesOfNew
  <2>. QED
    BY <2>1, <2>2, <2>3 DEF ScriptInv, Lists
<1>7. Meant'
  <2>. SUFFICES ASSUME NEW x \in Nets, NEW k \in Leaves
                PROVE  Kept(layers'[x][k], wrappers'[x][k], meant'[x][k], k \in excused'[x])
    BY DEF Meant
  <2>1. Kept(layers[x][k], wrappers[x][k], meant[x][k], k \in excused[x]) /\ k \in Keys
    BY <1>1 DEF ScriptInv, Meant
  <2>2. CASE x = n /\ k = leaf
    <3>1. k \in excused'[x]
      BY <1>4, <2>2
    <3>2. wrappers'[x][k].modified => wrappers'[x][k].decoded
      BY <1>3, <2>1, <2>2, ShapesOfNew DEF Kept
    <3>. QED
      BY <3>1, <3>2 DEF Kept
  <2>3. CASE ~(x = n /\ k = leaf)
    <3>1. /\ layers'[x][k] = layers[x][k] /\ meant'[x][k] = meant[x][k]
          /\ (k \in excused'[x]) = (k \in excused[x])
      <4>1. (k \in excused'[x]) = (k \in excused[x])
        BY <1>4, <2>3
      <4>. QED
        BY <1>2, <1>4, <2>3, <4>1
    <3>2. CASE k = key
      <4>1. x # n
        BY <2>3, <3>2, KeyIsLeaf
      <4>2. wrappers'[x][k] = IF x = m THEN Decoded(m, key) ELSE wrappers[x][k]
        BY <1>3, <2>1, <3>2, <4>1
      <4>3. Kept(layers[x][k], Decoded(x, k), meant[x][k], k \in excused[x])
        BY <2>1, ReadKeeps
      <4>. QED
        BY <2>1, <3>1, <3>2, <4>2, <4>3
    <3>3. CASE k # key
      BY <1>3, <2>1, <3>1, <3>3
    <3>. QED
      BY <3>2, <3>3
  <2>. QED
    BY <2>2, <2>3
<1>. QED
  BY <1>5, <1>6, <1>7 DEF ScriptInv


LEMMA UncommittedIfModified ==
  ASSUME ScriptInv, NEW n \in Nets, NEW leaf \in Leaves, wrappers[n][leaf].modified
  PROVE  Uncommitted(n, leaf)
<1>1. Leaf(n, leaf) = leaf /\ leaf \in Keys
  BY KeyIsLeaf DEF Keys
<1>2. Kept(layers[n][leaf], wrappers[n][leaf], meant[n][leaf], leaf \in excused[n])
  BY DEF ScriptInv, Meant
<1>3. Reachable(n, leaf)
  BY <1>2 DEF ScriptInv, Lists, Kept, Reachable, List, Has, Leaves
<1>. QED
  BY <1>1, <1>3 DEF Uncommitted

LEMMA GraftAllInv ==
  ASSUME ScriptInv, NEW n \in Nets, NEW m \in Nets, GraftAll(n, m)
  PROVE  ScriptInv'
<1>1. Leaves \subseteq Keys /\ "enc0" \in Leaves /\ "enc1" \in Leaves
  BY DEF Keys, Leaves
<1>2. /\ DOMAIN layers' = Nets /\ DOMAIN wrappers' = Nets /\ DOMAIN meant' = Nets /\ DOMAIN excused' = Nets
      /\ \A x \in Nets : /\ layers'[x] = IF x = n THEN layers[m] ELSE layers[x]
                         /\ meant'[x] = IF x = n THEN meant[m] ELSE meant[x]
                         /\ DOMAIN wrappers'[x] = Keys
      /\ \A x \in Nets, k \in Keys : wrappers'[x][k] = IF x = n THEN NoWrapper ELSE wrappers[x][k]
      /\ \A x \in Nets : x # n => excused'[x] = excused[x]
      /\ excused'[n] = excused[m] \cup {leaf \in Leaves : Uncommitted(m, leaf)}
  BY DEF ScriptInv, Shapes, GraftAll, Wrapped
<1>3. Shapes'
  <2>1. \A x \in Nets : excused'[x] \subseteq Leaves
    BY <1>2 DEF ScriptInv, Shapes
  <2>2. \A x \in Nets, k \in Keys : WrapperShape(wrappers'[x][k])
    BY <1>2, ShapesOfNew DEF ScriptInv, Shapes
  <2>. QED
    BY <1>2, <2>1, <2>2 DEF ScriptInv, Shapes
<1>4. Lists'
  BY <1>1, <1>2, ShapesOfNew DEF ScriptInv, Lists
<1>5. Meant'
  <2>. SUFFICES ASSUME NEW x \in Nets, NEW k \in Leaves
                PROVE  Kept(layers'[x][k], wrappers'[x][k], meant'[x][k], k \in excused'[x])
    BY DEF Meant
  <2>1. CASE x # n
    BY <1>1, <1>2, <2>1 DEF ScriptInv, Meant
  <2>2. CASE x = n
    <3>1. layers'[x][k] = layers[m][k] /\ meant'[x][k] = meant[m][k] /\ wrappers'[x][k] = NoWrapper
      BY <1>1, <1>2, <2>2
    <3>2. Kept(layers[m][k], wrappers[m][k], meant[m][k], k \in excused[m])
      BY DEF ScriptInv, Meant
    <3>3. k \notin excused'[x] => k \notin excused[m] /\ ~wrappers[m][k].modified
      BY <1>2, <2>2, UncommittedIfModified
    <3>. QED
      BY <3>1, <3>2, <3>3, ShapesOfNew DEF Kept
  <2>. QED
    BY <2>1, <2>2
<1>. QED
  BY <1>3, <1>4, <1>5 DEF ScriptInv

LEMMA CombineInv ==
  ASSUME ScriptInv, NEW x \in Nets, NEW l \in Nets, NEW r \in Nets, NEW op, Combine(x, l, r, op)
  PROVE  ScriptInv'
<1>. DEFINE both == Both(l, r)
            kept == [leaf \in Leaves |->
                       IF leaf \in {"enc0", "enc1"} \ both THEN Unset ELSE layers[l][leaf]]
            value(leaf) == {Result(op, Max(Value(l, leaf)), Max(Value(r, leaf)))}
            given(leaf) == {Result(op, Max(meant[l][leaf]), Max(meant[r][leaf]))}
            wanted == MeantBoth(l, r)
            lost == {leaf \in Leaves :
                       IF leaf \in both THEN leaf \in excused[l] \cup excused[r]
                       ELSE leaf \in wanted \cup excused[l] \/ Uncommitted(l, leaf)}
            cell(n, key) ==
              CASE n = x /\ key \in both ->
                     [value |-> value(key), decoded |-> TRUE, modified |-> TRUE]
                [] n = x /\ key \notin both -> NoWrapper
                [] n # x /\ n \in {l, r} /\ key \in both -> Decoded(n, key)
                [] OTHER -> wrappers[n][key]
<1>1. /\ Leaves \subseteq Keys /\ "enc0" \in Leaves /\ "enc1" \in Leaves
      /\ both \subseteq Leaves /\ "enc0" \in both
  BY DEF Keys, Leaves, Both, ScriptInv, Lists, Has
<1>2. /\ DOMAIN layers' = Nets /\ DOMAIN meant' = Nets /\ DOMAIN excused' = Nets
      /\ layers'[x] = kept /\ \A n \in Nets : n # x => layers'[n] = layers[n]
      /\ \A n \in Nets : DOMAIN meant'[n] = Leaves
      /\ \A n \in Nets : n # x => meant'[n] = meant[n]
      /\ \A leaf \in Leaves : meant'[x][leaf] =
           IF leaf \in wanted THEN given(leaf)
           ELSE IF leaf \in {"enc0", "enc1"} THEN {} ELSE meant[l][leaf]
      /\ excused'[x] = lost /\ \A n \in Nets : n # x => excused'[n] = excused[n]
  BY DEF ScriptInv, Shapes, Combine
<1>3. /\ DOMAIN wrappers' = Nets
      /\ \A n \in Nets : DOMAIN wrappers'[n] = Keys
      /\ \A n \in Nets, k \in Keys :
           \/ /\ n = x /\ k \in both
              /\ wrappers'[n][k] = [value |-> value(k), decoded |-> TRUE, modified |-> TRUE]
           \/ n = x /\ k \notin both /\ wrappers'[n][k] = NoWrapper
           \/ n # x /\ k \in both /\ n \in {l, r} /\ wrappers'[n][k] = Decoded(n, k)
           \/ n # x /\ wrappers'[n][k] = wrappers[n][k]
  <2>1. wrappers' = [n \in Nets |-> [key \in Keys |-> cell(n, key)]]
    BY Zenon DEF Combine
  <2>2. ASSUME NEW n \in Nets, NEW k \in Keys
        PROVE  \/ /\ n = x /\ k \in both
                  /\ cell(n, k) = [value |-> value(k), decoded |-> TRUE, modified |-> TRUE]
               \/ n = x /\ k \notin both /\ cell(n, k) = NoWrapper
               \/ n # x /\ k \in both /\ n \in {l, r} /\ cell(n, k) = Decoded(n, k)
               \/ n # x /\ cell(n, k) = wrappers[n][k]
    <3>. DEFINE written == [value |-> value(k), decoded |-> TRUE, modified |-> TRUE]
    <3>. HIDE DEF value, both, written
    <3>1. CASE n = x /\ k \in both
      <4>1. cell(n, k) = written
        BY <3>1 DEF written
      <4>. QED
        BY <3>1, <4>1 DEF written
    <3>2. CASE n = x /\ k \notin both
      BY <3>2
    <3>3. CASE n # x
      BY <3>3
    <3>. QED
      BY <3>1, <3>2, <3>3
  <2>. HIDE DEF cell
  <2>. QED
    BY <2>1, <2>2
<1>. HIDE DEF value, given, lost, kept, both, wanted, cell
<1>4. Shapes'
  <2>1. excused'[x] \subseteq Leaves /\ DOMAIN layers'[x] = Leaves
    BY <1>2 DEF lost, kept
  <2>2. ASSUME NEW n \in Nets, NEW k \in Keys
        PROVE  WrapperShape(wrappers'[n][k])
    <3>1. WrapperShape(wrappers[n][k]) /\ WrapperShape(Decoded(n, k))
      BY ReadKeeps DEF ScriptInv, Shapes
    <3>. QED
      BY <1>3, <3>1, ShapesOfNew
  <2>3. \A n \in Nets : excused'[n] \subseteq Leaves /\ DOMAIN layers'[n] = Leaves
    BY <1>2, <2>1 DEF ScriptInv, Shapes
  <2>. QED
    BY <1>2, <1>3, <2>2, <2>3 DEF Shapes
<1>5. Lists'
  <2>. SUFFICES ASSUME NEW n \in Nets
                PROVE  /\ layers'[n]["enc0"] # Unset
                       /\ wrappers'[n]["enc1"].decoded => layers'[n]["enc1"] # Unset
    BY DEF Lists
  <2>1. /\ layers[n]["enc0"] # Unset /\ layers[l]["enc0"] # Unset
        /\ wrappers[n]["enc1"].decoded => layers[n]["enc1"] # Unset
    BY DEF ScriptInv, Lists
  <2>2. "enc1" \in both => layers[l]["enc1"] # Unset /\ layers[r]["enc1"] # Unset
    BY DEF both, Both, Has
  <2>3. CASE n = x
    <3>1. layers'[n]["enc0"] = layers[l]["enc0"]
      BY <1>1, <1>2, <2>3 DEF kept
    <3>2. "enc1" \in both => layers'[n]["enc1"] = layers[l]["enc1"]
      BY <1>1, <1>2, <2>3 DEF kept
    <3>3. "enc1" \notin both => ~wrappers'[n]["enc1"].decoded
      BY <1>1, <1>3, <2>3, ShapesOfNew
    <3>. QED
      BY <2>1, <2>2, <3>1, <3>2, <3>3
  <2>4. CASE n # x
    <3>1. layers'[n] = layers[n]
      BY <1>2, <2>4
    <3>2. wrappers'[n]["enc1"].decoded => wrappers[n]["enc1"].decoded \/ layers[n]["enc1"] # Unset
      BY <1>1, <1>3, <2>2, <2>4
    <3>. QED
      BY <2>1, <3>1, <3>2
  <2>. QED
    BY <2>3, <2>4
<1>6. Meant'
  <2>. SUFFICES ASSUME NEW n \in Nets, NEW k \in Leaves
                PROVE  Kept(layers'[n][k], wrappers'[n][k], meant'[n][k], k \in excused'[n])
    BY DEF Meant
  <2>1. k \in Keys
    BY <1>1
  <2>2. CASE n # x
    <3>1. Kept(layers[n][k], wrappers[n][k], meant[n][k], k \in excused[n])
      BY DEF ScriptInv, Meant
    <3>2. wrappers'[n][k] \in {wrappers[n][k], Decoded(n, k)}
      BY <1>3, <2>1, <2>2
    <3>. QED
      BY <1>2, <2>1, <2>2, <3>1, <3>2, ReadKeeps
  <2>3. CASE n = x /\ k \in both
    <3>1. wrappers'[n][k] = [value |-> value(k), decoded |-> TRUE, modified |-> TRUE]
      BY <1>3, <2>1, <2>3
    <3>2. given(k) # {}
      BY DEF given
    <3>3. ASSUME k \notin excused'[n]
          PROVE  value(k) = given(k) /\ meant'[n][k] = given(k)
      <4>1. k \notin excused[l] /\ k \notin excused[r]
        BY <1>2, <2>3, <3>3 DEF lost
      <4>2. Has(l, k) /\ Has(r, k)
        BY <2>3 DEF both, Both
      <4>3. meant[l][k] # {} /\ meant[r][k] # {}
        BY <4>1, <4>2 DEF ScriptInv, Meant, Kept, Has
      <4>4. k \in wanted
        BY <4>3 DEF wanted, MeantBoth
      <4>. QED
        BY <1>2, <2>3, <4>1, <4>3, <4>4, ValueIsMeant DEF value, given
    <3>. QED
      BY <3>1, <3>2, <3>3 DEF Kept
  <2>4. CASE n = x /\ k \notin both
    <3>1. wrappers'[n][k] = NoWrapper /\ layers'[n][k] = kept[k]
      BY <1>2, <1>3, <2>1, <2>4
    <3>2. k \notin wanted =>
             meant'[n][k] = IF k \in {"enc0", "enc1"} THEN {} ELSE meant[l][k]
      BY <1>2, <2>4
    <3>3. kept[k] = IF k \in {"enc0", "enc1"} THEN Unset ELSE layers[l][k]
      BY <2>4 DEF kept
    <3>4. Kept(layers[l][k], wrappers[l][k], meant[l][k], k \in excused[l])
      BY DEF ScriptInv, Meant
    <3>5. k \notin excused'[n] => k \notin wanted \cup excused[l] /\ ~wrappers[l][k].modified
      BY <1>2, <2>4, UncommittedIfModified DEF lost
    <3>. QED
      BY <3>1, <3>2, <3>3, <3>4, <3>5, ShapesOfNew DEF Kept
  <2>. QED
    BY <2>2, <2>3, <2>4
<1>. QED
  BY <1>4, <1>5, <1>6 DEF ScriptInv

LEMMA SaveInv ==
  ASSUME ScriptInv, NEW n \in Nets, NEW encoding \in Encodings, Save(n, encoding)
  PROVE  /\ ScriptInv'
         /\ \A leaf \in Leaves \ excused[n] :
              IF meant[n][leaf] = {} THEN layers'[n][leaf] = Unset
              ELSE Decode(layers'[n][leaf], Fallback) = meant[n][leaf]
<1>1. /\ Leaves \subseteq Keys /\ "enc0" \in Leaves /\ "enc1" \in Leaves
      /\ UNCHANGED <<meant, excused>>
  BY DEF Keys, Leaves, Save
<1>2. /\ DOMAIN layers' = Nets
      /\ \A x \in Nets : DOMAIN layers'[x] = Leaves
      /\ \A x \in Nets, k \in Leaves : layers'[x][k] =
           IF x = n /\ wrappers[n][k].modified THEN Encode(wrappers[n][k].value, encoding)
           ELSE layers[x][k]
  BY DEF ScriptInv, Shapes, Save
<1>3. /\ DOMAIN wrappers' = Nets
      /\ \A x \in Nets : DOMAIN wrappers'[x] = Keys
      /\ \A x \in Nets, k \in Keys : wrappers'[x][k] =
           IF x = n /\ k \in Leaves THEN [wrappers[n][k] EXCEPT !.modified = FALSE]
           ELSE wrappers[x][k]
  BY DEF ScriptInv, Shapes, Save
<1>4. \A x \in Nets, k \in Keys : WrapperShape(wrappers[x][k])
  BY DEF ScriptInv, Shapes
<1>5. ASSUME NEW x \in Nets, NEW k \in Keys
      PROVE  /\ WrapperShape(wrappers'[x][k]) /\ wrappers'[x][k].decoded = wrappers[x][k].decoded
             /\ wrappers'[x][k].value = wrappers[x][k].value
             /\ x = n /\ k \in Leaves => ~wrappers'[x][k].modified
  <2>. DEFINE wrapper == wrappers[x][k]
  <2>1. WrapperShape(wrapper)
    BY <1>4
  <2>2. \/ wrappers'[x][k] = wrapper /\ ~(x = n /\ k \in Leaves)
        \/ wrappers'[x][k] = [wrapper EXCEPT !.modified = FALSE]
    BY <1>3
  <2>. HIDE DEF wrapper
  <2>3. CASE wrappers'[x][k] = wrapper /\ ~(x = n /\ k \in Leaves)
    BY <2>1, <2>3 DEF wrapper
  <2>4. CASE wrappers'[x][k] = [wrapper EXCEPT !.modified = FALSE]
    <3>. DEFINE after == wrappers'[x][k]
    <3>1. /\ DOMAIN after = {"value", "decoded", "modified"} /\ after.value = wrapper.value
          /\ after.decoded = wrapper.decoded /\ after.modified = FALSE
      BY <2>1, <2>4 DEF WrapperShape
    <3>. QED
      BY <2>1, <3>1, Zenon DEF WrapperShape, wrapper
  <2>. QED
    BY <2>2, <2>3, <2>4
<1>6. Shapes'
  BY <1>1, <1>2, <1>3, <1>5 DEF ScriptInv, Shapes
<1>7. \A x \in Nets, k \in Leaves : layers[x][k] # Unset => layers'[x][k] # Unset
  BY <1>2, EncodedIsDecoded
<1>8. Lists'
  BY <1>1, <1>5, <1>7 DEF ScriptInv, Lists
<1>9. ASSUME NEW k \in Leaves
      PROVE  /\ Kept(layers'[n][k], wrappers'[n][k], meant[n][k], k \in excused[n])
             /\ ~wrappers'[n][k].modified
  <2>1. Kept(layers[n][k], wrappers[n][k], meant[n][k], k \in excused[n])
    BY DEF ScriptInv, Meant
  <2>2. ~wrappers'[n][k].modified
    BY <1>1, <1>5
  <2>3. CASE wrappers[n][k].modified
    <3>1. Decode(layers'[n][k], Fallback) = wrappers[n][k].value
      BY <1>2, <2>3, EncodedIsDecoded
    <3>. QED
      BY <1>1, <1>5, <2>1, <2>2, <2>3, <3>1 DEF Kept
  <2>4. CASE ~wrappers[n][k].modified
    <3>1. layers'[n][k] = layers[n][k]
      BY <1>2, <2>4
    <3>. QED
      BY <1>1, <1>5, <2>1, <2>2, <2>4, <3>1 DEF Kept
  <2>. QED
    BY <2>2, <2>3, <2>4
<1>10. Meant'
  <2>. SUFFICES ASSUME NEW x \in Nets, NEW k \in Leaves
                PROVE  Kept(layers'[x][k], wrappers'[x][k], meant[x][k], k \in excused[x])
    BY <1>1 DEF Meant
  <2>1. CASE x = n
    BY <1>9, <2>1
  <2>2. CASE x # n
    <3>1. Kept(layers[x][k], wrappers[x][k], meant[x][k], k \in excused[x])
      BY DEF ScriptInv, Meant
    <3>2. layers'[x][k] = layers[x][k] /\ wrappers'[x][k] = wrappers[x][k]
      BY <1>1, <1>2, <1>3, <2>2
    <3>. QED
      BY <3>1, <3>2
  <2>. QED
    BY <2>1, <2>2
<1>11. ASSUME NEW leaf \in Leaves \ excused[n]
       PROVE  IF meant[n][leaf] = {} THEN layers'[n][leaf] = Unset
              ELSE Decode(layers'[n][leaf], Fallback) = meant[n][leaf]
  BY <1>9 DEF Kept
<1>. QED
  BY <1>6, <1>8, <1>10, <1>11 DEF ScriptInv

LEMMA ScriptStart == ScriptInit => ScriptInv
<1>. SUFFICES ASSUME ScriptInit PROVE ScriptInv
  OBVIOUS
<1>1. \A n \in Nets : layers[n] \in {Stored(1, 2, <<3, 4>>), Stored(10, 0, <<30>>)}
  BY DEF ScriptInit
<1>2. ASSUME NEW net \in {Stored(1, 2, <<3, 4>>), Stored(10, 0, << 30 >>)}, NEW leaf \in Leaves
      PROVE  /\ DOMAIN net = Leaves /\ net["enc0"] # Unset
             /\ net[leaf].value = {} => net[leaf] = Unset
             /\ net[leaf].value # {} => Decode(net[leaf], Fallback) = net[leaf].value
  <2>. DEFINE layer(v) == [value |-> {v}, encoding |-> 0, bytes |-> LINEAR16]
  <2>1. DOMAIN net = Leaves /\ (net[leaf] = Unset \/ \E v : net[leaf] = layer(v))
    BY DEF Stored, Leaves
  <2>2. "enc0" \in Leaves /\ \E v : net["enc0"] = layer(v)
    BY DEF Stored, Leaves
  <2>3. ASSUME NEW v
        PROVE  /\ layer(v) # Unset /\ layer(v).value # {}
               /\ Decode(layer(v), Fallback) = layer(v).value
    <3>1. layer(v).bytes = 1 /\ layer(v).encoding = 0 /\ v \in layer(v).value
      BY DEF LINEAR16
    <3>2. layer(v) # Unset /\ layer(v) # Empty
      BY <3>1 DEF Unset, Empty
    <3>. QED
      BY <3>1, <3>2 DEF Decode, Fallback, LINEAR16
  <2>4. Unset.value = {}
    BY DEF Unset
  <2>. QED
    BY <2>1, <2>2, <2>3, <2>4
<1>3. Shapes
  BY <1>1, <1>2, ShapesOfNew DEF ScriptInit, Shapes, Leaves
<1>4. Lists
  BY <1>1, <1>2, ShapesOfNew DEF ScriptInit, Lists, Leaves, Keys
<1>5. Meant
  BY <1>1, <1>2, ShapesOfNew DEF ScriptInit, Meant, Kept, Keys
<1>. QED
  BY <1>3, <1>4, <1>5 DEF ScriptInv

LEMMA ScriptStep == ScriptInv /\ [ScriptNext]_script => ScriptInv'
<1>. SUFFICES ASSUME ScriptInv, [ScriptNext]_script PROVE ScriptInv'
  OBVIOUS
<1>1. ASSUME NEW n \in Nets, NEW key \in Keys, Read(n, key) \/ Write(n, key, 7)
      PROVE  ScriptInv'
  BY <1>1, ReadInv, WriteInv
<1>2. ASSUME NEW n \in Nets, NEW m \in Nets, NEW key \in Keys, Graft(n, m, key) \/ GraftSum(n, m, key)
      PROVE  ScriptInv'
  BY <1>2, GraftInv, GraftSumInv
<1>3. ASSUME NEW n \in Nets, NEW m \in Nets, GraftAll(n, m)
      PROVE  ScriptInv'
  BY <1>3, GraftAllInv
<1>4. ASSUME NEW x \in Nets, NEW l \in Nets, NEW r \in Nets, NEW op, Combine(x, l, r, op)
      PROVE  ScriptInv'
  BY <1>4, CombineInv
<1>5. ASSUME NEW n \in Nets, NEW encoding \in Encodings, Save(n, encoding)
      PROVE  ScriptInv'
  BY <1>5, SaveInv
<1>6. CASE UNCHANGED script
  <2>. USE <1>6 DEF script
  <2>1. Shapes'
    BY DEF ScriptInv, Shapes
  <2>2. Lists' /\ Meant'
    BY DEF ScriptInv, Lists, Meant
  <2>. QED
    BY <2>1, <2>2 DEF ScriptInv
<1>. QED
  BY <1>1, <1>2, <1>3, <1>4, <1>5, <1>6 DEF ScriptNext

(* In a script of any length over the two nets, a save writes for every    *)
(* layer the value the script gave it, whichever wrappers are cached,      *)
(* shared or replaced; the layers that the wrappers are known to lose are  *)
(* the only exceptions.                                                    *)
THEOREM EverySaveIsMeant == ScriptSpec => SavesAsMeant
<1>1. ScriptInv /\ [ScriptNext]_script => [SavedAsMeant]_script
  BY SaveInv DEF SavedAsMeant
<1>. QED
  BY <1>1, ScriptStart, ScriptStep, PTL DEF ScriptSpec, SavesAsMeant

-----------------------------------------------------------------------------
(* The conversion of nets.  Tuples first, which the provers know little of.*)

LEMMA AppendIs ==
  ASSUME NEW S, NEW s \in Seq(S), NEW x \in S, NEW t \in Seq(S), Len(t) = Len(s) + 1, t[Len(t)] = x,
         \A i \in 1 .. Len(s) : s[i] = t[i]
  PROVE  Append(s, x) = t
<1>1. Append(s, x) \in Seq(S) /\ Len(Append(s, x)) = Len(s) + 1 /\ Append(s, x)[Len(s) + 1] = x
      /\ \A i \in 1 .. Len(s) : Append(s, x)[i] = s[i]
  BY AppendProperties
<1>2. Len(s) \in Nat
  OBVIOUS
<1>3. \A i \in 1 .. Len(s) + 1 : Append(s, x)[i] = t[i]
  BY <1>1, <1>2
<1>. QED
  BY <1>1, <1>3, SeqEqual

LEMMA Append1 == \A a, b : Append(<<a>>, b) = <<a, b>>
<1>. SUFFICES ASSUME NEW a, NEW b PROVE Append(<<a>>, b) = <<a, b>>
  OBVIOUS
<1>. DEFINE S == {a, b}  s == <<a>>  t == <<a, b>>
<1>1. s \in Seq(S) /\ Len(s) = 1 /\ b \in S
  OBVIOUS
<1>2. t \in Seq(S) /\ Len(t) = 2 /\ t[2] = b
  OBVIOUS
<1>3. s[1] = t[1]
  OBVIOUS
<1>. HIDE DEF s, t, S
<1>4. \A i \in 1 .. Len(s) : s[i] = t[i]
  BY <1>1, <1>3
<1>5. Len(t) = Len(s) + 1 /\ t[Len(t)] = b /\ t \in Seq(S)
  BY <1>1, <1>2
<1>6. s \in Seq(S) /\ b \in S
  BY <1>1
<1>7. Append(s, b) = t
  BY <1>4, <1>5, <1>6, AppendIs
<1>. QED
  BY <1>7 DEF s, t

LEMMA Append2 == \A a, b, c : Append(<<a, b>>, c) = <<a, b, c>>
<1>. SUFFICES ASSUME NEW a, NEW b, NEW c PROVE Append(<<a, b>>, c) = <<a, b, c>>
  OBVIOUS
<1>. DEFINE S == {a, b, c}  s == <<a, b>>  t == <<a, b, c>>
<1>1. s \in Seq(S) /\ Len(s) = 2 /\ c \in S
  OBVIOUS
<1>2. t \in Seq(S) /\ Len(t) = 3 /\ t[3] = c
  OBVIOUS
<1>3. s[1] = t[1] /\ s[2] = t[2]
  OBVIOUS
<1>. HIDE DEF s, t, S
<1>4. \A i \in 1 .. Len(s) : s[i] = t[i]
  BY <1>1, <1>3
<1>5. Len(t) = Len(s) + 1 /\ t[Len(t)] = c /\ t \in Seq(S)
  BY <1>1, <1>2
<1>6. s \in Seq(S) /\ c \in S
  BY <1>1
<1>7. Append(s, c) = t
  BY <1>4, <1>5, <1>6, AppendIs
<1>. QED
  BY <1>7 DEF s, t

LEMMA Append3 == \A a, b, c, d : Append(<<a, b, c>>, d) = <<a, b, c, d>>
<1>. SUFFICES ASSUME NEW a, NEW b, NEW c, NEW d PROVE Append(<<a, b, c>>, d) = <<a, b, c, d>>
  OBVIOUS
<1>. DEFINE S == {a, b, c, d}  s == <<a, b, c>>  t == <<a, b, c, d>>
<1>1. s \in Seq(S) /\ Len(s) = 3 /\ d \in S
  OBVIOUS
<1>2. t \in Seq(S) /\ Len(t) = 4 /\ t[4] = d
  OBVIOUS
<1>3. s[1] = t[1] /\ s[2] = t[2] /\ s[3] = t[3]
  OBVIOUS
<1>. HIDE DEF s, t, S
<1>4. \A i \in 1 .. Len(s) : s[i] = t[i]
  BY <1>1, <1>3
<1>5. Len(t) = Len(s) + 1 /\ t[Len(t)] = d /\ t \in Seq(S)
  BY <1>1, <1>2
<1>6. s \in Seq(S) /\ d \in S
  BY <1>1
<1>7. Append(s, d) = t
  BY <1>4, <1>5, <1>6, AppendIs
<1>. QED
  BY <1>7 DEF s, t

LEMMA Append4 == \A a, b, c, d, e : Append(<<a, b, c, d>>, e) = <<a, b, c, d, e>>
<1>. SUFFICES ASSUME NEW a, NEW b, NEW c, NEW d, NEW e PROVE Append(<<a, b, c, d>>, e) = <<a, b, c, d, e>>
  OBVIOUS
<1>. DEFINE S == {a, b, c, d, e}  s == <<a, b, c, d>>  t == <<a, b, c, d, e>>
<1>1. s \in Seq(S) /\ Len(s) = 4 /\ e \in S
  OBVIOUS
<1>2. t \in Seq(S) /\ Len(t) = 5 /\ t[5] = e
  OBVIOUS
<1>3. s[1] = t[1] /\ s[2] = t[2] /\ s[3] = t[3] /\ s[4] = t[4]
  OBVIOUS
<1>. HIDE DEF s, t, S
<1>4. \A i \in 1 .. Len(s) : s[i] = t[i]
  BY <1>1, <1>3
<1>5. Len(t) = Len(s) + 1 /\ t[Len(t)] = e /\ t \in Seq(S)
  BY <1>1, <1>2
<1>6. s \in Seq(S) /\ e \in S
  BY <1>1
<1>7. Append(s, e) = t
  BY <1>4, <1>5, <1>6, AppendIs
<1>. QED
  BY <1>7 DEF s, t

LEMMA Append5 == \A a, b, c, d, e, f : Append(<<a, b, c, d, e>>, f) = <<a, b, c, d, e, f>>
<1>. SUFFICES ASSUME NEW a, NEW b, NEW c, NEW d, NEW e, NEW f PROVE Append(<<a, b, c, d, e>>, f) = <<a, b, c, d, e, f>>
  OBVIOUS
<1>. DEFINE S == {a, b, c, d, e, f}  s == <<a, b, c, d, e>>  t == <<a, b, c, d, e, f>>
<1>1. s \in Seq(S) /\ Len(s) = 5 /\ f \in S
  OBVIOUS
<1>2. t \in Seq(S) /\ Len(t) = 6 /\ t[6] = f
  OBVIOUS
<1>3. s[1] = t[1] /\ s[2] = t[2] /\ s[3] = t[3] /\ s[4] = t[4] /\ s[5] = t[5]
  OBVIOUS
<1>. HIDE DEF s, t, S
<1>4. \A i \in 1 .. Len(s) : s[i] = t[i]
  BY <1>1, <1>3
<1>5. Len(t) = Len(s) + 1 /\ t[Len(t)] = f /\ t \in Seq(S)
  BY <1>1, <1>2
<1>6. s \in Seq(S) /\ f \in S
  BY <1>1
<1>7. Append(s, f) = t
  BY <1>4, <1>5, <1>6, AppendIs
<1>. QED
  BY <1>7 DEF s, t

-----------------------------------------------------------------------------
(* The rows of a configuration: a path, the field that it is written to,   *)
(* and its shape, for each parameter of each component.                    *)

OwnSize(cfg, name) == IF cfg.shared # 0 THEN cfg.shared ELSE cfg.policy[name].embedding_size
EmbeddingRows(cfg) ==
  { <<<<"embedding", "preprocess", "kernel">>, <<"ip_emb_preproc", "w">>,
       <<64 * 12, 64 * cfg.dense_size>>>>,
    <<<<"embedding", "preprocess", "bias">>,
       <<"ip_emb_preproc", "b">>, <<64 * cfg.dense_size>>>>,
    <<<<"embedding", "embedding", "kernel">>, <<"ip_emb", "w">>,
       <<112 + cfg.dense_size, cfg.embedding_size>>>>,
    <<<<"embedding", "embedding", "bias">>, <<"ip_emb", "b">>, <<cfg.embedding_size>>>>,
    <<<<"embedding", "norm", "scale">>, <<"ip_emb_ln", "gammas">>, <<cfg.embedding_size>>>>,
    <<<<"embedding", "norm", "bias">>, <<"ip_emb_ln", "betas">>, <<cfg.embedding_size>>>>,
    <<<<"embedding", "ma_gating", "mult_gate", "gate">>, <<"ip_mult_gate">>,
       <<64, cfg.embedding_size>>>>,
    <<<<"embedding", "ma_gating", "add_gate", "gate">>, <<"ip_add_gate">>,
       <<64, cfg.embedding_size>>>>,
    <<<<"embedding", "ffn", "linear1", "kernel">>, <<"ip_emb_ffn", "dense1", "w">>,
       <<cfg.embedding_size, cfg.embedding_dff>>>>,
    <<<<"embedding", "ffn", "linear1", "bias">>, <<"ip_emb_ffn", "dense1", "b">>,
       <<cfg.embedding_dff>>>>,
    <<<<"embedding", "ffn", "linear2", "kernel">>, <<"ip_emb_ffn", "dense2", "w">>,
       <<cfg.embedding_dff, cfg.embedding_size>>>>,
    <<<<"embedding", "ffn", "linear2", "bias">>, <<"ip_emb_ffn", "dense2", "b">>,
       <<cfg.embedding_size>>>>,
    <<<<"embedding", "out_norm", "scale">>,
       <<"ip_emb_ffn_ln", "gammas">>, <<cfg.embedding_size>>>>,
    <<<<"embedding", "out_norm", "bias">>,
       <<"ip_emb_ffn_ln", "betas">>, <<cfg.embedding_size>>>> }
SmolgenRows(cfg, i) ==
  { <<<<"encoders", i, "mha", "smolgen", "compress", "kernel">>,
       <<"encoder", i, "mha", "smolgen", "compress", "w">>,
       <<cfg.embedding_size, cfg.hidden_channels>>>>,
    <<<<"encoders", i, "mha", "smolgen", "dense1", "kernel">>,
       <<"encoder", i, "mha", "smolgen", "dense1", "w">>,
       <<cfg.hidden_channels * 64, cfg.hidden_size>>>>,
    <<<<"encoders", i, "mha", "smolgen", "dense1", "bias">>,
       <<"encoder", i, "mha", "smolgen", "dense1", "b">>, <<cfg.hidden_size>>>>,
    <<<<"encoders", i, "mha", "smolgen", "ln1", "scale">>,
       <<"encoder", i, "mha", "smolgen", "ln1", "gammas">>, <<cfg.hidden_size>>>>,
    <<<<"encoders", i, "mha", "smolgen", "ln1", "bias">>,
       <<"encoder", i, "mha", "smolgen", "ln1", "betas">>, <<cfg.hidden_size>>>>,
    <<<<"encoders", i, "mha", "smolgen", "dense2", "kernel">>,
       <<"encoder", i, "mha", "smolgen", "dense2", "w">>,
       <<cfg.hidden_size, cfg.gen_size * cfg.heads>>>>,
    <<<<"encoders", i, "mha", "smolgen", "dense2", "bias">>,
       <<"encoder", i, "mha", "smolgen", "dense2", "b">>, <<cfg.gen_size * cfg.heads>>>>,
    <<<<"encoders", i, "mha", "smolgen", "ln2", "scale">>,
       <<"encoder", i, "mha", "smolgen", "ln2", "gammas">>, <<cfg.gen_size * cfg.heads>>>>,
    <<<<"encoders", i, "mha", "smolgen", "ln2", "bias">>,
       <<"encoder", i, "mha", "smolgen", "ln2", "betas">>, <<cfg.gen_size * cfg.heads>>>> }
OuterRows(cfg, i) ==
  { <<<<"encoders", i, "mha", "q", "kernel">>, <<"encoder", i, "mha", "q", "w">>,
       <<cfg.embedding_size, cfg.d_model>>>>,
    <<<<"encoders", i, "mha", "q", "bias">>,
       <<"encoder", i, "mha", "q", "b">>, <<cfg.d_model>>>>,
    <<<<"encoders", i, "mha", "k", "kernel">>, <<"encoder", i, "mha", "k", "w">>,
       <<cfg.embedding_size, cfg.d_model>>>>,
    <<<<"encoders", i, "mha", "k", "bias">>,
       <<"encoder", i, "mha", "k", "b">>, <<cfg.d_model>>>>,
    <<<<"encoders", i, "mha", "v", "kernel">>, <<"encoder", i, "mha", "v", "w">>,
       <<cfg.embedding_size, cfg.d_model>>>>,
    <<<<"encoders", i, "mha", "v", "bias">>,
       <<"encoder", i, "mha", "v", "b">>, <<cfg.d_model>>>>,
    <<<<"encoders", i, "mha", "output_dense", "kernel">>, <<"encoder", i, "mha", "dense", "w">>,
       <<cfg.d_model, cfg.embedding_size>>>>,
    <<<<"encoders", i, "mha", "output_dense", "bias">>, <<"encoder", i, "mha", "dense", "b">>,
       <<cfg.embedding_size>>>>,
    <<<<"encoders", i, "ln1", "scale">>,
       <<"encoder", i, "ln1", "gammas">>, <<cfg.embedding_size>>>>,
    <<<<"encoders", i, "ln1", "bias">>,
       <<"encoder", i, "ln1", "betas">>, <<cfg.embedding_size>>>>,
    <<<<"encoders", i, "ln2", "scale">>,
       <<"encoder", i, "ln2", "gammas">>, <<cfg.embedding_size>>>>,
    <<<<"encoders", i, "ln2", "bias">>,
       <<"encoder", i, "ln2", "betas">>, <<cfg.embedding_size>>>>,
    <<<<"encoders", i, "ffn", "linear1", "kernel">>, <<"encoder", i, "ffn", "dense1", "w">>,
       <<cfg.embedding_size, cfg.encoder_dff>>>>,
    <<<<"encoders", i, "ffn", "linear1", "bias">>, <<"encoder", i, "ffn", "dense1", "b">>,
       <<cfg.encoder_dff>>>>,
    <<<<"encoders", i, "ffn", "linear2", "kernel">>, <<"encoder", i, "ffn", "dense2", "w">>,
       <<cfg.encoder_dff, cfg.embedding_size>>>>,
    <<<<"encoders", i, "ffn", "linear2", "bias">>, <<"encoder", i, "ffn", "dense2", "b">>,
       <<cfg.embedding_size>>>> }
SharedLayerRows(cfg) ==
  { <<<<"encoders", 0, "mha", "smolgen", "weight_gen_dense", "kernel">>, <<"smolgen", "w">>,
       <<cfg.gen_size, 64 * 64>>>> }
SharedEmbeddingRows(cfg) ==
  { <<<<"policy_embedding_shared", "kernel">>, <<"policy_heads", "ip_pol", "w">>,
       <<cfg.embedding_size, cfg.shared>>>>,
    <<<<"policy_embedding_shared", "bias">>,
       <<"policy_heads", "ip_pol", "b">>, <<cfg.shared>>>> }
TokensRows(cfg, name) ==
  { <<<<"policy_heads", name, "tokens", "kernel">>, <<"policy_heads", name, "ip_pol", "w">>,
       <<cfg.embedding_size, cfg.policy[name].embedding_size>>>>,
    <<<<"policy_heads", name, "tokens", "bias">>, <<"policy_heads", name, "ip_pol", "b">>,
       <<cfg.policy[name].embedding_size>>>> }
OwnPolicyRows(cfg, name) ==
  { <<<<"policy_heads", name, "q", "kernel">>, <<"policy_heads", name, "ip2_pol", "w">>,
       <<OwnSize(cfg, name), cfg.policy[name].d_model>>>>,
    <<<<"policy_heads", name, "q", "bias">>, <<"policy_heads", name, "ip2_pol", "b">>,
       <<cfg.policy[name].d_model>>>>,
    <<<<"policy_heads", name, "k", "kernel">>, <<"policy_heads", name, "ip3_pol", "w">>,
       <<OwnSize(cfg, name), cfg.policy[name].d_model>>>>,
    <<<<"policy_heads", name, "k", "bias">>, <<"policy_heads", name, "ip3_pol", "b">>,
       <<cfg.policy[name].d_model>>>>,
    <<<<"policy_heads", name, "promotion_dense", "kernel">>,
       <<"policy_heads", name, "ip4_pol", "w">>, <<cfg.policy[name].d_model, 4>>>> }
OwnValueRows(cfg, name) ==
  { <<<<"value_heads", name, "embed", "kernel">>, <<"value_heads", name, "ip_val", "w">>,
       <<cfg.embedding_size, cfg.value[name].num_channels>>>>,
    <<<<"value_heads", name, "embed", "bias">>, <<"value_heads", name, "ip_val", "b">>,
       <<cfg.value[name].num_channels>>>>,
    <<<<"value_heads", name, "dense1", "kernel">>, <<"value_heads", name, "ip1_val", "w">>,
       <<cfg.value[name].num_channels * 64, 128>>>>,
    <<<<"value_heads", name, "dense1", "bias">>,
       <<"value_heads", name, "ip1_val", "b">>, <<128>>>>,
    <<<<"value_heads", name, "wdl", "kernel">>, <<"value_heads", name, "ip2_val", "w">>,
       <<128, 3>>>>,
    <<<<"value_heads", name, "wdl", "bias">>, <<"value_heads", name, "ip2_val", "b">>, <<3>>>> }
ErrorRows(name) ==
  { <<<<"value_heads", name, "error", "kernel">>, <<"value_heads", name, "ip_val_err", "w">>,
       <<128, 1>>>>,
    <<<<"value_heads", name, "error", "bias">>,
       <<"value_heads", name, "ip_val_err", "b">>, <<1>>>> }
CategoricalRows(cfg, name) ==
  { <<<<"value_heads", name, "categorical", "kernel">>,
       <<"value_heads", name, "ip_val_cat", "w">>,
       <<128, cfg.value[name].num_categorical_buckets>>>>,
    <<<<"value_heads", name, "categorical", "bias">>,
       <<"value_heads", name, "ip_val_cat", "b">>, <<cfg.value[name].num_categorical_buckets>>>> }
MovesLeftRows(cfg, name) ==
  { <<<<"movesleft_heads", name, "embed", "kernel">>, <<"ip_mov", "w">>,
       <<cfg.embedding_size, cfg.movesleft[name].num_channels>>>>,
    <<<<"movesleft_heads", name, "embed", "bias">>, <<"ip_mov", "b">>,
       <<cfg.movesleft[name].num_channels>>>>,
    <<<<"movesleft_heads", name, "dense1", "kernel">>, <<"ip1_mov", "w">>,
       <<cfg.movesleft[name].num_channels * 64, 128>>>>,
    <<<<"movesleft_heads", name, "dense1", "bias">>, <<"ip1_mov", "b">>, <<128>>>>,
    <<<<"movesleft_heads", name, "out", "kernel">>, <<"ip2_mov", "w">>, <<128, 1>>>>,
    <<<<"movesleft_heads", name, "out", "bias">>, <<"ip2_mov", "b">>, <<1>>>> }

BlockRows(cfg, i) == SmolgenRows(cfg, i) \cup OuterRows(cfg, i)
BlocksRows(cfg) == UNION {BlockRows(cfg, i) : i \in 0 .. cfg.num_blocks - 1}
SharedRows(cfg) == IF cfg.shared = 0 THEN {} ELSE SharedEmbeddingRows(cfg)
PolicyRows(cfg, name) ==
  OwnPolicyRows(cfg, name) \cup (IF cfg.shared # 0 THEN {} ELSE TokensRows(cfg, name))
ValueRows(cfg, name) ==
  UNION { OwnValueRows(cfg, name), IF cfg.value[name].has_error_output THEN ErrorRows(name) ELSE {},
          IF cfg.value[name].num_categorical_buckets = 0 THEN {} ELSE CategoricalRows(cfg, name) }
Rows(cfg) ==
  UNION { EmbeddingRows(cfg), SharedLayerRows(cfg), BlocksRows(cfg), SharedRows(cfg),
          UNION {PolicyRows(cfg, name) : name \in DOMAIN cfg.policy},
          UNION {ValueRows(cfg, name) : name \in DOMAIN cfg.value},
          UNION {MovesLeftRows(cfg, name) : name \in DOMAIN cfg.movesleft} }

(* The parameters, and the fields they are paired with.                    *)
ParamsAre(params, rows) ==
  /\ \A r \in rows : <<r[1], r[3]>> \in params
  /\ \A x \in params : \E r \in rows : x = <<r[1], r[3]>>
PairsAre(pairs, rows) ==
  /\ \A r \in rows : <<r[1], r[2]>> \in pairs
  /\ \A x \in pairs : \E r \in rows : x = <<r[1], r[2]>>

(* Component by component.                                                 *)
LEMMA EmbeddingParams ==
  ASSUME NEW cfg
  PROVE  ParamsAre(Embedding(cfg), EmbeddingRows(cfg))
<1>. DEFINE emb == cfg.embedding_size
<1>1. Embedding(cfg) =
        UNION { Linear(<<"embedding", "preprocess">>, 64 * 12, 64 * cfg.dense_size),
                Linear(<<"embedding", "embedding">>, 112 + cfg.dense_size, emb),
                LayerNorm(<<"embedding", "norm">>, emb), MaGating(<<"embedding", "ma_gating">>, emb),
                Ffn(<<"embedding", "ffn">>, emb, cfg.embedding_dff),
                LayerNorm(<<"embedding", "out_norm">>, emb) }
  BY DEF Embedding
<1>2. \A r \in EmbeddingRows(cfg) : <<r[1], r[3]>> \in Embedding(cfg)
  BY <1>1, Append2, Append3 DEF EmbeddingRows, Linear, Kernel, LayerNorm, Ffn, MaGating
<1>3. \A x \in Embedding(cfg) : \E r \in EmbeddingRows(cfg) : x = <<r[1], r[3]>>
  BY <1>1, Append2, Append3 DEF EmbeddingRows, Linear, Kernel, LayerNorm, Ffn, MaGating
<1>. QED
  BY <1>2, <1>3 DEF ParamsAre

LEMMA EmbeddingPairs ==
  ASSUME NEW cfg
  PROVE  PairsAre(VisitEmbedding, EmbeddingRows(cfg))
<1>1. VisitEmbedding =
        UNION { MatMul(<<"embedding", "preprocess">>, <<"ip_emb_preproc">>),
                MatMul(<<"embedding", "embedding">>, <<"ip_emb">>),
                Norm(<<"embedding", "norm">>, <<"ip_emb_ln">>),
                {<<<<"embedding", "ma_gating", "mult_gate", "gate">>, <<"ip_mult_gate">>>>,
                 <<<<"embedding", "ma_gating", "add_gate", "gate">>, <<"ip_add_gate">>>>},
                VisitFfn(<<"embedding", "ffn">>, <<"ip_emb_ffn">>),
                Norm(<<"embedding", "out_norm">>, <<"ip_emb_ffn_ln">>) }
  BY DEF VisitEmbedding
<1>2. \A r \in EmbeddingRows(cfg) : <<r[1], r[2]>> \in VisitEmbedding
  BY <1>1, Append1, Append2, Append3 DEF EmbeddingRows, MatMul, Weight, Norm, VisitFfn
<1>3. \A x \in VisitEmbedding : \E r \in EmbeddingRows(cfg) : x = <<r[1], r[2]>>
  BY <1>1, Append1, Append2, Append3 DEF EmbeddingRows, MatMul, Weight, Norm, VisitFfn
<1>. QED
  BY <1>2, <1>3 DEF PairsAre

(* The parameters of one block.                                            *)
BlockParams(cfg, i) ==
  LET emb == cfg.embedding_size
      b(name) == <<"encoders", i, name>>
      m(name) == <<"encoders", i, "mha", name>>
  IN UNION { UNION {Linear(m(name), emb, cfg.d_model) : name \in {"q", "k", "v"}},
             Linear(m("output_dense"), cfg.d_model, emb), SmolgenOf(m("smolgen"), cfg),
             LayerNorm(b("ln1"), emb), LayerNorm(b("ln2"), emb),
             Ffn(b("ffn"), emb, cfg.encoder_dff) }
BlockPairs(i) ==
  LET b(name) == <<"encoders", i, name>>
      m(name) == <<"encoders", i, "mha", name>>
      f(name) == <<"encoder", i, name>>
      g(name) == <<"encoder", i, "mha", name>>
  IN UNION { MatMul(m("q"), g("q")), MatMul(m("k"), g("k")), MatMul(m("v"), g("v")),
             MatMul(m("output_dense"), g("dense")), VisitSmolgen(m("smolgen"), g("smolgen")),
             Norm(b("ln1"), f("ln1")), Norm(b("ln2"), f("ln2")), VisitFfn(b("ffn"), f("ffn")) }

LEMMA SmolgenParams ==
  ASSUME NEW cfg, NEW i
  PROVE  ParamsAre(SmolgenOf(<<"encoders", i, "mha", "smolgen">>, cfg), SmolgenRows(cfg, i))
<1>. DEFINE p(name) == <<"encoders", i, "mha", "smolgen", name>>  generated == cfg.gen_size * cfg.heads
            params == UNION { Kernel(p("compress"), cfg.embedding_size, cfg.hidden_channels),
                              Linear(p("dense1"), cfg.hidden_channels * 64, cfg.hidden_size),
                              LayerNorm(p("ln1"), cfg.hidden_size),
                              Linear(p("dense2"), cfg.hidden_size, generated),
                              LayerNorm(p("ln2"), generated) }
<1>0. \A name : Append(<<"encoders", i, "mha", "smolgen">>, name) = p(name)
  BY Append4
<1>. HIDE DEF p
<1>1. SmolgenOf(<<"encoders", i, "mha", "smolgen">>, cfg) = params
  <2>. DEFINE q == <<"encoders", i, "mha", "smolgen">>
  <2>1. SmolgenOf(q, cfg) =
          UNION { Kernel(Append(q, "compress"), cfg.embedding_size, cfg.hidden_channels),
                  Linear(Append(q, "dense1"), cfg.hidden_channels * 64, cfg.hidden_size),
                  LayerNorm(Append(q, "ln1"), cfg.hidden_size),
                  Linear(Append(q, "dense2"), cfg.hidden_size, generated),
                  LayerNorm(Append(q, "ln2"), generated) }
    BY DEF SmolgenOf
  <2>. HIDE DEF q, generated
  <2>2. /\ Append(q, "compress") = p("compress") /\ Append(q, "dense1") = p("dense1")
        /\ Append(q, "ln1") = p("ln1") /\ Append(q, "dense2") = p("dense2")
        /\ Append(q, "ln2") = p("ln2")
    BY <1>0 DEF q
  <2>3. SmolgenOf(q, cfg) = params
    BY <2>1, <2>2
  <2>. QED
    BY <2>3 DEF q
<1>. USE DEF p
<1>2. \A r \in SmolgenRows(cfg, i) : <<r[1], r[3]>> \in params
  BY Append5 DEF SmolgenRows, Linear, Kernel, LayerNorm
<1>3. \A x \in params : \E r \in SmolgenRows(cfg, i) : x = <<r[1], r[3]>>
  BY Append5 DEF SmolgenRows, Linear, Kernel, LayerNorm
<1>. QED
  BY <1>1, <1>2, <1>3 DEF ParamsAre

LEMMA SmolgenPairs ==
  ASSUME NEW cfg, NEW i
  PROVE  PairsAre(VisitSmolgen(<<"encoders", i, "mha", "smolgen">>, <<"encoder", i, "mha", "smolgen">>),
                  SmolgenRows(cfg, i))
<1>. DEFINE p(name) == <<"encoders", i, "mha", "smolgen", name>>
            f(name) == <<"encoder", i, "mha", "smolgen", name>>
            pairs == UNION { Weight(p("compress"), f("compress")), MatMul(p("dense1"), f("dense1")),
                             Norm(p("ln1"), f("ln1")), MatMul(p("dense2"), f("dense2")),
                             Norm(p("ln2"), f("ln2")) }
<1>0. \A name : /\ Append(<<"encoders", i, "mha", "smolgen">>, name) = p(name)
                /\ Append(<<"encoder", i, "mha", "smolgen">>, name) = f(name)
  BY Append4
<1>. HIDE DEF p, f
<1>1. VisitSmolgen(<<"encoders", i, "mha", "smolgen">>, <<"encoder", i, "mha", "smolgen">>) = pairs
  BY <1>0 DEF VisitSmolgen
<1>. USE DEF p, f
<1>2. \A r \in SmolgenRows(cfg, i) : <<r[1], r[2]>> \in pairs
  BY Append5 DEF SmolgenRows, MatMul, Weight, Norm
<1>3. \A x \in pairs : \E r \in SmolgenRows(cfg, i) : x = <<r[1], r[2]>>
  BY Append5 DEF SmolgenRows, MatMul, Weight, Norm
<1>. QED
  BY <1>1, <1>2, <1>3 DEF PairsAre

LEMMA OuterParams ==
  ASSUME NEW cfg, NEW i
  PROVE  ParamsAre(BlockParams(cfg, i), BlockRows(cfg, i))
<1>. DEFINE emb == cfg.embedding_size  smolgen == SmolgenOf(<<"encoders", i, "mha", "smolgen">>, cfg)
            outer == UNION { Linear(<<"encoders", i, "mha", "q">>, emb, cfg.d_model),
                             Linear(<<"encoders", i, "mha", "k">>, emb, cfg.d_model),
                             Linear(<<"encoders", i, "mha", "v">>, emb, cfg.d_model),
                             Linear(<<"encoders", i, "mha", "output_dense">>, cfg.d_model, emb),
                             LayerNorm(<<"encoders", i, "ln1">>, emb),
                             LayerNorm(<<"encoders", i, "ln2">>, emb),
                             Ffn(<<"encoders", i, "ffn">>, emb, cfg.encoder_dff) }
<1>1. \A r \in OuterRows(cfg, i) : <<r[1], r[3]>> \in outer
  BY Append3, Append4 DEF OuterRows, Linear, Kernel, LayerNorm, Ffn
<1>2. \A x \in outer : \E r \in OuterRows(cfg, i) : x = <<r[1], r[3]>>
  BY Append3, Append4 DEF OuterRows, Linear, Kernel, LayerNorm, Ffn
<1>3. BlockParams(cfg, i) = smolgen \cup outer
  BY DEF BlockParams
<1>. HIDE DEF outer, smolgen
<1>4. ParamsAre(smolgen, SmolgenRows(cfg, i))
  BY SmolgenParams DEF smolgen
<1>. QED
  BY <1>1, <1>2, <1>3, <1>4 DEF ParamsAre, BlockRows

LEMMA OuterPairs ==
  ASSUME NEW cfg, NEW i
  PROVE  PairsAre(BlockPairs(i), BlockRows(cfg, i))
<1>. DEFINE smolgen == VisitSmolgen(<<"encoders", i, "mha", "smolgen">>, <<"encoder", i, "mha", "smolgen">>)
            outer == UNION { MatMul(<<"encoders", i, "mha", "q">>, <<"encoder", i, "mha", "q">>),
                             MatMul(<<"encoders", i, "mha", "k">>, <<"encoder", i, "mha", "k">>),
                             MatMul(<<"encoders", i, "mha", "v">>, <<"encoder", i, "mha", "v">>),
                             MatMul(<<"encoders", i, "mha", "output_dense">>, <<"encoder", i, "mha", "dense">>),
                             Norm(<<"encoders", i, "ln1">>, <<"encoder", i, "ln1">>),
                             Norm(<<"encoders", i, "ln2">>, <<"encoder", i, "ln2">>),
                             VisitFfn(<<"encoders", i, "ffn">>, <<"encoder", i, "ffn">>) }
<1>1. \A r \in OuterRows(cfg, i) : <<r[1], r[2]>> \in outer
  BY Append3, Append4 DEF OuterRows, MatMul, Weight, Norm, VisitFfn
<1>2. \A x \in outer : \E r \in OuterRows(cfg, i) : x = <<r[1], r[2]>>
  BY Append3, Append4, SMTT(60) DEF OuterRows, MatMul, Weight, Norm, VisitFfn
<1>3. BlockPairs(i) = smolgen \cup outer
  BY DEF BlockPairs
<1>. HIDE DEF outer, smolgen
<1>4. PairsAre(smolgen, SmolgenRows(cfg, i))
  BY SmolgenPairs DEF smolgen
<1>. QED
  BY <1>1, <1>2, <1>3, <1>4 DEF PairsAre, BlockRows

LEMMA TowerParams ==
  ASSUME NEW cfg
  PROVE  ParamsAre(EncoderTower(cfg), SharedLayerRows(cfg) \cup BlocksRows(cfg))
<1>. DEFINE layer == Kernel(<<"encoders", 0, "mha", "smolgen", "weight_gen_dense">>, cfg.gen_size, 64 * 64)
            blocks == UNION {BlockParams(cfg, i) : i \in 0 .. cfg.num_blocks - 1}
<1>1. EncoderTower(cfg) = layer \cup blocks
  BY DEF EncoderTower, BlockParams
<1>2. ParamsAre(layer, SharedLayerRows(cfg))
  BY Append5 DEF ParamsAre, Kernel, SharedLayerRows
<1>3. ParamsAre(blocks, BlocksRows(cfg))
  BY OuterParams DEF ParamsAre, BlocksRows
<1>. HIDE DEF layer, blocks
<1>. QED
  BY <1>1, <1>2, <1>3 DEF ParamsAre

LEMMA TowerPairs ==
  ASSUME NEW cfg
  PROVE  PairsAre(VisitTower(cfg.num_blocks), SharedLayerRows(cfg) \cup BlocksRows(cfg))
<1>. DEFINE layer == Weight(<<"encoders", 0, "mha", "smolgen", "weight_gen_dense">>, <<"smolgen">>)
            blocks == UNION {BlockPairs(i) : i \in 0 .. cfg.num_blocks - 1}
<1>1. VisitTower(cfg.num_blocks) = layer \cup blocks
  BY DEF VisitTower, BlockPairs
<1>2. PairsAre(layer, SharedLayerRows(cfg))
  BY Append1, Append5 DEF PairsAre, Weight, SharedLayerRows
<1>3. PairsAre(blocks, BlocksRows(cfg))
  <2>1. ASSUME NEW r \in BlocksRows(cfg) PROVE <<r[1], r[2]>> \in blocks
    <3>1. PICK i \in 0 .. cfg.num_blocks - 1 : r \in BlockRows(cfg, i)
      BY DEF BlocksRows
    <3>2. <<r[1], r[2]>> \in BlockPairs(i)
      BY <3>1, OuterPairs DEF PairsAre
    <3>. QED
      BY <3>2
  <2>2. ASSUME NEW x \in blocks PROVE \E r \in BlocksRows(cfg) : x = <<r[1], r[2]>>
    <3>1. PICK i \in 0 .. cfg.num_blocks - 1 : x \in BlockPairs(i)
      OBVIOUS
    <3>2. PICK r \in BlockRows(cfg, i) : x = <<r[1], r[2]>>
      BY <3>1, OuterPairs DEF PairsAre
    <3>. QED
      BY <3>2 DEF BlocksRows
  <2>. QED
    BY <2>1, <2>2 DEF PairsAre
<1>. HIDE DEF layer, blocks
<1>. QED
  BY <1>1, <1>2, <1>3 DEF PairsAre

LEMMA SharedEmbeddingAre ==
  ASSUME NEW cfg
  PROVE  /\ ParamsAre(Linear(<<"policy_embedding_shared">>, cfg.embedding_size, cfg.shared),
                      SharedEmbeddingRows(cfg))
         /\ PairsAre(MatMul(<<"policy_embedding_shared">>, <<"policy_heads", "ip_pol">>),
                     SharedEmbeddingRows(cfg))
  BY Append1, Append2 DEF ParamsAre, PairsAre, Linear, Kernel, MatMul, Weight, SharedEmbeddingRows

LEMMA PolicyParams ==
  ASSUME NEW cfg, NEW name
  PROVE  ParamsAre(PolicyHead(name, cfg), PolicyRows(cfg, name))
<1>. DEFINE p(layer) == <<"policy_heads", name, layer>>  d == cfg.policy[name].d_model
            size == OwnSize(cfg, name)
            tokens == IF cfg.shared # 0 THEN {} ELSE Linear(p("tokens"), cfg.embedding_size, size)
            own == UNION { Linear(p("q"), size, d), Linear(p("k"), size, d),
                           Kernel(p("promotion_dense"), d, 4) }
<1>1. PolicyHead(name, cfg) = own \cup tokens
  BY DEF PolicyHead, OwnSize
<1>2. \A r \in OwnPolicyRows(cfg, name) : <<r[1], r[3]>> \in own
  BY Append3 DEF OwnPolicyRows, Linear, Kernel
<1>3. \A x \in own : \E r \in OwnPolicyRows(cfg, name) : x = <<r[1], r[3]>>
  BY Append3 DEF OwnPolicyRows, Linear, Kernel
<1>4. ParamsAre(tokens, IF cfg.shared # 0 THEN {} ELSE TokensRows(cfg, name))
  <2>1. ParamsAre(Linear(p("tokens"), cfg.embedding_size, cfg.policy[name].embedding_size),
                  TokensRows(cfg, name))
    BY Append3 DEF ParamsAre, TokensRows, Linear, Kernel
  <2>. QED
    BY <2>1 DEF ParamsAre, OwnSize
<1>. HIDE DEF own, tokens
<1>. QED
  BY <1>1, <1>2, <1>3, <1>4 DEF ParamsAre, PolicyRows

LEMMA PolicyPairs ==
  ASSUME NEW cfg, NEW name
  PROVE  PairsAre(VisitPolicy(name, cfg.shared = 0), PolicyRows(cfg, name))
<1>. DEFINE p(layer) == <<"policy_heads", name, layer>>
            tokens == IF cfg.shared = 0 THEN MatMul(p("tokens"), p("ip_pol")) ELSE {}
            own == UNION { MatMul(p("q"), p("ip2_pol")), MatMul(p("k"), p("ip3_pol")),
                           Weight(p("promotion_dense"), p("ip4_pol")) }
<1>1. VisitPolicy(name, cfg.shared = 0) = own \cup tokens
  BY DEF VisitPolicy
<1>2. \A r \in OwnPolicyRows(cfg, name) : <<r[1], r[2]>> \in own
  BY Append3 DEF OwnPolicyRows, MatMul, Weight
<1>3. \A x \in own : \E r \in OwnPolicyRows(cfg, name) : x = <<r[1], r[2]>>
  BY Append3 DEF OwnPolicyRows, MatMul, Weight
<1>4. PairsAre(tokens, IF cfg.shared # 0 THEN {} ELSE TokensRows(cfg, name))
  <2>1. PairsAre(MatMul(p("tokens"), p("ip_pol")), TokensRows(cfg, name))
    BY Append3 DEF PairsAre, TokensRows, MatMul, Weight
  <2>. QED
    BY <2>1 DEF PairsAre
<1>. HIDE DEF own, tokens
<1>. QED
  BY <1>1, <1>2, <1>3, <1>4 DEF PairsAre, PolicyRows

LEMMA ValueParams ==
  ASSUME NEW cfg, NEW name
  PROVE  ParamsAre(ValueHead(name, cfg), ValueRows(cfg, name))
<1>. DEFINE p(layer) == <<"value_heads", name, layer>>  head == cfg.value[name]
            buckets == head.num_categorical_buckets
            own == UNION { Linear(p("embed"), cfg.embedding_size, head.num_channels),
                           Linear(p("dense1"), head.num_channels * 64, 128), Linear(p("wdl"), 128, 3) }
            error == IF head.has_error_output THEN Linear(p("error"), 128, 1) ELSE {}
            categorical == IF buckets = 0 THEN {} ELSE Linear(p("categorical"), 128, buckets)
<1>1. ValueHead(name, cfg) = UNION {own, error, categorical}
  BY DEF ValueHead
<1>2. \A r \in OwnValueRows(cfg, name) : <<r[1], r[3]>> \in own
  BY Append3 DEF OwnValueRows, Linear, Kernel
<1>3. \A x \in own : \E r \in OwnValueRows(cfg, name) : x = <<r[1], r[3]>>
  BY Append3 DEF OwnValueRows, Linear, Kernel
<1>4. ParamsAre(error, IF head.has_error_output THEN ErrorRows(name) ELSE {})
  <2>1. ParamsAre(Linear(p("error"), 128, 1), ErrorRows(name))
    BY Append3 DEF ParamsAre, ErrorRows, Linear, Kernel
  <2>. QED
    BY <2>1 DEF ParamsAre
<1>5. ParamsAre(categorical, IF buckets = 0 THEN {} ELSE CategoricalRows(cfg, name))
  <2>1. ParamsAre(Linear(p("categorical"), 128, buckets), CategoricalRows(cfg, name))
    BY Append3 DEF ParamsAre, CategoricalRows, Linear, Kernel
  <2>. QED
    BY <2>1 DEF ParamsAre
<1>. HIDE DEF own, error, categorical
<1>. QED
  BY <1>1, <1>2, <1>3, <1>4, <1>5 DEF ParamsAre, ValueRows

LEMMA ValuePairs ==
  ASSUME NEW cfg, NEW name
  PROVE  PairsAre(VisitValue(name, cfg.value[name].has_error_output,
                             cfg.value[name].num_categorical_buckets # 0), ValueRows(cfg, name))
<1>. DEFINE p(layer) == <<"value_heads", name, layer>>  head == cfg.value[name]
            buckets == head.num_categorical_buckets
            own == UNION { MatMul(p("embed"), p("ip_val")), MatMul(p("dense1"), p("ip1_val")),
                           MatMul(p("wdl"), p("ip2_val")) }
            error == IF head.has_error_output THEN MatMul(p("error"), p("ip_val_err")) ELSE {}
            categorical == IF buckets # 0 THEN MatMul(p("categorical"), p("ip_val_cat")) ELSE {}
<1>1. VisitValue(name, head.has_error_output, buckets # 0) = UNION {own, error, categorical}
  BY DEF VisitValue
<1>2. \A r \in OwnValueRows(cfg, name) : <<r[1], r[2]>> \in own
  BY Append3 DEF OwnValueRows, MatMul, Weight
<1>3. \A x \in own : \E r \in OwnValueRows(cfg, name) : x = <<r[1], r[2]>>
  BY Append3 DEF OwnValueRows, MatMul, Weight
<1>4. PairsAre(error, IF head.has_error_output THEN ErrorRows(name) ELSE {})
  <2>1. PairsAre(MatMul(p("error"), p("ip_val_err")), ErrorRows(name))
    BY Append3 DEF PairsAre, ErrorRows, MatMul, Weight
  <2>. QED
    BY <2>1 DEF PairsAre
<1>5. PairsAre(categorical, IF buckets = 0 THEN {} ELSE CategoricalRows(cfg, name))
  <2>1. PairsAre(MatMul(p("categorical"), p("ip_val_cat")), CategoricalRows(cfg, name))
    BY Append3 DEF PairsAre, CategoricalRows, MatMul, Weight
  <2>. QED
    BY <2>1 DEF PairsAre
<1>. HIDE DEF own, error, categorical
<1>. QED
  BY <1>1, <1>2, <1>3, <1>4, <1>5 DEF PairsAre, ValueRows

LEMMA MovesLeftParams ==
  ASSUME NEW cfg, NEW name
  PROVE  ParamsAre(MovesLeftHead(name, cfg), MovesLeftRows(cfg, name))
<1>1. \A r \in MovesLeftRows(cfg, name) : <<r[1], r[3]>> \in MovesLeftHead(name, cfg)
  BY Append3 DEF MovesLeftRows, MovesLeftHead, Linear, Kernel
<1>2. \A x \in MovesLeftHead(name, cfg) : \E r \in MovesLeftRows(cfg, name) : x = <<r[1], r[3]>>
  BY Append3 DEF MovesLeftRows, MovesLeftHead, Linear, Kernel
<1>. QED
  BY <1>1, <1>2 DEF ParamsAre

LEMMA MovesLeftPairs ==
  ASSUME NEW cfg
  PROVE  PairsAre(VisitMovesLeft, MovesLeftRows(cfg, "main"))
<1>1. \A r \in MovesLeftRows(cfg, "main") : <<r[1], r[2]>> \in VisitMovesLeft
  BY Append1, Append3 DEF MovesLeftRows, VisitMovesLeft, MatMul, Weight
<1>2. \A x \in VisitMovesLeft : \E r \in MovesLeftRows(cfg, "main") : x = <<r[1], r[2]>>
  BY Append1, Append3 DEF MovesLeftRows, VisitMovesLeft, MatMul, Weight
<1>. QED
  BY <1>1, <1>2 DEF PairsAre

(* The parameters of a configuration are its rows.                         *)
LEMMA ParamsAreRows ==
  ASSUME NEW cfg
  PROVE  ParamsAre(Params(cfg), Rows(cfg))
<1>. DEFINE values == UNION {ValueHead(name, cfg) : name \in DOMAIN cfg.value}
            policies == UNION {PolicyHead(name, cfg) : name \in DOMAIN cfg.policy}
            movesleft == UNION {MovesLeftHead(name, cfg) : name \in DOMAIN cfg.movesleft}
            shared == IF cfg.shared = 0 THEN {}
                      ELSE Linear(<<"policy_embedding_shared">>, cfg.embedding_size, cfg.shared)
<1>1. ParamsAre(values, UNION {ValueRows(cfg, name) : name \in DOMAIN cfg.value})
  BY ValueParams DEF ParamsAre
<1>2. ParamsAre(policies, UNION {PolicyRows(cfg, name) : name \in DOMAIN cfg.policy})
  BY PolicyParams DEF ParamsAre
<1>3. ParamsAre(movesleft, UNION {MovesLeftRows(cfg, name) : name \in DOMAIN cfg.movesleft})
  BY MovesLeftParams DEF ParamsAre
<1>4. ParamsAre(shared, SharedRows(cfg))
  BY SharedEmbeddingAre DEF ParamsAre, SharedRows
<1>5. Params(cfg) = UNION {Embedding(cfg), EncoderTower(cfg), values, shared, policies, movesleft}
  BY DEF Params
<1>. HIDE DEF values, policies, movesleft, shared
<1>. QED
  BY <1>1, <1>2, <1>3, <1>4, <1>5, EmbeddingParams, TowerParams DEF ParamsAre, Rows

-----------------------------------------------------------------------------
(* No path and no field is that of two rows of a component.                *)
Distinct(rows) ==
  \A r, s \in rows : (r[1] = s[1] \/ r[2] = s[2]) => r = s

LEMMA EmbeddingDistinct ==
  ASSUME NEW cfg
  PROVE  /\ Distinct(EmbeddingRows(cfg))
         /\ \A r \in EmbeddingRows(cfg) :
              /\ r[1][1] = "embedding"
              /\ r[2][1] \in {"ip_emb_preproc", "ip_emb", "ip_emb_ln", "ip_mult_gate", "ip_add_gate",
                              "ip_emb_ffn", "ip_emb_ffn_ln"}
<1>1. Distinct(EmbeddingRows(cfg))
  BY DEF Distinct, EmbeddingRows
<1>. QED
  BY <1>1 DEF EmbeddingRows

LEMMA SmolgenDistinct ==
  ASSUME NEW cfg, NEW i
  PROVE  /\ Distinct(SmolgenRows(cfg, i))
         /\ \A r \in SmolgenRows(cfg, i) :
              /\ r[1][1] = "encoders" /\ r[1][2] = i /\ r[1][4] = "smolgen"
              /\ r[1][5] \in {"compress", "dense1", "dense2", "ln1", "ln2"}
              /\ r[2][1] = "encoder" /\ r[2][2] = i /\ r[2][4] = "smolgen"
<1>1. Distinct(SmolgenRows(cfg, i))
  BY DEF Distinct, SmolgenRows
<1>. QED
  BY <1>1 DEF SmolgenRows

LEMMA OuterDistinct ==
  ASSUME NEW cfg, NEW i
  PROVE  /\ Distinct(OuterRows(cfg, i))
         /\ \A r \in OuterRows(cfg, i) :
              /\ r[1][1] = "encoders" /\ r[1][2] = i
              /\ r[1][4] \in {"q", "k", "v", "output_dense", "scale", "bias", "linear1", "linear2"}
              /\ r[2][1] = "encoder" /\ r[2][2] = i
              /\ r[2][4] \in {"q", "k", "v", "dense", "gammas", "betas", "dense1", "dense2"}
<1>1. Distinct(OuterRows(cfg, i))
  BY DEF Distinct, OuterRows
<1>. QED
  BY <1>1 DEF OuterRows

LEMMA TowerDistinct ==
  ASSUME NEW cfg
  PROVE  /\ Distinct(SharedLayerRows(cfg) \cup BlocksRows(cfg))
         /\ \A r \in SharedLayerRows(cfg) \cup BlocksRows(cfg) :
              r[1][1] = "encoders" /\ r[2][1] \in {"encoder", "smolgen"}
<1>1. \A r \in SharedLayerRows(cfg) :
        /\ r[1][1] = "encoders" /\ r[1][4] = "smolgen" /\ r[1][5] = "weight_gen_dense"
        /\ r[2][1] = "smolgen"
  BY DEF SharedLayerRows
<1>2. Distinct(SharedLayerRows(cfg))
  BY DEF SharedLayerRows, Distinct
<1>3. \A i : /\ Distinct(BlockRows(cfg, i))
             /\ \A r \in BlockRows(cfg, i) :
                  /\ r[1][1] = "encoders" /\ r[1][2] = i
                  /\ r[1][4] = "smolgen" => r[1][5] # "weight_gen_dense"
                  /\ r[2][1] = "encoder" /\ r[2][2] = i
  <2>. SUFFICES ASSUME NEW i
                PROVE  /\ Distinct(BlockRows(cfg, i))
                       /\ \A r \in BlockRows(cfg, i) :
                            /\ r[1][1] = "encoders" /\ r[1][2] = i
                            /\ r[1][4] = "smolgen" => r[1][5] # "weight_gen_dense"
                            /\ r[2][1] = "encoder" /\ r[2][2] = i
    OBVIOUS
  <2>1. \A r \in SmolgenRows(cfg, i), s \in OuterRows(cfg, i) : r[1] # s[1] /\ r[2] # s[2]
    BY SmolgenDistinct, OuterDistinct
  <2>2. Distinct(BlockRows(cfg, i))
    BY <2>1, SmolgenDistinct, OuterDistinct DEF Distinct, BlockRows
  <2>. QED
    BY <2>2, SmolgenDistinct, OuterDistinct DEF BlockRows
<1>4. Distinct(BlocksRows(cfg))
  <2>. SUFFICES ASSUME NEW r \in BlocksRows(cfg), NEW s \in BlocksRows(cfg),
                       r[1] = s[1] \/ r[2] = s[2]
                PROVE  r = s
    BY DEF Distinct
  <2>1. PICK i \in 0 .. cfg.num_blocks - 1 : r \in BlockRows(cfg, i)
    BY DEF BlocksRows
  <2>2. PICK j \in 0 .. cfg.num_blocks - 1 : s \in BlockRows(cfg, j)
    BY DEF BlocksRows
  <2>3. i = j
    BY <1>3, <2>1, <2>2
  <2>. QED
    BY <1>3, <2>1, <2>2, <2>3 DEF Distinct
<1>5. \A r \in BlocksRows(cfg) :
        /\ r[1][1] = "encoders"
        /\ r[1][4] = "smolgen" => r[1][5] # "weight_gen_dense"
        /\ r[2][1] = "encoder"
  BY <1>3 DEF BlocksRows
<1>6. \A r \in SharedLayerRows(cfg), s \in BlocksRows(cfg) : r[1] # s[1] /\ r[2] # s[2]
  BY <1>1, <1>5
<1>. QED
  BY <1>1, <1>2, <1>4, <1>5, <1>6 DEF Distinct

LEMMA SharedDistinct ==
  ASSUME NEW cfg
  PROVE  /\ Distinct(SharedRows(cfg))
         /\ \A r \in SharedRows(cfg) :
              /\ r[1][1] = "policy_embedding_shared"
              /\ r[2][1] = "policy_heads" /\ r[2][2] = "ip_pol"
<1>1. /\ Distinct(SharedEmbeddingRows(cfg))
      /\ \A r \in SharedEmbeddingRows(cfg) :
           /\ r[1][1] = "policy_embedding_shared"
           /\ r[2][1] = "policy_heads" /\ r[2][2] = "ip_pol"
  BY DEF SharedEmbeddingRows, Distinct
<1>. QED
  BY <1>1 DEF SharedRows, Distinct

LEMMA PolicyDistinct ==
  ASSUME NEW cfg
  PROVE  LET rows == UNION {PolicyRows(cfg, name) : name \in DOMAIN cfg.policy} IN
         /\ Distinct(rows)
         /\ \A r \in rows :
              /\ r[1][1] = "policy_heads"
              /\ r[2][1] = "policy_heads" /\ r[2][2] \in DOMAIN cfg.policy
              /\ r[2][3] = "ip_pol" => cfg.shared = 0
<1>. DEFINE all(name) == OwnPolicyRows(cfg, name) \cup TokensRows(cfg, name)
            rows == UNION {PolicyRows(cfg, name) : name \in DOMAIN cfg.policy}
<1>1. ASSUME NEW name
      PROVE  /\ \A r, s \in all(name) : (r[1] = s[1] \/ r[2] = s[2]) => r = s
             /\ \A r \in all(name) : /\ r[1][1] = "policy_heads" /\ r[1][2] = name
                                     /\ r[2][1] = "policy_heads" /\ r[2][2] = name
  BY DEF OwnPolicyRows, TokensRows
<1>2. \A name : PolicyRows(cfg, name) \subseteq all(name)
  BY DEF PolicyRows
<1>3. \A name : \A r \in OwnPolicyRows(cfg, name) : r[2][3] # "ip_pol"
  BY DEF OwnPolicyRows
<1>4. \A name : \A r \in PolicyRows(cfg, name) : r[2][3] = "ip_pol" => cfg.shared = 0
  BY <1>3 DEF PolicyRows
<1>. HIDE DEF all
<1>5. \A r \in rows : \E name \in DOMAIN cfg.policy : r \in all(name) /\ r \in PolicyRows(cfg, name)
  BY <1>2
<1>. HIDE DEF rows
<1>6. Distinct(rows)
  BY <1>1, <1>5 DEF Distinct
<1>7. \A r \in rows : /\ r[1][1] = "policy_heads"
                      /\ r[2][1] = "policy_heads" /\ r[2][2] \in DOMAIN cfg.policy
                      /\ r[2][3] = "ip_pol" => cfg.shared = 0
  BY <1>1, <1>4, <1>5
<1>. QED
  BY <1>6, <1>7 DEF rows

LEMMA ValueDistinct ==
  ASSUME NEW cfg
  PROVE  LET rows == UNION {ValueRows(cfg, name) : name \in DOMAIN cfg.value} IN
         /\ Distinct(rows)
         /\ \A r \in rows :
              /\ r[1][1] = "value_heads"
              /\ r[2][1] = "value_heads" /\ r[2][2] \in DOMAIN cfg.value
              /\ r[2][3] = "ip_val_err" => cfg.value[r[2][2]].has_error_output
              /\ r[2][3] = "ip_val_cat" => cfg.value[r[2][2]].num_categorical_buckets # 0
<1>. DEFINE all(name) == UNION {OwnValueRows(cfg, name), ErrorRows(name), CategoricalRows(cfg, name)}
            rows == UNION {ValueRows(cfg, name) : name \in DOMAIN cfg.value}
            has(r, name) == /\ r[2][3] = "ip_val_err" => cfg.value[name].has_error_output
                            /\ r[2][3] = "ip_val_cat" => cfg.value[name].num_categorical_buckets # 0
<1>1. ASSUME NEW name
      PROVE  /\ \A r, s \in all(name) : (r[1] = s[1] \/ r[2] = s[2]) => r = s
             /\ \A r \in all(name) : /\ r[1][1] = "value_heads" /\ r[1][2] = name
                                     /\ r[2][1] = "value_heads" /\ r[2][2] = name
  BY DEF OwnValueRows, ErrorRows, CategoricalRows
<1>2. \A name : ValueRows(cfg, name) \subseteq all(name)
  BY DEF ValueRows
<1>3. \A name : /\ \A r \in OwnValueRows(cfg, name) : r[2][3] \notin {"ip_val_err", "ip_val_cat"}
                /\ \A r \in ErrorRows(name) : r[2][3] = "ip_val_err"
                /\ \A r \in CategoricalRows(cfg, name) : r[2][3] = "ip_val_cat"
  BY DEF OwnValueRows, ErrorRows, CategoricalRows
<1>4. \A name : \A r \in ValueRows(cfg, name) : has(r, name)
  <2>. SUFFICES ASSUME NEW name, NEW r \in ValueRows(cfg, name) PROVE has(r, name)
    OBVIOUS
  <2>1. CASE r \in OwnValueRows(cfg, name)
    BY <1>3, <2>1
  <2>2. CASE r \in ErrorRows(name) /\ cfg.value[name].has_error_output
    BY <1>3, <2>2
  <2>3. CASE r \in CategoricalRows(cfg, name) /\ cfg.value[name].num_categorical_buckets # 0
    <3>0. r \in CategoricalRows(cfg, name)
      BY <2>3, Zenon
    <3>1. r[2][3] = "ip_val_cat" /\ r[2][3] # "ip_val_err"
      BY <3>0 DEF CategoricalRows
    <3>. QED
      BY <2>3, <3>1, Zenon
  <2>. QED
    BY <2>1, <2>2, <2>3 DEF ValueRows
<1>. HIDE DEF all
<1>5. \A r \in rows : \E name \in DOMAIN cfg.value : r \in all(name) /\ r \in ValueRows(cfg, name)
  BY <1>2
<1>. HIDE DEF rows
<1>6. Distinct(rows)
  BY <1>1, <1>5 DEF Distinct
<1>7. \A r \in rows : /\ r[1][1] = "value_heads"
                      /\ r[2][1] = "value_heads" /\ r[2][2] \in DOMAIN cfg.value
                      /\ has(r, r[2][2])
  BY <1>1, <1>4, <1>5
<1>. QED
  BY <1>6, <1>7 DEF rows

LEMMA MovesLeftDistinct ==
  ASSUME NEW cfg, NEW name
  PROVE  /\ Distinct(MovesLeftRows(cfg, name))
         /\ \A r \in MovesLeftRows(cfg, name) :
              /\ r[1][1] = "movesleft_heads" /\ r[1][2] = name
              /\ r[2][1] \in {"ip_mov", "ip1_mov", "ip2_mov"}
<1>1. Distinct(MovesLeftRows(cfg, name))
  BY DEF Distinct, MovesLeftRows
<1>. QED
  BY <1>1 DEF MovesLeftRows

(* No parameter of a model and, for the names of heads that files have, no *)
(* field of a net file is that of two rows.                                *)
LEMMA OnePath ==
  ASSUME NEW cfg
  PROVE  \A r, s \in Rows(cfg) : r[1] = s[1] => r = s
<1>. DEFINE policies == UNION {PolicyRows(cfg, name) : name \in DOMAIN cfg.policy}
            values == UNION {ValueRows(cfg, name) : name \in DOMAIN cfg.value}
            movesleft == UNION {MovesLeftRows(cfg, name) : name \in DOMAIN cfg.movesleft}
            tower == SharedLayerRows(cfg) \cup BlocksRows(cfg)
<1>1. /\ \A r, s \in movesleft : r[1] = s[1] => r = s
      /\ \A r \in movesleft : r[1][1] = "movesleft_heads"
  BY MovesLeftDistinct DEF Distinct
<1>2. /\ \A r, s \in policies : r[1] = s[1] => r = s
      /\ \A r \in policies : r[1][1] = "policy_heads"
  BY PolicyDistinct DEF Distinct
<1>3. /\ \A r, s \in values : r[1] = s[1] => r = s
      /\ \A r \in values : r[1][1] = "value_heads"
  BY ValueDistinct DEF Distinct
<1>4. /\ \A r, s \in tower : r[1] = s[1] => r = s
      /\ \A r \in tower : r[1][1] = "encoders"
  BY TowerDistinct DEF Distinct
<1>5. /\ \A r, s \in EmbeddingRows(cfg) : r[1] = s[1] => r = s
      /\ \A r \in EmbeddingRows(cfg) : r[1][1] = "embedding"
  BY EmbeddingDistinct DEF Distinct
<1>6. /\ \A r, s \in SharedRows(cfg) : r[1] = s[1] => r = s
      /\ \A r \in SharedRows(cfg) : r[1][1] = "policy_embedding_shared"
  BY SharedDistinct DEF Distinct
<1>7. Rows(cfg) = UNION {EmbeddingRows(cfg), tower, SharedRows(cfg), policies, values, movesleft}
  BY DEF Rows
<1>. HIDE DEF policies, values, movesleft, tower
<1>. QED
  BY <1>1, <1>2, <1>3, <1>4, <1>5, <1>6, <1>7

LEMMA OneField ==
  ASSUME NEW cfg, Standard(cfg)
  PROVE  \A r, s \in Rows(cfg) : r[2] = s[2] => r = s
<1>. DEFINE policies == UNION {PolicyRows(cfg, name) : name \in DOMAIN cfg.policy}
            values == UNION {ValueRows(cfg, name) : name \in DOMAIN cfg.value}
            movesleft == UNION {MovesLeftRows(cfg, name) : name \in DOMAIN cfg.movesleft}
            tower == SharedLayerRows(cfg) \cup BlocksRows(cfg)
<1>0. "ip_pol" \notin DOMAIN cfg.policy /\ DOMAIN cfg.movesleft \subseteq {"main"}
  BY DEF Standard, PolicyNames
<1>1. /\ \A r, s \in movesleft : r[2] = s[2] => r = s
      /\ \A r \in movesleft : r[2][1] \in {"ip_mov", "ip1_mov", "ip2_mov"}
  <2>1. \A r \in movesleft : r \in MovesLeftRows(cfg, "main")
    BY <1>0
  <2>. QED
    BY <2>1, MovesLeftDistinct DEF Distinct
<1>2. /\ \A r, s \in policies : r[2] = s[2] => r = s
      /\ \A r \in policies : r[2][1] = "policy_heads" /\ r[2][2] # "ip_pol"
  BY <1>0, PolicyDistinct DEF Distinct
<1>3. /\ \A r, s \in values : r[2] = s[2] => r = s
      /\ \A r \in values : r[2][1] = "value_heads"
  BY ValueDistinct DEF Distinct
<1>4. /\ \A r, s \in tower : r[2] = s[2] => r = s
      /\ \A r \in tower : r[2][1] \in {"encoder", "smolgen"}
  BY TowerDistinct DEF Distinct
<1>5. /\ \A r, s \in EmbeddingRows(cfg) : r[2] = s[2] => r = s
      /\ \A r \in EmbeddingRows(cfg) :
           r[2][1] \in {"ip_emb_preproc", "ip_emb", "ip_emb_ln", "ip_mult_gate", "ip_add_gate",
                        "ip_emb_ffn", "ip_emb_ffn_ln"}
  BY EmbeddingDistinct DEF Distinct
<1>6. /\ \A r, s \in SharedRows(cfg) : r[2] = s[2] => r = s
      /\ \A r \in SharedRows(cfg) : r[2][1] = "policy_heads" /\ r[2][2] = "ip_pol"
  BY SharedDistinct DEF Distinct
<1>7. Rows(cfg) = UNION {EmbeddingRows(cfg), tower, SharedRows(cfg), policies, values, movesleft}
  BY DEF Rows
<1>. HIDE DEF policies, values, movesleft, tower
<1>8. \A r \in Rows(cfg), s \in Rows(cfg) :
        r[2] = s[2] => \/ r \in EmbeddingRows(cfg) /\ s \in EmbeddingRows(cfg)
                       \/ r \in tower /\ s \in tower
                       \/ r \in SharedRows(cfg) /\ s \in SharedRows(cfg)
                       \/ r \in policies /\ s \in policies
                       \/ r \in values /\ s \in values
                       \/ r \in movesleft /\ s \in movesleft
  BY <1>1, <1>2, <1>3, <1>4, <1>5, <1>6, <1>7
<1>. QED
  BY <1>1, <1>2, <1>3, <1>4, <1>5, <1>6, <1>8

(* The visitor pairs the parameters of the heads that are present with     *)
(* their fields: source has these heads and is otherwise like target.      *)
LEMMA VisitAre ==
  ASSUME NEW source, NEW target, NEW present,
         source.num_blocks = target.num_blocks, source.shared = target.shared,
         source.shared # 0 => SharedEmbedding \in present,
         DOMAIN source.policy =
           {name \in PolicyNames \cap DOMAIN target.policy : <<"policy_heads", name>> \in present},
         DOMAIN source.value =
           {name \in ValueNames \cap DOMAIN target.value : <<"value_heads", name>> \in present},
         \A name \in DOMAIN source.value : source.value[name] = target.value[name],
         DOMAIN source.movesleft = DOMAIN target.movesleft \cap {"main"}
  PROVE  PairsAre(Visit(target, present), Rows(source))
<1>. DEFINE shared == IF source.shared # 0
                      THEN MatMul(<<"policy_embedding_shared">>, <<"policy_heads", "ip_pol">>) ELSE {}
            policies == UNION {VisitPolicy(name, source.shared = 0) : name \in DOMAIN source.policy}
            values == UNION {VisitValue(name, source.value[name].has_error_output,
                                        source.value[name].num_categorical_buckets # 0)
                             : name \in DOMAIN source.value}
            movesleft == IF "main" \in DOMAIN source.movesleft THEN VisitMovesLeft ELSE {}
            tower == SharedLayerRows(source) \cup BlocksRows(source)
<1>1. Visit(target, present) =
        UNION {VisitEmbedding, VisitTower(source.num_blocks), shared, policies, values, movesleft}
  <2>. DEFINE vs(name) == VisitValue(name, source.value[name].has_error_output,
                                     source.value[name].num_categorical_buckets # 0)
              vt(name) == VisitValue(name, target.value[name].has_error_output,
                                     target.value[name].num_categorical_buckets # 0)
              policy == {name \in PolicyNames \cap DOMAIN target.policy : <<"policy_heads", name>> \in present}
              value == {name \in ValueNames \cap DOMAIN target.value : <<"value_heads", name>> \in present}
  <2>1. Visit(target, present) =
          UNION { VisitEmbedding, VisitTower(target.num_blocks),
                  IF target.shared # 0 /\ SharedEmbedding \in present
                  THEN MatMul(<<"policy_embedding_shared">>, <<"policy_heads", "ip_pol">>) ELSE {},
                  UNION {VisitPolicy(name, target.shared = 0) : name \in policy},
                  UNION {vt(name) : name \in value},
                  IF "main" \in DOMAIN target.movesleft THEN VisitMovesLeft ELSE {} }
    BY DEF Visit
  <2>2. policy = DOMAIN source.policy /\ value = DOMAIN source.value
    OBVIOUS
  <2>3. \A name \in value : vs(name) = vt(name)
    BY <2>2
  <2>4. UNION {vs(name) : name \in DOMAIN source.value} = values
    OBVIOUS
  <2>. HIDE DEF vs, vt, policy, value, values
  <2>5. {vt(name) : name \in value} = {vs(name) : name \in DOMAIN source.value}
    BY <2>2, <2>3
  <2>6. (IF target.shared # 0 /\ SharedEmbedding \in present
         THEN MatMul(<<"policy_embedding_shared">>, <<"policy_heads", "ip_pol">>) ELSE {}) = shared
    OBVIOUS
  <2>7. UNION {VisitPolicy(name, target.shared = 0) : name \in policy} = policies
    BY <2>2
  <2>8. (IF "main" \in DOMAIN target.movesleft THEN VisitMovesLeft ELSE {}) = movesleft
    OBVIOUS
  <2>. HIDE DEF shared, policies, movesleft
  <2>. QED
    BY <2>1, <2>4, <2>5, <2>6, <2>7, <2>8
<1>2. PairsAre(policies, UNION {PolicyRows(source, name) : name \in DOMAIN source.policy})
  <2>1. ASSUME NEW r \in UNION {PolicyRows(source, name) : name \in DOMAIN source.policy}
        PROVE  <<r[1], r[2]>> \in policies
    <3>1. PICK name \in DOMAIN source.policy : r \in PolicyRows(source, name)
      OBVIOUS
    <3>2. <<r[1], r[2]>> \in VisitPolicy(name, source.shared = 0)
      BY <3>1, PolicyPairs DEF PairsAre
    <3>. QED
      BY <3>2
  <2>2. ASSUME NEW x \in policies
        PROVE  \E r \in UNION {PolicyRows(source, name) : name \in DOMAIN source.policy} : x = <<r[1], r[2]>>
    <3>1. PICK name \in DOMAIN source.policy : x \in VisitPolicy(name, source.shared = 0)
      OBVIOUS
    <3>2. PairsAre(VisitPolicy(name, source.shared = 0), PolicyRows(source, name))
      BY PolicyPairs
    <3>3. PICK r \in PolicyRows(source, name) : x = <<r[1], r[2]>>
      BY ONLY <3>1, <3>2 DEF PairsAre
    <3>. QED
      BY <3>3
  <2>. QED
    BY <2>1, <2>2 DEF PairsAre
<1>3. PairsAre(values, UNION {ValueRows(source, name) : name \in DOMAIN source.value})
  <2>1. ASSUME NEW r \in UNION {ValueRows(source, name) : name \in DOMAIN source.value}
        PROVE  <<r[1], r[2]>> \in values
    <3>1. PICK name \in DOMAIN source.value : r \in ValueRows(source, name)
      OBVIOUS
    <3>2. <<r[1], r[2]>> \in VisitValue(name, source.value[name].has_error_output,
                                  source.value[name].num_categorical_buckets # 0)
      BY <3>1, ValuePairs DEF PairsAre
    <3>. QED
      BY <3>2
  <2>2. ASSUME NEW x \in values
        PROVE  \E r \in UNION {ValueRows(source, name) : name \in DOMAIN source.value} : x = <<r[1], r[2]>>
    <3>1. PICK name \in DOMAIN source.value : x \in VisitValue(name, source.value[name].has_error_output,
                                  source.value[name].num_categorical_buckets # 0)
      OBVIOUS
    <3>2. PICK r \in ValueRows(source, name) : x = <<r[1], r[2]>>
      BY <3>1, ValuePairs DEF PairsAre
    <3>. QED
      BY <3>2
  <2>. QED
    BY <2>1, <2>2 DEF PairsAre
<1>4. PairsAre(movesleft, UNION {MovesLeftRows(source, name) : name \in DOMAIN source.movesleft})
  BY MovesLeftPairs DEF PairsAre
<1>5. PairsAre(shared, SharedRows(source))
  BY SharedEmbeddingAre DEF PairsAre, SharedRows
<1>6. PairsAre(VisitTower(source.num_blocks), tower)
  BY TowerPairs
<1>7. Rows(source) =
        UNION { EmbeddingRows(source), tower, SharedRows(source),
                UNION {PolicyRows(source, name) : name \in DOMAIN source.policy},
                UNION {ValueRows(source, name) : name \in DOMAIN source.value},
                UNION {MovesLeftRows(source, name) : name \in DOMAIN source.movesleft} }
  BY DEF Rows
<1>. HIDE DEF shared, policies, values, movesleft, tower
<1>. QED
  <2>. DEFINE pr == UNION {PolicyRows(source, name) : name \in DOMAIN source.policy}
              vr == UNION {ValueRows(source, name) : name \in DOMAIN source.value}
              mr == UNION {MovesLeftRows(source, name) : name \in DOMAIN source.movesleft}
  <2>1. PairsAre(policies, pr) /\ PairsAre(values, vr) /\ PairsAre(movesleft, mr)
    BY <1>2, <1>3, <1>4
  <2>2. Rows(source) = UNION {EmbeddingRows(source), tower, SharedRows(source), pr, vr, mr}
    BY <1>7
  <2>3. PairsAre(VisitEmbedding, EmbeddingRows(source))
    BY EmbeddingPairs
  <2>. HIDE DEF pr, vr, mr
  <2>. QED
    BY <1>1, <1>5, <1>6, <2>1, <2>2, <2>3 DEF PairsAre

(* The first words of the fields of a file, by which they are told apart.  *)
LEMMA FieldWords ==
  ASSUME NEW cfg
  PROVE  \A r \in Rows(cfg) :
           \/ r[2][1] \notin {"policy_heads", "value_heads", "ip_mov"}
           \/ r[2][1] = "ip_mov" /\ DOMAIN cfg.movesleft # {}
           \/ r[2][1] = "policy_heads" /\ r[2][2] = "ip_pol" /\ cfg.shared # 0
           \/ /\ r[2][1] = "policy_heads" /\ r[2][2] \in DOMAIN cfg.policy
              /\ r[2][3] = "ip_pol" => cfg.shared = 0
           \/ /\ r[2][1] = "value_heads" /\ r[2][2] \in DOMAIN cfg.value
              /\ r[2][3] = "ip_val_err" => cfg.value[r[2][2]].has_error_output
              /\ r[2][3] = "ip_val_cat" => cfg.value[r[2][2]].num_categorical_buckets # 0
<1>. DEFINE policies == UNION {PolicyRows(cfg, name) : name \in DOMAIN cfg.policy}
            values == UNION {ValueRows(cfg, name) : name \in DOMAIN cfg.value}
            movesleft == UNION {MovesLeftRows(cfg, name) : name \in DOMAIN cfg.movesleft}
            tower == SharedLayerRows(cfg) \cup BlocksRows(cfg)
<1>1. \A r \in movesleft : r[2][1] \in {"ip_mov", "ip1_mov", "ip2_mov"} /\ DOMAIN cfg.movesleft # {}
  BY MovesLeftDistinct
<1>2. \A r \in policies : /\ r[2][1] = "policy_heads" /\ r[2][2] \in DOMAIN cfg.policy
                          /\ r[2][3] = "ip_pol" => cfg.shared = 0
  BY PolicyDistinct
<1>3. \A r \in values : /\ r[2][1] = "value_heads" /\ r[2][2] \in DOMAIN cfg.value
                        /\ r[2][3] = "ip_val_err" => cfg.value[r[2][2]].has_error_output
                        /\ r[2][3] = "ip_val_cat" => cfg.value[r[2][2]].num_categorical_buckets # 0
  <2>1. /\ Distinct(values)
        /\ \A r \in values :
             /\ r[1][1] = "value_heads"
             /\ r[2][1] = "value_heads" /\ r[2][2] \in DOMAIN cfg.value
             /\ r[2][3] = "ip_val_err" => cfg.value[r[2][2]].has_error_output
             /\ r[2][3] = "ip_val_cat" => cfg.value[r[2][2]].num_categorical_buckets # 0
    BY ONLY ValueDistinct, Zenon
  <2>. HIDE DEF values
  <2>. QED
    BY ONLY <2>1, Zenon
<1>4. \A r \in tower : r[2][1] \in {"encoder", "smolgen"}
  BY TowerDistinct
<1>5. \A r \in EmbeddingRows(cfg) :
        r[2][1] \in {"ip_emb_preproc", "ip_emb", "ip_emb_ln", "ip_mult_gate", "ip_add_gate",
                     "ip_emb_ffn", "ip_emb_ffn_ln"}
  BY EmbeddingDistinct
<1>6. \A r \in SharedRows(cfg) : r[2][1] = "policy_heads" /\ r[2][2] = "ip_pol" /\ cfg.shared # 0
  BY SharedDistinct DEF SharedRows
<1>7. Rows(cfg) = UNION {EmbeddingRows(cfg), tower, SharedRows(cfg), policies, values, movesleft}
  BY DEF Rows
<1>. HIDE DEF policies, values, movesleft, tower
<1>. QED
  BY <1>1, <1>2, <1>3, <1>4, <1>5, <1>6, <1>7

-----------------------------------------------------------------------------
(* Prefixes of fields.                                                     *)

IsTuple(t) == \E S : t \in Seq(S)

LEMMA Tuples ==
  /\ \A a : IsTuple(<<a>>)
  /\ \A a, b : IsTuple(<<a, b>>)
  /\ \A a, b, c : IsTuple(<<a, b, c>>)
  /\ \A a, b, c, d : IsTuple(<<a, b, c, d>>)
  /\ \A a, b, c, d, e : IsTuple(<<a, b, c, d, e>>)
  /\ \A a, b, c, d, e, f : IsTuple(<<a, b, c, d, e, f>>)
<1>1. \A a : IsTuple(<<a>>)
  <2>. SUFFICES ASSUME NEW a PROVE IsTuple(<<a>>)
    OBVIOUS
  <2>1. <<a>> \in Seq({a})
    OBVIOUS
  <2>. QED
    BY <2>1 DEF IsTuple
<1>2. \A a, b : IsTuple(<<a, b>>)
  <2>. SUFFICES ASSUME NEW a, NEW b PROVE IsTuple(<<a, b>>)
    OBVIOUS
  <2>1. <<a, b>> \in Seq({a, b})
    OBVIOUS
  <2>. QED
    BY <2>1 DEF IsTuple
<1>3. \A a, b, c : IsTuple(<<a, b, c>>)
  <2>. SUFFICES ASSUME NEW a, NEW b, NEW c PROVE IsTuple(<<a, b, c>>)
    OBVIOUS
  <2>1. <<a, b, c>> \in Seq({a, b, c})
    OBVIOUS
  <2>. QED
    BY <2>1 DEF IsTuple
<1>4. \A a, b, c, d : IsTuple(<<a, b, c, d>>)
  <2>. SUFFICES ASSUME NEW a, NEW b, NEW c, NEW d PROVE IsTuple(<<a, b, c, d>>)
    OBVIOUS
  <2>1. <<a, b, c, d>> \in Seq({a, b, c, d})
    OBVIOUS
  <2>. QED
    BY <2>1 DEF IsTuple
<1>5. \A a, b, c, d, e : IsTuple(<<a, b, c, d, e>>)
  <2>. SUFFICES ASSUME NEW a, NEW b, NEW c, NEW d, NEW e PROVE IsTuple(<<a, b, c, d, e>>)
    OBVIOUS
  <2>1. <<a, b, c, d, e>> \in Seq({a, b, c, d, e})
    OBVIOUS
  <2>. QED
    BY <2>1 DEF IsTuple
<1>6. \A a, b, c, d, e, f : IsTuple(<<a, b, c, d, e, f>>)
  <2>. SUFFICES ASSUME NEW a, NEW b, NEW c, NEW d, NEW e, NEW f PROVE IsTuple(<<a, b, c, d, e, f>>)
    OBVIOUS
  <2>1. <<a, b, c, d, e, f>> \in Seq({a, b, c, d, e, f})
    OBVIOUS
  <2>. QED
    BY <2>1 DEF IsTuple
<1>. QED
  BY <1>1, <1>2, <1>3, <1>4, <1>5, <1>6

LEMMA FieldsAreTuples ==
  ASSUME NEW cfg
  PROVE  \A r \in Rows(cfg) : IsTuple(r[2])
<1>1. \A r \in EmbeddingRows(cfg) \cup SharedLayerRows(cfg) : IsTuple(r[2])
  BY Tuples DEF EmbeddingRows, SharedLayerRows
<1>2. \A i : \A r \in SmolgenRows(cfg, i) : IsTuple(r[2])
  BY Tuples DEF SmolgenRows
<1>3. \A i : \A r \in OuterRows(cfg, i) : IsTuple(r[2])
  BY Tuples DEF OuterRows
<1>4. \A r \in BlocksRows(cfg) : IsTuple(r[2])
  BY <1>2, <1>3 DEF BlocksRows, BlockRows
<1>5. \A r \in SharedRows(cfg) : IsTuple(r[2])
  <2>1. \A r \in SharedEmbeddingRows(cfg) : IsTuple(r[2])
    BY Tuples DEF SharedEmbeddingRows
  <2>. QED
    BY <2>1 DEF SharedRows
<1>6. \A name : \A r \in PolicyRows(cfg, name) : IsTuple(r[2])
  <2>1. \A name : \A r \in OwnPolicyRows(cfg, name) \cup TokensRows(cfg, name) : IsTuple(r[2])
    BY Tuples DEF OwnPolicyRows, TokensRows
  <2>. QED
    BY <2>1 DEF PolicyRows
<1>7. \A name : \A r \in ValueRows(cfg, name) : IsTuple(r[2])
  <2>1. \A name :
          \A r \in UNION {OwnValueRows(cfg, name), ErrorRows(name), CategoricalRows(cfg, name)} :
            IsTuple(r[2])
    BY Tuples DEF OwnValueRows, ErrorRows, CategoricalRows
  <2>. HIDE DEF IsTuple
  <2>. QED
    BY <2>1 DEF ValueRows
<1>8. \A name : \A r \in MovesLeftRows(cfg, name) : IsTuple(r[2])
  BY Tuples DEF MovesLeftRows
<1>. QED
  BY <1>1, <1>4, <1>5, <1>6, <1>7, <1>8 DEF Rows

LEMMA PrefixWords ==
  ASSUME NEW s, NEW t, IsTuple(s), IsTuple(t)
  PROVE  IsPrefix(s, t) <=> Len(s) <= Len(t) /\ \A i \in 1 .. Len(s) : s[i] = t[i]
<1>. PICK S : s \in Seq(S)
  BY DEF IsTuple
<1>. PICK T : t \in Seq(T)
  BY DEF IsTuple
<1>. DEFINE n == Len(s)  a == SubSeq(s, 1, n)  b == SubSeq(t, 1, n)
<1>1. n \in Nat /\ Len(t) \in Nat
  OBVIOUS
<1>2. CASE Len(s) <= Len(t)
  <2>1. a \in Seq(S) /\ Len(a) = n /\ \A i \in 1 .. n : a[i] = s[i]
    BY <1>1, SubSeqProperties
  <2>2. b \in Seq(T) /\ Len(b) = n /\ \A i \in 1 .. n : b[i] = t[i]
    BY <1>1, <1>2, SubSeqProperties
  <2>. HIDE DEF a, b
  <2>3. a \in Seq(S \cup T) /\ b \in Seq(S \cup T)
    BY <2>1, <2>2
  <2>4. (a = b) <=> \A i \in 1 .. n : s[i] = t[i]
    BY <2>1, <2>2, <2>3, SeqEqual
  <2>. QED
    BY <1>2, <2>4 DEF IsPrefix, a, b
<1>3. CASE ~(Len(s) <= Len(t))
  BY <1>3 DEF IsPrefix
<1>. QED
  BY <1>2, <1>3

-----------------------------------------------------------------------------
(* The net that is written has a field for each row, of its size.          *)

LEMMA SizesAre ==
  ASSUME NEW cfg
  PROVE  /\ \A r \in Rows(cfg) : r[1] \in Paths(cfg) /\ Sizes(cfg)[r[1]] = Product(r[3])
         /\ \A path \in Paths(cfg) : \E r \in Rows(cfg) : path = r[1]
<1>. DEFINE params == Params(cfg)
<1>1. /\ \A r \in Rows(cfg) : <<r[1], r[3]>> \in params
      /\ \A x \in params : \E r \in Rows(cfg) : x = <<r[1], r[3]>>
  BY ParamsAreRows DEF ParamsAre
<1>2. /\ Paths(cfg) = {x[1] : x \in params}
      /\ Sizes(cfg) = [path \in {x[1] : x \in params} |-> Product((CHOOSE x \in params : x[1] = path)[2])]
  BY DEF Paths, Sizes
<1>. HIDE DEF params
<1>3. \A path \in Paths(cfg) : \E r \in Rows(cfg) : path = r[1]
  BY <1>1, <1>2
<1>4. ASSUME NEW r \in Rows(cfg)
      PROVE  r[1] \in Paths(cfg) /\ Sizes(cfg)[r[1]] = Product(r[3])
  <2>. DEFINE chosen == CHOOSE x \in params : x[1] = r[1]
  <2>1. <<r[1], r[3]>> \in params /\ <<r[1], r[3]>>[1] = r[1]
    BY <1>1
  <2>2. chosen \in params /\ chosen[1] = r[1]
    BY <2>1
  <2>. HIDE DEF chosen
  <2>3. PICK s \in Rows(cfg) : chosen = <<s[1], s[3]>>
    BY <1>1, <2>2
  <2>4. s = r
    BY <2>2, <2>3, OnePath
  <2>5. chosen[2] = r[3]
    BY <2>3, <2>4
  <2>6. r[1] \in {x[1] : x \in params}
    BY <2>1
  <2>7. Sizes(cfg)[r[1]] = Product(chosen[2])
    BY <1>2, <2>6 DEF chosen
  <2>. QED
    BY <1>2, <2>5, <2>6, <2>7
<1>. QED
  BY <1>3, <1>4

(* The field of a row.                                                     *)
FieldOf(r) == [size |-> Product(r[3]), value |-> Written(r[1], Own(r[1]))]

LEMMA ExportedIs ==
  ASSUME NEW cfg, Standard(cfg)
  PROVE  LET net == Exported(cfg) IN
         /\ net = [format |-> net.format, headcount |-> net.headcount, encoders |-> net.encoders,
                   fields |-> net.fields]
         /\ net.format = ModernFormat(cfg) /\ net.headcount = cfg.heads /\ net.encoders = cfg.num_blocks
         /\ \A r \in Rows(cfg) : r[2] \in DOMAIN net.fields /\ net.fields[r[2]] = FieldOf(r)
         /\ \A field \in DOMAIN net.fields : \E r \in Rows(cfg) : field = r[2]
<1>. DEFINE pairs == Visit(cfg, Containers)
            weights == [path \in Paths(cfg) |-> Own(path)]
            param(field) == (CHOOSE x \in pairs : x[2] = field)[1]
            value(field) == [size |-> Sizes(cfg)[param(field)],
                             value |-> Written(param(field), weights[param(field)])]
            fields == [field \in {x[2] : x \in pairs} |-> value(field)]
            net == Exported(cfg)
<1>1. net = [format |-> ModernFormat(cfg), headcount |-> cfg.heads, encoders |-> cfg.num_blocks,
             fields |-> fields]
  BY DEF Exported, JaxToLeela, NetOf
<1>2. PairsAre(pairs, Rows(cfg))
  <2>1. \A name \in PolicyNames : <<"policy_heads", name>> \in Containers
    BY DEF Containers
  <2>2. \A name \in ValueNames : <<"value_heads", name>> \in Containers
    BY DEF Containers
  <2>3. SharedEmbedding \in Containers
    BY DEF Containers
  <2>4. /\ DOMAIN cfg.policy \subseteq PolicyNames /\ DOMAIN cfg.value \subseteq ValueNames
        /\ DOMAIN cfg.movesleft \subseteq {"main"}
    BY DEF Standard
  <2>5. DOMAIN cfg.policy =
          {name \in PolicyNames \cap DOMAIN cfg.policy : <<"policy_heads", name>> \in Containers}
    BY <2>1, <2>4
  <2>6. DOMAIN cfg.value =
          {name \in ValueNames \cap DOMAIN cfg.value : <<"value_heads", name>> \in Containers}
    BY <2>2, <2>4
  <2>7. DOMAIN cfg.movesleft = DOMAIN cfg.movesleft \cap {"main"}
    BY <2>4
  <2>. QED
    BY <2>3, <2>5, <2>6, <2>7, VisitAre
<1>. HIDE DEF pairs
<1>3. /\ \A r \in Rows(cfg) : <<r[1], r[2]>> \in pairs
      /\ \A x \in pairs : \E r \in Rows(cfg) : x = <<r[1], r[2]>>
  BY <1>2 DEF PairsAre
<1>4. \A field \in DOMAIN fields : \E r \in Rows(cfg) : field = r[2]
  BY <1>3
<1>5. ASSUME NEW r \in Rows(cfg)
      PROVE  r[2] \in DOMAIN fields /\ fields[r[2]] = FieldOf(r)
  <2>. DEFINE chosen == CHOOSE x \in pairs : x[2] = r[2]
  <2>1. <<r[1], r[2]>> \in pairs /\ <<r[1], r[2]>>[2] = r[2]
    BY <1>3
  <2>2. chosen \in pairs /\ chosen[2] = r[2]
    BY <2>1
  <2>3. param(r[2]) = chosen[1]
    OBVIOUS
  <2>. HIDE DEF chosen
  <2>4. PICK s \in Rows(cfg) : chosen = <<s[1], s[2]>>
    BY <1>3, <2>2
  <2>5. s = r
    BY <2>2, <2>4, OneField
  <2>6. chosen[1] = r[1]
    BY <2>4, <2>5
  <2>7. r[2] \in {x[2] : x \in pairs}
    BY <2>1
  <2>8. value(r[2]) = [size |-> Sizes(cfg)[r[1]], value |-> Written(r[1], weights[r[1]])]
    BY <2>3, <2>6
  <2>9. Sizes(cfg)[r[1]] = Product(r[3]) /\ weights[r[1]] = Own(r[1])
    BY SizesAre
  <2>. HIDE DEF param, weights
  <2>. QED
    BY <2>7, <2>8, <2>9 DEF FieldOf
<1>. HIDE DEF fields
<1>. QED
  BY <1>1, <1>4, <1>5

(* It is written in the modern format.                                     *)
LEMMA FixKeeps ==
  ASSUME NEW cfg, Standard(cfg)
  PROVE  FixOlderWeightsFile(Exported(cfg)) = Exported(cfg)
<1>. DEFINE net == Exported(cfg)  old == net.format
<1>1. /\ net = [format |-> old, headcount |-> net.headcount, encoders |-> net.encoders,
                fields |-> net.fields]
      /\ old = ModernFormat(cfg)
  BY ExportedIs
<1>. HIDE DEF net
<1>2. old.network = "attention_multihead"
  BY <1>1 DEF ModernFormat
<1>3. FixOlderWeightsFile(net) =
        [net EXCEPT !.format =
          [old EXCEPT !.network = "attention_multihead", !.policy = old.policy, !.value = old.value,
             !.input_embedding = old.input_embedding, !.ffn_activation = old.ffn_activation,
             !.smolgen_activation = old.smolgen_activation]]
  BY <1>2 DEF FixOlderWeightsFile
<1>4. [old EXCEPT !.network = "attention_multihead", !.policy = old.policy, !.value = old.value,
             !.input_embedding = old.input_embedding, !.ffn_activation = old.ffn_activation,
             !.smolgen_activation = old.smolgen_activation] = old
  <2>. DEFINE has == DOMAIN cfg.movesleft # {}
  <2>1. old = [network |-> "attention_multihead", input_embedding |-> "dense", policy |-> "attention",
               value |-> "wdl", moves_left |-> has, default_activation |-> "mish",
               smolgen_activation |-> "swish", ffn_activation |-> "default"]
    BY <1>1 DEF ModernFormat
  <2>. HIDE DEF has, old
  <2>2. [old EXCEPT !.network = "attention_multihead"] = old
    BY ONLY <2>1
  <2>3. [old EXCEPT !.policy = old.policy] = old
    <3>1. old.policy = "attention"
      BY ONLY <2>1
    <3>2. [old EXCEPT !.policy = "attention"] = old
      BY ONLY <2>1
    <3>. QED
      BY ONLY <3>1, <3>2
  <2>4. [old EXCEPT !.value = old.value] = old
    BY ONLY <2>1
  <2>5. [old EXCEPT !.input_embedding = old.input_embedding] = old
    BY ONLY <2>1
  <2>6. [old EXCEPT !.ffn_activation = old.ffn_activation] = old
    BY ONLY <2>1
  <2>7. [old EXCEPT !.smolgen_activation = old.smolgen_activation] = old
    BY ONLY <2>1
  <2>. QED
    BY ONLY <2>2, <2>3, <2>4, <2>5, <2>6, <2>7
<1>5. [net EXCEPT !.format = old] = net
  BY <1>1
<1>6. FixOlderWeightsFile(net) = net
  BY <1>3, <1>4, <1>5
<1>. QED
  BY <1>6 DEF net

LEMMA HasFieldIs ==
  ASSUME NEW cfg, Standard(cfg), NEW container, IsTuple(container)
  PROVE  HasField(Exported(cfg), container) <=>
           \E r \in Rows(cfg) : /\ Len(container) <= Len(r[2])
                                /\ \A i \in 1 .. Len(container) : container[i] = r[2][i]
<1>. DEFINE net == Exported(cfg)
<1>1. /\ \A r \in Rows(cfg) : r[2] \in DOMAIN net.fields
      /\ \A field \in DOMAIN net.fields : \E r \in Rows(cfg) : field = r[2]
  BY ExportedIs
<1>2. \A r \in Rows(cfg) :
        IsPrefix(container, r[2]) <=> /\ Len(container) <= Len(r[2])
                                      /\ \A i \in 1 .. Len(container) : container[i] = r[2][i]
  BY FieldsAreTuples, PrefixWords
<1>. HIDE DEF net
<1>3. HasField(net, container) <=> \E r \in Rows(cfg) : IsPrefix(container, r[2])
  BY <1>1 DEF HasField
<1>4. HasField(net, container) <=>
        \E r \in Rows(cfg) : /\ Len(container) <= Len(r[2])
                             /\ \A i \in 1 .. Len(container) : container[i] = r[2][i]
  BY <1>2, <1>3
<1>. QED
  BY <1>4 DEF net

(* What a container has begins with its words.                             *)
LEMMA HasFieldWords ==
  ASSUME NEW cfg, Standard(cfg)
  PROVE  /\ \A a : HasField(Exported(cfg), <<a>>) => \E r \in Rows(cfg) : r[2][1] = a
         /\ \A a, b : HasField(Exported(cfg), <<a, b>>) =>
              \E r \in Rows(cfg) : r[2][1] = a /\ r[2][2] = b
         /\ \A a, b, c : HasField(Exported(cfg), <<a, b, c>>) =>
              \E r \in Rows(cfg) : r[2][1] = a /\ r[2][2] = b /\ r[2][3] = c
         /\ \A a, b, c, d : HasField(Exported(cfg), <<a, b, c, d>>) =>
              \E r \in Rows(cfg) : r[2][1] = a /\ r[2][2] = b /\ r[2][3] = c
<1>. DEFINE Starts(s, r) == \A i \in 1 .. Len(s) : s[i] = r[2][i]
<1>0. \A s : IsTuple(s) /\ HasField(Exported(cfg), s) => \E r \in Rows(cfg) : Starts(s, r)
  BY HasFieldIs
<1>1. \A a, r : Starts(<<a>>, r) => r[2][1] = a
  OBVIOUS
<1>2. \A a, b, r : Starts(<<a, b>>, r) => r[2][1] = a /\ r[2][2] = b
  OBVIOUS
<1>3. \A a, b, c, r : Starts(<<a, b, c>>, r) => r[2][1] = a /\ r[2][2] = b /\ r[2][3] = c
  OBVIOUS
<1>4. \A a, b, c, d, r : Starts(<<a, b, c, d>>, r) => r[2][1] = a /\ r[2][2] = b /\ r[2][3] = c
  OBVIOUS
<1>. HIDE DEF Starts
<1>5. \A a : HasField(Exported(cfg), <<a>>) => \E r \in Rows(cfg) : r[2][1] = a
  BY <1>0, <1>1, Tuples
<1>6. \A a, b : HasField(Exported(cfg), <<a, b>>) => \E r \in Rows(cfg) : r[2][1] = a /\ r[2][2] = b
  BY <1>0, <1>2, Tuples
<1>7. \A a, b, c : HasField(Exported(cfg), <<a, b, c>>) =>
        \E r \in Rows(cfg) : r[2][1] = a /\ r[2][2] = b /\ r[2][3] = c
  BY <1>0, <1>3, Tuples
<1>8. \A a, b, c, d : HasField(Exported(cfg), <<a, b, c, d>>) =>
        \E r \in Rows(cfg) : r[2][1] = a /\ r[2][2] = b /\ r[2][3] = c
  BY <1>0, <1>4, Tuples
<1>. QED
  BY <1>5, <1>6, <1>7, <1>8

(* Which of the containers a net has that was written from a model.        *)
LEMMA ContainersOf ==
  ASSUME NEW cfg, Standard(cfg)
  PROVE  LET net == Exported(cfg) IN
         /\ HasField(net, <<"smolgen">>)
         /\ \A name \in PolicyNames : HasField(net, <<"policy_heads", name>>) <=> name \in DOMAIN cfg.policy
         /\ \A name \in ValueNames : HasField(net, <<"value_heads", name>>) <=> name \in DOMAIN cfg.value
         /\ HasField(net, <<"policy_heads", "ip_pol", "w">>) <=> cfg.shared # 0
         /\ \A name \in DOMAIN cfg.policy :
              HasField(net, <<"policy_heads", name, "ip_pol", "w">>) <=> cfg.shared = 0
         /\ \A name \in DOMAIN cfg.value :
              HasField(net, <<"value_heads", name, "ip_val_err", "w">>)
                <=> cfg.value[name].has_error_output
<1>. DEFINE net == Exported(cfg)
            Starts(s, t) == Len(s) <= Len(t) /\ \A i \in 1 .. Len(s) : s[i] = t[i]
<1>0. ASSUME NEW s, IsTuple(s), NEW r \in Rows(cfg), Starts(s, r[2])
      PROVE  HasField(net, s)
  BY <1>0, HasFieldIs
<1>names. "ip_pol" \notin DOMAIN cfg.policy /\ "ip_pol" \notin PolicyNames
  BY DEF Standard, PolicyNames
<1>1. HasField(net, <<"smolgen">>)
  <2>. DEFINE t == <<"smolgen", "w">>
  <2>1. PICK r \in SharedLayerRows(cfg) : r[2] = t
    BY DEF SharedLayerRows
  <2>2. Starts(<<"smolgen">>, t) /\ IsTuple(<<"smolgen">>)
    BY Tuples
  <2>3. r \in Rows(cfg)
    BY <2>1 DEF Rows
  <2>. QED
    BY <1>0, <2>1, <2>2, <2>3
<1>2. ASSUME NEW name \in PolicyNames
      PROVE  HasField(net, <<"policy_heads", name>>) <=> name \in DOMAIN cfg.policy
  <2>1. ASSUME name \in DOMAIN cfg.policy PROVE HasField(net, <<"policy_heads", name>>)
    <3>. DEFINE t == <<"policy_heads", name, "ip2_pol", "w">>
    <3>1. PICK r \in OwnPolicyRows(cfg, name) : r[2] = t
      BY DEF OwnPolicyRows
    <3>2. Starts(<<"policy_heads", name>>, t) /\ IsTuple(<<"policy_heads", name>>)
      BY Tuples
    <3>3. r \in Rows(cfg)
      BY <2>1, <3>1 DEF Rows, PolicyRows
    <3>. QED
      BY <1>0, <3>1, <3>2, <3>3
  <2>2. ASSUME HasField(net, <<"policy_heads", name>>) PROVE name \in DOMAIN cfg.policy
    <3>1. PICK r \in Rows(cfg) : r[2][1] = "policy_heads" /\ r[2][2] = name
      BY <2>2, HasFieldWords
    <3>. QED
      BY <1>names, <3>1, FieldWords
  <2>. QED
    BY <2>1, <2>2
<1>3. ASSUME NEW name \in ValueNames
      PROVE  HasField(net, <<"value_heads", name>>) <=> name \in DOMAIN cfg.value
  <2>1. ASSUME name \in DOMAIN cfg.value PROVE HasField(net, <<"value_heads", name>>)
    <3>. DEFINE t == <<"value_heads", name, "ip_val", "w">>
    <3>1. PICK r \in OwnValueRows(cfg, name) : r[2] = t
      BY DEF OwnValueRows
    <3>2. Starts(<<"value_heads", name>>, t) /\ IsTuple(<<"value_heads", name>>)
      BY Tuples
    <3>3. r \in Rows(cfg)
      BY <2>1, <3>1 DEF Rows, ValueRows
    <3>. QED
      BY <1>0, <3>1, <3>2, <3>3
  <2>2. ASSUME HasField(net, <<"value_heads", name>>) PROVE name \in DOMAIN cfg.value
    <3>1. PICK r \in Rows(cfg) : r[2][1] = "value_heads" /\ r[2][2] = name
      BY <2>2, HasFieldWords
    <3>. QED
      BY <3>1, FieldWords
  <2>. QED
    BY <2>1, <2>2
<1>4. HasField(net, <<"policy_heads", "ip_pol", "w">>) <=> cfg.shared # 0
  <2>. DEFINE t == <<"policy_heads", "ip_pol", "w">>
  <2>1. ASSUME cfg.shared # 0 PROVE HasField(net, t)
    <3>1. PICK r \in SharedEmbeddingRows(cfg) : r[2] = t
      BY DEF SharedEmbeddingRows
    <3>2. Starts(t, t) /\ IsTuple(t)
      BY Tuples
    <3>3. r \in Rows(cfg)
      BY <2>1, <3>1 DEF Rows, SharedRows
    <3>. QED
      BY <1>0, <3>1, <3>2, <3>3
  <2>2. ASSUME HasField(net, t) PROVE cfg.shared # 0
    <3>1. PICK r \in Rows(cfg) : r[2][1] = "policy_heads" /\ r[2][2] = "ip_pol"
      BY <2>2, HasFieldWords
    <3>. QED
      BY <1>names, <3>1, FieldWords
  <2>. QED
    BY <2>1, <2>2
<1>5. ASSUME NEW name \in DOMAIN cfg.policy
      PROVE  HasField(net, <<"policy_heads", name, "ip_pol", "w">>) <=> cfg.shared = 0
  <2>. DEFINE t == <<"policy_heads", name, "ip_pol", "w">>
  <2>1. ASSUME cfg.shared = 0 PROVE HasField(net, t)
    <3>1. PICK r \in TokensRows(cfg, name) : r[2] = t
      BY DEF TokensRows
    <3>2. Starts(t, t) /\ IsTuple(t)
      BY Tuples
    <3>3. r \in Rows(cfg)
      BY <2>1, <3>1 DEF Rows, PolicyRows
    <3>. QED
      BY <1>0, <3>1, <3>2, <3>3
  <2>2. ASSUME HasField(net, t) PROVE cfg.shared = 0
    <3>1. PICK r \in Rows(cfg) : r[2][1] = "policy_heads" /\ r[2][2] = name /\ r[2][3] = "ip_pol"
      BY <2>2, HasFieldWords
    <3>. QED
      BY <1>names, <3>1, FieldWords
  <2>. QED
    BY <2>1, <2>2
<1>6. ASSUME NEW name \in DOMAIN cfg.value
      PROVE  HasField(net, <<"value_heads", name, "ip_val_err", "w">>)
               <=> cfg.value[name].has_error_output
  <2>. DEFINE t == <<"value_heads", name, "ip_val_err", "w">>
  <2>1. ASSUME cfg.value[name].has_error_output PROVE HasField(net, t)
    <3>1. PICK r \in ErrorRows(name) : r[2] = t
      BY DEF ErrorRows
    <3>2. Starts(t, t) /\ IsTuple(t)
      BY Tuples
    <3>3. r \in Rows(cfg)
      BY <2>1, <3>1 DEF Rows, ValueRows
    <3>. QED
      BY <1>0, <3>1, <3>2, <3>3
  <2>2. ASSUME HasField(net, t) PROVE cfg.value[name].has_error_output
    <3>1. PICK r \in Rows(cfg) : r[2][1] = "value_heads" /\ r[2][2] = name /\ r[2][3] = "ip_val_err"
      BY <2>2, HasFieldWords
    <3>. QED
      BY <3>1, FieldWords
  <2>. QED
    BY <2>1, <2>2
<1>. QED
  BY <1>1, <1>2, <1>3, <1>4, <1>5, <1>6

-----------------------------------------------------------------------------
(* What is read from the sizes.                                            *)

LEMMA ConcatIs ==
  ASSUME NEW S, NEW s \in Seq(S), NEW t \in Seq(S), NEW u \in Seq(S), Len(u) = Len(s) + Len(t),
         \A i \in 1 .. Len(u) : u[i] = IF i <= Len(s) THEN s[i] ELSE t[i - Len(s)]
  PROVE  s \o t = u
<1>1. /\ s \o t \in Seq(S) /\ Len(s \o t) = Len(s) + Len(t)
      /\ \A i \in 1 .. Len(s) + Len(t) : (s \o t)[i] = IF i <= Len(s) THEN s[i] ELSE t[i - Len(s)]
  BY ConcatProperties
<1>. QED
  BY <1>1, SeqEqual

LEMMA Concat23 == \A a, b, c, d, e : <<a, b>> \o <<c, d, e>> = <<a, b, c, d, e>>
<1>. SUFFICES ASSUME NEW a, NEW b, NEW c, NEW d, NEW e
              PROVE  <<a, b>> \o <<c, d, e>> = <<a, b, c, d, e>>
  OBVIOUS
<1>. DEFINE S == {a, b, c, d, e}  s == <<a, b>>  t == <<c, d, e>>  u == <<a, b, c, d, e>>
<1>1. s \in Seq(S) /\ Len(s) = 2 /\ t \in Seq(S) /\ Len(t) = 3 /\ u \in Seq(S) /\ Len(u) = 5
  OBVIOUS
<1>2. u[1] = s[1] /\ u[2] = s[2] /\ u[3] = t[1] /\ u[4] = t[2] /\ u[5] = t[3]
  OBVIOUS
<1>. HIDE DEF S, s, t, u
<1>3. \A i \in 1 .. Len(u) : u[i] = IF i <= Len(s) THEN s[i] ELSE t[i - Len(s)]
  BY <1>1, <1>2
<1>4. Len(u) = Len(s) + Len(t) /\ s \in Seq(S) /\ t \in Seq(S) /\ u \in Seq(S)
  BY <1>1
<1>5. s \o t = u
  BY <1>3, <1>4, ConcatIs
<1>. QED
  BY <1>5 DEF s, t, u

LEMMA Concat24 == \A a, b, c, d, e, f : <<a, b>> \o <<c, d, e, f>> = <<a, b, c, d, e, f>>
<1>. SUFFICES ASSUME NEW a, NEW b, NEW c, NEW d, NEW e, NEW f
              PROVE  <<a, b>> \o <<c, d, e, f>> = <<a, b, c, d, e, f>>
  OBVIOUS
<1>. DEFINE S == {a, b, c, d, e, f}  s == <<a, b>>  t == <<c, d, e, f>>  u == <<a, b, c, d, e, f>>
<1>1. s \in Seq(S) /\ Len(s) = 2 /\ t \in Seq(S) /\ Len(t) = 4 /\ u \in Seq(S) /\ Len(u) = 6
  OBVIOUS
<1>2. u[1] = s[1] /\ u[2] = s[2] /\ u[3] = t[1] /\ u[4] = t[2] /\ u[5] = t[3] /\ u[6] = t[4]
  OBVIOUS
<1>. HIDE DEF S, s, t, u
<1>3. \A i \in 1 .. Len(u) : u[i] = IF i <= Len(s) THEN s[i] ELSE t[i - Len(s)]
  BY <1>1, <1>2
<1>4. Len(u) = Len(s) + Len(t) /\ s \in Seq(S) /\ t \in Seq(S) /\ u \in Seq(S)
  BY <1>1
<1>5. s \o t = u
  BY <1>3, <1>4, ConcatIs
<1>. QED
  BY <1>5 DEF s, t, u

LEMMA QuotientOfProduct ==
  ASSUME NEW a \in Nat, NEW b \in Nat \ {0}
  PROVE  (a * b) \div b = a /\ (b * a) \div b = a
<1>. DEFINE n == a * b  q == n \div b
<1>1. n \in Nat /\ b * a = n
  OBVIOUS
<1>. HIDE DEF n
<1>2. q \in Nat /\ b * q <= n /\ n < b * (q + 1)
  BY <1>1
<1>. HIDE DEF q
<1>3. ~(a >= q + 1)
  <2>. SUFFICES ASSUME a >= q + 1 PROVE FALSE
    OBVIOUS
  <2>1. a * b >= (q + 1) * b
    BY <1>2
  <2>. QED
    BY <1>2, <2>1 DEF n
<1>4. ~(q >= a + 1)
  <2>. SUFFICES ASSUME q >= a + 1 PROVE FALSE
    OBVIOUS
  <2>1. q * b >= (a + 1) * b
    BY <1>2
  <2>. QED
    BY <1>2, <2>1 DEF n
<1>5. q = a
  BY <1>2, <1>3, <1>4
<1>. QED
  BY <1>1, <1>5 DEF q, n

LEMMA ProductOf ==
  /\ \A a : Product(<<a>>) = a
  /\ \A a, b : Product(<<a, b>>) = a * b
  BY DEF Product

LEMMA SizeOfField ==
  ASSUME NEW cfg, Standard(cfg)
  PROVE  /\ \A r \in Rows(cfg) : SizeOf(Exported(cfg), r[2]) = Product(r[3])
         /\ \A field : (\A r \in Rows(cfg) : r[2] # field) => SizeOf(Exported(cfg), field) = 0
<1>. DEFINE net == Exported(cfg)
<1>1. /\ \A r \in Rows(cfg) : r[2] \in DOMAIN net.fields /\ net.fields[r[2]] = FieldOf(r)
      /\ \A field \in DOMAIN net.fields : \E r \in Rows(cfg) : field = r[2]
  BY ExportedIs
<1>2. \A r \in Rows(cfg) : FieldOf(r).size = Product(r[3])
  BY DEF FieldOf
<1>. HIDE DEF net
<1>3. \A r \in Rows(cfg) : SizeOf(net, r[2]) = Product(r[3])
  BY <1>1, <1>2 DEF SizeOf
<1>4. \A field : (\A r \in Rows(cfg) : r[2] # field) => SizeOf(net, field) = 0
  BY <1>1 DEF SizeOf
<1>. QED
  BY <1>3, <1>4 DEF net

(* The sizes that the configuration is read from.                          *)
LEMMA SizesRead ==
  ASSUME NEW cfg, Standard(cfg), cfg.num_blocks \in Size
  PROVE  LET net == Exported(cfg)
             encoder(f) == SizeOf(net, <<"encoder", 0>> \o f) IN
         /\ SizeOf(net, <<"ip_mult_gate">>) = 64 * cfg.embedding_size
         /\ SizeOf(net, <<"ip_add_gate">>) = 64 * cfg.embedding_size
         /\ SizeOf(net, <<"ip_emb_preproc", "b">>) = 64 * cfg.dense_size
         /\ SizeOf(net, <<"ip_emb", "b">>) = cfg.embedding_size
         /\ SizeOf(net, <<"ip_emb_ffn", "dense1", "b">>) = cfg.embedding_dff
         /\ encoder(<<"mha", "q", "b">>) = cfg.d_model
         /\ encoder(<<"ffn", "dense1", "b">>) = cfg.encoder_dff
         /\ encoder(<<"mha", "smolgen", "compress", "w">>) = cfg.embedding_size * cfg.hidden_channels
         /\ encoder(<<"mha", "smolgen", "dense2", "b">>) = cfg.gen_size * cfg.heads
         /\ encoder(<<"mha", "smolgen", "dense1", "b">>) = cfg.hidden_size
<1>. DEFINE net == Exported(cfg)
            size(field, product) == \A r \in Rows(cfg) : r[2] = field => Product(r[3]) = product
<1>0. \A r \in Rows(cfg) : SizeOf(net, r[2]) = Product(r[3])
  BY SizeOfField
<1>1. EmbeddingRows(cfg) \subseteq Rows(cfg)
  BY DEF Rows
<1>2. SmolgenRows(cfg, 0) \subseteq Rows(cfg) /\ OuterRows(cfg, 0) \subseteq Rows(cfg)
  <2>1. 0 \in 0 .. cfg.num_blocks - 1
    BY DEF Size
  <2>. QED
    BY <2>1 DEF Rows, BlocksRows, BlockRows
<1>. HIDE DEF net
<1>3. \A r \in EmbeddingRows(cfg) : SizeOf(net, r[2]) = Product(r[3])
  BY <1>0, <1>1
<1>4. \A r \in SmolgenRows(cfg, 0) : SizeOf(net, r[2]) = Product(r[3])
  BY <1>0, <1>2
<1>5. \A r \in OuterRows(cfg, 0) : SizeOf(net, r[2]) = Product(r[3])
  BY <1>0, <1>2
<1>6. /\ SizeOf(net, <<"ip_mult_gate">>) = 64 * cfg.embedding_size
      /\ SizeOf(net, <<"ip_add_gate">>) = 64 * cfg.embedding_size
      /\ SizeOf(net, <<"ip_emb_preproc", "b">>) = 64 * cfg.dense_size
      /\ SizeOf(net, <<"ip_emb", "b">>) = cfg.embedding_size
      /\ SizeOf(net, <<"ip_emb_ffn", "dense1", "b">>) = cfg.embedding_dff
  BY <1>3, ProductOf DEF EmbeddingRows
<1>7. /\ SizeOf(net, <<"encoder", 0, "mha", "q", "b">>) = cfg.d_model
      /\ SizeOf(net, <<"encoder", 0, "ffn", "dense1", "b">>) = cfg.encoder_dff
  BY <1>5, ProductOf DEF OuterRows
<1>8. /\ SizeOf(net, <<"encoder", 0, "mha", "smolgen", "compress", "w">>)
           = cfg.embedding_size * cfg.hidden_channels
      /\ SizeOf(net, <<"encoder", 0, "mha", "smolgen", "dense2", "b">>) = cfg.gen_size * cfg.heads
      /\ SizeOf(net, <<"encoder", 0, "mha", "smolgen", "dense1", "b">>) = cfg.hidden_size
  BY <1>4, ProductOf DEF SmolgenRows
<1>9. /\ <<"encoder", 0>> \o <<"mha", "q", "b">> = <<"encoder", 0, "mha", "q", "b">>
      /\ <<"encoder", 0>> \o <<"ffn", "dense1", "b">> = <<"encoder", 0, "ffn", "dense1", "b">>
  BY Concat23
<1>10. \A a, b : <<"encoder", 0>> \o <<"mha", "smolgen", a, b>> = <<"encoder", 0, "mha", "smolgen", a, b>>
  BY Concat24
<1>. QED
  BY <1>6, <1>7, <1>8, <1>9, <1>10 DEF net

LEMMA HeadSizesRead ==
  ASSUME NEW cfg, Standard(cfg), Constructible(cfg)
  PROVE  LET net == Exported(cfg) IN
         /\ SizeOf(net, <<"policy_heads", "ip_pol", "b">>) = cfg.shared
         /\ \A name \in DOMAIN cfg.policy :
              /\ SizeOf(net, <<"policy_heads", name, "ip2_pol", "b">>) = cfg.policy[name].d_model
              /\ OwnEmbedding(net, name) = cfg.policy[name].embedding_size
         /\ \A name \in DOMAIN cfg.value :
              /\ SizeOf(net, <<"value_heads", name, "ip_val", "b">>) = cfg.value[name].num_channels
              /\ SizeOf(net, <<"value_heads", name, "ip_val_cat", "b">>)
                   = cfg.value[name].num_categorical_buckets
         /\ SizeOf(net, <<"ip_mov", "b">>) =
              IF "main" \in DOMAIN cfg.movesleft THEN cfg.movesleft["main"].num_channels ELSE 0
<1>. DEFINE net == Exported(cfg)
<1>0. /\ \A r \in Rows(cfg) : SizeOf(net, r[2]) = Product(r[3])
      /\ \A field : (\A r \in Rows(cfg) : r[2] # field) => SizeOf(net, field) = 0
  BY SizeOfField
<1>heads. /\ "ip_pol" \notin DOMAIN cfg.policy
      /\ DOMAIN cfg.movesleft \subseteq {"main"}
  BY DEF Standard, PolicyNames
<1>has. /\ HasField(net, <<"policy_heads", "ip_pol", "w">>) <=> cfg.shared # 0
      /\ \A name \in DOMAIN cfg.policy :
           HasField(net, <<"policy_heads", name, "ip_pol", "w">>) <=> cfg.shared = 0
  BY ContainersOf
<1>. HIDE DEF net
<1>1. SizeOf(net, <<"policy_heads", "ip_pol", "b">>) = cfg.shared
  <2>. DEFINE t == <<"policy_heads", "ip_pol", "b">>
  <2>1. CASE cfg.shared # 0
    <3>1. PICK r \in SharedEmbeddingRows(cfg) : r[2] = t /\ r[3] = <<cfg.shared>>
      BY DEF SharedEmbeddingRows
    <3>2. r \in Rows(cfg)
      BY <2>1, <3>1 DEF Rows, SharedRows
    <3>. QED
      BY <1>0, <3>1, <3>2, ProductOf
  <2>2. CASE cfg.shared = 0
    <3>1. ASSUME NEW r \in Rows(cfg), r[2] = t PROVE FALSE
      <4>1. r[2][1] = "policy_heads" /\ r[2][2] = "ip_pol"
        BY <3>1
      <4>. QED
        BY <1>heads, <2>2, <4>1, FieldWords
    <3>2. SizeOf(net, t) = 0
      BY <1>0, <3>1
    <3>. QED
      BY <2>2, <3>2
  <2>. QED
    BY <2>1, <2>2
<1>2. ASSUME NEW name \in DOMAIN cfg.policy
      PROVE  /\ SizeOf(net, <<"policy_heads", name, "ip2_pol", "b">>) = cfg.policy[name].d_model
             /\ OwnEmbedding(net, name) = cfg.policy[name].embedding_size
  <2>1. SizeOf(net, <<"policy_heads", name, "ip2_pol", "b">>) = cfg.policy[name].d_model
    <3>1. PICK r \in OwnPolicyRows(cfg, name) :
            r[2] = <<"policy_heads", name, "ip2_pol", "b">> /\ r[3] = <<cfg.policy[name].d_model>>
      BY DEF OwnPolicyRows
    <3>2. r \in Rows(cfg)
      BY <3>1 DEF Rows, PolicyRows
    <3>. QED
      BY <1>0, <3>1, <3>2, ProductOf
  <2>2. CASE cfg.shared = 0
    <3>1. PICK r \in TokensRows(cfg, name) :
            /\ r[2] = <<"policy_heads", name, "ip_pol", "b">>
            /\ r[3] = <<cfg.policy[name].embedding_size>>
      BY DEF TokensRows
    <3>2. r \in Rows(cfg)
      BY <2>2, <3>1 DEF Rows, PolicyRows
    <3>3. SizeOf(net, <<"policy_heads", name, "ip_pol", "b">>) = cfg.policy[name].embedding_size
      BY <1>0, <3>1, <3>2, ProductOf
    <3>. QED
      BY <1>has, <2>1, <2>2, <3>3 DEF OwnEmbedding
  <2>3. CASE cfg.shared # 0
    <3>1. cfg.policy[name].embedding_size = 0
      BY <2>3 DEF Constructible
    <3>. QED
      BY <1>has, <2>1, <2>3, <3>1 DEF OwnEmbedding
  <2>. QED
    BY <2>2, <2>3
<1>3. ASSUME NEW name \in DOMAIN cfg.value
      PROVE  /\ SizeOf(net, <<"value_heads", name, "ip_val", "b">>) = cfg.value[name].num_channels
             /\ SizeOf(net, <<"value_heads", name, "ip_val_cat", "b">>)
                  = cfg.value[name].num_categorical_buckets
  <2>. DEFINE t == <<"value_heads", name, "ip_val_cat", "b">>
  <2>1. SizeOf(net, <<"value_heads", name, "ip_val", "b">>) = cfg.value[name].num_channels
    <3>1. PICK r \in OwnValueRows(cfg, name) :
            r[2] = <<"value_heads", name, "ip_val", "b">> /\ r[3] = <<cfg.value[name].num_channels>>
      BY DEF OwnValueRows
    <3>2. r \in Rows(cfg)
      BY <3>1 DEF Rows, ValueRows
    <3>. QED
      BY <1>0, <3>1, <3>2, ProductOf
  <2>2. CASE cfg.value[name].num_categorical_buckets # 0
    <3>1. PICK r \in CategoricalRows(cfg, name) :
            r[2] = t /\ r[3] = <<cfg.value[name].num_categorical_buckets>>
      BY DEF CategoricalRows
    <3>2. r \in Rows(cfg)
      BY <2>2, <3>1 DEF Rows, ValueRows
    <3>. QED
      BY <1>0, <2>1, <3>1, <3>2, ProductOf
  <2>3. CASE cfg.value[name].num_categorical_buckets = 0
    <3>1. ASSUME NEW r \in Rows(cfg), r[2] = t PROVE FALSE
      <4>1. r[2][1] = "value_heads" /\ r[2][2] = name /\ r[2][3] = "ip_val_cat"
        BY <3>1
      <4>. QED
        BY <2>3, <4>1, FieldWords
    <3>2. SizeOf(net, t) = 0
      BY <1>0, <3>1
    <3>. QED
      BY <2>1, <2>3, <3>2
  <2>. QED
    BY <2>2, <2>3
<1>4. SizeOf(net, <<"ip_mov", "b">>) =
        IF "main" \in DOMAIN cfg.movesleft THEN cfg.movesleft["main"].num_channels ELSE 0
  <2>. DEFINE t == <<"ip_mov", "b">>
  <2>1. CASE "main" \in DOMAIN cfg.movesleft
    <3>1. PICK r \in MovesLeftRows(cfg, "main") : r[2] = t /\ r[3] = <<cfg.movesleft["main"].num_channels>>
      BY DEF MovesLeftRows
    <3>2. r \in Rows(cfg)
      BY <2>1, <3>1 DEF Rows
    <3>. QED
      BY <1>0, <2>1, <3>1, <3>2, ProductOf
  <2>2. CASE "main" \notin DOMAIN cfg.movesleft
    <3>1. ASSUME NEW r \in Rows(cfg), r[2] = t PROVE FALSE
      <4>1. r[2][1] = "ip_mov"
        BY <3>1
      <4>2. DOMAIN cfg.movesleft = {}
        BY <1>heads, <2>2
      <4>. QED
        BY <4>1, <4>2, FieldWords
    <3>2. SizeOf(net, t) = 0
      BY <1>0, <3>1
    <3>. QED
      BY <2>2, <3>2
  <2>. QED
    BY <2>1, <2>2
<1>. QED
  BY <1>1, <1>2, <1>3, <1>4 DEF net

LEMMA SameTruth ==
  ASSUME NEW p \in BOOLEAN, NEW q \in BOOLEAN, p <=> q
  PROVE  p = q
  OBVIOUS

LEMMA EmptyFunction ==
  ASSUME NEW T, NEW f \in [{} -> T]
  PROVE  f = <<>>
  OBVIOUS

(* The configuration of a model is read off its net.                       *)
LEMMA ConfigurationReadBack ==
  ASSUME NEW cfg, IsConfiguration(cfg), Standard(cfg), Constructible(cfg)
  PROVE  LeelaToModelConfig(Exported(cfg)) = cfg
<1>. DEFINE net == Exported(cfg)  size(field) == SizeOf(net, field)
            encoder(f) == size(<<"encoder", 0>> \o f)
            policy == [name \in {n \in PolicyNames : HasField(net, <<"policy_heads", n>>)} |->
                         [embedding_size |-> OwnEmbedding(net, name),
                          d_model |-> size(<<"policy_heads", name, "ip2_pol", "b">>)]]
            value == [name \in {n \in ValueNames : HasField(net, <<"value_heads", n>>)} |->
                        [num_channels |-> size(<<"value_heads", name, "ip_val", "b">>),
                         has_error_output |-> HasField(net, <<"value_heads", name, "ip_val_err", "w">>),
                         num_categorical_buckets |-> size(<<"value_heads", name, "ip_val_cat", "b">>)]]
            movesleft == IF net.format.moves_left /\ size(<<"ip_mov", "b">>) > 0
                         THEN [name \in {"main"} |-> [num_channels |-> size(<<"ip_mov", "b">>)]] ELSE <<>>
<1>1. /\ cfg.dense_size \in Size /\ cfg.embedding_size \in Size /\ cfg.num_blocks \in Size
      /\ cfg.heads \in Size /\ cfg.hidden_channels \in Size /\ cfg.gen_size \in Size
  BY DEF IsConfiguration, ConfigurationsWith
<1>2. /\ cfg.policy \in [DOMAIN cfg.policy -> [embedding_size : Nat, d_model : Size]]
      /\ cfg.value \in [DOMAIN cfg.value -> [num_channels : Size, has_error_output : BOOLEAN,
                                             num_categorical_buckets : Nat]]
      /\ cfg.movesleft \in [DOMAIN cfg.movesleft -> [num_channels : Size]]
  BY DEF IsConfiguration, ConfigurationsWith
<1>3. cfg = [dense_size |-> cfg.dense_size, embedding_size |-> cfg.embedding_size,
             embedding_dff |-> cfg.embedding_dff, num_blocks |-> cfg.num_blocks,
             d_model |-> cfg.d_model, heads |-> cfg.heads, encoder_dff |-> cfg.encoder_dff,
             activation |-> cfg.activation, ffn_activation |-> cfg.ffn_activation,
             smolgen_activation |-> cfg.smolgen_activation, hidden_channels |-> cfg.hidden_channels,
             gen_size |-> cfg.gen_size, hidden_size |-> cfg.hidden_size, shared |-> cfg.shared,
             policy |-> cfg.policy, value |-> cfg.value, movesleft |-> cfg.movesleft]
  BY DEF IsConfiguration, ConfigurationsWith
<1>4. net.format = ModernFormat(cfg) /\ net.headcount = cfg.heads /\ net.encoders = cfg.num_blocks
  BY ExportedIs
<1>5. /\ net.format.moves_left = (DOMAIN cfg.movesleft # {})
      /\ net.format.default_activation = "mish" /\ net.format.ffn_activation = "default"
      /\ net.format.smolgen_activation = "swish"
  BY <1>4 DEF ModernFormat
<1>6. /\ HasField(net, <<"smolgen">>)
      /\ \A name \in PolicyNames : HasField(net, <<"policy_heads", name>>) <=> name \in DOMAIN cfg.policy
      /\ \A name \in ValueNames : HasField(net, <<"value_heads", name>>) <=> name \in DOMAIN cfg.value
      /\ \A name \in DOMAIN cfg.value :
           HasField(net, <<"value_heads", name, "ip_val_err", "w">>) <=> cfg.value[name].has_error_output
  BY ContainersOf
<1>7. /\ size(<<"ip_emb_preproc", "b">>) = 64 * cfg.dense_size
      /\ size(<<"ip_emb", "b">>) = cfg.embedding_size
      /\ size(<<"ip_emb_ffn", "dense1", "b">>) = cfg.embedding_dff
      /\ encoder(<<"mha", "q", "b">>) = cfg.d_model
      /\ encoder(<<"ffn", "dense1", "b">>) = cfg.encoder_dff
      /\ encoder(<<"mha", "smolgen", "compress", "w">>) = cfg.embedding_size * cfg.hidden_channels
      /\ encoder(<<"mha", "smolgen", "dense2", "b">>) = cfg.gen_size * cfg.heads
      /\ encoder(<<"mha", "smolgen", "dense1", "b">>) = cfg.hidden_size
  BY <1>1, SizesRead
<1>8. /\ size(<<"policy_heads", "ip_pol", "b">>) = cfg.shared
      /\ \A name \in DOMAIN cfg.policy :
           /\ size(<<"policy_heads", name, "ip2_pol", "b">>) = cfg.policy[name].d_model
           /\ OwnEmbedding(net, name) = cfg.policy[name].embedding_size
      /\ \A name \in DOMAIN cfg.value :
           /\ size(<<"value_heads", name, "ip_val", "b">>) = cfg.value[name].num_channels
           /\ size(<<"value_heads", name, "ip_val_cat", "b">>) = cfg.value[name].num_categorical_buckets
      /\ size(<<"ip_mov", "b">>) =
           IF "main" \in DOMAIN cfg.movesleft THEN cfg.movesleft["main"].num_channels ELSE 0
  BY HeadSizesRead
<1>9. /\ DOMAIN cfg.policy \subseteq PolicyNames /\ DOMAIN cfg.value \subseteq ValueNames
      /\ DOMAIN cfg.movesleft \subseteq {"main"}
      /\ cfg.activation = "mish" /\ cfg.ffn_activation = "mish" /\ cfg.smolgen_activation = "swish"
  BY DEF Standard
<1>. HIDE DEF net
<1>10. policy = cfg.policy
  <2>1. {n \in PolicyNames : HasField(net, <<"policy_heads", n>>)} = DOMAIN cfg.policy
    BY <1>6, <1>9
  <2>2. \A name \in DOMAIN cfg.policy :
          cfg.policy[name] = [embedding_size |-> OwnEmbedding(net, name),
                              d_model |-> size(<<"policy_heads", name, "ip2_pol", "b">>)]
    BY <1>2, <1>8
  <2>. QED
    BY <1>2, <2>1, <2>2
<1>11. value = cfg.value
  <2>1. {n \in ValueNames : HasField(net, <<"value_heads", n>>)} = DOMAIN cfg.value
    BY <1>6, <1>9
  <2>2. \A name \in DOMAIN cfg.value :
          cfg.value[name] =
            [num_channels |-> size(<<"value_heads", name, "ip_val", "b">>),
             has_error_output |-> HasField(net, <<"value_heads", name, "ip_val_err", "w">>),
             num_categorical_buckets |-> size(<<"value_heads", name, "ip_val_cat", "b">>)]
    <3>. SUFFICES ASSUME NEW name \in DOMAIN cfg.value
                  PROVE  cfg.value[name] =
                           [num_channels |-> size(<<"value_heads", name, "ip_val", "b">>),
                            has_error_output |-> HasField(net, <<"value_heads", name, "ip_val_err", "w">>),
                            num_categorical_buckets |-> size(<<"value_heads", name, "ip_val_cat", "b">>)]
      OBVIOUS
    <3>. DEFINE head == cfg.value[name]  has == HasField(net, <<"value_heads", name, "ip_val_err", "w">>)
    <3>1. head \in [num_channels : Size, has_error_output : BOOLEAN, num_categorical_buckets : Nat]
      BY <1>2
    <3>2. head.has_error_output = has
      <4>1. head.has_error_output \in BOOLEAN /\ has \in BOOLEAN
        BY <3>1 DEF HasField
      <4>2. has <=> head.has_error_output
        BY <1>6
      <4>. QED
        BY ONLY <4>1, <4>2, SameTruth
    <3>3. /\ head.num_channels = size(<<"value_heads", name, "ip_val", "b">>)
          /\ head.num_categorical_buckets = size(<<"value_heads", name, "ip_val_cat", "b">>)
      BY <1>8
    <3>4. head = [num_channels |-> head.num_channels, has_error_output |-> head.has_error_output,
                  num_categorical_buckets |-> head.num_categorical_buckets]
      BY <3>1
    <3>. HIDE DEF head, has
    <3>. QED
      BY <3>2, <3>3, <3>4, Zenon DEF head, has
  <2>. QED
    BY <1>2, <2>1, <2>2
<1>12. movesleft = cfg.movesleft
  <2>1. CASE "main" \in DOMAIN cfg.movesleft
    <3>1. DOMAIN cfg.movesleft = {"main"}
      BY <1>9, <2>1
    <3>2. /\ cfg.movesleft["main"] = [num_channels |-> cfg.movesleft["main"].num_channels]
          /\ cfg.movesleft["main"].num_channels \in Size
      BY <1>2, <2>1
    <3>3. size(<<"ip_mov", "b">>) = cfg.movesleft["main"].num_channels
      BY <1>8, <2>1
    <3>4. net.format.moves_left /\ size(<<"ip_mov", "b">>) > 0
      <4>1. DOMAIN cfg.movesleft # {}
        BY <3>1
      <4>2. net.format.moves_left
        BY <1>5, <4>1, Zenon
      <4>3. size(<<"ip_mov", "b">>) > 0
        BY <3>2, <3>3 DEF Size
      <4>. QED
        BY <4>2, <4>3, Zenon
    <3>5. movesleft = [name \in {"main"} |-> [num_channels |-> cfg.movesleft["main"].num_channels]]
      BY <3>3, <3>4
    <3>. QED
      BY <1>2, <3>1, <3>2, <3>5
  <2>2. CASE "main" \notin DOMAIN cfg.movesleft
    <3>1. DOMAIN cfg.movesleft = {}
      BY <1>9, <2>2
    <3>2. cfg.movesleft = <<>>
      BY <1>2, <3>1, EmptyFunction
    <3>3. movesleft = <<>>
      BY <1>5, <3>1
    <3>. QED
      BY <3>2, <3>3
  <2>. QED
    BY <2>1, <2>2
<1>13. /\ size(<<"ip_emb_preproc", "b">>) \div 64 = cfg.dense_size
       /\ encoder(<<"mha", "smolgen", "compress", "w">>) \div size(<<"ip_emb", "b">>) = cfg.hidden_channels
       /\ encoder(<<"mha", "smolgen", "dense2", "b">>) \div net.headcount = cfg.gen_size
  BY <1>1, <1>4, <1>7, QuotientOfProduct DEF Size
<1>14. /\ Or(net.format.ffn_activation, net.format.default_activation) = "mish"
       /\ Or(net.format.smolgen_activation, net.format.default_activation) = "swish"
  BY <1>5 DEF Or
<1>15. LeelaToModelConfig(net) =
         [dense_size |-> size(<<"ip_emb_preproc", "b">>) \div 64, embedding_size |-> size(<<"ip_emb", "b">>),
          embedding_dff |-> size(<<"ip_emb_ffn", "dense1", "b">>), num_blocks |-> net.encoders,
          d_model |-> encoder(<<"mha", "q", "b">>), heads |-> net.headcount,
          encoder_dff |-> encoder(<<"ffn", "dense1", "b">>),
          activation |-> net.format.default_activation,
          ffn_activation |-> Or(net.format.ffn_activation, net.format.default_activation),
          smolgen_activation |-> Or(net.format.smolgen_activation, net.format.default_activation),
          hidden_channels |->
            encoder(<<"mha", "smolgen", "compress", "w">>) \div size(<<"ip_emb", "b">>),
          gen_size |-> encoder(<<"mha", "smolgen", "dense2", "b">>) \div net.headcount,
          hidden_size |-> encoder(<<"mha", "smolgen", "dense1", "b">>),
          shared |-> size(<<"policy_heads", "ip_pol", "b">>),
          policy |-> policy, value |-> value, movesleft |-> movesleft]
  BY <1>6 DEF LeelaToModelConfig
<1>. HIDE DEF policy, value, movesleft, size, encoder
<1>16. LeelaToModelConfig(net) = cfg
  BY <1>3, <1>4, <1>5, <1>7, <1>8, <1>9, <1>10, <1>11, <1>12, <1>13, <1>14, <1>15
<1>. QED
  BY <1>16 DEF net

-----------------------------------------------------------------------------
(* A model that has the heads of another one, and is otherwise like it, has*)
(* its parameters.                                                         *)
LEMMA SameBody ==
  ASSUME NEW source, NEW target, IsConfiguration(source), IsConfiguration(target),
         IsCompatibleSubset(source, target)
  PROVE  /\ source.dense_size = target.dense_size /\ source.embedding_size = target.embedding_size
         /\ source.embedding_dff = target.embedding_dff /\ source.num_blocks = target.num_blocks
         /\ source.d_model = target.d_model /\ source.heads = target.heads
         /\ source.encoder_dff = target.encoder_dff /\ source.hidden_channels = target.hidden_channels
         /\ source.gen_size = target.gen_size /\ source.hidden_size = target.hidden_size
         /\ source.shared = target.shared
<1>. DEFINE Same(field) == source[field] = target[field]
            fields == {"dense_size", "embedding_size", "embedding_dff", "num_blocks", "d_model", "heads",
                       "encoder_dff", "hidden_channels", "gen_size", "hidden_size", "shared"}
<1>1. fields \subseteq DOMAIN source /\ fields \subseteq DOMAIN target
  BY DEF IsConfiguration, ConfigurationsWith
<1>2. fields \cap Kinds = {}
  BY DEF Kinds
<1>3. Body(source) = Body(target)
  BY DEF IsCompatibleSubset
<1>. HIDE DEF fields
<1>4. \A field \in fields : Body(source)[field] = source[field] /\ Body(target)[field] = target[field]
  BY <1>1, <1>2 DEF Body
<1>5. \A field \in fields : Same(field)
  BY <1>3, <1>4
<1>6. /\ "dense_size" \in fields /\ "embedding_size" \in fields /\ "embedding_dff" \in fields
      /\ "num_blocks" \in fields /\ "d_model" \in fields /\ "heads" \in fields
      /\ "encoder_dff" \in fields /\ "hidden_channels" \in fields /\ "gen_size" \in fields
      /\ "hidden_size" \in fields /\ "shared" \in fields
  BY DEF fields
<1>. QED
  BY <1>5, <1>6

LEMMA SameHeads ==
  ASSUME NEW source, NEW target, IsCompatibleSubset(source, target)
  PROVE  /\ \A name \in DOMAIN source.policy :
              name \in DOMAIN target.policy /\ source.policy[name] = target.policy[name]
         /\ \A name \in DOMAIN source.value :
              name \in DOMAIN target.value /\ source.value[name] = target.value[name]
         /\ \A name \in DOMAIN source.movesleft :
              name \in DOMAIN target.movesleft /\ source.movesleft[name] = target.movesleft[name]
<1>1. \A kind \in Kinds : \A name \in DOMAIN source[kind] :
         name \in DOMAIN target[kind] /\ source[kind][name] = target[kind][name]
  BY DEF IsCompatibleSubset
<1>2. "policy" \in Kinds /\ "value" \in Kinds /\ "movesleft" \in Kinds
  BY DEF Kinds
<1>. QED
  BY <1>1, <1>2

LEMMA MoreRows ==
  ASSUME NEW source, NEW target, IsConfiguration(source), IsConfiguration(target),
         IsCompatibleSubset(source, target)
  PROVE  Rows(source) \subseteq Rows(target)
<1>0. /\ source.dense_size = target.dense_size /\ source.embedding_size = target.embedding_size
      /\ source.embedding_dff = target.embedding_dff /\ source.num_blocks = target.num_blocks
      /\ source.d_model = target.d_model /\ source.heads = target.heads
      /\ source.encoder_dff = target.encoder_dff /\ source.hidden_channels = target.hidden_channels
      /\ source.gen_size = target.gen_size /\ source.hidden_size = target.hidden_size
      /\ source.shared = target.shared
  BY SameBody
<1>1. EmbeddingRows(source) = EmbeddingRows(target)
  BY <1>0 DEF EmbeddingRows
<1>2. SharedLayerRows(source) = SharedLayerRows(target)
  BY <1>0 DEF SharedLayerRows
<1>3. BlocksRows(source) = BlocksRows(target)
  <2>1. \A i : SmolgenRows(source, i) = SmolgenRows(target, i)
    BY <1>0 DEF SmolgenRows
  <2>2. \A i : OuterRows(source, i) = OuterRows(target, i)
    BY <1>0 DEF OuterRows
  <2>3. \A i : BlockRows(source, i) = BlockRows(target, i)
    BY <2>1, <2>2 DEF BlockRows
  <2>. QED
    BY <1>0, <2>3 DEF BlocksRows
<1>4. SharedRows(source) = SharedRows(target)
  BY <1>0 DEF SharedRows, SharedEmbeddingRows
<1>5. ASSUME NEW name \in DOMAIN source.policy
      PROVE  name \in DOMAIN target.policy /\ PolicyRows(source, name) = PolicyRows(target, name)
  <2>1. name \in DOMAIN target.policy /\ source.policy[name] = target.policy[name]
    BY SameHeads
  <2>2. OwnSize(source, name) = OwnSize(target, name)
    BY <1>0, <2>1 DEF OwnSize
  <2>3. OwnPolicyRows(source, name) = OwnPolicyRows(target, name)
    BY <2>1, <2>2 DEF OwnPolicyRows
  <2>4. TokensRows(source, name) = TokensRows(target, name)
    BY <1>0, <2>1 DEF TokensRows
  <2>. QED
    BY <1>0, <2>1, <2>3, <2>4 DEF PolicyRows
<1>6. ASSUME NEW name \in DOMAIN source.value
      PROVE  name \in DOMAIN target.value /\ ValueRows(source, name) = ValueRows(target, name)
  <2>1. name \in DOMAIN target.value /\ source.value[name] = target.value[name]
    BY SameHeads
  <2>2. OwnValueRows(source, name) = OwnValueRows(target, name)
    BY <1>0, <2>1 DEF OwnValueRows
  <2>3. CategoricalRows(source, name) = CategoricalRows(target, name)
    BY <2>1 DEF CategoricalRows
  <2>. QED
    BY <2>1, <2>2, <2>3, Zenon DEF ValueRows
<1>7. ASSUME NEW name \in DOMAIN source.movesleft
      PROVE  name \in DOMAIN target.movesleft /\ MovesLeftRows(source, name) = MovesLeftRows(target, name)
  BY <1>0, SameHeads DEF MovesLeftRows
<1>8. UNION {PolicyRows(source, name) : name \in DOMAIN source.policy}
        \subseteq UNION {PolicyRows(target, name) : name \in DOMAIN target.policy}
  BY <1>5
<1>9. UNION {ValueRows(source, name) : name \in DOMAIN source.value}
        \subseteq UNION {ValueRows(target, name) : name \in DOMAIN target.value}
  BY <1>6
<1>10. UNION {MovesLeftRows(source, name) : name \in DOMAIN source.movesleft}
        \subseteq UNION {MovesLeftRows(target, name) : name \in DOMAIN target.movesleft}
  BY <1>7
<1>. QED
  BY <1>1, <1>2, <1>3, <1>4, <1>8, <1>9, <1>10 DEF Rows

LEMMA ImportPairsAre ==
  ASSUME NEW source, NEW target, IsConfiguration(source), IsConfiguration(target),
         Standard(source), IsCompatibleSubset(source, target),
         "main" \notin DOMAIN target.movesleft \ DOMAIN source.movesleft
  PROVE  PairsAre(ImportPairs(Exported(source), target), Rows(source))
<1>. DEFINE net == Exported(source)
            present == {container \in Containers : HasField(net, container)}
<1>1. /\ \A name \in PolicyNames : <<"policy_heads", name>> \in Containers
      /\ \A name \in ValueNames : <<"value_heads", name>> \in Containers
      /\ SharedEmbedding \in Containers
  BY DEF Containers
<1>2. /\ DOMAIN source.policy \subseteq PolicyNames /\ DOMAIN source.value \subseteq ValueNames
      /\ DOMAIN source.movesleft \subseteq {"main"}
  BY DEF Standard
<1>3. /\ \A name \in PolicyNames : HasField(net, <<"policy_heads", name>>) <=> name \in DOMAIN source.policy
      /\ \A name \in ValueNames : HasField(net, <<"value_heads", name>>) <=> name \in DOMAIN source.value
      /\ HasField(net, SharedEmbedding) <=> source.shared # 0
  BY ContainersOf DEF SharedEmbedding
<1>. HIDE DEF net
<1>4. /\ \A name \in PolicyNames : <<"policy_heads", name>> \in present <=> name \in DOMAIN source.policy
      /\ \A name \in ValueNames : <<"value_heads", name>> \in present <=> name \in DOMAIN source.value
      /\ source.shared # 0 => SharedEmbedding \in present
  BY <1>1, <1>3
<1>. HIDE DEF present
<1>5. DOMAIN source.policy =
        {name \in PolicyNames \cap DOMAIN target.policy : <<"policy_heads", name>> \in present}
  BY <1>2, <1>4, SameHeads
<1>6. DOMAIN source.value =
        {name \in ValueNames \cap DOMAIN target.value : <<"value_heads", name>> \in present}
  BY <1>2, <1>4, SameHeads
<1>7. DOMAIN source.movesleft = DOMAIN target.movesleft \cap {"main"}
  BY <1>2, SameHeads
<1>8. \A name \in DOMAIN source.value : source.value[name] = target.value[name]
  BY SameHeads
<1>9. source.num_blocks = target.num_blocks /\ source.shared = target.shared
  BY SameBody
<1>10. PairsAre(Visit(target, present), Rows(source))
  BY <1>4, <1>5, <1>6, <1>7, <1>8, <1>9, VisitAre
<1>. QED
  BY <1>10 DEF ImportPairs, present, net

(* The weights of a net that was written from a model are read as they were*)
LEMMA WeightsReadBack ==
  ASSUME NEW source, NEW target, IsConfiguration(source), IsConfiguration(target),
         Standard(source), IsCompatibleSubset(source, target),
         "main" \notin DOMAIN target.movesleft \ DOMAIN source.movesleft
  PROVE  LeelaToJax(Exported(source), target) =
           [path \in Paths(target) |-> IF path \in Paths(source) THEN Own(path) ELSE Random]
<1>. DEFINE net == Exported(source)  pairs == ImportPairs(net, target)
            read(path) == net.fields[(CHOOSE x \in pairs : x[1] = path)[2]].value
            back(path) == IF ~ \E x \in pairs : x[1] = path THEN Random
                          ELSE IF Plane(path) THEN [read(path) EXCEPT !.power = @ + 1] ELSE read(path)
<1>1. LeelaToJax(net, target) = [path \in Paths(target) |-> back(path)]
  BY DEF LeelaToJax
<1>2. /\ \A r \in Rows(source) : <<r[1], r[2]>> \in pairs
      /\ \A x \in pairs : \E r \in Rows(source) : x = <<r[1], r[2]>>
  BY ImportPairsAre DEF PairsAre
<1>3. \A r \in Rows(source) : net.fields[r[2]] = FieldOf(r)
  BY ExportedIs
<1>4. /\ \A r \in Rows(source) : r[1] \in Paths(source)
      /\ \A path \in Paths(source) : \E r \in Rows(source) : path = r[1]
  BY SizesAre
<1>. HIDE DEF net, pairs
<1>5. ASSUME NEW path \in Paths(source) PROVE back(path) = Own(path)
  <2>1. PICK r \in Rows(source) : path = r[1]
    BY <1>4
  <2>. DEFINE chosen == CHOOSE x \in pairs : x[1] = path
  <2>2. <<r[1], r[2]>> \in pairs /\ <<r[1], r[2]>>[1] = path
    BY <1>2, <2>1
  <2>3. chosen \in pairs /\ chosen[1] = path
    BY <2>2
  <2>4. read(path) = net.fields[chosen[2]].value
    OBVIOUS
  <2>. HIDE DEF chosen
  <2>5. PICK s \in Rows(source) : chosen = <<s[1], s[2]>>
    BY <1>2, <2>3
  <2>6. s = r
    BY <2>1, <2>3, <2>5, OnePath
  <2>7. chosen[2] = r[2]
    BY <2>5, <2>6
  <2>8. net.fields[r[2]].value = Written(path, Own(path))
    <3>1. net.fields[r[2]] = FieldOf(r)
      BY <1>3
    <3>2. FieldOf(r).value = Written(r[1], Own(r[1]))
      BY DEF FieldOf
    <3>. QED
      BY <2>1, <3>1, <3>2
  <2>9. read(path) = Written(path, Own(path))
    BY <2>4, <2>7, <2>8
  <2>10. back(path) = IF Plane(path) THEN [read(path) EXCEPT !.power = @ + 1] ELSE read(path)
    BY <2>2
  <2>. HIDE DEF read, back
  <2>. QED
    <3>1. CASE Plane(path)
      <4>1. Written(path, Own(path)) = [value |-> path, power |-> -1]
        BY <3>1 DEF Written, Own
      <4>2. [[value |-> path, power |-> -1] EXCEPT !.power = @ + 1] = [value |-> path, power |-> 0]
        OBVIOUS
      <4>. QED
        BY <2>9, <2>10, <3>1, <4>1, <4>2 DEF Own
    <3>2. CASE ~Plane(path)
      BY <2>9, <2>10, <3>2 DEF Written
    <3>. QED
      BY <3>1, <3>2
<1>6. ASSUME NEW path, path \notin Paths(source) PROVE back(path) = Random
  <2>1. ~ \E x \in pairs : x[1] = path
    BY <1>2, <1>4, <1>6
  <2>. QED
    BY <2>1
<1>. HIDE DEF back
<1>7. \A path \in Paths(target) : back(path) = IF path \in Paths(source) THEN Own(path) ELSE Random
  BY <1>5, <1>6
<1>8. LeelaToJax(net, target) =
        [path \in Paths(target) |-> IF path \in Paths(source) THEN Own(path) ELSE Random]
  BY <1>1, <1>7
<1>. QED
  BY <1>8 DEF net

LEMMA ImportableIs ==
  ASSUME NEW source, NEW target, IsConfiguration(source), IsConfiguration(target),
         Standard(source), Constructible(source), Visitable(source), Constructible(target),
         IsCompatibleSubset(source, target)
  PROVE  Importable(Exported(source), target) <=>
           "main" \notin DOMAIN target.movesleft \ DOMAIN source.movesleft
<1>. DEFINE net == Exported(source)  pairs == ImportPairs(net, target)  sizes == Sizes(target)
<1>1. Visitable(target)
  BY SameHeads DEF Visitable
<1>2. Importable(net, target) <=> \A x \in pairs : SizeOf(net, x[2]) = sizes[x[1]]
  BY <1>1 DEF Importable
<1>3. CASE "main" \notin DOMAIN target.movesleft \ DOMAIN source.movesleft
  <2>1. \A x \in pairs : \E r \in Rows(source) : x = <<r[1], r[2]>>
    BY <1>3, ImportPairsAre DEF PairsAre
  <2>2. \A r \in Rows(source) : SizeOf(net, r[2]) = Product(r[3])
    BY SizeOfField
  <2>3. \A r \in Rows(source) : sizes[r[1]] = Product(r[3])
    BY MoreRows, SizesAre
  <2>. HIDE DEF net, pairs, sizes
  <2>4. \A x \in pairs : SizeOf(net, x[2]) = sizes[x[1]]
    BY <2>1, <2>2, <2>3
  <2>. QED
    BY <1>2, <1>3, <2>4 DEF net
<1>4. CASE "main" \in DOMAIN target.movesleft \ DOMAIN source.movesleft
  <2>. DEFINE path == <<"movesleft_heads", "main", "embed", "bias">>  field == <<"ip_mov", "b">>
              channels == target.movesleft["main"].num_channels
  <2>1. PICK r \in MovesLeftRows(target, "main") : r[1] = path /\ r[2] = field /\ r[3] = <<channels>>
    BY DEF MovesLeftRows
  <2>2. <<path, field>> \in VisitMovesLeft
    BY <2>1, MovesLeftPairs DEF PairsAre
  <2>3. VisitMovesLeft \subseteq pairs
    BY <1>4 DEF ImportPairs, Visit
  <2>4. r \in Rows(target)
    BY <1>4, <2>1 DEF Rows
  <2>5. sizes[path] = channels
    <3>1. sizes[r[1]] = Product(r[3])
      BY <2>4, SizesAre
    <3>2. Product(<<channels>>) = channels
      BY ProductOf
    <3>. HIDE DEF sizes, path, field, channels
    <3>. QED
      BY <2>1, <3>1, <3>2
  <2>6. channels # 0
    <3>1. target.movesleft \in [DOMAIN target.movesleft -> [num_channels : Size]]
      BY DEF IsConfiguration, ConfigurationsWith
    <3>. QED
      BY <1>4, <3>1 DEF Size
  <2>7. SizeOf(net, field) = 0
    BY <1>4, HeadSizesRead
  <2>. HIDE DEF net, pairs, sizes, path, field, channels
  <2>8. ~ \A x \in pairs : SizeOf(net, x[2]) = sizes[x[1]]
    BY <2>2, <2>3, <2>5, <2>6, <2>7
  <2>. QED
    BY <1>2, <1>4, <2>8 DEF net
<1>. QED
  BY <1>3, <1>4

-----------------------------------------------------------------------------
(* The net is that of the first model, and what was loaded is from it.     *)
ConversionInv ==
  /\ exporter # <<>> =>
       \E m \in Models : /\ Constructible(m) /\ Visitable(m)
                        /\ exporter = <<m>> /\ exported = <<Exported(m)>>
  /\ exported # <<>> => exporter # <<>>
  /\ importer # <<>> =>
       /\ exporter # <<>>
       /\ \E m \in Models :
            LET net == FixOlderWeightsFile(exported[1]) IN
            /\ importer = <<m>>
            /\ imported = IF Accepts(exported[1], m) /\ Importable(net, m)
                          THEN <<LeelaToJax(net, m)>> ELSE <<>>

LEMMA ConversionInvHolds == ConversionSpec => []ConversionInv
<1>1. ConversionInit => ConversionInv
  BY DEF ConversionInit, ConversionInv
<1>2. ConversionInv /\ [ConversionNext]_conversion => ConversionInv'
  <2>. SUFFICES ASSUME ConversionInv, [ConversionNext]_conversion PROVE ConversionInv'
    OBVIOUS
  <2>1. CASE Export
    BY <2>1 DEF Export, ConversionInv
  <2>2. CASE Import
    BY <2>2 DEF Import, ConversionInv
  <2>3. CASE UNCHANGED conversion
    BY <2>3 DEF conversion, ConversionInv
  <2>. QED
    BY <2>1, <2>2, <2>3 DEF ConversionNext
<1>. QED
  BY <1>1, <1>2, PTL DEF ConversionSpec

(* A net that was written from a model of any configuration that files can *)
(* describe is loaded as the same weights: see NetsRoundTrip.              *)
THEOREM NetsReadBack == ConversionSpec => []NetsRoundTrip
<1>1. ConversionInv => NetsRoundTrip
  <2>. DEFINE source == exporter[1]  target == importer[1]  net == FixOlderWeightsFile(exported[1])
              alike == "main" \notin DOMAIN target.movesleft \ DOMAIN source.movesleft
              weights == [path \in Paths(target) |-> IF path \in Paths(source) THEN Own(path) ELSE Random]
  <2>. SUFFICES ASSUME ConversionInv, importer # <<>>, Standard(source)
                PROVE  /\ Readable(net)
                       /\ LeelaToModelConfig(net) = source
                       /\ imported = IF Constructible(target) /\ IsCompatibleSubset(source, target) /\ alike
                                     THEN <<weights>> ELSE <<>>
    BY DEF NetsRoundTrip
  <2>1. /\ source \in Models /\ Constructible(source) /\ Visitable(source)
        /\ exported[1] = Exported(source)
    BY DEF ConversionInv
  <2>2. /\ target \in Models
        /\ imported = IF Accepts(exported[1], target) /\ Importable(net, target)
                      THEN <<LeelaToJax(net, target)>> ELSE <<>>
    BY DEF ConversionInv
  <2>3. IsConfiguration(source) /\ IsConfiguration(target)
    BY <2>1, <2>2, ModelsAssumption
  <2>4. net = Exported(source)
    BY <2>1, FixKeeps
  <2>5. LeelaToModelConfig(Exported(source)) = source
    BY <2>1, <2>3, ConfigurationReadBack
  <2>6. Readable(Exported(source))
    <3>. DEFINE model_net == Exported(source)
    <3>1. source.embedding_size \in Size /\ source.num_blocks \in Size
      BY <2>3 DEF IsConfiguration, ConfigurationsWith
    <3>2. /\ SizeOf(model_net, <<"ip_mult_gate">>) = 64 * source.embedding_size
          /\ SizeOf(model_net, <<"ip_add_gate">>) = 64 * source.embedding_size
      BY <3>1, SizesRead
    <3>3. model_net.format = ModernFormat(source) /\ model_net.encoders = source.num_blocks
      BY ExportedIs
    <3>4. /\ model_net.format.input_embedding = "dense" /\ model_net.format.policy = "attention"
          /\ model_net.format.value = "wdl" /\ model_net.format.network = "attention_multihead"
      BY <3>3 DEF ModernFormat
    <3>. HIDE DEF model_net
    <3>5. Readable(model_net)
      BY <3>1, <3>2, <3>3, <3>4 DEF Readable, Size
    <3>. QED
      BY <3>5 DEF model_net
  <2>7. Accepts(exported[1], target) <=> IsCompatibleSubset(source, target)
    <3>. HIDE DEF source, target
    <3>. QED
      BY <2>4, <2>5, <2>6 DEF Accepts
  <2>8. ASSUME IsCompatibleSubset(source, target), alike
        PROVE  LeelaToJax(net, target) = weights
    BY <2>3, <2>4, <2>8, WeightsReadBack
  <2>9. ASSUME IsCompatibleSubset(source, target)
        PROVE  Importable(net, target) <=> Constructible(target) /\ alike
    <3>1. CASE Constructible(target)
      BY <2>1, <2>3, <2>4, <2>9, <3>1, ImportableIs
    <3>2. CASE ~Constructible(target)
      BY <3>2 DEF Importable
    <3>. QED
      BY <3>1, <3>2
  <2>. HIDE DEF net, source, target, weights, alike
  <2>. QED
    BY <2>2, <2>4, <2>5, <2>6, <2>7, <2>8, <2>9
<1>. QED
  BY <1>1, ConversionInvHolds, PTL
=============================================================================
