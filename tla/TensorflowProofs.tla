-------------------------- MODULE TensorflowProofs --------------------------
(***************************************************************************)
(* Proofs about TfTraining, for every configuration of the net, every      *)
(* length of the intervals and every --start of the tools: that what is    *)
(* trained and averaged are weights of this run (WeightsOfThisRun), that a *)
(* run that ends by itself ends on a boundary with its weights on the disk *)
(* (RunEndsOnBoundary), and that the net files that are complete hold the  *)
(* weights of checkpoints, given that every configuration reads back what  *)
(* it writes (NetsReproducible).                                           *)
(*                                                                         *)
(* And about ChunkParser, for every content of the files and any number of *)
(* workers: that no record is lost or doubled on its way into a batch      *)
(* (RecordsConserved), and that the generator fails only for a bad file    *)
(* (FailsOnlyForBadInput).                                                 *)
(***************************************************************************)
EXTENDS TfTraining, ChunkParser, FiniteSetTheorems, SequenceTheorems, TLAPS

AnyWeights == [versions : SUBSET SUBSET Nat, rule50 : Int]
AnyCheckpoint ==
  [step : Int, model : AnyWeights, swa_weights : AnyWeights, swa_count : Int]
AnyFile == [versions : SUBSET SUBSET Nat, rule50 : Int, torn : BOOLEAN]

Types ==
  /\ cfg \in Configs /\ swa_enabled \in BOOLEAN
  /\ iterations \in Int /\ global_step \in Int /\ clock \in Nat
  /\ model \in AnyWeights /\ backup \in AnyWeights /\ trained \in AnyWeights
  /\ swa_weights \in AnyWeights /\ swa_count \in Int
  /\ latest # NoCheckpoint => latest \in AnyCheckpoint
  /\ \A name \in DOMAIN nets : nets[name] \in AnyFile

(* Where an evaluation and the writing of a net may go on.                 *)
Writing == {"open net", "fill net", "swap in to write", "open swa net", "fill swa net"}
Returns ==
  /\ pc = "test" => then \in {"train", "validate"}
  /\ pc = "swap in" => then \in {"train", "validate", "checkpoint"}
  /\ pc \in Writing => then \in {"process", "exit"}
  /\ pc = "swap out" => then \in {"train", "validate", "checkpoint", "process", "exit"}

(* Where the weights of the training are.                                  *)
InPlace == {"process", "train", "trained", "test", "swap in", "validate", "checkpoint",
            "open net", "fill net", "swap in to write", "output"}
PutAside == {"swap out", "open swa net", "fill swa net"}
Own ==
  /\ pc \in InPlace => model = trained
  /\ pc \in PutAside => backup = trained

(* An average is of weights that those behind w came from.                 *)
BehindOf(average, count, w) ==
  count # 0 => \A v \in average.versions : v \subseteq UNION w.versions
AveragesBehind ==
  /\ BehindOf(swa_weights, swa_count, trained)
  /\ latest # NoCheckpoint => BehindOf(latest.swa_weights, latest.swa_count, latest.model)

Mine == Types /\ Returns /\ Own /\ AveragesBehind

-----------------------------------------------------------------------------
(* Lemmas.                                                                 *)

(* What net_to_model and the others write of a checkpoint.                 *)
LEMMA NetFilesHold ==
  ASSUME Types, NEW ckpt
  PROVE  LET net == <<"net", ckpt.step>>  swa == <<"swa", ckpt.step>> IN
         /\ WithNetFiles(ckpt)[net] = FileOf(ckpt.model)
         /\ \A n \in DOMAIN WithNetFiles(ckpt) :
              \/ n = net
              \/ n = swa /\ WithNetFiles(ckpt)[n] = FileOf(ckpt.swa_weights)
              \/ n \in DOMAIN nets /\ WithNetFiles(ckpt)[n] = nets[n]
<1>1. CASE swa_enabled
  BY <1>1 DEF WithNetFiles
<1>2. CASE ~swa_enabled
  BY <1>2 DEF WithNetFiles
<1>. QED
  BY <1>1, <1>2 DEF Types

LEMMA Powers ==
  ASSUME NEW c \in Configs
  PROVE  /\ FillPower(c) \in Int /\ ReplacePower(c) \in Int
         /\ FillPower(c) + ReplacePower(c) + (IF LosesRule50(c) THEN 1 ELSE 0) = 0
<1>1. c \in NetConfigs
  BY ConfigsAssumption
<1>2. c.hectoplies \in BOOLEAN /\ c.encoder_layers \in Nat
  BY <1>1 DEF NetConfigs
<1>3. CASE c.hectoplies
  BY <1>2, <1>3 DEF FillPower, ReplacePower, LosesRule50
<1>4. CASE ~c.hectoplies /\ c.encoder_layers > 0
  BY <1>2, <1>4 DEF FillPower, ReplacePower, LosesRule50
<1>5. CASE ~c.hectoplies /\ ~(c.encoder_layers > 0)
  BY <1>2, <1>5 DEF FillPower, ReplacePower, LosesRule50
<1>. QED
  BY <1>2, <1>3, <1>4, <1>5, Zenon

LEMMA FreshTyped ==
  ASSUME NEW version \in SUBSET Nat
  PROVE  Fresh(version) \in AnyWeights
BY DEF Fresh, AnyWeights

LEMMA NothingTyped == Nothing \in AnyWeights
BY DEF Nothing, AnyWeights

LEMMA CountedTyped ==
  ASSUME NEW n \in Int
  PROVE  Counted(n) \in Int
BY NumbersAssumption DEF Counted

LEMMA CheckpointTyped ==
  ASSUME NEW step \in Int, NEW w \in AnyWeights, NEW average \in AnyWeights, NEW n \in Int
  PROVE  /\ Checkpoint(step, w, average, n) \in AnyCheckpoint
         /\ Checkpoint(step, w, average, n).step = step
         /\ Checkpoint(step, w, average, n).model = w
         /\ Checkpoint(step, w, average, n).swa_weights = average
         /\ Checkpoint(step, w, average, n).swa_count = n
BY DEF Checkpoint, AnyCheckpoint

LEMMA FileTyped ==
  ASSUME Types, NEW w \in AnyWeights
  PROVE  FileOf(w) \in AnyFile /\ FileOf(w) # Torn
<1>1. FillPower(cfg) \in Int
  BY Powers DEF Types
<1>2. FileOf(w) \in AnyFile
  BY <1>1 DEF FileOf, AnyFile, AnyWeights
<1>3. FileOf(w).torn = FALSE /\ Torn.torn = TRUE
  BY DEF FileOf, Torn
<1>. QED
  BY <1>2, <1>3

LEMMA TornTyped == Torn \in AnyFile
BY DEF Torn, AnyFile

(* A checkpoint is not what stands for none.                               *)
LEMMA CheckpointExists ==
  ASSUME NEW ckpt \in AnyCheckpoint
  PROVE  ckpt # NoCheckpoint
<1>. SUFFICES ASSUME ckpt = NoCheckpoint
              PROVE  FALSE
  OBVIOUS
<1>1. "model" \in DOMAIN ckpt
  BY DEF AnyCheckpoint
<1>2. DOMAIN ckpt = {"step"}
  BY DEF NoCheckpoint
<1>. QED
  BY <1>1, <1>2

(* What is read back of a file is some weights.                            *)
LEMMA ReadTyped ==
  ASSUME Types, NEW file \in AnyFile
  PROVE  WeightsOf(file) \in AnyWeights
<1>1. ReplacePower(cfg) \in Int
  BY Powers DEF Types
<1>2. Garbled \in AnyWeights
  BY FreshTyped DEF Garbled
<1>3. [versions |-> file.versions, rule50 |-> file.rule50 + ReplacePower(cfg)] \in AnyWeights
  BY <1>1 DEF AnyFile, AnyWeights
<1>. QED
  BY <1>2, <1>3 DEF WeightsOf

LEMMA GradientStepTyped ==
  ASSUME Types, NEW w \in AnyWeights
  PROVE  /\ GradientStep(w) \in AnyWeights
         /\ GradientStep(w).versions = {(UNION w.versions) \cup {clock + 1}}
<1>1. clock + 1 \in Nat
  BY DEF Types
<1>2. w.versions \in SUBSET SUBSET Nat
  BY DEF AnyWeights
<1>3. UNION w.versions \in SUBSET Nat
  BY <1>2, Zenon
<1>4. (UNION w.versions) \cup {clock + 1} \in SUBSET Nat
  BY <1>1, <1>3
<1>. QED
  BY <1>4, FreshTyped DEF GradientStep, Fresh

-----------------------------------------------------------------------------
(* The weights: every step keeps them in their place, and the average of   *)
(* weights behind those that are trained.                                  *)

LEMMA InitMine == Init => Mine
BY NothingTyped
   DEF Init, Mine, Types, Returns, Own, AveragesBehind, BehindOf, Writing, InPlace, PutAside

(* A run begins with the weights and the average of the checkpoint, or     *)
(* with weights of its own.                                                *)
LEMMA StartMine == Mine /\ Start => Mine'
<1>. SUFFICES ASSUME Mine, Start
              PROVE  Mine'
  OBVIOUS
<1>. USE DEF Mine
<1>1. clock + 1 \in Nat /\ {clock + 1} \in SUBSET Nat
  BY DEF Types
<1>2. Fresh({clock + 1}) \in AnyWeights /\ Nothing \in AnyWeights
  BY <1>1, FreshTyped, NothingTyped
<1>3. /\ trained' = model' /\ pc' = "process" /\ clock' = clock + 1
      /\ UNCHANGED <<config, backup, then, disk>>
      /\ iterations' = total_steps - (global_step' % total_steps)
  BY DEF Start
<1>4. /\ model' \in AnyWeights /\ global_step' \in Int /\ swa_count' \in Int
      /\ swa_weights' \in AnyWeights /\ BehindOf(swa_weights, swa_count, trained)'
  <2>1. CASE latest # NoCheckpoint
    <3>1. /\ model' = latest.model /\ global_step' = latest.step /\ swa_count' = latest.swa_count
          /\ swa_weights' = IF swa_enabled THEN latest.swa_weights ELSE Nothing
      BY <2>1 DEF Start
    <3>2. latest \in AnyCheckpoint
      BY <2>1 DEF Types
    <3>3. /\ model' \in AnyWeights /\ global_step' \in Int /\ swa_count' \in Int
          /\ swa_weights' \in AnyWeights
      BY <1>2, <3>1, <3>2 DEF AnyCheckpoint
    <3>4. BehindOf(swa_weights, swa_count, trained)'
      BY <1>3, <2>1, <3>1 DEF AveragesBehind, BehindOf, Nothing
    <3>. QED
      BY <3>3, <3>4
  <2>2. CASE latest = NoCheckpoint
    <3>1. /\ model' = Fresh({clock + 1}) /\ global_step' = 0 /\ swa_count' = 0
          /\ swa_weights' = IF swa_enabled THEN Fresh({clock + 1}) ELSE Nothing
      BY <2>2 DEF Start
    <3>. QED
      BY <1>2, <3>1 DEF BehindOf
  <2>. QED
    BY <2>1, <2>2
<1>5. iterations' \in Int
  BY <1>3, <1>4, StepsAssumption
<1>6. Types'
  BY <1>1, <1>3, <1>4, <1>5 DEF Types, config, disk
<1>7. Returns' /\ Own'
  BY <1>3 DEF Returns, Own, Writing, InPlace, PutAside
<1>8. AveragesBehind'
  BY <1>3, <1>4 DEF AveragesBehind, BehindOf, disk
<1>. QED
  BY <1>6, <1>7, <1>8

(* The steps that only decide what comes next.                             *)
LEMMA DecisionMine ==
  Mine /\ (Process \/ AfterTrain \/ Test \/ Validate \/ Output) => Mine'
<1>. SUFFICES ASSUME Mine, Process \/ AfterTrain \/ Test \/ Validate \/ Output
              PROVE  Mine'
  OBVIOUS
<1>. USE DEF Mine
<1>1. UNCHANGED <<config, iterations, global_step, model, backup, averaging, disk, clock, trained>>
  BY DEF Process, AfterTrain, Test, Validate, Output
<1>2. Types' /\ AveragesBehind'
  BY <1>1 DEF Types, AveragesBehind, BehindOf, config, averaging, disk
<1>3. Returns' /\ Own'
  <2>1. CASE Process
    BY <1>1, <2>1 DEF Process, Goto, Returns, Own, Writing, InPlace, PutAside
  <2>2. CASE AfterTrain
    BY <1>1, <2>2 DEF AfterTrain, Goto, Returns, Own, Writing, InPlace, PutAside
  <2>3. CASE Test
    BY <1>1, <2>3 DEF Test, Goto, Returns, Own, Writing, InPlace, PutAside
  <2>4. CASE Validate
    BY <1>1, <2>4 DEF Validate, Goto, Returns, Own, Writing, InPlace, PutAside
  <2>5. CASE Output
    BY <1>1, <2>5 DEF Output, Goto, Returns, Own, Writing, InPlace, PutAside
  <2>. QED
    BY <2>1, <2>2, <2>3, <2>4, <2>5
<1>. QED
  BY <1>2, <1>3

(* Every gradient step adds one to what is behind the weights, and only    *)
(* the weights it leaves come into the average.                            *)
LEMMA TrainMine == Mine /\ Train => Mine'
<1>. SUFFICES ASSUME Mine, Train
              PROVE  Mine'
  OBVIOUS
<1>. USE DEF Mine
<1>1. CASE ~cfg.wdl
  <2>1. /\ pc' = "failed"
        /\ UNCHANGED <<config, iterations, global_step, model, backup, averaging, then, disk,
                       clock, trained>>
    BY <1>1 DEF Train, Goto
  <2>. QED
    BY <2>1 DEF Types, Returns, Own, AveragesBehind, BehindOf, Writing, InPlace, PutAside,
                config, averaging, disk
<1>2. CASE cfg.wdl
  <2>. DEFINE versions == {(UNION model.versions) \cup {clock + 1}}
  <2>1. /\ pc' = "trained" /\ clock' = clock + 1 /\ trained' = model'
        /\ model' = [GradientStep(model) EXCEPT !.rule50 = model.rule50]
        /\ global_step' = global_step + 1 /\ iterations' = iterations - 1
        /\ UNCHANGED <<config, backup, then, disk>>
    BY <1>2 DEF Train, Goto
  <2>2. GradientStep(model) \in AnyWeights /\ GradientStep(model).versions = versions
    BY GradientStepTyped DEF Types
  <2>3. model' \in AnyWeights /\ model'.versions = versions
    BY <2>1, <2>2 DEF Types, AnyWeights
  <2>4. (UNION trained.versions) \subseteq UNION trained'.versions
    <3>1. model = trained
      BY DEF Own, Train, InPlace
    <3>2. UNION trained'.versions = (UNION model.versions) \cup {clock + 1}
      <4>. HIDE DEF versions
      <4>1. UNION versions = (UNION model.versions) \cup {clock + 1}
        BY DEF versions
      <4>. QED
        BY <2>1, <2>3, <4>1
    <3>. QED
      BY <3>1, <3>2
  <2>5. swa_weights' \in AnyWeights /\ swa_count' \in Int /\ BehindOf(swa_weights, swa_count, trained)'
    <3>1. CASE UNCHANGED averaging
      BY <2>4, <3>1 DEF Types, AveragesBehind, BehindOf, averaging
    <3>2. CASE /\ swa_weights' = Averaged(model', swa_weights, swa_count)
               /\ swa_count' = Counted(swa_count)
      <4>1. swa_count' \in Int
        BY <3>2, CountedTyped DEF Types
      <4>2. CASE swa_count = 0
        <5>1. swa_weights' = model'
          BY <3>2, <4>2 DEF Averaged
        <5>2. \A v \in model'.versions : v \subseteq UNION trained'.versions
          BY <2>1, Zenon
        <5>. QED
          BY <2>3, <4>1, <5>1, <5>2 DEF BehindOf
      <4>3. CASE swa_count # 0
        <5>1. swa_weights' = [versions |-> model'.versions \cup swa_weights.versions,
                              rule50 |-> model'.rule50]
          BY <3>2, <4>3 DEF Averaged
        <5>2. swa_weights' \in AnyWeights
          BY <2>3, <5>1 DEF Types, AnyWeights
        <5>3. \A v \in swa_weights.versions : v \subseteq UNION trained.versions
          BY <4>3 DEF AveragesBehind, BehindOf
        <5>4. \A v \in model'.versions : v \subseteq UNION trained'.versions
          BY <2>1, Zenon
        <5>5. \A v \in swa_weights'.versions : v \subseteq UNION trained'.versions
          BY <2>4, <5>1, <5>3, <5>4
        <5>. QED
          BY <4>1, <5>2, <5>5 DEF BehindOf
      <4>. QED
        BY <4>2, <4>3
    <3>. QED
      BY <1>2, <3>1, <3>2 DEF Train
  <2>6. Types'
    BY <2>1, <2>3, <2>5 DEF Types, config, disk
  <2>7. Returns' /\ Own'
    BY <2>1 DEF Returns, Own, Writing, InPlace, PutAside
  <2>8. AveragesBehind'
    BY <2>1, <2>5 DEF AveragesBehind, BehindOf, disk
  <2>. QED
    BY <2>6, <2>7, <2>8
<1>. QED
  BY <1>1, <1>2

(* The averaged weights stand in for the others and are taken out again.   *)
LEMMA SwapMine == Mine /\ (SwapIn \/ SwapOut) => Mine'
<1>. SUFFICES ASSUME Mine, SwapIn \/ SwapOut
              PROVE  Mine'
  OBVIOUS
<1>. USE DEF Mine
<1>1. UNCHANGED <<config, iterations, global_step, averaging, then, disk, clock, trained>>
  BY DEF SwapIn, SwapOut
<1>2. model' \in AnyWeights /\ backup' \in AnyWeights
  BY NothingTyped DEF SwapIn, SwapOut, Types
<1>3. Types' /\ AveragesBehind'
  BY <1>1, <1>2 DEF Types, AveragesBehind, BehindOf, config, averaging, disk
<1>4. Returns' /\ Own'
  <2>1. CASE SwapIn
    BY <1>1, <2>1 DEF SwapIn, Goto, Returns, Own, Writing, InPlace, PutAside
  <2>2. CASE SwapOut
    BY <1>1, <2>2 DEF SwapOut, Goto, Returns, Own, Writing, InPlace, PutAside
  <2>. QED
    BY <2>1, <2>2
<1>. QED
  BY <1>3, <1>4

(* A checkpoint holds the average with the weights.                        *)
LEMMA SaveCheckpointMine == Mine /\ SaveCheckpoint => Mine'
<1>. SUFFICES ASSUME Mine, SaveCheckpoint
              PROVE  Mine'
  OBVIOUS
<1>. USE DEF Mine
<1>1. /\ UNCHANGED <<config, iterations, global_step, model, backup, averaging, nets, clock, trained>>
      /\ pc = "checkpoint" /\ model = trained
  BY DEF SaveCheckpoint, Own, InPlace
<1>2. Returns' /\ Own'
  BY <1>1 DEF SaveCheckpoint, Goto, Returns, Own, Writing, InPlace, PutAside
<1>3. BehindOf(swa_weights, swa_count, trained)'
  BY <1>1 DEF AveragesBehind, BehindOf, averaging
<1>4. latest' # NoCheckpoint =>
        latest' \in AnyCheckpoint /\ BehindOf(latest'.swa_weights, latest'.swa_count, latest'.model)
  <2>1. CASE latest' = latest
    BY <2>1 DEF Types, AveragesBehind
  <2>2. CASE latest' = Checkpoint(global_step, model, swa_weights, swa_count)
    BY <1>1, <2>2, CheckpointTyped DEF Types, AveragesBehind, BehindOf
  <2>. QED
    BY <2>1, <2>2 DEF SaveCheckpoint, Save
<1>5. Types'
  BY <1>1, <1>4 DEF Types, config, averaging
<1>. QED
  BY <1>2, <1>3, <1>4, <1>5 DEF AveragesBehind, BehindOf

(* A net file is opened, and filled.                                       *)
LEMMA NetFileMine == Mine /\ (OpenNet \/ FillNetFile) => Mine'
<1>. SUFFICES ASSUME Mine, OpenNet \/ FillNetFile
              PROVE  Mine'
  OBVIOUS
<1>. USE DEF Mine
<1>1. UNCHANGED <<config, iterations, global_step, model, backup, averaging, then, latest, saved,
                  clock, trained>>
  BY DEF OpenNet, FillNetFile
<1>2. PICK file \in AnyFile : nets' = WithFile(NetName, file)
  BY TornTyped, FileTyped DEF OpenNet, FillNetFile, Types
<1>3. \A name \in DOMAIN nets' : nets'[name] \in AnyFile
  <2>. DEFINE opened == NetName
  <2>1. /\ DOMAIN nets' = {opened} \cup DOMAIN nets /\ nets'[opened] = file
        /\ \A n \in DOMAIN nets : n # opened => nets'[n] = nets[n]
    BY <1>2 DEF WithFile
  <2>. HIDE DEF opened
  <2>. QED
    BY <2>1 DEF Types
<1>4. Types' /\ AveragesBehind'
  BY <1>1, <1>3 DEF Types, AveragesBehind, BehindOf, config, averaging
<1>5. Returns' /\ Own'
  <2>1. CASE OpenNet
    BY <1>1, <2>1 DEF OpenNet, Goto, Returns, Own, Writing, InPlace, PutAside
  <2>2. CASE FillNetFile
    BY <1>1, <2>2 DEF FillNetFile, Goto, Returns, Own, Writing, InPlace, PutAside
  <2>. QED
    BY <2>1, <2>2
<1>. QED
  BY <1>4, <1>5

LEMMA DownMine == Mine /\ Down => Mine'
<1>. SUFFICES ASSUME Mine, Down
              PROVE  Mine'
  OBVIOUS
<1>1. Types'
  BY NothingTyped DEF Mine, Down, Types, config, disk
<1>2. Returns' /\ Own'
  BY DEF Down, Returns, Own, Writing, InPlace, PutAside
<1>3. AveragesBehind'
  BY DEF Mine, Down, AveragesBehind, BehindOf, disk
<1>. QED
  BY <1>1, <1>2, <1>3 DEF Mine

(* A tool saves weights that it averaged with themselves or not at all.    *)
LEMMA ToolMine ==
  ASSUME Mine, Tool, latest' # NoCheckpoint => latest' \in AnyCheckpoint,
         latest' # NoCheckpoint => BehindOf(latest'.swa_weights, latest'.swa_count, latest'.model),
         \A name \in DOMAIN nets' : nets'[name] \in AnyFile
  PROVE  Mine'
<1>. USE DEF Mine
<1>1. /\ UNCHANGED <<config, pc, iterations, global_step, model, backup, averaging, then, trained>>
      /\ clock' = clock + 1
  BY DEF Tool
<1>2. Types'
  BY <1>1 DEF Types, config, averaging
<1>3. Returns' /\ Own'
  BY <1>1 DEF Returns, Own
<1>4. AveragesBehind'
  BY <1>1 DEF AveragesBehind, BehindOf, averaging
<1>. QED
  BY <1>2, <1>3, <1>4

LEMMA AverageTyped ==
  ASSUME NEW w \in AnyWeights
  PROVE  Average(w) \in AnyWeights
BY NothingTyped DEF Average

LEMMA NetFilesTyped ==
  ASSUME Types, NEW ckpt \in AnyCheckpoint
  PROVE  \A name \in DOMAIN WithNetFiles(ckpt) : WithNetFiles(ckpt)[name] \in AnyFile
<1>1. FileOf(ckpt.model) \in AnyFile /\ FileOf(ckpt.swa_weights) \in AnyFile
  BY FileTyped DEF AnyCheckpoint
<1>. QED
  BY <1>1, NetFilesHold DEF Types

LEMMA NetToModelMine ==
  ASSUME Mine, NEW start \in Starts, NetToModel(start)
  PROVE  Mine'
<1>. USE DEF Mine
<1>1. PICK name \in DOMAIN nets :
        LET w == WeightsOf(nets[name]) IN
          Tool /\ nets' = nets
            /\ Save(Checkpoint(start, w, Average(w), IF swa_enabled THEN Counted(0) ELSE 0))
  BY DEF NetToModel
<1>. DEFINE w == WeightsOf(nets[name])
            n == IF swa_enabled THEN Counted(0) ELSE 0
<1>2. w \in AnyWeights /\ Average(w) \in AnyWeights /\ n \in Int /\ start \in Int
  BY ReadTyped, AverageTyped, CountedTyped, NumbersAssumption DEF Types
<1>3. latest' = Checkpoint(start, w, Average(w), n)
  BY <1>1 DEF Save
<1>4. BehindOf(Average(w), n, w)
  BY DEF BehindOf, Average, Nothing
<1>. HIDE DEF w, n
<1>. QED
  BY <1>1, <1>2, <1>3, <1>4, CheckpointTyped, ToolMine DEF Types

LEMMA MakeModelMine ==
  ASSUME Mine, NEW start \in Starts, MakeModel(start)
  PROVE  Mine'
<1>. USE DEF Mine
<1>. DEFINE w == Fresh({clock + 1})  ckpt == Checkpoint(start, w, Average(w), 0)
<1>1. w \in AnyWeights /\ start \in Int
  <2>1. {clock + 1} \in SUBSET Nat
    BY DEF Types
  <2>. QED
    BY <2>1, FreshTyped, NumbersAssumption
<1>2. Tool /\ latest' = ckpt /\ nets' = WithNetFiles(ckpt)
  BY DEF MakeModel, Save
<1>. HIDE DEF w
<1>3. ckpt \in AnyCheckpoint /\ BehindOf(ckpt.swa_weights, ckpt.swa_count, ckpt.model)
  BY <1>1, AverageTyped, CheckpointTyped DEF BehindOf
<1>. HIDE DEF ckpt
<1>. QED
  BY <1>2, <1>3, NetFilesTyped, ToolMine

LEMMA ModelToNetMine == Mine /\ ModelToNet => Mine'
<1>. SUFFICES ASSUME Mine, ModelToNet
              PROVE  Mine'
  OBVIOUS
<1>1. Tool /\ latest' = latest /\ latest \in AnyCheckpoint /\ nets' = WithNetFiles(latest)
  BY DEF ModelToNet, Mine, Types
<1>. QED
  BY <1>1, NetFilesTyped, ToolMine DEF Mine, AveragesBehind

LEMMA UpdateStepsMine ==
  ASSUME Mine, NEW start \in Starts, UpdateSteps(start)
  PROVE  Mine'
<1>1. Tool /\ latest' = [latest EXCEPT !.step = start] /\ nets' = nets /\ latest # NoCheckpoint
  BY DEF UpdateSteps, Save
<1>2. latest \in AnyCheckpoint
  BY <1>1 DEF Mine, Types
<1>3. /\ latest' \in AnyCheckpoint /\ latest'.swa_weights = latest.swa_weights
      /\ latest'.swa_count = latest.swa_count /\ latest'.model = latest.model
  BY <1>1, <1>2, NumbersAssumption DEF AnyCheckpoint
<1>. QED
  BY <1>1, <1>3, ToolMine DEF Mine, Types, AveragesBehind

LEMMA MineStep == Mine /\ [Next]_vars => Mine'
<1>. SUFFICES ASSUME Mine, [Next]_vars
              PROVE  Mine'
  OBVIOUS
<1>1. CASE UNCHANGED vars
  BY <1>1 DEF vars, config, averaging, disk, Mine, Types, Returns, Own, AveragesBehind, BehindOf
<1>2. CASE Start \/ Train \/ SaveCheckpoint \/ Down \/ ModelToNet
  BY <1>2, StartMine, TrainMine, SaveCheckpointMine, DownMine, ModelToNetMine, Zenon
<1>3. CASE Process \/ AfterTrain \/ Test \/ Validate \/ Output
  BY <1>3, DecisionMine, Zenon
<1>4. CASE SwapIn \/ SwapOut \/ OpenNet \/ FillNetFile
  BY <1>4, SwapMine, NetFileMine, Zenon
<1>5. CASE \E start \in Starts : NetToModel(start) \/ MakeModel(start) \/ UpdateSteps(start)
  BY <1>5, NetToModelMine, MakeModelMine, UpdateStepsMine
<1>. QED
  BY <1>1, <1>2, <1>3, <1>4, <1>5, Zenon DEF Next

(* What a run trains, saves and averages are its own weights: model is     *)
(* what the last gradient step or restore left whenever it is used as      *)
(* that, and no version behind the average is foreign to it.               *)
THEOREM TrainsItsOwn == Spec => []WeightsOfThisRun
<1>1. Mine => WeightsOfThisRun
  <2>. SUFFICES ASSUME Mine
                PROVE  WeightsOfThisRun
    OBVIOUS
  <2>1. pc \in {"process", "train", "trained", "checkpoint", "open net", "output"} => model = trained
    BY DEF Mine, Own, InPlace
  <2>2. swa_count > 0 => swa_count # 0
    BY DEF Mine, Types
  <2>. QED
    BY <2>1, <2>2 DEF Mine, AveragesBehind, BehindOf, WeightsOfThisRun
<1>. QED
  BY InitMine, MineStep, <1>1, PTL DEF Spec

-----------------------------------------------------------------------------
(* The steps that are left lead to a multiple of total_steps, and nobody   *)
(* trains when none is left.                                               *)
OnTheWay ==
  /\ pc \notin {"down", "failed"} => (global_step + iterations) % total_steps = 0 /\ iterations >= 0
  /\ pc = "train" => iterations > 0
  /\ pc \in {"test", "swap in", "swap out"} /\ then = "train" => iterations > 0
  /\ pc = "output" => iterations = 0

(* From a checkpoint to the next gradient step it holds what is trained,   *)
(* and from the end of its net file the file does.                         *)
Ended == pc = "output" \/ (pc = "process" /\ iterations = 0)
Recorded ==
  Ended \/ (pc \in Writing \cup {"swap out"} /\ then = "process") =>
    /\ latest = Checkpoint(global_step, trained, swa_weights, swa_count)
    /\ <<global_step, trained>> \in saved
NetWritten ==
  Ended \/ (pc \in {"swap in to write", "open swa net", "fill swa net", "swap out"} /\ then = "process") =>
    nets[<<"net", global_step>>] = FileOf(trained) /\ <<"net", global_step>> \in DOMAIN nets

Boundary == OnTheWay /\ Recorded /\ NetWritten

(* The net files that are complete, and the latest checkpoint, are of      *)
(* checkpoints that were saved.                                            *)
OfSaved(name, file) ==
  name[1] = "net" /\ file # Torn => \E w \in AnyWeights : <<name[2], w>> \in saved /\ file = FileOf(w)
Kept ==
  /\ latest # NoCheckpoint => <<latest.step, latest.model>> \in saved
  /\ \A name \in DOMAIN nets : OfSaved(name, nets[name])

Inv == Mine /\ Boundary /\ Kept

-----------------------------------------------------------------------------
(* Lemmas.                                                                 *)

LEMMA ToTheBoundary ==
  ASSUME NEW step \in Int
  PROVE  LET left == total_steps - (step % total_steps) IN
           left > 0 /\ (step + left) % total_steps = 0
<1>. DEFINE t == total_steps
            q == step \div t
            r == step % t
<1>1. t \in Nat \ {0}
  BY StepsAssumption
<1>. HIDE DEF t
<1>2. r = step - t * q /\ q \in Int /\ r \in 0 .. t - 1
  BY <1>1, Z3
<1>. HIDE DEF q, r
<1>3. step + (t - r) = t * (q + 1)
  BY <1>1, <1>2
<1>4. (t * (q + 1)) % t = 0
  <2>1. \A n \in Int : (t * n) % t = 0
    BY <1>1, Z3
  <2>. QED
    BY <1>2, <2>1
<1>5. t - r > 0
  BY <1>1, <1>2
<1>. QED
  BY <1>3, <1>4, <1>5 DEF t, r

(* Where nothing is left the step is a multiple of total_steps.            *)
LEMMA AtTheBoundary ==
  ASSUME Types, OnTheWay, iterations = 0, pc \notin {"down", "failed"}
  PROVE  Multiple(total_steps)
<1>1. global_step + iterations = global_step
  BY DEF Types
<1>. QED
  BY <1>1 DEF OnTheWay, Multiple

-----------------------------------------------------------------------------
LEMMA InitBoundary == Init => Boundary /\ Kept
BY DEF Init, Boundary, Kept, OnTheWay, Ended, Recorded, NetWritten, Writing

LEMMA StartBoundary == Inv /\ Start => Boundary'
<1>. SUFFICES ASSUME Inv, Start
              PROVE  Boundary'
  OBVIOUS
<1>1. /\ pc' = "process" /\ UNCHANGED then
      /\ iterations' = total_steps - (global_step' % total_steps)
  BY DEF Start
<1>2. global_step' \in Int
  BY StartMine DEF Inv, Mine, Types
<1>3. iterations' > 0 /\ (global_step' + iterations') % total_steps = 0
  BY <1>1, <1>2, ToTheBoundary
<1>4. iterations' \in Int
  BY StartMine DEF Inv, Mine, Types
<1>. QED
  BY <1>1, <1>3, <1>4 DEF Boundary, OnTheWay, Ended, Recorded, NetWritten, Writing

LEMMA DecisionBoundary ==
  Inv /\ (Process \/ AfterTrain \/ Test \/ Validate \/ Output) => Boundary'
<1>. SUFFICES ASSUME Inv, Process \/ AfterTrain \/ Test \/ Validate \/ Output
              PROVE  Boundary'
  OBVIOUS
<1>. USE DEF Inv, Mine, Boundary
<1>1. UNCHANGED <<config, iterations, global_step, model, backup, averaging, disk, clock, trained>>
  BY DEF Process, AfterTrain, Test, Validate, Output
<1>2. iterations \in Int
  BY DEF Types
<1>3. FileOf(trained)' = FileOf(trained)
  BY <1>1 DEF FileOf, config
<1>4. CASE Process
  <2>1. /\ pc = "process" /\ pc' \in {"output", "test", "train"}
        /\ (pc' = "output") = (iterations = 0)
    BY <1>4 DEF Process, Goto
  <2>2. OnTheWay'
    <3>1. (global_step + iterations) % total_steps = 0 /\ iterations >= 0
      BY <2>1 DEF OnTheWay
    <3>2. (pc' = "output" => iterations = 0) /\ (pc' \in {"test", "train"} => iterations > 0)
      BY <1>2, <2>1, <3>1
    <3>. QED
      BY <1>1, <2>1, <3>1, <3>2 DEF OnTheWay
  <2>3. Ended' => Ended
    BY <1>1, <2>1 DEF Ended
  <2>4. Recorded' /\ NetWritten'
    BY <1>1, <1>3, <2>1, <2>3 DEF Recorded, NetWritten, Ended, Writing, averaging, disk
  <2>. QED
    BY <2>2, <2>4
<1>5. CASE AfterTrain
  BY <1>1, <1>2, <1>5
     DEF AfterTrain, Goto, OnTheWay, Ended, Recorded, NetWritten, Writing
<1>6. CASE Test
  BY <1>1, <1>2, <1>6
     DEF Test, Goto, Returns, OnTheWay, Ended, Recorded, NetWritten, Writing
<1>7. CASE Validate
  BY <1>1, <1>2, <1>7
     DEF Validate, Goto, OnTheWay, Ended, Recorded, NetWritten, Writing
<1>8. CASE Output
  BY <1>1, <1>2, <1>8
     DEF Output, Goto, OnTheWay, Ended, Recorded, NetWritten, Writing
<1>. QED
  BY <1>4, <1>5, <1>6, <1>7, <1>8

LEMMA TrainBoundary == Inv /\ Train => Boundary'
<1>. SUFFICES ASSUME Inv, Train
              PROVE  Boundary'
  OBVIOUS
<1>. USE DEF Inv, Mine, Boundary
<1>1. CASE ~cfg.wdl
  BY <1>1 DEF Train, Goto, OnTheWay, Ended, Recorded, NetWritten, Writing
<1>2. CASE cfg.wdl
  <2>1. /\ pc = "train" /\ pc' = "trained" /\ global_step' = global_step + 1
        /\ iterations' = iterations - 1
    BY <1>2 DEF Train, Goto
  <2>2. /\ (global_step + iterations) % total_steps = 0 /\ iterations > 0
        /\ global_step \in Int /\ iterations \in Int
    BY <2>1 DEF OnTheWay, Types
  <2>3. iterations' >= 0 /\ global_step' + iterations' = global_step + iterations
    BY <2>1, <2>2
  <2>. QED
    BY <2>1, <2>2, <2>3 DEF OnTheWay, Ended, Recorded, NetWritten, Writing
<1>. QED
  BY <1>1, <1>2

LEMMA SwapBoundary == Inv /\ (SwapIn \/ SwapOut) => Boundary'
<1>. SUFFICES ASSUME Inv, SwapIn \/ SwapOut
              PROVE  Boundary'
  OBVIOUS
<1>. USE DEF Inv, Mine, Boundary
<1>1. UNCHANGED <<config, iterations, global_step, averaging, then, disk, clock, trained>>
  BY DEF SwapIn, SwapOut
<1>2. iterations \in Int
  BY DEF Types
<1>3. FileOf(trained)' = FileOf(trained)
  BY <1>1 DEF FileOf, config
<1>4. CASE SwapIn
  BY <1>1, <1>2, <1>3, <1>4
     DEF SwapIn, Goto, Returns, OnTheWay, Ended, Recorded, NetWritten, Writing, averaging, disk
<1>5. CASE SwapOut
  BY <1>1, <1>2, <1>3, <1>5
     DEF SwapOut, Goto, Returns, OnTheWay, Ended, Recorded, NetWritten, Writing, averaging, disk
<1>. QED
  BY <1>4, <1>5

(* At the end of a run there is a checkpoint to save.                      *)
LEMMA SaveCheckpointBoundary == Inv /\ SaveCheckpoint => Boundary'
<1>. SUFFICES ASSUME Inv, SaveCheckpoint
              PROVE  Boundary'
  OBVIOUS
<1>. USE DEF Inv, Mine, Boundary
<1>1. /\ UNCHANGED <<config, iterations, global_step, model, backup, averaging, nets, clock, trained>>
      /\ pc = "checkpoint" /\ model = trained /\ iterations \in Int /\ iterations >= 0
      /\ (global_step + iterations) % total_steps = 0
  BY DEF SaveCheckpoint, Own, InPlace, Types, OnTheWay
<1>2. CASE Multiple(total_steps) \/ Multiple(checkpoint_steps)
  <2>1. /\ pc' = "open net" /\ then' = "process"
        /\ Save(Checkpoint(global_step, model, swa_weights, swa_count))
    BY <1>2 DEF SaveCheckpoint, Goto
  <2>2. /\ latest' = Checkpoint(global_step, model, swa_weights, swa_count)
        /\ <<global_step, model>> \in saved'
    BY <2>1 DEF Save, Checkpoint
  <2>3. Checkpoint(global_step, trained, swa_weights, swa_count)' =
          Checkpoint(global_step, model, swa_weights, swa_count)
    BY <1>1 DEF Checkpoint, averaging
  <2>. QED
    BY <1>1, <2>1, <2>2, <2>3 DEF OnTheWay, Ended, Recorded, NetWritten, Writing
<1>3. CASE ~Multiple(total_steps) /\ ~Multiple(checkpoint_steps)
  <2>1. iterations # 0
    BY <1>1, <1>3, AtTheBoundary
  <2>. QED
    BY <1>1, <1>3, <2>1 DEF SaveCheckpoint, Goto, OnTheWay, Ended, Recorded, NetWritten, Writing
<1>. QED
  BY <1>2, <1>3

(* The net file of the step is filled with the weights that are trained,   *)
(* and the file of the averaged weights has another name.                  *)
LEMMA NetFileBoundary == Inv /\ (OpenNet \/ FillNetFile) => Boundary'
<1>. SUFFICES ASSUME Inv, OpenNet \/ FillNetFile
              PROVE  Boundary'
  OBVIOUS
<1>. USE DEF Inv, Mine, Boundary
<1>1. UNCHANGED <<config, iterations, global_step, model, backup, averaging, then, latest, saved,
                  clock, trained>>
  BY DEF OpenNet, FillNetFile
<1>2. FileOf(trained)' = FileOf(trained) /\ iterations \in Int
  BY <1>1 DEF FileOf, config, Types
<1>3. CASE OpenNet
  <2>1. CASE pc = "open net"
    BY <1>1, <1>2, <1>3, <2>1
       DEF OpenNet, Goto, Returns, OnTheWay, Ended, Recorded, NetWritten, Writing, averaging
  <2>2. CASE pc = "open swa net"
    <3>1. pc' = "fill swa net" /\ nets' = WithFile(NetName, Torn)
      BY <1>3, <2>2 DEF OpenNet, Goto
    <3>2. then = "process" => NetName = <<"swa", global_step>>
      BY <2>2 DEF NetName
    <3>3. then = "process" =>
            nets'[<<"net", global_step>>] = nets[<<"net", global_step>>]
              /\ <<"net", global_step>> \in DOMAIN nets'
      <4>1. then = "process" =>
              /\ <<"net", global_step>> \in DOMAIN nets
              /\ nets' = WithFile(<<"swa", global_step>>, Torn)
        BY <2>2, <3>1, <3>2 DEF NetWritten
      <4>. QED
        BY <4>1 DEF WithFile
    <3>. QED
      BY <1>1, <1>2, <2>2, <3>1, <3>3 DEF OnTheWay, Ended, Recorded, NetWritten, Writing, averaging
  <2>. QED
    BY <1>3, <2>1, <2>2 DEF OpenNet
<1>4. CASE FillNetFile
  <2>. DEFINE after == IF pc = "fill swa net" THEN "swap out"
                       ELSE IF swa_enabled /\ then # "exit" THEN "swap in to write" ELSE then
  <2>1. pc' = after /\ nets' = WithFile(NetName, FileOf(model)) /\ pc \in {"fill net", "fill swa net"}
    BY <1>4 DEF FillNetFile, Goto
  <2>2. then \in {"process", "exit"}
    BY <2>1 DEF Returns, Writing
  <2>3. then = "process" =>
          nets'[<<"net", global_step>>] = FileOf(trained) /\ <<"net", global_step>> \in DOMAIN nets'
    <3>1. CASE pc = "fill net" /\ then = "process"
      <4>1. NetName = <<"net", global_step>> /\ model = trained
        BY <3>1 DEF NetName, Own, InPlace
      <4>. QED
        BY <2>1, <4>1 DEF WithFile
    <3>2. CASE pc = "fill swa net" /\ then = "process"
      <4>1. NetName = <<"swa", global_step>>
        BY <3>2 DEF NetName
      <4>. QED
        BY <2>1, <3>2, <4>1 DEF WithFile, NetWritten
    <3>. QED
      BY <2>1, <3>1, <3>2
  <2>4. Recorded' /\ NetWritten'
    BY <1>1, <1>2, <2>1, <2>2, <2>3 DEF Recorded, Ended, NetWritten, Writing, averaging
  <2>5. OnTheWay'
    BY <1>1, <2>1, <2>2 DEF OnTheWay
  <2>. QED
    BY <2>4, <2>5
<1>. QED
  BY <1>3, <1>4

LEMMA BoundaryStep == Inv /\ [Next]_vars => Boundary'
<1>. SUFFICES ASSUME Inv, [Next]_vars
              PROVE  Boundary'
  OBVIOUS
<1>1. pc' = "down" => Boundary'
  BY DEF Boundary, OnTheWay, Ended, Recorded, NetWritten, Writing
<1>2. CASE UNCHANGED vars
  BY <1>2 DEF vars, config, averaging, disk, Inv, Boundary, OnTheWay, Ended, Recorded, NetWritten,
              FileOf
<1>3. CASE Start \/ Train \/ SaveCheckpoint
  BY <1>3, StartBoundary, TrainBoundary, SaveCheckpointBoundary, Zenon
<1>4. CASE Process \/ AfterTrain \/ Test \/ Validate \/ Output
  BY <1>4, DecisionBoundary, Zenon
<1>5. CASE SwapIn \/ SwapOut \/ OpenNet \/ FillNetFile
  BY <1>5, SwapBoundary, NetFileBoundary, Zenon
<1>6. CASE Down
  BY <1>1, <1>6 DEF Down
<1>7. CASE ModelToNet \/ \E start \in Starts : NetToModel(start) \/ MakeModel(start) \/ UpdateSteps(start)
  <2>1. Tool
    BY <1>7 DEF ModelToNet, NetToModel, MakeModel, UpdateSteps
  <2>. QED
    BY <1>1, <2>1 DEF Tool
<1>. QED
  BY <1>2, <1>3, <1>4, <1>5, <1>6, <1>7, Zenon DEF Next

-----------------------------------------------------------------------------
(* What is on the disk stays of what was saved.                            *)

LEMMA KeptUntouched ==
  ASSUME Kept, UNCHANGED <<config, disk>>
  PROVE  Kept'
BY DEF Kept, OfSaved, FileOf, config, disk

LEMMA SaveCheckpointKept == Inv /\ SaveCheckpoint => Kept'
<1>. SUFFICES ASSUME Inv, SaveCheckpoint
              PROVE  Kept'
  OBVIOUS
<1>1. UNCHANGED <<config, nets>>
  BY DEF SaveCheckpoint
<1>2. saved \subseteq saved' /\ (latest' # NoCheckpoint => <<latest'.step, latest'.model>> \in saved')
  <2>1. CASE Save(Checkpoint(global_step, model, swa_weights, swa_count))
    BY <2>1 DEF Save
  <2>2. CASE UNCHANGED <<latest, saved>>
    BY <2>2 DEF Inv, Kept
  <2>. QED
    BY <2>1, <2>2 DEF SaveCheckpoint
<1>3. \A name \in DOMAIN nets' : OfSaved(name, nets[name])'
  BY <1>1, <1>2 DEF Inv, Kept, OfSaved, FileOf, config
<1>. QED
  BY <1>2, <1>3 DEF Kept

LEMMA NetFileKept == Inv /\ (OpenNet \/ FillNetFile) => Kept'
<1>. SUFFICES ASSUME Inv, OpenNet \/ FillNetFile
              PROVE  Kept'
  OBVIOUS
<1>. USE DEF Inv
<1>1. UNCHANGED <<config, latest, saved>>
  BY DEF OpenNet, FillNetFile
<1>. DEFINE name == NetName
            file == nets'[name]
<1>2. /\ DOMAIN nets' = {name} \cup DOMAIN nets
      /\ \A n \in DOMAIN nets : n # name => nets'[n] = nets[n]
      /\ file = Torn \/ (FillNetFile /\ file = FileOf(model))
  BY DEF OpenNet, FillNetFile, WithFile
<1>3. OfSaved(name, file)
  <2>1. CASE file = Torn
    BY <2>1 DEF OfSaved
  <2>2. CASE FillNetFile /\ file = FileOf(model) /\ name[1] = "net"
    <3>1. pc = "fill net" /\ then # "exit" /\ name = <<"net", global_step>>
      BY <2>2 DEF FillNetFile, NetName
    <3>2. then = "process" /\ model = trained
      BY <3>1 DEF Mine, Returns, Own, Writing, InPlace
    <3>3. <<name[2], model>> \in saved /\ model \in AnyWeights
      BY <3>1, <3>2 DEF Boundary, Recorded, Writing, Mine, Types
    <3>. QED
      BY <2>2, <3>3 DEF OfSaved
  <2>. QED
    BY <1>2, <2>1, <2>2 DEF OfSaved
<1>. HIDE DEF name
<1>4. \A n \in DOMAIN nets' : OfSaved(n, nets'[n])
  BY <1>2, <1>3 DEF Kept
<1>5. \A n \in DOMAIN nets' : OfSaved(n, nets[n])'
  BY <1>1, <1>4 DEF OfSaved, FileOf, config
<1>. QED
  BY <1>1, <1>5 DEF Kept

(* A tool that writes the nets of a checkpoint that is saved with it.      *)
LEMMA NetFilesKept ==
  ASSUME Inv, NEW ckpt \in AnyCheckpoint, UNCHANGED config, nets' = WithNetFiles(ckpt),
         saved \subseteq saved', <<ckpt.step, ckpt.model>> \in saved'
  PROVE  \A name \in DOMAIN nets' : OfSaved(name, nets[name])'
<1>. DEFINE net == <<"net", ckpt.step>>
            swa == <<"swa", ckpt.step>>
<1>1. /\ nets'[net] = FileOf(ckpt.model)
      /\ \A n \in DOMAIN nets' : n = net \/ n = swa \/ (n \in DOMAIN nets /\ nets'[n] = nets[n])
  BY NetFilesHold DEF Inv, Mine
<1>2. ckpt.model \in AnyWeights
  BY DEF AnyCheckpoint
<1>. SUFFICES ASSUME NEW name \in DOMAIN nets'
              PROVE  OfSaved(name, nets[name])'
  OBVIOUS
<1>3. CASE name = net
  BY <1>1, <1>2, <1>3 DEF OfSaved, FileOf, config
<1>4. CASE name = swa
  BY <1>4 DEF OfSaved
<1>5. CASE name \in DOMAIN nets /\ nets'[name] = nets[name]
  BY <1>5 DEF Inv, Kept, OfSaved, FileOf, config
<1>. QED
  BY <1>1, <1>3, <1>4, <1>5

LEMMA ToolsKept ==
  ASSUME Inv,
         ModelToNet \/ \E start \in Starts : NetToModel(start) \/ MakeModel(start) \/ UpdateSteps(start)
  PROVE  Kept'
<1>. USE DEF Inv
<1>1. UNCHANGED config
  BY DEF ModelToNet, NetToModel, MakeModel, UpdateSteps, Tool
<1>2. ASSUME NEW ckpt, Save(ckpt)
      PROVE  saved \subseteq saved' /\ latest' = ckpt /\ <<ckpt.step, ckpt.model>> \in saved'
  BY <1>2 DEF Save
<1>3. ASSUME NEW ckpt, Save(ckpt), nets' = nets
      PROVE  Kept'
  BY <1>1, <1>2, <1>3 DEF Kept, OfSaved, FileOf, config
<1>4. CASE \E start \in Starts : NetToModel(start) \/ UpdateSteps(start)
  BY <1>3, <1>4 DEF NetToModel, UpdateSteps
<1>5. CASE ModelToNet
  <2>1. /\ latest \in AnyCheckpoint /\ <<latest.step, latest.model>> \in saved
        /\ nets' = WithNetFiles(latest) /\ UNCHANGED <<latest, saved>>
    BY <1>5 DEF ModelToNet, Mine, Types, Kept
  <2>2. \A name \in DOMAIN nets' : OfSaved(name, nets[name])'
    BY <1>1, <2>1, NetFilesKept
  <2>. QED
    BY <2>1, <2>2 DEF Kept
<1>6. ASSUME NEW start \in Starts, MakeModel(start)
      PROVE  Kept'
  <2>. DEFINE w == Fresh({clock + 1})  ckpt == Checkpoint(start, w, Average(w), 0)
  <2>1. ckpt \in AnyCheckpoint
    <3>1. {clock + 1} \in SUBSET Nat
      BY DEF Mine, Types
    <3>. QED
      BY <3>1, FreshTyped, AverageTyped, CheckpointTyped, NumbersAssumption
  <2>2. Save(ckpt) /\ nets' = WithNetFiles(ckpt)
    BY <1>6 DEF MakeModel
  <2>. HIDE DEF ckpt
  <2>3. saved \subseteq saved' /\ latest' = ckpt /\ <<ckpt.step, ckpt.model>> \in saved'
    BY <2>2 DEF Save
  <2>4. \A name \in DOMAIN nets' : OfSaved(name, nets[name])'
    BY <1>1, <2>1, <2>2, <2>3, NetFilesKept
  <2>. QED
    BY <2>3, <2>4 DEF Kept
<1>. QED
  BY <1>4, <1>5, <1>6

LEMMA KeptStep == Inv /\ [Next]_vars => Kept'
<1>. SUFFICES ASSUME Inv, [Next]_vars
              PROVE  Kept'
  OBVIOUS
<1>1. CASE \/ UNCHANGED vars \/ Start \/ Process \/ Train \/ AfterTrain \/ Test \/ SwapIn
           \/ SwapOut \/ Validate \/ Output \/ Down
  <2>1. UNCHANGED <<config, disk>>
    BY <1>1 DEF vars, Start, Process, Train, AfterTrain, Test, SwapIn, SwapOut, Validate, Output,
                Down
  <2>. QED
    BY <2>1, KeptUntouched DEF Inv
<1>2. CASE SaveCheckpoint \/ OpenNet \/ FillNetFile
  BY <1>2, SaveCheckpointKept, NetFileKept, Zenon
<1>3. CASE ModelToNet \/ \E start \in Starts : NetToModel(start) \/ MakeModel(start) \/ UpdateSteps(start)
  BY <1>3, ToolsKept, Zenon
<1>. QED
  BY <1>1, <1>2, <1>3, Zenon DEF Next

LEMMA InvInductive ==
  /\ Init => Inv
  /\ Inv /\ [Next]_vars => Inv'
<1>1. Init => Inv
  BY InitMine, InitBoundary, Zenon DEF Inv
<1>2. Inv /\ [Next]_vars => Inv'
  BY MineStep, BoundaryStep, KeptStep, Zenon DEF Inv
<1>. QED
  BY <1>1, <1>2, Zenon

(* A run that ends by itself has made a multiple of total_steps, wherever  *)
(* it was resumed, and its weights are in the latest checkpoint and in the *)
(* net file of the step.                                                   *)
THEOREM EndsOnBoundary == Spec => []RunEndsOnBoundary
<1>1. Inv => RunEndsOnBoundary
  <2>. SUFFICES ASSUME Inv, pc = "output"
                PROVE  /\ Multiple(total_steps)
                       /\ latest = Checkpoint(global_step, model, swa_weights, swa_count)
                       /\ nets[<<"net", global_step>>] = FileOf(model)
    BY DEF RunEndsOnBoundary
  <2>1. iterations = 0 /\ model = trained
    BY DEF Inv, Mine, Boundary, OnTheWay, Own, InPlace
  <2>2. Multiple(total_steps)
    BY <2>1, AtTheBoundary DEF Inv, Mine, Boundary
  <2>. QED
    BY <2>1, <2>2 DEF Inv, Boundary, Recorded, NetWritten, Ended
<1>. QED
  BY InvInductive, <1>1, PTL DEF Spec

(* Whatever was killed when and whichever tools were run, a complete net   *)
(* file reads back as the weights of a checkpoint saved at its step, given *)
(* that in each of the configurations every tensor, and every row of the   *)
(* text format, reads back as itself: that is a computation on the         *)
(* tensors of one configuration, which TLC makes for the configurations of *)
(* its run.                                                                *)
THEOREM NetsComeBack ==
  ASSUME \A c \in Configs :
           /\ ReadsBack(c)
           /\ c.policy # "attention" =>
                TextReadsBack(TRUE, c.policy = "convolution", c.residual_blocks)
  PROVE  Spec => []NetsReproducible
<1>1. Inv => NetsReproducible
  <2>. SUFFICES ASSUME Inv
                PROVE  NetsReproducible
    OBVIOUS
  <2>1. cfg \in Configs
    BY DEF Inv, Mine, Types
  <2>2. ReadableConfigs[cfg]
    BY <2>1 DEF ReadableConfigs
  <2>3. ASSUME NEW name \in DOMAIN nets, name[1] = "net", nets[name] # Torn
        PROVE  LET w == WeightsOf(nets[name])
                   whole == [w EXCEPT !.rule50 = @ + (IF LosesRule50(cfg) THEN 1 ELSE 0)]
               IN  <<name[2], whole>> \in saved
    <3>1. PICK v \in AnyWeights : <<name[2], v>> \in saved /\ nets[name] = FileOf(v)
      BY <2>3 DEF Inv, Kept, OfSaved
    <3>. DEFINE lost == IF LosesRule50(cfg) THEN 1 ELSE 0
                w == WeightsOf(nets[name])
                whole == [w EXCEPT !.rule50 = @ + lost]
    <3>2. w = [versions |-> v.versions, rule50 |-> v.rule50 + FillPower(cfg) + ReplacePower(cfg)]
      BY <2>2, <3>1 DEF WeightsOf, FileOf
    <3>3. /\ FillPower(cfg) \in Int /\ ReplacePower(cfg) \in Int
          /\ FillPower(cfg) + ReplacePower(cfg) + lost = 0 /\ lost \in Int
      BY <2>1, Powers
    <3>. HIDE DEF w, lost
    <3>4. whole = [versions |-> v.versions,
                   rule50 |-> v.rule50 + FillPower(cfg) + ReplacePower(cfg) + lost]
      BY <3>2
    <3>5. v.rule50 + FillPower(cfg) + ReplacePower(cfg) + lost = v.rule50
      BY <3>3 DEF AnyWeights
    <3>6. whole = v
      BY <3>4, <3>5 DEF AnyWeights
    <3>. QED
      BY <3>1, <3>6 DEF w, lost
  <2>4. cfg.policy # "attention" =>
          TextReadsBack(TRUE, cfg.policy = "convolution", cfg.residual_blocks)
    BY <2>1
  <2>. QED
    BY <2>3, <2>4 DEF NetsReproducible
<1>. QED
  BY InvInductive, <1>1, PTL DEF Spec

-----------------------------------------------------------------------------
(* ChunkParser.  Bags: of functions on finite sets.                        *)

With(f, x) == {p \in DOMAIN f : f[p] = x}

LEMMA BagOfType ==
  ASSUME NEW f, IsFiniteSet(DOMAIN f), NEW x
  PROVE  /\ IsFiniteSet(With(f, x)) /\ Cardinality(With(f, x)) \in Nat
         /\ x \in Range(f) <=> With(f, x) # {}
         /\ x \in Range(f) => Cardinality(With(f, x)) > 0
         /\ DOMAIN BagOf(f) = Range(f)
         /\ x \in Range(f) => BagOf(f)[x] = Cardinality(With(f, x))
<1>1. IsFiniteSet(With(f, x))
  BY FS_Subset DEF With
<1>2. Cardinality(With(f, x)) \in Nat
  BY <1>1, FS_CardinalityType
<1>3. x \in Range(f) <=> With(f, x) # {}
  BY DEF Range, With
<1>4. With(f, x) # {} => Cardinality(With(f, x)) # 0
  BY <1>1, FS_EmptySet
<1>5. /\ DOMAIN BagOf(f) = Range(f)
      /\ x \in Range(f) => BagOf(f)[x] = Cardinality(With(f, x))
  BY DEF BagOf, With
<1>. QED
  BY <1>1, <1>2, <1>3, <1>4, <1>5

(* A bag is known by how often each value is there.                        *)
LEMMA SameBag ==
  ASSUME NEW f, NEW g, IsFiniteSet(DOMAIN f), IsFiniteSet(DOMAIN g),
         \A x : Cardinality(With(g, x)) = Cardinality(With(f, x))
  PROVE  BagOf(g) = BagOf(f)
<1>1. \A x : x \in Range(g) <=> Cardinality(With(g, x)) > 0
  <2>. TAKE x
  <2>1. With(g, x) = {} => Cardinality(With(g, x)) = 0
    BY FS_EmptySet
  <2>. QED
    BY <2>1, BagOfType
<1>2. \A x : x \in Range(f) <=> Cardinality(With(f, x)) > 0
  <2>. TAKE x
  <2>1. With(f, x) = {} => Cardinality(With(f, x)) = 0
    BY FS_EmptySet
  <2>. QED
    BY <2>1, BagOfType
<1>3. Range(g) = Range(f)
  BY <1>1, <1>2
<1>. QED
  BY <1>3 DEF BagOf, With

(* A place more, with the value r.                                         *)
LEMMA OneMore ==
  ASSUME NEW f, NEW g, NEW place, IsFiniteSet(DOMAIN f), place \notin DOMAIN f,
         DOMAIN g = DOMAIN f \cup {place}, \A q \in DOMAIN f : g[q] = f[q]
  PROVE  BagOf(g) = BagOf(f) (+) SetToBag({g[place]}) /\ IsFiniteSet(DOMAIN g)
<1>. DEFINE r == g[place]
            bag == BagOf(f)
<1>1. IsFiniteSet(DOMAIN g)
  BY FS_AddElement
<1>2. Range(g) = Range(f) \cup {r}
  BY DEF Range
<1>3. \A x : x # r => With(g, x) = With(f, x)
  BY DEF With
<1>4. With(g, r) = With(f, r) \cup {place} /\ place \notin With(f, r)
  BY DEF With
<1>5. Cardinality(With(g, r)) = Cardinality(With(f, r)) + 1
  <2>1. IsFiniteSet(With(f, r))
    BY BagOfType
  <2>. HIDE DEF r
  <2>. QED
    BY <1>4, <2>1, FS_AddElement
<1>6. CASE r \in Range(f)
  <2>1. BagOf(g) = [e \in Range(f) |-> IF e = r THEN bag[e] + 1 ELSE bag[e]]
    <3>1. Range(g) = Range(f)
      BY <1>2, <1>6
    <3>2. \A e \in Range(f) : Cardinality(With(g, e)) = IF e = r THEN bag[e] + 1 ELSE bag[e]
      BY <1>3, <1>5, BagOfType
    <3>. QED
      BY <3>1, <3>2 DEF BagOf, With
  <2>. QED
    BY <1>1, <1>6, <2>1, BagOfType DEF (+), SetToBag
<1>7. CASE r \notin Range(f)
  <2>1. Cardinality(With(f, r)) = 0
    BY <1>7, BagOfType, FS_EmptySet
  <2>2. BagOf(g) = [e \in Range(f) \cup {r} |-> IF e = r THEN 1 ELSE bag[e]]
    <3>1. \A e \in Range(g) : Cardinality(With(g, e)) = IF e = r THEN 1 ELSE bag[e]
      BY <1>2, <1>3, <1>5, <2>1, BagOfType
    <3>. QED
      BY <1>2, <3>1 DEF BagOf, With
  <2>. QED
    BY <1>1, <1>7, <2>2, BagOfType DEF (+), SetToBag
<1>. QED
  BY <1>6, <1>7

(* The values of f, each at the place that h names for it.                 *)
LEMMA Renamed ==
  ASSUME NEW f, NEW g, NEW h \in Bijection(DOMAIN f, DOMAIN g), IsFiniteSet(DOMAIN f),
         \A q \in DOMAIN f : g[h[q]] = f[q]
  PROVE  BagOf(g) = BagOf(f) /\ IsFiniteSet(DOMAIN g)
<1>1. IsFiniteSet(DOMAIN g)
  BY FS_Bijection DEF ExistsBijection
<1>2. ASSUME NEW x
      PROVE  Cardinality(With(g, x)) = Cardinality(With(f, x))
  <2>. DEFINE k == [q \in With(f, x) |-> h[q]]
  <2>1. /\ h \in [DOMAIN f -> DOMAIN g] /\ \A a, b \in DOMAIN f : h[a] = h[b] => a = b
        /\ \A t \in DOMAIN g : \E q \in DOMAIN f : h[q] = t
    BY DEF Bijection, Injection, Surjection, IsInjective
  <2>2. k \in [With(f, x) -> With(g, x)]
    BY <2>1 DEF With
  <2>3. \A a, b \in With(f, x) : k[a] = k[b] => a = b
    BY <2>1 DEF With
  <2>4. \A t \in With(g, x) : \E q \in With(f, x) : k[q] = t
    BY <2>1 DEF With
  <2>5. k \in Bijection(With(f, x), With(g, x))
    BY <2>2, <2>3, <2>4 DEF Bijection, Injection, Surjection, IsInjective
  <2>. QED
    BY <2>5, BagOfType, FS_Bijection DEF ExistsBijection
<1>. QED
  BY <1>1, <1>2, SameBag

(* A value is given up for another.                                        *)
LEMMA Swapped ==
  ASSUME NEW f, NEW g, NEW place \in DOMAIN f, IsFiniteSet(DOMAIN f), DOMAIN g = DOMAIN f,
         \A q \in DOMAIN f : q # place => g[q] = f[q]
  PROVE  BagOf(f) (+) SetToBag({g[place]}) = BagOf(g) (+) SetToBag({f[place]})
<1>. DEFINE rest == [q \in DOMAIN f \ {place} |-> f[q]]
<1>1. DOMAIN rest = DOMAIN f \ {place} /\ IsFiniteSet(DOMAIN rest)
  BY FS_Subset
<1>2. \A q \in DOMAIN rest : rest[q] = f[q] /\ rest[q] = g[q]
  OBVIOUS
<1>. HIDE DEF rest
<1>3. BagOf(f) = BagOf(rest) (+) SetToBag({f[place]})
  BY <1>1, <1>2, OneMore
<1>4. BagOf(g) = BagOf(rest) (+) SetToBag({g[place]})
  BY <1>1, <1>2, OneMore
<1>. DEFINE bag == BagOf(rest)
            x == f[place]
            y == g[place]
<1>5. \A e \in DOMAIN bag : bag[e] \in Nat
  BY <1>1, BagOfType
<1>. HIDE DEF bag, x, y
<1>6. (bag (+) SetToBag({x})) (+) SetToBag({y}) = (bag (+) SetToBag({y})) (+) SetToBag({x})
  BY <1>5 DEF (+), SetToBag
<1>. QED
  BY <1>3, <1>4, <1>6 DEF bag, x, y

(* The values of the sequence b are taken away from those of f.            *)
LEMMA TakenAway ==
  ASSUME NEW f, NEW g, NEW b, IsFiniteSet(DOMAIN f), DOMAIN g \subseteq DOMAIN f,
         \A q \in DOMAIN g : g[q] = f[q],
         NEW h \in Bijection(DOMAIN f \ DOMAIN g, DOMAIN b),
         \A q \in DOMAIN f \ DOMAIN g : b[h[q]] = f[q]
  PROVE  BagOf(g) = BagOf(f) (-) BagOf(b)
<1>. DEFINE rest == [q \in DOMAIN f \ DOMAIN g |-> f[q]]
<1>1. IsFiniteSet(DOMAIN g) /\ DOMAIN rest = DOMAIN f \ DOMAIN g /\ IsFiniteSet(DOMAIN rest)
  BY FS_Subset
<1>2. \A q \in DOMAIN rest : rest[q] = f[q]
  OBVIOUS
<1>. HIDE DEF rest
<1>3. BagOf(b) = BagOf(rest)
  BY <1>1, <1>2, Renamed
<1>4. ASSUME NEW x
      PROVE  Cardinality(With(f, x)) = Cardinality(With(g, x)) + Cardinality(With(rest, x))
  <2>1. With(f, x) = With(g, x) \cup With(rest, x) /\ With(g, x) \cap With(rest, x) = {}
    BY <1>1, <1>2 DEF With
  <2>2. /\ IsFiniteSet(With(g, x)) /\ IsFiniteSet(With(rest, x))
        /\ Cardinality(With(g, x)) \in Nat /\ Cardinality(With(rest, x)) \in Nat
    BY <1>1, BagOfType
  <2>3. Cardinality(With(f, x))
          = Cardinality(With(g, x)) + Cardinality(With(rest, x))
              - Cardinality(With(g, x) \cap With(rest, x))
    BY <2>1, <2>2, FS_Union
  <2>4. Cardinality(With(g, x) \cap With(rest, x)) = 0
    BY <2>1, FS_EmptySet
  <2>. QED
    BY <2>2, <2>3, <2>4
<1>. DEFINE bag == BagOf(f)
            off == BagOf(rest)
            left == [e \in DOMAIN bag |-> IF e \in DOMAIN off THEN bag[e] - off[e] ELSE bag[e]]
<1>5. Range(g) \subseteq Range(f)
  BY DEF Range
<1>6. ASSUME NEW e \in Range(f)
      PROVE  /\ left[e] = Cardinality(With(g, e))
             /\ left[e] > 0 <=> e \in Range(g)
  <2>1. e \notin Range(rest) => Cardinality(With(rest, e)) = 0
    BY <1>1, BagOfType, FS_EmptySet
  <2>2. e \notin Range(g) => Cardinality(With(g, e)) = 0
    BY <1>1, BagOfType, FS_EmptySet
  <2>3. e \in DOMAIN bag /\ bag[e] = Cardinality(With(f, e))
    BY BagOfType
  <2>4. (e \in DOMAIN off <=> e \in Range(rest)) /\ (e \in Range(rest) => off[e] = Cardinality(With(rest, e)))
    BY <1>1, BagOfType
  <2>5. Cardinality(With(g, e)) \in Nat /\ Cardinality(With(rest, e)) \in Nat
        /\ (e \in Range(g) => Cardinality(With(g, e)) > 0)
    BY <1>1, BagOfType
  <2>. HIDE DEF bag, off
  <2>6. left[e] = Cardinality(With(g, e))
    BY <1>4, <2>1, <2>3, <2>4, <2>5
  <2>. QED
    BY <2>2, <2>5, <2>6
<1>7. DOMAIN left = Range(f)
  BY BagOfType
<1>8. bag (-) off = [e \in {d \in DOMAIN left : left[d] > 0} |-> left[e]]
  BY DEF (-)
<1>. HIDE DEF left, bag, off
<1>9. {d \in DOMAIN left : left[d] > 0} = Range(g)
  BY <1>5, <1>6, <1>7
<1>10. bag (-) off = [e \in Range(g) |-> Cardinality(With(g, e))]
  BY <1>5, <1>6, <1>8, <1>9
<1>. QED
  BY <1>3, <1>10 DEF BagOf, With, bag, off

-----------------------------------------------------------------------------
(* ChunkParser.  Shelves: sequences of things, by the name of the shelf.   *)

Stock(shelves) == [p \in Places(shelves) |-> shelves[p[1]][p[2]]]

Laid(shelves) ==
  /\ IsFiniteSet(Places(shelves)) /\ DOMAIN Stock(shelves) = Places(shelves)
  /\ \A k \in DOMAIN shelves : \A i \in 1 .. Len(shelves[k]) :
       <<k, i>> \in Places(shelves) /\ Stock(shelves)[<<k, i>>] = shelves[k][i]
  /\ \A p \in Places(shelves) : \E k \in DOMAIN shelves : \E i \in 1 .. Len(shelves[k]) : p = <<k, i>>
  /\ Contents(shelves) = BagOf(Stock(shelves))

LEMMA StockType ==
  ASSUME NEW R, NEW shelves, IsFiniteSet(DOMAIN shelves),
         \A k \in DOMAIN shelves : shelves[k] \in Seq(R)
  PROVE  Laid(shelves)
<1>. DEFINE row(k) == {k} \X DOMAIN shelves[k]
<1>1. ASSUME NEW k \in DOMAIN shelves
      PROVE  DOMAIN shelves[k] = 1 .. Len(shelves[k]) /\ IsFiniteSet(row(k))
  <2>1. DOMAIN shelves[k] = 1 .. Len(shelves[k]) /\ Len(shelves[k]) \in Int
    OBVIOUS
  <2>2. IsFiniteSet(1 .. Len(shelves[k]))
    BY <2>1, 1 \in Int, FS_Interval
  <2>3. IsFiniteSet({k})
    BY FS_Singleton
  <2>. QED
    BY <2>1, <2>2, <2>3, FS_Product
<1>. DEFINE rows == {row(k) : k \in DOMAIN shelves}
            f == [k \in DOMAIN shelves |-> row(k)]
<1>2. IsFiniteSet(rows)
  <2>1. f \in Surjection(DOMAIN shelves, rows)
    BY DEF Surjection
  <2>. HIDE DEF f, rows
  <2>. QED
    BY <2>1, FS_Surjection DEF ExistsSurjection
<1>3. \A T \in rows : IsFiniteSet(T)
  BY <1>1
<1>4. Places(shelves) = UNION rows
  BY DEF Places
<1>. HIDE DEF rows
<1>5. IsFiniteSet(Places(shelves))
  BY <1>2, <1>3, <1>4, FS_UNION
<1>6. ASSUME NEW k \in DOMAIN shelves, NEW i \in 1 .. Len(shelves[k])
      PROVE  <<k, i>> \in Places(shelves) /\ Stock(shelves)[<<k, i>>] = shelves[k][i]
  <2>1. <<k, i>> \in Places(shelves)
    BY <1>1 DEF Places
  <2>. QED
    BY <2>1 DEF Stock
<1>7. ASSUME NEW p \in Places(shelves)
      PROVE  \E k \in DOMAIN shelves : \E i \in 1 .. Len(shelves[k]) : p = <<k, i>>
  <2>1. PICK k \in DOMAIN shelves : p \in {k} \X DOMAIN shelves[k]
    BY DEF Places
  <2>. QED
    BY <1>1, <2>1
<1>8. DOMAIN Stock(shelves) = Places(shelves) /\ Contents(shelves) = BagOf(Stock(shelves))
  BY DEF Stock, Contents
<1>. QED
  BY <1>5, <1>6, <1>7, <1>8 DEF Laid

(* A bag with one thing more. *)
Plus(bag, x) == bag (+) SetToBag({x})

(* What is done on one shelf only. *)
Elsewhere(shelves, after, k) ==
  DOMAIN after = DOMAIN shelves /\ \A l \in DOMAIN shelves : l # k => after[l] = shelves[l]

LEMMA Put ==
  ASSUME NEW R, NEW shelves, NEW after, NEW k \in DOMAIN shelves, NEW r \in R,
         IsFiniteSet(DOMAIN shelves), \A l \in DOMAIN shelves : shelves[l] \in Seq(R),
         Elsewhere(shelves, after, k), after[k] = Append(shelves[k], r)
  PROVE  Contents(after) = Plus(Contents(shelves), r)
<1>. DEFINE n == Len(shelves[k]) + 1
            new == <<k, n>>
            f == Stock(shelves)
            g == Stock(after)
<1>1. /\ DOMAIN after = DOMAIN shelves /\ \A l \in DOMAIN after : after[l] \in Seq(R)
      /\ \A l \in DOMAIN after : l # k => after[l] = shelves[l]
      /\ n \in Nat /\ Len(shelves[k]) \in Nat /\ Len(after[k]) = n /\ after[k][n] = r
      /\ \A i \in 1 .. Len(shelves[k]) : after[k][i] = shelves[k][i]
  BY AppendProperties DEF Elsewhere
<1>2. Laid(shelves) /\ Laid(after)
  BY <1>1, StockType
<1>3. ASSUME NEW p \in Places(shelves)
      PROVE  p # new /\ p \in Places(after) /\ g[p] = f[p]
  <2>1. PICK l \in DOMAIN shelves : \E i \in 1 .. Len(shelves[l]) : p = <<l, i>>
    BY <1>2 DEF Laid
  <2>2. PICK i \in 1 .. Len(shelves[l]) : p = <<l, i>>
    BY <2>1
  <2>3. f[p] = shelves[l][i]
    BY <1>2, <2>2 DEF Laid
  <2>5. CASE l = k
    <3>1. i \in 1 .. Len(after[l]) /\ after[l][i] = shelves[l][i] /\ i # n
      BY <1>1, <2>5
    <3>2. p \in Places(after) /\ g[p] = after[l][i]
      BY <1>1, <1>2, <2>2, <3>1 DEF Laid
    <3>. QED
      BY <2>2, <2>3, <3>1, <3>2
  <2>6. CASE l # k
    <3>1. i \in 1 .. Len(after[l]) /\ after[l][i] = shelves[l][i]
      BY <1>1, <2>6
    <3>2. p \in Places(after) /\ g[p] = after[l][i]
      BY <1>1, <1>2, <2>2, <3>1 DEF Laid
    <3>. QED
      BY <2>2, <2>3, <2>6, <3>1, <3>2
  <2>. QED
    BY <2>5, <2>6
<1>4. new \in Places(after) /\ g[new] = r
  BY <1>1, <1>2 DEF Laid
<1>5. ASSUME NEW p \in Places(after), p # new
      PROVE  p \in Places(shelves)
  <2>1. PICK l \in DOMAIN after : \E i \in 1 .. Len(after[l]) : p = <<l, i>>
    BY <1>2 DEF Laid
  <2>2. PICK i \in 1 .. Len(after[l]) : p = <<l, i>>
    BY <2>1
  <2>3. l # k \/ i # n
    BY <1>5, <2>2
  <2>4. i \in 1 .. Len(shelves[l])
    BY <1>1, <2>3
  <2>. QED
    BY <1>1, <1>2, <2>2, <2>4 DEF Laid
<1>. HIDE DEF n, new, f, g
<1>6. /\ Places(after) = Places(shelves) \cup {new} /\ new \notin Places(shelves)
      /\ IsFiniteSet(DOMAIN f) /\ DOMAIN f = Places(shelves) /\ DOMAIN g = Places(after)
  BY <1>2, <1>3, <1>4, <1>5 DEF Laid, f, g
<1>7. BagOf(g) = BagOf(f) (+) SetToBag({g[new]})
  BY <1>3, <1>6, OneMore
<1>. QED
  BY <1>2, <1>4, <1>7 DEF Plus, Laid, f, g

(* The thing at i on the shelf k gives way to r. *)
OneReplaced(shelves, after, k, i, r) ==
  /\ Elsewhere(shelves, after, k) /\ i \in 1 .. Len(shelves[k])
  /\ Len(after[k]) = Len(shelves[k]) /\ after[k][i] = r
  /\ \A j \in 1 .. Len(shelves[k]) : j # i => after[k][j] = shelves[k][j]

(* What was x for the one and is y for the other makes them alike. *)
Alike(shelves, x, after, y) == Plus(Contents(shelves), x) = Plus(Contents(after), y)

LEMMA Exchange ==
  ASSUME NEW R, NEW shelves, NEW after, NEW k \in DOMAIN shelves, NEW i, NEW r, NEW old,
         IsFiniteSet(DOMAIN shelves), \A l \in DOMAIN shelves : shelves[l] \in Seq(R),
         after[k] \in Seq(R), OneReplaced(shelves, after, k, i, r), old = shelves[k][i]
  PROVE  Alike(shelves, r, after, old)
<1>. DEFINE there == <<k, i>>
            f == Stock(shelves)
            g == Stock(after)
<1>1. /\ DOMAIN after = DOMAIN shelves /\ \A l \in DOMAIN after : after[l] \in Seq(R)
      /\ \A l \in DOMAIN after : l # k => after[l] = shelves[l]
      /\ Len(after[k]) = Len(shelves[k]) /\ after[k][i] = r
      /\ \A j \in 1 .. Len(shelves[k]) : j # i => after[k][j] = shelves[k][j]
      /\ i \in 1 .. Len(shelves[k])
  BY DEF Elsewhere, OneReplaced
<1>2. Laid(shelves) /\ Laid(after)
  BY <1>1, StockType
<1>3. there \in Places(shelves) /\ f[there] = shelves[k][i] /\ g[there] = r
  BY <1>1, <1>2 DEF Laid
<1>4. ASSUME NEW p \in Places(shelves)
      PROVE  p \in Places(after) /\ (p # there => g[p] = f[p])
  <2>1. PICK l \in DOMAIN shelves : \E j \in 1 .. Len(shelves[l]) : p = <<l, j>>
    BY <1>2 DEF Laid
  <2>2. PICK j \in 1 .. Len(shelves[l]) : p = <<l, j>>
    BY <2>1
  <2>3. f[p] = shelves[l][j] /\ j \in 1 .. Len(after[l])
    BY <1>1, <1>2, <2>2 DEF Laid
  <2>4. p \in Places(after) /\ g[p] = after[l][j]
    BY <1>1, <1>2, <2>2, <2>3 DEF Laid
  <2>5. p # there => l # k \/ j # i
    BY <2>2
  <2>. QED
    BY <1>1, <2>2, <2>3, <2>4, <2>5
<1>5. ASSUME NEW p \in Places(after)
      PROVE  p \in Places(shelves)
  <2>1. PICK l \in DOMAIN after : \E j \in 1 .. Len(after[l]) : p = <<l, j>>
    BY <1>2 DEF Laid
  <2>2. PICK j \in 1 .. Len(after[l]) : p = <<l, j>>
    BY <2>1
  <2>3. j \in 1 .. Len(shelves[l])
    BY <1>1
  <2>. QED
    BY <1>1, <1>2, <2>2, <2>3 DEF Laid
<1>. HIDE DEF there, f, g
<1>6. /\ Places(after) = Places(shelves) /\ IsFiniteSet(DOMAIN f)
      /\ DOMAIN f = Places(shelves) /\ DOMAIN g = Places(after)
  BY <1>2, <1>4, <1>5 DEF Laid, f, g
<1>7. BagOf(f) (+) SetToBag({g[there]}) = BagOf(g) (+) SetToBag({f[there]})
  BY <1>3, <1>4, <1>6, Swapped
<1>. QED
  BY <1>2, <1>3, <1>7 DEF Alike, Plus, Laid, f, g

LEMMA TakeFirst ==
  ASSUME NEW R, NEW shelves, NEW after, NEW k \in DOMAIN shelves,
         IsFiniteSet(DOMAIN shelves), \A l \in DOMAIN shelves : shelves[l] \in Seq(R),
         Elsewhere(shelves, after, k), shelves[k] # <<>>, after[k] = Tail(shelves[k])
  PROVE  Contents(shelves) = Plus(Contents(after), Head(shelves[k]))
<1>. DEFINE f == Stock(after)
            g == Stock(shelves)
            n == Len(shelves[k])
            first == <<k, 1>>
            rest == [p \in Places(shelves) \ {first} |-> g[p]]
            h == [p \in Places(after) |-> IF p[1] = k THEN <<k, p[2] + 1>> ELSE p]
<1>1. /\ DOMAIN after = DOMAIN shelves /\ \A l \in DOMAIN after : after[l] \in Seq(R)
      /\ \A l \in DOMAIN after : l # k => after[l] = shelves[l]
      /\ n \in Nat \ {0} /\ Len(after[k]) = n - 1 /\ Head(shelves[k]) = shelves[k][1]
      /\ \A i \in 1 .. n - 1 : after[k][i] = shelves[k][i + 1]
  BY DEF Elsewhere
<1>2. Laid(shelves) /\ Laid(after)
  BY <1>1, StockType
<1>3. first \in Places(shelves) /\ g[first] = Head(shelves[k])
  BY <1>1, <1>2 DEF Laid
<1>4. /\ IsFiniteSet(Places(shelves)) /\ DOMAIN g = Places(shelves) /\ DOMAIN f = Places(after)
      /\ IsFiniteSet(Places(after))
  BY <1>2 DEF Laid
<1>5. /\ DOMAIN rest = Places(shelves) \ {first} /\ \A p \in DOMAIN rest : g[p] = rest[p]
  OBVIOUS
<1>6. ASSUME NEW p \in Places(after)
      PROVE  /\ h[p] \in Places(shelves) \ {first} /\ g[h[p]] = f[p]
             /\ \E l \in DOMAIN shelves : \E i \in Nat :
                  p = <<l, i>> /\ h[p] = <<l, IF l = k THEN i + 1 ELSE i>>
  <2>1. PICK l \in DOMAIN after : \E i \in 1 .. Len(after[l]) : p = <<l, i>>
    BY <1>2 DEF Laid
  <2>2. PICK i \in 1 .. Len(after[l]) : p = <<l, i>>
    BY <2>1
  <2>3. p[1] = l /\ p[2] = i /\ f[p] = after[l][i] /\ i \in Nat
    BY <1>1, <1>2, <2>2 DEF Laid
  <2>. DEFINE j == IF l = k THEN i + 1 ELSE i
  <2>4. h[p] = <<l, j>>
    BY <2>2, <2>3
  <2>5. j \in 1 .. Len(shelves[l]) /\ shelves[l][j] = after[l][i] /\ (l # k \/ j # 1)
    <3>1. CASE l = k
      <4>1. i \in 1 .. n - 1 /\ j = i + 1
        BY <1>1, <3>1
      <4>2. j \in 1 .. n /\ j # 1
        BY <1>1, <4>1
      <4>. QED
        BY <1>1, <3>1, <4>1, <4>2
    <3>2. CASE l # k
      BY <1>1, <3>2
    <3>. QED
      BY <3>1, <3>2
  <2>6. <<l, j>> \in Places(shelves) /\ g[<<l, j>>] = shelves[l][j]
    BY <1>1, <1>2, <2>5 DEF Laid
  <2>7. <<l, j>> # first
    BY <2>5
  <2>. QED
    BY <1>1, <2>2, <2>3, <2>4, <2>5, <2>6, <2>7
<1>7. ASSUME NEW q \in Places(shelves) \ {first}
      PROVE  \E p \in Places(after) : h[p] = q
  <2>1. PICK l \in DOMAIN shelves : \E j \in 1 .. Len(shelves[l]) : q = <<l, j>>
    BY <1>2 DEF Laid
  <2>2. PICK j \in 1 .. Len(shelves[l]) : q = <<l, j>>
    BY <2>1
  <2>3. l # k \/ j # 1
    BY <1>7, <2>2
  <2>. DEFINE i == IF l = k THEN j - 1 ELSE j
  <2>4. i \in 1 .. Len(after[l]) /\ j = (IF l = k THEN i + 1 ELSE i)
    BY <1>1, <2>3
  <2>5. <<l, i>> \in Places(after)
    BY <1>1, <1>2, <2>4 DEF Laid
  <2>6. h[<<l, i>>] = <<l, j>>
    BY <2>4, <2>5
  <2>. QED
    BY <2>2, <2>5, <2>6
<1>8. h \in [Places(after) -> Places(shelves) \ {first}]
  <2>1. \A p \in Places(after) : h[p] \in Places(shelves) \ {first}
    BY <1>6
  <2>. QED
    BY <2>1
<1>. HIDE DEF f, g, rest, h, first, n
<1>9. \A a, b \in Places(after) : h[a] = h[b] => a = b
  <2>. SUFFICES ASSUME NEW a \in Places(after), NEW b \in Places(after), h[a] = h[b]
                PROVE  a = b
    OBVIOUS
  <2>1. PICK l \in DOMAIN shelves : \E i \in Nat : a = <<l, i>> /\ h[a] = <<l, IF l = k THEN i + 1 ELSE i>>
    BY <1>6
  <2>2. PICK i \in Nat : a = <<l, i>> /\ h[a] = <<l, IF l = k THEN i + 1 ELSE i>>
    BY <2>1
  <2>3. PICK m \in DOMAIN shelves : \E j \in Nat : b = <<m, j>> /\ h[b] = <<m, IF m = k THEN j + 1 ELSE j>>
    BY <1>6
  <2>4. PICK j \in Nat : b = <<m, j>> /\ h[b] = <<m, IF m = k THEN j + 1 ELSE j>>
    BY <2>3
  <2>5. l = m /\ (IF l = k THEN i + 1 ELSE i) = (IF m = k THEN j + 1 ELSE j)
    BY <2>2, <2>4
  <2>6. i = j
    BY <2>5
  <2>. QED
    BY <2>2, <2>4, <2>5, <2>6
<1>10. h \in Bijection(DOMAIN f, DOMAIN rest)
  BY <1>4, <1>5, <1>7, <1>8, <1>9 DEF Bijection, Injection, Surjection, IsInjective
<1>11. BagOf(rest) = BagOf(f)
  <2>1. \A p \in DOMAIN f : rest[h[p]] = f[p]
    BY <1>4, <1>5, <1>6
  <2>. QED
    BY <1>4, <1>10, <2>1, Renamed
<1>12. BagOf(g) = BagOf(rest) (+) SetToBag({g[first]})
  <2>1. DOMAIN g = DOMAIN rest \cup {first} /\ first \notin DOMAIN rest
    BY <1>3, <1>4, <1>5
  <2>2. IsFiniteSet(DOMAIN rest)
    BY <1>4, <1>5, FS_RemoveElement
  <2>. QED
    BY <1>5, <2>1, <2>2, OneMore
<1>. QED
  BY <1>2, <1>3, <1>11, <1>12 DEF Plus, Laid, f, g

LEMMA Cleared ==
  ASSUME NEW R, NEW shelves, NEW after, NEW k \in DOMAIN shelves,
         IsFiniteSet(DOMAIN shelves), \A l \in DOMAIN shelves : shelves[l] \in Seq(R),
         Elsewhere(shelves, after, k), after[k] = <<>>
  PROVE  Contents(after) = Contents(shelves) (-) BagOf(shelves[k])
<1>. DEFINE f == Stock(shelves)
            g == Stock(after)
            b == shelves[k]
            gone == Places(shelves) \ Places(after)
            h == [p \in gone |-> p[2]]
<1>1. /\ DOMAIN after = DOMAIN shelves /\ \A l \in DOMAIN after : after[l] \in Seq(R)
      /\ \A l \in DOMAIN after : l # k => after[l] = shelves[l]
      /\ Len(after[k]) = 0 /\ DOMAIN b = 1 .. Len(b)
  <2>1. shelves[k] \in Seq(R) /\ <<>> \in Seq(R) /\ Len(after[k]) = 0 /\ after[k] \in Seq(R)
    OBVIOUS
  <2>2. DOMAIN b = 1 .. Len(b)
    BY <2>1
  <2>3. DOMAIN after = DOMAIN shelves /\ \A l \in DOMAIN after : l # k => after[l] = shelves[l]
    BY DEF Elsewhere
  <2>4. \A l \in DOMAIN after : after[l] \in Seq(R)
    BY <2>1, <2>3
  <2>. QED
    BY <2>1, <2>2, <2>3, <2>4
<1>2. Laid(shelves) /\ Laid(after)
  BY <1>1, StockType
<1>3. ASSUME NEW p \in Places(after)
      PROVE  p \in Places(shelves) /\ g[p] = f[p] /\ \A i : p # <<k, i>>
  <2>1. PICK l \in DOMAIN after : \E i \in 1 .. Len(after[l]) : p = <<l, i>>
    BY <1>2 DEF Laid
  <2>2. PICK i \in 1 .. Len(after[l]) : p = <<l, i>>
    BY <2>1
  <2>3. l # k /\ i \in 1 .. Len(shelves[l])
    BY <1>1, <2>2
  <2>4. p \in Places(shelves) /\ f[p] = shelves[l][i] /\ g[p] = after[l][i]
    BY <1>1, <1>2, <2>2, <2>3 DEF Laid
  <2>. QED
    BY <1>1, <2>2, <2>3, <2>4
<1>4. ASSUME NEW p \in gone
      PROVE  p = <<k, p[2]>> /\ p[2] \in DOMAIN b /\ b[p[2]] = f[p]
  <2>1. PICK l \in DOMAIN shelves : \E i \in 1 .. Len(shelves[l]) : p = <<l, i>>
    BY <1>2 DEF Laid
  <2>2. PICK i \in 1 .. Len(shelves[l]) : p = <<l, i>>
    BY <2>1
  <2>3. l # k => p \in Places(after)
    BY <1>1, <1>2, <2>2 DEF Laid
  <2>4. f[p] = shelves[l][i]
    BY <1>2, <2>2 DEF Laid
  <2>. QED
    BY <1>1, <2>2, <2>3, <2>4
<1>5. ASSUME NEW i \in DOMAIN b
      PROVE  \E p \in gone : h[p] = i
  <2>1. <<k, i>> \in Places(shelves)
    BY <1>1, <1>2 DEF Laid
  <2>2. <<k, i>> \in gone
    BY <1>3, <2>1
  <2>. QED
    BY <2>2
<1>6. h \in [gone -> DOMAIN b] /\ (\A p, q \in gone : h[p] = h[q] => p = q)
      /\ \A p \in gone : b[h[p]] = f[p]
  BY <1>4
<1>. HIDE DEF f, g, h, b, gone
<1>7. h \in Bijection(gone, DOMAIN b)
  BY <1>5, <1>6 DEF Bijection, Injection, Surjection, IsInjective
<1>8. /\ IsFiniteSet(DOMAIN f) /\ DOMAIN f = Places(shelves) /\ DOMAIN g = Places(after)
      /\ gone = DOMAIN f \ DOMAIN g
  BY <1>2 DEF Laid, f, g, gone
<1>9. BagOf(g) = BagOf(f) (-) BagOf(b)
  BY <1>3, <1>6, <1>7, <1>8, TakenAway
<1>. QED
  BY <1>2, <1>9 DEF Laid, f, g, b

LEMMA NothingThere ==
  ASSUME NEW shelves, \A l \in DOMAIN shelves : shelves[l] = <<>>
  PROVE  Contents(shelves) = EmptyBag
<1>1. Places(shelves) = {}
  BY DEF Places
<1>2. BagOf([p \in {} |-> shelves[p[1]][p[2]]]) = [x \in {} |-> 1]
  BY DEF BagOf, Range
<1>. QED
  BY <1>1, <1>2 DEF Contents, EmptyBag, SetToBag

-----------------------------------------------------------------------------
(* ChunkParser.  The shelves of the parser: the pipes p, the buffer b and  *)
(* the batch t.                                                            *)

ShelvesOf(p, b, t) ==
  [k \in Workers \cup {0, -1} |-> IF k = 0 THEN b ELSE IF k = -1 THEN t ELSE p[k]]

Typed(R, p, b, t) == p \in [Workers -> Seq(R)] /\ b \in Seq(R) /\ t \in Seq(R)

LEMMA ShelvesType ==
  ASSUME NEW R, NEW p, NEW b, NEW t, Typed(R, p, b, t)
  PROVE  /\ IsFiniteSet(DOMAIN ShelvesOf(p, b, t))
         /\ DOMAIN ShelvesOf(p, b, t) = Workers \cup {0, -1}
         /\ \A k \in DOMAIN ShelvesOf(p, b, t) : ShelvesOf(p, b, t)[k] \in Seq(R)
         /\ ShelvesOf(p, b, t)[0] = b /\ ShelvesOf(p, b, t)[-1] = t
         /\ \A w \in Workers : w # 0 /\ w # -1 /\ ShelvesOf(p, b, t)[w] = p[w]
<1>1. \A w \in Workers : w # 0 /\ w # -1
  <2>1. IsFiniteSet(Workers) /\ Workers = 1 .. Cardinality(Workers)
    BY SizesAssumption
  <2>2. Cardinality(Workers) \in Nat
    BY <2>1, FS_CardinalityType
  <2>. DEFINE n == Cardinality(Workers)
  <2>. HIDE DEF n
  <2>3. \A w \in 1 .. n : w # 0 /\ w # -1
    BY <2>2 DEF n
  <2>. QED
    BY <2>1, <2>3 DEF n
<1>2. IsFiniteSet(Workers \cup {0, -1})
  <2>1. IsFiniteSet({0, -1})
    <3>1. IsFiniteSet({0})
      BY FS_Singleton
    <3>2. IsFiniteSet({0} \cup {-1})
      BY <3>1, FS_AddElement
    <3>3. {0} \cup {-1} = {0, -1}
      OBVIOUS
    <3>. QED
      BY <3>2, <3>3
  <2>. QED
    BY <2>1, SizesAssumption, FS_Union
<1>. QED
  BY <1>1, <1>2 DEF ShelvesOf, Typed

(* The moves of one record: r into the pipe of w, the first out of it, to  *)
(* the end of the buffer or the batch, and in place of another.            *)
OneSent(R, p, q, w, r) == w \in Workers /\ r \in R /\ q = [p EXCEPT ![w] = Append(@, r)]
OneFetched(p, q, w, r) ==
  w \in Workers /\ p[w] # <<>> /\ q = [p EXCEPT ![w] = Tail(@)] /\ r = Head(p[w])
OneAppended(R, b, c, r) == r \in R /\ c = Append(b, r)
OneExchanged(R, b, c, i, r, old) ==
  i \in 1 .. Len(b) /\ r \in R /\ c = [b EXCEPT ![i] = r] /\ old = b[i]

(* The shelves hold r more than they did. *)
MoreBy(p, b, t, q, c, u, r) ==
  Contents(ShelvesOf(q, c, u)) = Plus(Contents(ShelvesOf(p, b, t)), r)

LEMMA Sent ==
  ASSUME NEW R, NEW p, NEW b, NEW t, NEW q, NEW w, NEW r,
         Typed(R, p, b, t), OneSent(R, p, q, w, r)
  PROVE  Typed(R, q, b, t) /\ MoreBy(p, b, t, q, b, t, r)
<1>. DEFINE s == ShelvesOf(p, b, t)
            a == ShelvesOf(q, b, t)
<1>1. /\ Typed(R, q, b, t) /\ q[w] = Append(p[w], r) /\ \A v \in Workers : v # w => q[v] = p[v]
      /\ w \in Workers /\ r \in R
  BY AppendProperties DEF Typed, OneSent
<1>2. Elsewhere(s, a, w) /\ a[w] = Append(s[w], r)
  BY <1>1, ShelvesType DEF Elsewhere, ShelvesOf
<1>3. w \in DOMAIN s /\ IsFiniteSet(DOMAIN s) /\ \A l \in DOMAIN s : s[l] \in Seq(R)
  BY <1>1, ShelvesType
<1>. HIDE DEF s, a
<1>4. Contents(a) = Plus(Contents(s), r)
  BY <1>1, <1>2, <1>3, Put
<1>. QED
  BY <1>1, <1>4 DEF MoreBy, s, a

LEMMA Fetched ==
  ASSUME NEW R, NEW p, NEW b, NEW t, NEW q, NEW w, NEW r,
         Typed(R, p, b, t), OneFetched(p, q, w, r)
  PROVE  Typed(R, q, b, t) /\ r \in R /\ MoreBy(q, b, t, p, b, t, r)
<1>. DEFINE s == ShelvesOf(p, b, t)
            a == ShelvesOf(q, b, t)
<1>1. /\ Typed(R, q, b, t) /\ q[w] = Tail(p[w]) /\ \A v \in Workers : v # w => q[v] = p[v]
      /\ r \in R /\ w \in Workers /\ p[w] # <<>>
  BY DEF Typed, OneFetched
<1>2. Elsewhere(s, a, w) /\ a[w] = Tail(s[w]) /\ s[w] # <<>>
  BY <1>1, ShelvesType DEF Elsewhere, ShelvesOf
<1>3. w \in DOMAIN s /\ IsFiniteSet(DOMAIN s) /\ \A l \in DOMAIN s : s[l] \in Seq(R)
  BY <1>1, ShelvesType
<1>4. r = Head(s[w])
  BY <1>1, ShelvesType DEF OneFetched
<1>. HIDE DEF s, a
<1>5. Contents(s) = Plus(Contents(a), Head(s[w]))
  BY <1>2, <1>3, TakeFirst
<1>. QED
  BY <1>1, <1>4, <1>5 DEF MoreBy, s, a

LEMMA Buffered ==
  ASSUME NEW R, NEW p, NEW b, NEW t, NEW c, NEW r,
         Typed(R, p, b, t), OneAppended(R, b, c, r)
  PROVE  Typed(R, p, c, t) /\ MoreBy(p, b, t, p, c, t, r)
<1>. DEFINE s == ShelvesOf(p, b, t)
            a == ShelvesOf(p, c, t)
<1>1. Typed(R, p, c, t) /\ r \in R
  BY AppendProperties DEF Typed, OneAppended
<1>2. Elsewhere(s, a, 0) /\ a[0] = Append(s[0], r)
  BY DEF Elsewhere, ShelvesOf, OneAppended
<1>3. 0 \in DOMAIN s /\ IsFiniteSet(DOMAIN s) /\ \A l \in DOMAIN s : s[l] \in Seq(R)
  BY ShelvesType
<1>. HIDE DEF s, a
<1>4. Contents(a) = Plus(Contents(s), r)
  BY <1>1, <1>2, <1>3, Put
<1>. QED
  BY <1>1, <1>4 DEF MoreBy, s, a

LEMMA Batched ==
  ASSUME NEW R, NEW p, NEW b, NEW t, NEW u, NEW r,
         Typed(R, p, b, t), OneAppended(R, t, u, r)
  PROVE  Typed(R, p, b, u) /\ MoreBy(p, b, t, p, b, u, r)
<1>. DEFINE s == ShelvesOf(p, b, t)
            a == ShelvesOf(p, b, u)
<1>1. Typed(R, p, b, u) /\ r \in R
  BY AppendProperties DEF Typed, OneAppended
<1>2. Elsewhere(s, a, -1) /\ a[-1] = Append(s[-1], r)
  BY <1>1, ShelvesType DEF Elsewhere, ShelvesOf, OneAppended
<1>3. -1 \in DOMAIN s /\ IsFiniteSet(DOMAIN s) /\ \A l \in DOMAIN s : s[l] \in Seq(R)
  BY ShelvesType
<1>. HIDE DEF s, a
<1>4. Contents(a) = Plus(Contents(s), r)
  BY <1>1, <1>2, <1>3, Put
<1>. QED
  BY <1>1, <1>4 DEF MoreBy, s, a

LEMMA Exchanged ==
  ASSUME NEW R, NEW p, NEW b, NEW t, NEW c, NEW i, NEW r, NEW old,
         Typed(R, p, b, t), OneExchanged(R, b, c, i, r, old)
  PROVE  /\ Typed(R, p, c, t) /\ old \in R
         /\ Plus(Contents(ShelvesOf(p, b, t)), r) = Plus(Contents(ShelvesOf(p, c, t)), old)
<1>. DEFINE s == ShelvesOf(p, b, t)
            a == ShelvesOf(p, c, t)
<1>1. Typed(R, p, c, t) /\ old \in R
  BY DEF Typed, OneExchanged
<1>2. OneReplaced(s, a, 0, i, r) /\ a[0] \in Seq(R)
  BY DEF Elsewhere, ShelvesOf, OneReplaced, OneExchanged, Typed
<1>3. 0 \in DOMAIN s /\ IsFiniteSet(DOMAIN s) /\ \A l \in DOMAIN s : s[l] \in Seq(R)
  BY ShelvesType
<1>4. old = s[0][i]
  BY DEF ShelvesOf, OneExchanged
<1>. HIDE DEF s, a
<1>5. Alike(s, r, a, old)
  BY <1>2, <1>3, <1>4, Exchange
<1>. QED
  BY <1>1, <1>5 DEF Alike, s, a

LEMMA GivenOut ==
  ASSUME NEW R, NEW p, NEW b, NEW t, Typed(R, p, b, t)
  PROVE  /\ Typed(R, p, b, <<>>)
         /\ Contents(ShelvesOf(p, b, <<>>)) = Contents(ShelvesOf(p, b, t)) (-) BagOf(t)
<1>. DEFINE s == ShelvesOf(p, b, t)
            a == ShelvesOf(p, b, <<>>)
<1>1. Typed(R, p, b, <<>>)
  BY DEF Typed
<1>2. Elsewhere(s, a, -1) /\ a[-1] = <<>> /\ s[-1] = t
  BY <1>1, ShelvesType DEF Elsewhere, ShelvesOf
<1>3. -1 \in DOMAIN s /\ IsFiniteSet(DOMAIN s) /\ \A l \in DOMAIN s : s[l] \in Seq(R)
  BY ShelvesType
<1>. HIDE DEF s, a
<1>4. Contents(a) = Contents(s) (-) BagOf(s[-1])
  BY <1>2, <1>3, Cleared
<1>. QED
  BY <1>1, <1>2, <1>4 DEF s, a

LEMMA ShelvesThen ==
  /\ Contents(Shelves) = Contents(ShelvesOf(pipe, buffer, batch))
  /\ Contents(Shelves)' = Contents(ShelvesOf(pipe', buffer', batch'))
BY DEF Shelves, ShelvesOf, Contents, Places, BagOf, Range

-----------------------------------------------------------------------------
(* ChunkParser.  The records that are under way: of the files that a       *)
(* process goes on reading.                                                *)

Readable == {g \in Files : Content[g].version \in 3 .. 6}
UnderWay == {Record(f, i) : f \in Readable, i \in Nat \ {0}}

BadInput ==
  \E f \in Readable :
    \/ Record(f, 1).format # dataset.expected_input_format
    \/ ~Content[f].sane
    \/ Content[f].missing > 0

LEMMA FileContentsType ==
  ASSUME NEW c \in FileContents
  PROVE  c.format \in Nat /\ c.missing \in Nat /\ c.missing <= 8275
<1>. DEFINE m == c.missing
<1>1. c.format \in Nat /\ m \in 0 .. 8275
  BY DEF FileContents
<1>. HIDE DEF m
<1>2. m \in Nat /\ m <= 8275
  BY <1>1
<1>. QED
  BY <1>1, <1>2 DEF m

LEMMA ContentType ==
  ASSUME dataset \in DataSets
  PROVE  /\ Content \in [Files -> FileContents]
         /\ dataset.expected_input_format \in InputModes
<1>1. dataset \in [expected_input_format : InputModes, content : [Files -> FileContents]]
  BY DataSetsAssumption
<1>. QED
  BY <1>1 DEF Content

LEMMA RecordsType ==
  ASSUME NEW f \in Files, NEW i \in Nat, NEW z \in Nat, NEW o \in Nat
  PROVE  [file |-> f, index |-> i, size |-> z, format |-> o] \in Records
BY DEF Records

LEMMA RecordType ==
  ASSUME dataset \in DataSets, NEW f \in Readable, NEW i \in Nat
  PROVE  /\ Record(f, i) \in Records
         /\ Record(f, i).file = f /\ Record(f, i).format = Record(f, 1).format
         /\ Record(f, i).size # 8356 => Content[f].missing > 0
<1>. DEFINE v == Content[f].version
            m == Content[f].missing
<1>1. f \in Files /\ v \in 3 .. 6 /\ m \in Nat /\ m <= 8275 /\ Content[f].format \in Nat
  <2>1. f \in Files /\ v \in 3 .. 6
    BY DEF Readable
  <2>2. Content[f] \in FileContents
    BY <2>1, ContentType
  <2>. QED
    BY <2>1, <2>2, FileContentsType
<1>2. RecordSize(v) + Padding(v) = 8356 /\ RecordSize(v) \in Nat /\ Padding(v) \in Nat
      /\ RecordSize(v) >= 8276
  <2>1. v = 3 \/ v = 4 \/ v = 5 \/ v = 6
    BY <1>1
  <2>. HIDE DEF v
  <2>. QED
    BY <2>1 DEF RecordSize, Padding
<1>3. RawSize(f, i) = RecordSize(v) \/ (RawSize(f, i) = RecordSize(v) - m /\ m # 0)
  <2>1. RawSize(f, i) = RecordSize(v) - (IF Whole(f, i) THEN 0 ELSE m)
    BY DEF RawSize
  <2>2. ~Whole(f, i) => m # 0
    BY DEF Whole
  <2>. HIDE DEF v, m
  <2>. QED
    BY <1>1, <1>2, <2>1, <2>2
<1>4. /\ Record(f, i).file = f /\ Record(f, i).index = i
      /\ Record(f, i).size = RawSize(f, i) + Padding(v)
      /\ Record(f, i).format = Record(f, 1).format
      /\ Record(f, i).format \in Nat
  <2>1. Record(f, i).format = (IF v \in {3, 4} THEN 1 ELSE Content[f].format)
    BY DEF Record, Classical
  <2>2. Record(f, 1).format = (IF v \in {3, 4} THEN 1 ELSE Content[f].format)
    BY DEF Record, Classical
  <2>3. Record(f, i).format \in Nat
    BY <1>1, <2>1
  <2>. QED
    BY <2>1, <2>2, <2>3 DEF Record
<1>5. RawSize(f, i) + Padding(v) \in Nat /\ (RawSize(f, i) + Padding(v) # 8356 => m > 0)
  <2>. HIDE DEF v, m
  <2>. QED
    BY <1>1, <1>2, <1>3
<1>6. Record(f, i) \in Records
  <2>. DEFINE z == RawSize(f, i) + Padding(v)
              o == IF v \in {3, 4} THEN Classical ELSE Content[f].format
  <2>1. z \in Nat /\ o \in Nat
    BY <1>1, <1>5 DEF Classical
  <2>2. Record(f, i) = [file |-> f, index |-> i, size |-> z, format |-> o]
    BY DEF Record
  <2>. HIDE DEF z, o
  <2>. QED
    BY <1>1, <2>1, <2>2, RecordsType
<1>. QED
  BY <1>4, <1>5, <1>6

(* What is wrong with a record that is refused is wrong with its file.     *)
LEMMA Refused ==
  ASSUME dataset \in DataSets, NEW r \in UnderWay, ~Convertible(r)
  PROVE  BadInput
<1>1. PICK f \in Readable : \E i \in Nat \ {0} : r = Record(f, i)
  BY DEF UnderWay
<1>2. PICK i \in Nat \ {0} : r = Record(f, i)
  BY <1>1
<1>. DEFINE e == dataset.expected_input_format
<1>3. /\ r.file = f /\ r.format = Record(f, 1).format
      /\ r.size # 8356 => Content[f].missing > 0
  BY <1>2, RecordType
<1>4. r.format = e => 104 * PlaneBytes + MiddlePlanes(r.format) + 3 * PlaneBytes = 112 * PlaneBytes
  <2>1. e \in {1, 2, 3, 4, 5, 132, 133}
    <3>1. f \in Files
      BY DEF Readable
    <3>. QED
      BY <3>1, ContentType DEF e, InputModes
  <2>. HIDE DEF e
  <2>2. MiddlePlanes(e) = 1280
    <3>1. e = 1 \/ e = 2 \/ e = 3 \/ e = 4 \/ e = 5 \/ e = 132 \/ e = 133
      BY <2>1
    <3>. QED
      BY <3>1 DEF MiddlePlanes, PlaneBytes, ByteBytes
  <2>. QED
    BY <2>2 DEF PlaneBytes
<1>. QED
  BY <1>3, <1>4 DEF Convertible, BadInput

LEMMA SameRecords ==
  ASSUME UNCHANGED run
  PROVE  Readable' = Readable /\ UnderWay' = UnderWay /\ (BadInput => BadInput')
<1>1. dataset' = dataset
  BY DEF run
<1>. QED
  BY <1>1 DEF Readable, UnderWay, BadInput, Record, RawSize, Padding, RecordSize, Whole, Classical, Content

-----------------------------------------------------------------------------
(* The inductive invariant of the parser.                                  *)

ParserTypes ==
  /\ dataset \in DataSets /\ mode \in {"parse", "sequential"}
  /\ todo \subseteq Files /\ todo # {}
  /\ fileq \in Seq(Files)
  /\ cur \in [Workers \cup {Main} -> [file : Readable, next : Nat \ {0}, kept : BOOLEAN] \cup {None}]
  /\ alive \in [Workers -> BOOLEAN]
  /\ pipe \in [Workers -> Seq(UnderWay)]
  /\ buffer \in Seq(UnderWay) /\ batch \in Seq(UnderWay)
  /\ status \in {"running", "failed", "exhausted", "closed"}

(* The main process goes round all the workers, and no reader is removed.  *)
ReadersStand ==
  /\ readers = IF mode = "parse" THEN [w \in Workers |-> w] ELSE <<>>
  /\ turn \in Nat /\ (Workers # {} => turn \in Workers)

(* Only what comes from a worker passes a pipe and the buffer.             *)
NoDetour ==
  /\ mode = "sequential" => \A w \in Workers : pipe[w] = <<>>
  /\ mode = "sequential" \/ Workers = {} => buffer = <<>>

ParserInv == ParserTypes /\ ReadersStand /\ NoDetour /\ RecordsConserved /\ FailsOnlyForBadInput

LEMMA WorkersCount ==
  /\ Cardinality(Workers) \in Nat /\ Workers = 1 .. Cardinality(Workers)
  /\ [w \in Workers |-> w] \in Seq(Workers) /\ Len([w \in Workers |-> w]) = Cardinality(Workers)
  /\ Workers = {} <=> Cardinality(Workers) = 0
  /\ Workers # {} => 1 \in Workers
<1>1. Cardinality(Workers) \in Nat /\ Workers = 1 .. Cardinality(Workers)
  BY SizesAssumption, FS_CardinalityType
<1>. DEFINE n == Cardinality(Workers)
<1>. HIDE DEF n
<1>2. [w \in 1 .. n |-> w] \in Seq(1 .. n) /\ Len([w \in 1 .. n |-> w]) = n
  BY <1>1 DEF n
<1>3. (1 .. n = {} <=> n = 0) /\ (1 .. n # {} => 1 \in 1 .. n)
  BY <1>1 DEF n
<1>. QED
  BY <1>1, <1>2, <1>3 DEF n

-----------------------------------------------------------------------------
(* ChunkParser.  The steps that read: nothing moves.                       *)

Reading ==
  /\ todo \subseteq Files /\ todo # {}
  /\ fileq \in Seq(Files)
  /\ cur \in [Workers \cup {Main} -> [file : Readable, next : Nat \ {0}, kept : BOOLEAN] \cup {None}]
  /\ alive \in [Workers -> BOOLEAN]

LEMMA OutputStays ==
  ASSUME ParserInv, UNCHANGED <<run, output>>, Reading'
  PROVE  ParserInv'
<1>1. dataset' = dataset /\ mode' = mode /\ pipe' = pipe /\ buffer' = buffer /\ batch' = batch
      /\ status' = status /\ held' = held /\ readers' = readers /\ turn' = turn
  BY DEF run, output
<1>2. Readable' = Readable /\ UnderWay' = UnderWay /\ (BadInput => BadInput')
  BY SameRecords
<1>3. ParserTypes'
  BY <1>1, <1>2 DEF ParserInv, ParserTypes, Reading
<1>4. ReadersStand' /\ NoDetour'
  BY <1>1 DEF ParserInv, ReadersStand, NoDetour
<1>5. RecordsConserved'
  BY <1>1, ShelvesThen DEF ParserInv, RecordsConserved
<1>6. FailsOnlyForBadInput'
  BY <1>1, <1>2 DEF ParserInv, FailsOnlyForBadInput, BadInput, Readable
<1>. QED
  BY <1>3, <1>4, <1>5, <1>6 DEF ParserInv

LEMMA ReadingNow ==
  ASSUME ParserInv
  PROVE  Reading
BY DEF ParserInv, ParserTypes, Reading

LEMMA ChunkReaderInv ==
  ASSUME ParserInv, ChunkReader
  PROVE  ParserInv'
<1>1. PICK f \in todo : /\ fileq' = Append(fileq, f)
                        /\ todo' = IF todo = {f} THEN Files ELSE todo \ {f}
                        /\ UNCHANGED <<run, cur, alive, output>>
  BY DEF ChunkReader
<1>2. Readable' = Readable
  BY <1>1, SameRecords
<1>3. Reading'
  <2>1. f \in Files /\ fileq \in Seq(Files)
    BY ReadingNow DEF Reading
  <2>2. fileq' \in Seq(Files)
    BY <1>1, <2>1, AppendProperties
  <2>3. todo' \subseteq Files /\ todo' # {}
    BY <1>1, ReadingNow, FilesAssumption DEF Reading
  <2>. QED
    BY <1>1, <1>2, <2>2, <2>3, ReadingNow DEF Reading, None
<1>. QED
  BY <1>1, <1>3, OutputStays

LEMMA RowsType ==
  ASSUME NEW S, NEW f \in S, NEW n \in Nat \ {0}, NEW k \in BOOLEAN
  PROVE  [file |-> f, next |-> n, kept |-> k] \in [file : S, next : Nat \ {0}, kept : BOOLEAN]
OBVIOUS

LEMMA CurType ==
  ASSUME ParserInv, NEW p \in Workers \cup {Main}, ~Idle(p)
  PROVE  cur[p].file \in Readable /\ cur[p].next \in Nat \ {0}
         /\ cur[p] \in [file : Readable, next : Nat \ {0}, kept : BOOLEAN]
         /\ Record(cur[p].file, cur[p].next) \in UnderWay
<1>1. cur[p] \in [file : Readable, next : Nat \ {0}, kept : BOOLEAN]
  BY ReadingNow DEF Reading, Idle
<1>. QED
  BY <1>1 DEF UnderWay

LEMMA Advanced ==
  ASSUME ParserInv, NEW p \in Workers \cup {Main}, ~Idle(p), UNCHANGED <<run, names, alive>>, NextRecord(p)
  PROVE  Reading'
<1>1. Readable' = Readable
  BY SameRecords
<1>2. DOMAIN cur = Workers \cup {Main}
  BY ReadingNow DEF Reading
<1>3. cur'[p] \in [file : Readable, next : Nat \ {0}, kept : BOOLEAN]
  <2>. DEFINE n == cur[p].next
  <2>1. n \in Nat \ {0} /\ cur[p].file \in Readable
        /\ cur[p] \in [file : Readable, next : Nat \ {0}, kept : BOOLEAN]
    BY CurType
  <2>2. cur'[p] = [file |-> cur[p].file, next |-> n + 1, kept |-> FALSE]
    BY <1>2, <2>1 DEF NextRecord
  <2>3. n + 1 \in Nat \ {0}
    <3>. HIDE DEF n
    <3>. QED
      BY <2>1
  <2>. QED
    BY <2>1, <2>2, <2>3, RowsType
<1>5. /\ DOMAIN cur' = DOMAIN cur /\ \A q \in DOMAIN cur : q # p => cur'[q] = cur[q]
      /\ cur' = [v \in DOMAIN cur |-> cur'[v]]
  BY DEF NextRecord
<1>4. cur' \in [Workers \cup {Main} -> [file : Readable, next : Nat \ {0}, kept : BOOLEAN] \cup {None}]
  <2>. DEFINE T == [file : Readable, next : Nat \ {0}, kept : BOOLEAN] \cup {None}
  <2>1. cur \in [Workers \cup {Main} -> T] /\ cur'[p] \in T
    BY <1>3, ReadingNow DEF Reading
  <2>. HIDE DEF T
  <2>2. cur' \in [Workers \cup {Main} -> T]
    BY <1>2, <1>5, <2>1 DEF NextRecord
  <2>. QED
    BY <2>2 DEF T
<1>. QED
  BY <1>1, <1>4, ReadingNow DEF Reading, names, None

LEMMA OpenFileInv ==
  ASSUME ParserInv, NEW p \in Workers \cup {Main}, OpenFile(p)
  PROVE  ParserInv'
<1>1. Readable' = Readable
  BY SameRecords DEF OpenFile
<1>2. Head(fileq) \in Files /\ Tail(fileq) \in Seq(Files)
  BY ReadingNow DEF Reading, OpenFile
<1>3. Content[Head(fileq)].version \in 3 .. 6 => Head(fileq) \in Readable
  BY <1>2 DEF Readable
<1>4. cur' \in [Workers \cup {Main} -> [file : Readable, next : Nat \ {0}, kept : BOOLEAN] \cup {None}]
  <2>. DEFINE c == IF Content[Head(fileq)].version \in 3 .. 6
                     THEN [file |-> Head(fileq), next |-> 1, kept |-> FALSE] ELSE None
  <2>1. c \in [file : Readable, next : Nat \ {0}, kept : BOOLEAN] \cup {None}
    BY <1>3
  <2>2. cur' = [cur EXCEPT ![p] = c]
    BY DEF OpenFile
  <2>. HIDE DEF c
  <2>. QED
    BY <2>1, <2>2, ReadingNow DEF Reading
<1>5. Reading'
  BY <1>1, <1>2, <1>4, ReadingNow DEF Reading, OpenFile, None
<1>. QED
  BY <1>5, OutputStays DEF OpenFile

LEMMA CloseFileInv ==
  ASSUME ParserInv, NEW p \in Workers \cup {Main}, CloseFile(p)
  PROVE  ParserInv'
<1>1. Readable' = Readable
  BY SameRecords DEF CloseFile
<1>2. Reading'
  BY <1>1, ReadingNow DEF Reading, CloseFile, names, None
<1>. QED
  BY <1>2, OutputStays DEF CloseFile

LEMMA SkipInv ==
  ASSUME ParserInv, NEW p \in Workers \cup {Main}, Skip(p)
  PROVE  ParserInv'
<1>1. Reading'
  BY Advanced DEF Skip
<1>. QED
  BY <1>1, OutputStays DEF Skip

LEMMA KeepInv ==
  ASSUME ParserInv, NEW p \in Workers \cup {Main}, Keep(p)
  PROVE  ParserInv'
<1>1. Readable' = Readable
  BY SameRecords DEF Keep
<1>2. cur'[p] \in [file : Readable, next : Nat \ {0}, kept : BOOLEAN]
  <2>1. cur[p] \in [file : Readable, next : Nat \ {0}, kept : BOOLEAN]
    BY CurType DEF Keep
  <2>2. cur'[p] = [file |-> cur[p].file, next |-> cur[p].next, kept |-> TRUE]
    BY <2>1, ReadingNow DEF Keep, Reading
  <2>. QED
    BY <2>1, <2>2, RowsType
<1>4. /\ DOMAIN cur' = DOMAIN cur /\ \A q \in DOMAIN cur : q # p => cur'[q] = cur[q]
      /\ cur' = [v \in DOMAIN cur |-> cur'[v]]
  BY DEF Keep
<1>3. Reading'
  BY <1>1, <1>2, <1>4, ReadingNow DEF Reading, Keep, names, None
<1>. QED
  BY <1>3, OutputStays DEF Keep

LEMMA KillInv ==
  ASSUME ParserInv, NEW w \in Workers, Kill(w)
  PROVE  ParserInv'
<1>1. Readable' = Readable
  BY SameRecords DEF Kill
<1>2. Reading'
  BY <1>1, ReadingNow DEF Reading, Kill, names, None
<1>. QED
  BY <1>2, OutputStays DEF Kill

-----------------------------------------------------------------------------
(* ChunkParser.  The steps that move records.                              *)

LEMMA OutputNow ==
  ASSUME ParserInv
  PROVE  /\ Typed(UnderWay, pipe, buffer, batch) /\ dataset \in DataSets
         /\ status = "running" => held = Contents(ShelvesOf(pipe, buffer, batch))
BY ShelvesThen DEF ParserInv, ParserTypes, RecordsConserved, Typed

(* What is left to show of a step that moves records. *)
LEMMA OutputMoves ==
  ASSUME ParserInv, UNCHANGED run, Reading', ReadersStand', NoDetour',
         Typed(UnderWay, pipe', buffer', batch'),
         status' \in {"running", "failed", "exhausted", "closed"},
         status' \in {"running", "exhausted"} => held' = Contents(ShelvesOf(pipe', buffer', batch')),
         status' = "failed" => BadInput
  PROVE  ParserInv'
<1>1. dataset' = dataset /\ mode' = mode /\ UnderWay' = UnderWay /\ (BadInput => BadInput')
  BY SameRecords DEF run
<1>2. ParserTypes'
  BY <1>1 DEF ParserInv, ParserTypes, Reading, Typed
<1>3. RecordsConserved'
  BY ShelvesThen DEF RecordsConserved
<1>4. FailsOnlyForBadInput'
  BY <1>1 DEF FailsOnlyForBadInput, BadInput, Readable
<1>. QED
  BY <1>2, <1>3, <1>4 DEF ParserInv

LEMMA ReadingStays ==
  ASSUME ParserInv, UNCHANGED <<run, names, cur, alive>>
  PROVE  Reading'
<1>1. Readable' = Readable
  BY SameRecords
<1>. QED
  BY <1>1, ReadingNow DEF Reading, names, None

LEMMA SendInv ==
  ASSUME ParserInv, NEW w \in Workers, Works(w), Send(w)
  PROVE  ParserInv'
<1>. DEFINE r == Record(cur[w].file, cur[w].next)
<1>1. ~Idle(w)
  BY DEF Send, Idle, None
<1>2. r \in UnderWay
  BY <1>1, CurType
<1>3. Reading'
  BY <1>1, Advanced DEF Send
<1>. HIDE DEF r
<1>4. /\ pipe' = [pipe EXCEPT ![w] = Append(@, r)] /\ held' = Plus(held, r)
      /\ buffer' = buffer /\ batch' = batch /\ status' = status /\ readers' = readers /\ turn' = turn
      /\ UNCHANGED run /\ status = "running" /\ mode = "parse" /\ mode' = mode
  BY DEF Send, Works, r, run, Plus
<1>5. /\ Typed(UnderWay, pipe', buffer, batch)
      /\ MoreBy(pipe, buffer, batch, pipe', buffer, batch, r)
  <2>1. OneSent(UnderWay, pipe, pipe', w, r)
    BY <1>2, <1>4 DEF OneSent
  <2>. QED
    BY <2>1, OutputNow, Sent
<1>6. held' = Contents(ShelvesOf(pipe', buffer', batch'))
  BY <1>4, <1>5, OutputNow DEF MoreBy
<1>7. ReadersStand' /\ NoDetour'
  BY <1>4 DEF ParserInv, ReadersStand, NoDetour
<1>. QED
  BY <1>3, <1>4, <1>5, <1>6, <1>7, OutputNow, OutputMoves

LEMMA Converts ==
  ASSUME ParserInv, status = "running", NEW r \in UnderWay, Convert(r)
  PROVE  \/ status' = "running" /\ batch' = Append(batch, r)
         \/ status' = "failed" /\ batch' = batch /\ BadInput
BY OutputNow, Refused DEF Convert, Fail

LEMMA SequentialInv ==
  ASSUME ParserInv, Sequential
  PROVE  ParserInv'
<1>. DEFINE r == Record(cur[Main].file, cur[Main].next)
<1>1. ~Idle(Main)
  BY DEF Sequential, Idle, None
<1>2. r \in UnderWay
  BY <1>1, CurType
<1>3. Reading'
  BY <1>1, Advanced DEF Sequential
<1>. HIDE DEF r
<1>4. /\ pipe' = pipe /\ held' = Plus(held, r) /\ Convert(r)
      /\ buffer' = buffer /\ readers' = readers /\ turn' = turn
      /\ UNCHANGED run /\ status = "running" /\ mode' = mode
  BY DEF Sequential, Running, r, run, Plus
<1>5. ReadersStand' /\ NoDetour'
  BY <1>4 DEF ParserInv, ReadersStand, NoDetour
<1>6. CASE status' = "running" /\ batch' = Append(batch, r)
  <2>1. /\ Typed(UnderWay, pipe, buffer, batch')
        /\ MoreBy(pipe, buffer, batch, pipe, buffer, batch', r)
    <3>1. OneAppended(UnderWay, batch, batch', r)
      BY <1>2, <1>6 DEF OneAppended
    <3>. QED
      BY <3>1, OutputNow, Batched
  <2>2. held' = Contents(ShelvesOf(pipe', buffer', batch'))
    BY <1>4, <2>1, OutputNow DEF MoreBy
  <2>. QED
    BY <1>3, <1>4, <1>5, <1>6, <2>1, <2>2, OutputNow, OutputMoves
<1>7. CASE status' = "failed" /\ batch' = batch /\ BadInput
  BY <1>3, <1>4, <1>5, <1>7, OutputNow, OutputMoves
<1>. QED
  BY <1>2, <1>4, <1>6, <1>7, Converts

LEMMA NothingAtAll ==
  ASSUME NEW p, \A w \in Workers : p[w] = <<>>
  PROVE  Contents(ShelvesOf(p, <<>>, <<>>)) = EmptyBag
<1>. DEFINE s == ShelvesOf(p, <<>>, <<>>)
<1>1. \A l \in DOMAIN s : s[l] = <<>>
  BY DEF ShelvesOf
<1>. HIDE DEF s
<1>2. Contents(s) = EmptyBag
  BY <1>1, NothingThere
<1>. QED
  BY <1>2 DEF s

LEMMA ExhaustInv ==
  ASSUME ParserInv, Exhaust
  PROVE  ParserInv'
<1>1. /\ pipe' = pipe /\ held' = EmptyBag /\ batch' = <<>> /\ buffer' = buffer
      /\ readers' = readers /\ turn' = turn /\ status' = "exhausted"
      /\ UNCHANGED <<run, names, cur, alive>> /\ mode = "sequential" /\ mode' = mode
  BY DEF Exhaust, run
<1>2. buffer' = <<>> /\ \A w \in Workers : pipe'[w] = <<>>
  BY <1>1 DEF ParserInv, NoDetour
<1>3. held' = Contents(ShelvesOf(pipe', buffer', batch'))
  BY <1>1, <1>2, NothingAtAll
<1>4. ReadersStand' /\ NoDetour'
  BY <1>1 DEF ParserInv, ReadersStand, NoDetour
<1>5. Typed(UnderWay, pipe', buffer', batch')
  BY <1>1, OutputNow DEF Typed
<1>. QED
  BY <1>1, <1>3, <1>4, <1>5, ReadingStays, OutputNow, OutputMoves

LEMMA YieldBatchInv ==
  ASSUME ParserInv, YieldBatch
  PROVE  ParserInv'
<1>1. /\ pipe' = pipe /\ held' = held (-) BagOf(batch) /\ batch' = <<>> /\ buffer' = buffer
      /\ readers' = readers /\ turn' = turn /\ status = "running" /\ status' = status
      /\ UNCHANGED <<run, names, cur, alive>> /\ mode' = mode
  BY DEF YieldBatch, run
<1>2. held' = Contents(ShelvesOf(pipe', buffer', batch'))
  BY <1>1, OutputNow, GivenOut
<1>3. ReadersStand' /\ NoDetour'
  BY <1>1 DEF ParserInv, ReadersStand, NoDetour
<1>4. Typed(UnderWay, pipe', buffer', batch')
  BY <1>1, OutputNow DEF Typed
<1>. QED
  BY <1>1, <1>2, <1>3, <1>4, ReadingStays, OutputNow, OutputMoves

LEMMA ShutdownInv ==
  ASSUME ParserInv, Shutdown
  PROVE  ParserInv'
<1>1. /\ pipe' = [w \in Workers |-> <<>>] /\ batch' = batch /\ buffer' = buffer
      /\ readers' = readers /\ turn' = turn /\ status' = "closed" /\ mode' = mode
      /\ UNCHANGED <<run, names>> /\ alive' = [w \in Workers |-> FALSE]
      /\ cur' = [p \in Workers \cup {Main} |-> None]
  BY DEF Shutdown, run
<1>2. Reading'
  <2>1. Readable' = Readable
    BY <1>1, SameRecords
  <2>. QED
    BY <1>1, <2>1, ReadingNow DEF Reading, names, None
<1>3. ReadersStand' /\ NoDetour'
  BY <1>1 DEF ParserInv, ReadersStand, NoDetour
<1>4. Typed(UnderWay, pipe', buffer', batch')
  BY <1>1, OutputNow DEF Typed
<1>. QED
  BY <1>1, <1>2, <1>3, <1>4, OutputNow, OutputMoves

(* What a record does to the buffer b and the batch t: it is put into the  *)
(* buffer, in the place of another or not, and that one goes to its end or *)
(* into the batch.                                                         *)
InsertedAtEnd(b, c, t, u, r) == c = Append(b, r) /\ u = t
ReplacedToEnd(b, c, t, u, r) ==
  \E i \in 1 .. Len(b) : c = Append([b EXCEPT ![i] = r], b[i]) /\ u = t
ReplacedOut(b, c, t, u, r) ==
  \E i \in 1 .. Len(b) : c = [b EXCEPT ![i] = r] /\ u = Append(t, b[i])

LEMMA Inserts ==
  ASSUME ParserInv, status = "running", NEW r \in UnderWay, InsertOrReplace(r)
  PROVE  \/ status' = "failed" /\ batch' = batch /\ buffer' \in Seq(UnderWay) /\ BadInput
         \/ status' = "running" /\ InsertedAtEnd(buffer, buffer', batch, batch', r)
         \/ status' = "running" /\ ReplacedToEnd(buffer, buffer', batch, batch', r)
         \/ status' = "running" /\ ReplacedOut(buffer, buffer', batch, batch', r)
<1>1. buffer \in Seq(UnderWay) /\ Len(buffer) \in Nat
  BY OutputNow DEF Typed
<1>2. CASE r.size # 8356
  <2>1. status' = "failed" /\ batch' = batch /\ buffer' = buffer
    BY <1>2 DEF InsertOrReplace, Fail
  <2>2. ~Convertible(r)
    BY <1>2 DEF Convertible
  <2>. QED
    BY <1>1, <2>1, <2>2, OutputNow, Refused
<1>3. CASE r.size = 8356
  <2>1. PICK i \in 1 .. (IF buffer = <<>> THEN 1 ELSE Len(buffer)) :
          IF Len(buffer) < ShuffleSize
            THEN /\ buffer' = Append(Inserted(r, i), Displaced(r, i))
                 /\ UNCHANGED <<batch, status>>
            ELSE buffer' = Inserted(r, i) /\ Convert(Displaced(r, i))
    BY <1>3 DEF InsertOrReplace
  <2>2. CASE buffer = <<>>
    <3>1. Len(buffer) < ShuffleSize
      BY <2>2, SizesAssumption
    <3>2. Inserted(r, i) = buffer /\ Displaced(r, i) = r
      BY <2>2 DEF Inserted, Displaced
    <3>. QED
      BY <2>1, <3>1, <3>2 DEF InsertedAtEnd
  <2>3. CASE buffer # <<>>
    <3>1. i \in 1 .. Len(buffer)
      BY <2>1, <2>3
    <3>2. Inserted(r, i) = [buffer EXCEPT ![i] = r] /\ Displaced(r, i) = buffer[i]
      BY <2>3 DEF Inserted, Displaced, ReplaceAt
    <3>3. CASE Len(buffer) < ShuffleSize
      <4>1. buffer' = Append([buffer EXCEPT ![i] = r], buffer[i]) /\ batch' = batch /\ status' = status
        BY <2>1, <3>2, <3>3
      <4>. QED
        BY <3>1, <4>1 DEF ReplacedToEnd
    <3>4. CASE ~(Len(buffer) < ShuffleSize)
      <4>1. buffer' = [buffer EXCEPT ![i] = r] /\ Convert(buffer[i])
        BY <2>1, <3>2, <3>4
      <4>2. buffer[i] \in UnderWay /\ buffer' \in Seq(UnderWay)
        BY <1>1, <3>1, <4>1
      <4>3. CASE status' = "running" /\ batch' = Append(batch, buffer[i])
        BY <3>1, <4>1, <4>3 DEF ReplacedOut
      <4>4. CASE status' = "failed" /\ batch' = batch /\ BadInput
        BY <4>2, <4>4
      <4>. QED
        BY <4>1, <4>2, <4>3, <4>4, Converts
    <3>. QED
      BY <3>3, <3>4
  <2>. QED
    BY <2>2, <2>3
<1>. QED
  BY <1>2, <1>3

(* None is lost, and none is doubled. *)
LEMMA InsertsOne ==
  ASSUME NEW R, NEW p, NEW b, NEW t, NEW c, NEW u, NEW r, Typed(R, p, b, t), r \in R,
         \/ InsertedAtEnd(b, c, t, u, r)
         \/ ReplacedToEnd(b, c, t, u, r)
         \/ ReplacedOut(b, c, t, u, r)
  PROVE  Typed(R, p, c, u) /\ MoreBy(p, b, t, p, c, u, r)
<1>1. CASE InsertedAtEnd(b, c, t, u, r)
  <2>1. OneAppended(R, b, c, r) /\ u = t
    BY <1>1 DEF InsertedAtEnd, OneAppended
  <2>. QED
    BY <2>1, Buffered
<1>2. CASE ReplacedToEnd(b, c, t, u, r)
  <2>1. PICK i \in 1 .. Len(b) : c = Append([b EXCEPT ![i] = r], b[i]) /\ u = t
    BY <1>2 DEF ReplacedToEnd
  <2>. DEFINE d == [b EXCEPT ![i] = r]
              x == b[i]
  <2>2. OneExchanged(R, b, d, i, r, x) /\ c = Append(d, x)
    BY <2>1 DEF OneExchanged
  <2>. HIDE DEF d, x
  <2>3. Typed(R, p, d, t) /\ x \in R
        /\ Plus(Contents(ShelvesOf(p, b, t)), r) = Plus(Contents(ShelvesOf(p, d, t)), x)
    BY <2>2, Exchanged
  <2>4. OneAppended(R, d, c, x)
    BY <2>2, <2>3 DEF OneAppended
  <2>5. Typed(R, p, c, t) /\ MoreBy(p, d, t, p, c, t, x)
    BY <2>3, <2>4, Buffered
  <2>. QED
    BY <2>1, <2>3, <2>5 DEF MoreBy
<1>3. CASE ReplacedOut(b, c, t, u, r)
  <2>1. PICK i \in 1 .. Len(b) : c = [b EXCEPT ![i] = r] /\ u = Append(t, b[i])
    BY <1>3 DEF ReplacedOut
  <2>. DEFINE x == b[i]
  <2>2. OneExchanged(R, b, c, i, r, x) /\ u = Append(t, x)
    BY <2>1 DEF OneExchanged
  <2>. HIDE DEF x
  <2>3. Typed(R, p, c, t) /\ x \in R
        /\ Plus(Contents(ShelvesOf(p, b, t)), r) = Plus(Contents(ShelvesOf(p, c, t)), x)
    BY <2>2, Exchanged
  <2>4. OneAppended(R, t, u, x)
    BY <2>2, <2>3 DEF OneAppended
  <2>5. Typed(R, p, c, u) /\ MoreBy(p, c, t, p, c, u, x)
    BY <2>3, <2>4, Batched
  <2>. QED
    BY <2>3, <2>5 DEF MoreBy
<1>. QED
  BY <1>1, <1>2, <1>3

LEMMA TakeRecordInv ==
  ASSUME ParserInv, Produce, readers # <<>>
  PROVE  ParserInv'
<1>1. /\ mode = "parse" /\ status = "running" /\ TakeRecord
      /\ UNCHANGED <<run, names, cur, alive>> /\ mode' = mode
  BY DEF Produce, run
<1>. DEFINE w == readers[turn]
            r == Head(pipe[w])
            n == Cardinality(Workers)
<1>2. /\ readers = [v \in Workers |-> v] /\ Len(readers) = n /\ n \in Nat /\ Workers = 1 .. n
      /\ Workers # {} /\ turn \in Workers /\ w = turn /\ w \in Workers
  <2>1. readers = [v \in Workers |-> v] /\ Len(readers) = n /\ n \in Nat /\ Workers = 1 .. n
    BY <1>1, WorkersCount DEF ParserInv, ReadersStand
  <2>2. Workers # {}
    <3>1. Workers = {} => Len(readers) = 0 /\ readers \in Seq(Workers)
      BY <2>1, WorkersCount
    <3>. QED
      BY <3>1
  <2>3. turn \in Workers
    BY <2>2 DEF ParserInv, ReadersStand
  <2>. QED
    BY <2>1, <2>2, <2>3
<1>. HIDE DEF w, r, n
<1>3. pipe[w] # <<>> /\ pipe' = [pipe EXCEPT ![w] = Tail(@)] /\ InsertOrReplace(r)
      /\ turn' = NextTurn(n) /\ readers' = readers /\ held' = held
  BY <1>1, <1>2 DEF TakeRecord, WriteEndOpen, w, r, n
<1>4. /\ Typed(UnderWay, pipe', buffer, batch) /\ r \in UnderWay
      /\ MoreBy(pipe', buffer, batch, pipe, buffer, batch, r)
  <2>1. OneFetched(pipe, pipe', w, r)
    BY <1>2, <1>3 DEF OneFetched, r
  <2>. QED
    BY <2>1, OutputNow, Fetched
<1>5. ReadersStand' /\ NoDetour'
  <2>1. turn' \in Workers
    BY <1>2, <1>3 DEF NextTurn
  <2>2. turn' \in Nat
    BY <1>2, <2>1
  <2>. QED
    BY <1>1, <1>2, <1>3, <2>1, <2>2 DEF ParserInv, ReadersStand, NoDetour
<1>6. CASE status' = "failed" /\ batch' = batch /\ buffer' \in Seq(UnderWay) /\ BadInput
  <2>1. Typed(UnderWay, pipe', buffer', batch')
    BY <1>4, <1>6 DEF Typed
  <2>. QED
    BY <1>1, <1>5, <1>6, <2>1, ReadingStays, OutputMoves
<1>7. CASE /\ status' = "running"
           /\ \/ InsertedAtEnd(buffer, buffer', batch, batch', r)
              \/ ReplacedToEnd(buffer, buffer', batch, batch', r)
              \/ ReplacedOut(buffer, buffer', batch, batch', r)
  <2>1. /\ Typed(UnderWay, pipe', buffer', batch')
        /\ MoreBy(pipe', buffer, batch, pipe', buffer', batch', r)
    BY <1>4, <1>7, InsertsOne
  <2>2. held' = Contents(ShelvesOf(pipe', buffer', batch'))
    BY <1>1, <1>3, <1>4, <2>1, OutputNow DEF MoreBy
  <2>. QED
    BY <1>1, <1>5, <1>7, <2>1, <2>2, ReadingStays, OutputMoves
<1>. QED
  BY <1>1, <1>3, <1>4, <1>6, <1>7, Inserts

LEMMA DrainInv ==
  ASSUME ParserInv, Produce, readers = <<>>
  PROVE  ParserInv'
<1>1. /\ mode = "parse" /\ status = "running" /\ Drain /\ UNCHANGED <<pipe, readers, turn>>
      /\ UNCHANGED <<run, names, cur, alive>> /\ mode' = mode
  BY DEF Produce, run
<1>2. Workers = {}
  <2>1. Len(readers) = Cardinality(Workers)
    BY <1>1, WorkersCount DEF ParserInv, ReadersStand
  <2>. QED
    BY <2>1, WorkersCount
<1>3. buffer = <<>>
  BY <1>2 DEF ParserInv, NoDetour
<1>4. /\ status' \in {"exhausted", "running"} /\ batch' = <<>> /\ held' = EmptyBag /\ buffer' = <<>>
  BY <1>1, <1>3 DEF Drain
<1>5. held' = Contents(ShelvesOf(pipe', buffer', batch'))
  BY <1>2, <1>4, NothingAtAll
<1>6. ReadersStand' /\ NoDetour'
  BY <1>1, <1>2, <1>4 DEF ParserInv, ReadersStand, NoDetour
<1>7. Typed(UnderWay, pipe', buffer', batch')
  BY <1>1, <1>4, OutputNow DEF Typed
<1>. QED
  BY <1>1, <1>4, <1>5, <1>6, <1>7, ReadingStays, OutputNow, OutputMoves

LEMMA ParserStart == ParserInit => ParserInv
<1>. SUFFICES ASSUME NEW m \in {"parse", "sequential"}, ParserInitIn(m)
              PROVE  ParserInv
  BY DEF ParserInit
<1>1. Reading
  <2>1. SetToSeq(Files) \in Seq(Files)
    <3>1. Cardinality(Files) \in Nat
      BY FilesAssumption, FS_CardinalityType
    <3>2. \E f : f \in [1 .. Cardinality(Files) -> Files] /\ IsInjective(f)
      <4>1. ExistsBijection(1 .. Cardinality(Files), Files)
        BY FilesAssumption, FS_CardinalityType
      <4>. QED
        BY <4>1 DEF ExistsBijection, Bijection, Injection, IsInjective
    <3>3. SetToSeq(Files) \in [1 .. Cardinality(Files) -> Files]
      BY <3>2 DEF SetToSeq
    <3>. QED
      BY <3>1, <3>3
  <2>. QED
    BY <2>1, FilesAssumption DEF ParserInitIn, Reading
<1>2. /\ pipe = [w \in Workers |-> <<>>] /\ buffer = <<>> /\ batch = <<>> /\ held = EmptyBag
      /\ status = "running" /\ dataset \in DataSets /\ mode = m
  BY DEF ParserInitIn
<1>3. ParserTypes
  BY <1>1, <1>2 DEF ParserTypes, Reading
<1>4. ReadersStand
  BY WorkersCount DEF ParserInitIn, ReadersStand
<1>5. NoDetour
  BY <1>2 DEF NoDetour
<1>6. Contents(ShelvesOf(pipe, buffer, batch)) = EmptyBag
  BY <1>2, NothingAtAll
<1>7. RecordsConserved /\ FailsOnlyForBadInput
  BY <1>2, <1>6, ShelvesThen DEF RecordsConserved, FailsOnlyForBadInput
<1>. QED
  BY <1>3, <1>4, <1>5, <1>7 DEF ParserInv

LEMMA ParserStep ==
  ASSUME ParserInv, [ParserNext]_parserVars
  PROVE  ParserInv'
<1>1. CASE ChunkReader
  BY <1>1, ChunkReaderInv
<1>2. ASSUME NEW w \in Workers, WorkerStep(w)
      PROVE  ParserInv'
  BY <1>2, OpenFileInv, CloseFileInv, SkipInv, KeepInv, SendInv DEF WorkerStep
<1>3. ASSUME NEW w \in Workers, Kill(w)
      PROVE  ParserInv'
  BY <1>3, KillInv
<1>4. CASE Produce
  BY <1>4, TakeRecordInv, DrainInv
<1>5. CASE YieldBatch
  BY <1>5, YieldBatchInv
<1>6. CASE SequentialRead
  BY <1>6, OpenFileInv, CloseFileInv, KeepInv DEF SequentialRead
<1>7. CASE Sequential
  BY <1>7, SequentialInv
<1>8. CASE Exhaust
  BY <1>8, ExhaustInv
<1>9. CASE Shutdown
  BY <1>9, ShutdownInv
<1>10. CASE UNCHANGED parserVars
  <2>1. UNCHANGED <<run, output>> /\ UNCHANGED <<run, names, cur, alive>>
    BY <1>10 DEF parserVars
  <2>. QED
    BY <2>1, ReadingStays, OutputStays
<1>. QED
  BY <1>1, <1>2, <1>3, <1>4, <1>5, <1>6, <1>7, <1>8, <1>9, <1>10 DEF ParserNext, MainStep

LEMMA ParserSafe == ParserSpec => []ParserInv
<1>1. ParserInit => ParserInv
  BY ParserStart
<1>2. ParserInv /\ [ParserNext]_parserVars => ParserInv'
  BY ParserStep
<1>. QED
  BY <1>1, <1>2, PTL DEF ParserSpec

(* No record is lost or doubled between the pipes of the workers, the      *)
(* shuffle buffer and the batch, whatever the files hold, for any number   *)
(* of workers and any sizes of the buffer, the batch and the pipes.        *)
THEOREM RecordsAreConserved == ParserSpec => []RecordsConserved
<1>1. ParserInv => RecordsConserved
  BY DEF ParserInv
<1>. QED
  BY <1>1, ParserSafe, PTL

(* The generator fails only when a file is of another format than          *)
(* expected, holds absurd values or ends in a part of a record: the        *)
(* padding makes a record of every version 8356 bytes long, and the planes *)
(* of every input format add up.                                           *)
THEOREM ParserFailsForInput == ParserSpec => []FailsOnlyForBadInput
<1>1. ParserInv => FailsOnlyForBadInput
  BY DEF ParserInv
<1>. QED
  BY <1>1, ParserSafe, PTL

(* The variables of the parser hold what TypeOK says.                      *)
THEOREM ParserTypesOK == ParserSpec => []TypeOK
<1>1. ASSUME ParserInv
      PROVE  TypeOK
  <2>1. Readable \subseteq Files
    BY DEF Readable
  <2>2. UnderWay \subseteq Records
    BY <1>1, RecordType DEF UnderWay, ParserInv, ParserTypes
  <2>3. readers \in Seq(Workers)
    BY <1>1, WorkersCount DEF ParserInv, ReadersStand
  <2>4. [file : Readable, next : Nat \ {0}, kept : BOOLEAN]
          \subseteq [file : Files, next : Nat \ {0}, kept : BOOLEAN]
    BY <2>1
  <2>5. cur \in [Workers \cup {Main} ->
                 [file : Files, next : Nat \ {0}, kept : BOOLEAN] \cup {None}]
    BY <1>1, <2>4 DEF ParserInv, ParserTypes
  <2>6. /\ pipe \in [Workers -> Seq(Records)]
        /\ buffer \in Seq(Records) /\ batch \in Seq(Records)
    BY <1>1, <2>2 DEF ParserInv, ParserTypes
  <2>. QED
    BY <1>1, <2>3, <2>5, <2>6 DEF TypeOK, ParserInv, ParserTypes
<1>. QED
  BY <1>1, ParserSafe, PTL
=============================================================================
