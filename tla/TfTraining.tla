----------------------------- MODULE TfTraining -----------------------------
(***************************************************************************)
(* tf/tfprocess.py as tf/train.py runs it, and the tools beside it: a      *)
(* process restores the latest checkpoint, trains to the next multiple of  *)
(* total_steps, evaluates, averages the weights (SWA) and saves            *)
(* checkpoints and net files.  It may be killed anywhere, and the tools    *)
(* rewrite the checkpoints and the nets between two runs.                  *)
(*                                                                         *)
(* The weights are known by where they come from: a version is the set of  *)
(* the initializations and gradient steps behind it, and the weights of a  *)
(* model are the set of the versions averaged into them.                   *)
(***************************************************************************)
EXTENDS TfNet

CONSTANTS Configs,        \* bound: the configurations of the net, of NetConfigs
          total_steps, checkpoint_steps, test_steps, validation_steps,
          swa_steps, swa_max_n,
          Starts,         \* bound: the --start given to the tools
          MaxStep,        \* bound: the step no run begins at or beyond
          MaxClock        \* bound: initializations and gradient steps

ASSUME ConfigsAssumption == Configs \subseteq NetConfigs
ASSUME StepsAssumption ==
  {total_steps, checkpoint_steps, test_steps, validation_steps, swa_steps} \subseteq Nat \ {0}
ASSUME NumbersAssumption == swa_max_n \in Int /\ Starts \subseteq Int

VARIABLES
  cfg,         \* the configuration of the net
  swa_enabled, validation,
  pc,          \* what the process does next, or "down"
  iterations,  \* of the loop of process_loop, still to do
  global_step,
  model,       \* self.model.weights: the versions averaged, and the factor
               \* 99 ^ rule50 on the weights of the rule 50 plane
  backup,      \* what the weights were before the SWA weights took their place
  swa_weights, swa_count,
  then,        \* where the evaluation or the writing under way goes on
  latest,      \* the latest checkpoint
  nets,        \* the net files, by name
  clock,       \* bound: initializations and gradient steps so far
  trained,     \* ghost: the weights the last gradient step or restore left
  saved        \* ghost: the steps and weights of every checkpoint ever saved

config == <<cfg, swa_enabled, validation>>
averaging == <<swa_weights, swa_count>>
disk == <<latest, nets, saved>>
vars == <<config, pc, iterations, global_step, model, backup, averaging, then, disk, clock, trained>>

Fresh(version) == [versions |-> {version}, rule50 |-> 0]
Nothing == [versions |-> {}, rule50 |-> 0]
NoCheckpoint == [step |-> -1]
Torn == [versions |-> {}, rule50 |-> 0, torn |-> TRUE]
Multiple(n) == global_step % n = 0

-----------------------------------------------------------------------------
Init ==
  /\ cfg \in Configs
  /\ swa_enabled \in BOOLEAN /\ validation \in BOOLEAN
  /\ pc = "down" /\ then = "down" /\ iterations = 0 /\ global_step = 0
  /\ model = Nothing /\ backup = Nothing /\ trained = Nothing
  /\ swa_weights = Nothing /\ swa_count = 0
  /\ latest = NoCheckpoint /\ nets = <<>> /\ saved = {}
  /\ clock = 0

-----------------------------------------------------------------------------
(* The SWA average, when the model becomes w and the count is n.           *)

Averaged(w, average, n) ==
  IF n = 0 THEN w ELSE [versions |-> w.versions \cup average.versions, rule50 |-> w.rule50]

Counted(n) == IF n + 1 <= swa_max_n THEN n + 1 ELSE swa_max_n

(* Mutant of Start: a run is always of total_steps steps. *)
StartWhole ==
  /\ pc = "down" /\ clock < MaxClock
  /\ clock' = clock + 1
  /\ LET w == Fresh({clock + 1})  found == latest # NoCheckpoint IN
       /\ model' = IF found THEN latest.model ELSE w
       /\ swa_weights' = IF ~swa_enabled THEN Nothing ELSE IF found THEN latest.swa_weights ELSE w
       /\ swa_count' = IF found THEN latest.swa_count ELSE 0
       /\ global_step' = IF found THEN latest.step ELSE 0
  /\ global_step' < MaxStep
  /\ iterations' = total_steps
  /\ trained' = model'
  /\ pc' = "process"
  /\ UNCHANGED <<config, backup, then, disk>>

(* init_net, restore and the head of process_loop: the steps of a run that *)
(* was stopped are made up for.                                            *)
Start ==
  /\ pc = "down" /\ clock < MaxClock
  /\ clock' = clock + 1
  /\ LET w == Fresh({clock + 1})  found == latest # NoCheckpoint IN
       /\ model' = IF found THEN latest.model ELSE w
       /\ swa_weights' = IF ~swa_enabled THEN Nothing ELSE IF found THEN latest.swa_weights ELSE w
       /\ swa_count' = IF found THEN latest.swa_count ELSE 0
       /\ global_step' = IF found THEN latest.step ELSE 0
  /\ global_step' < MaxStep
  /\ iterations' = total_steps - (global_step' % total_steps)
  /\ trained' = model'
  /\ pc' = "process"
  /\ UNCHANGED <<config, backup, then, disk>>

-----------------------------------------------------------------------------
(* process: one iteration of the loop.                                     *)

Goto(step) == pc' = step

Process ==
  /\ pc = "process"
  /\ IF iterations = 0 THEN Goto("output") /\ UNCHANGED then
     ELSE IF Multiple(total_steps) THEN Goto("test") /\ then' = "train"
     ELSE Goto("train") /\ UNCHANGED then
  /\ UNCHANGED <<config, iterations, global_step, model, backup, averaging, disk, clock, trained>>

(* train_step and the update of the SWA weights.  A net with a classical   *)
(* value head has no mse_loss and fails in the first one.                  *)
GradientStep(w) == Fresh((UNION w.versions) \cup {clock + 1})

Train ==
  /\ pc = "train" /\ clock < MaxClock
  /\ IF ~cfg.wdl
       THEN /\ Goto("failed")
            /\ UNCHANGED <<global_step, iterations, model, clock, trained, averaging>>
       ELSE /\ clock' = clock + 1
            /\ model' = [GradientStep(model) EXCEPT !.rule50 = model.rule50]
            /\ trained' = model'
            /\ global_step' = global_step + 1
            /\ iterations' = iterations - 1
            /\ IF swa_enabled /\ (global_step + 1) % swa_steps = 0
                 THEN /\ swa_weights' = Averaged(model', swa_weights, swa_count)
                      /\ swa_count' = Counted(swa_count)
                 ELSE UNCHANGED averaging
            /\ Goto("trained")
  /\ UNCHANGED <<config, backup, then, disk>>

AfterTrain ==
  /\ pc = "trained"
  /\ IF Multiple(test_steps) \/ Multiple(total_steps)
       THEN Goto("test") /\ then' = "validate"
       ELSE Goto("validate") /\ UNCHANGED then
  /\ UNCHANGED <<config, iterations, global_step, model, backup, averaging, disk, clock, trained>>

(* calculate_test_summaries, then the same with the SWA weights.           *)
Test ==
  /\ pc = "test"
  /\ Goto(IF swa_enabled THEN "swap in" ELSE then)
  /\ UNCHANGED <<config, iterations, global_step, model, backup, averaging, then, disk, clock,
                 trained>>

(* calculate_swa_summaries, calculate_swa_validations and save_swa_weights *)
(* put the SWA weights in the place of the others and put them back.       *)
SwapIn ==
  /\ pc \in {"swap in", "swap in to write"}
  /\ backup' = model /\ model' = swa_weights
  /\ Goto(IF pc = "swap in" THEN "swap out" ELSE "open swa net")
  /\ UNCHANGED <<config, iterations, global_step, averaging, then, disk, clock, trained>>

(* Mutant of SwapOut: the weights are not put back. *)
SwapOutKeeping ==
  /\ pc = "swap out"
  /\ backup' = Nothing
  /\ Goto(then)
  /\ UNCHANGED <<config, iterations, global_step, model, averaging, then, disk, clock, trained>>

SwapOut ==
  /\ pc = "swap out"
  /\ model' = backup /\ backup' = Nothing
  /\ Goto(then)
  /\ UNCHANGED <<config, iterations, global_step, averaging, then, disk, clock, trained>>

Validate ==
  /\ pc = "validate"
  /\ IF validation /\ swa_enabled /\ (Multiple(validation_steps) \/ Multiple(total_steps))
       THEN Goto("swap in") /\ then' = "checkpoint"
       ELSE Goto("checkpoint") /\ UNCHANGED then
  /\ UNCHANGED <<config, iterations, global_step, model, backup, averaging, disk, clock, trained>>

-----------------------------------------------------------------------------
(* Checkpoints and nets.  A net file is written in place.                  *)

Checkpoint(step, w, average, n) ==
  [step |-> step, model |-> w, swa_weights |-> average, swa_count |-> n]

Save(ckpt) ==
  /\ latest' = ckpt
  /\ saved' = saved \cup {<<ckpt.step, ckpt.model>>}

WithFile(name, file) ==
  [n \in {name} \cup DOMAIN nets |-> IF n = name THEN file ELSE nets[n]]
FileOf(w) == [versions |-> w.versions, rule50 |-> w.rule50 + FillPower(cfg), torn |-> FALSE]

(* What replace_weights makes of a file; whether every tensor finds its    *)
(* own values there is decided once for each configuration.                *)
ReadableConfigs == [c \in Configs |-> ReadsBack(c)]
Garbled == Fresh({})

WeightsOf(file) ==
  IF ReadableConfigs[cfg]
    THEN [versions |-> file.versions, rule50 |-> file.rule50 + ReplacePower(cfg)]
    ELSE Garbled

SaveCheckpoint ==
  /\ pc = "checkpoint"
  /\ IF Multiple(total_steps) \/ Multiple(checkpoint_steps)
       THEN /\ Save(Checkpoint(global_step, model, swa_weights, swa_count))
            /\ Goto("open net") /\ then' = "process"
       ELSE Goto("process") /\ UNCHANGED <<latest, saved, then>>
  /\ UNCHANGED <<config, iterations, global_step, model, backup, averaging, nets, clock, trained>>

(* save_leelaz_weights: the file is opened, then filled and closed.        *)
NetName ==
  CASE then = "exit" -> <<"output", 0>>
    [] then # "exit" /\ pc \in {"open net", "fill net"} -> <<"net", global_step>>
    [] OTHER -> <<"swa", global_step>>

OpenNet ==
  /\ pc \in {"open net", "open swa net"}
  /\ nets' = WithFile(NetName, Torn)
  /\ Goto(IF pc = "open net" THEN "fill net" ELSE "fill swa net")
  /\ UNCHANGED <<config, iterations, global_step, model, backup, averaging, then, latest, saved,
                 clock, trained>>

FillNetFile ==
  /\ pc \in {"fill net", "fill swa net"}
  /\ nets' = WithFile(NetName, FileOf(model))
  /\ Goto(IF pc = "fill swa net" THEN "swap out"
          ELSE IF swa_enabled /\ then # "exit" THEN "swap in to write" ELSE then)
  /\ UNCHANGED <<config, iterations, global_step, model, backup, averaging, then, latest, saved,
                 clock, trained>>

(* The end of train.py: --output, with swa_output or without.              *)
Output ==
  /\ pc = "output" /\ then' = "exit"
  /\ \E step \in {"exit", "open net"} \cup (IF swa_enabled THEN {"swap in to write"} ELSE {}) : Goto(step)
  /\ UNCHANGED <<config, iterations, global_step, model, backup, averaging, disk, clock, trained>>

-----------------------------------------------------------------------------
(* A process ends, by itself or killed; what it has in memory is gone.     *)
Down ==
  /\ pc # "down"
  /\ pc' = "down" /\ then' = "down" /\ iterations' = 0 /\ global_step' = 0
  /\ model' = Nothing /\ backup' = Nothing /\ trained' = Nothing
  /\ swa_weights' = Nothing /\ swa_count' = 0
  /\ UNCHANGED <<config, disk, clock>>

-----------------------------------------------------------------------------
(* The tools.  Each of them makes a net of its own first, and saves under  *)
(* the step it is given.                                                   *)

Tool ==
  /\ pc = "down" /\ clock < MaxClock
  /\ clock' = clock + 1
  /\ UNCHANGED <<config, pc, iterations, global_step, model, backup, averaging, then, trained>>

Average(w) == IF swa_enabled THEN w ELSE Nothing

WithNetFiles(ckpt) ==
  LET net == <<"net", ckpt.step>>  swa == <<"swa", ckpt.step>>
      written == {net} \cup (IF swa_enabled THEN {swa} ELSE {})
  IN [n \in written \cup DOMAIN nets |->
        IF n = net THEN FileOf(ckpt.model)
        ELSE IF n \in written THEN FileOf(ckpt.swa_weights) ELSE nets[n]]

(* net_to_model.  It compares the number of filters, which it reads off    *)
(* the input block, and so needs --ignore-errors for an encoder body.      *)
NetToModel(start) ==
  \E name \in DOMAIN nets :
    LET w == WeightsOf(nets[name]) IN
      /\ nets[name] # Torn
      /\ Tool
      /\ Save(Checkpoint(start, w, Average(w), IF swa_enabled THEN Counted(0) ELSE 0))
      /\ UNCHANGED nets

MakeModel(start) ==
  LET w == Fresh({clock + 1})  ckpt == Checkpoint(start, w, Average(w), 0) IN
    /\ Tool
    /\ Save(ckpt)
    /\ nets' = WithNetFiles(ckpt)

(* model_to_net and update_steps, run where there is a checkpoint.         *)
ModelToNet ==
  /\ latest # NoCheckpoint
  /\ Tool
  /\ nets' = WithNetFiles(latest)
  /\ UNCHANGED <<latest, saved>>

UpdateSteps(start) ==
  /\ latest # NoCheckpoint
  /\ Tool
  /\ Save([latest EXCEPT !.step = start])
  /\ UNCHANGED nets

-----------------------------------------------------------------------------
Next ==
  \/ Start \/ Process \/ Train \/ AfterTrain \/ Test \/ SwapIn \/ SwapOut \/ Validate
  \/ SaveCheckpoint \/ OpenNet \/ FillNetFile \/ Output
  \/ Down
  \/ ModelToNet
  \/ \E start \in Starts : NetToModel(start) \/ MakeModel(start) \/ UpdateSteps(start)

Spec == Init /\ [][Next]_vars

-----------------------------------------------------------------------------
(* The weights that are trained are those of the last gradient step, and   *)
(* the average is of weights they went through: the averages that stand in *)
(* for them in an evaluation or in a net file are always put back, and     *)
(* neither a restart nor a tool lets the weights of another run, or of     *)
(* the initialization of this one, into the average.                       *)
WeightsOfThisRun ==
  /\ pc \in {"process", "train", "trained", "checkpoint", "open net", "output"} => model = trained
  /\ swa_count > 0 =>
       \A v \in swa_weights.versions : v \subseteq UNION trained.versions

(* A net file that is complete reads back as the weights of a checkpoint   *)
(* that was saved at its step, whatever was killed when and whichever      *)
(* tools were run in between; only an encoder body whose rule 50 plane     *)
(* counts plies in hundredths of less comes back with a factor of 99 lost. *)
(* The same file in the text format has every row where it came from.      *)
NetsReproducible ==
  /\ \A name \in DOMAIN nets :
       (name[1] = "net" /\ nets[name] # Torn) =>
         LET w == WeightsOf(nets[name])
             whole == [w EXCEPT !.rule50 = @ + (IF LosesRule50(cfg) THEN 1 ELSE 0)]
         IN  <<name[2], whole>> \in saved
  /\ cfg.policy # "attention" =>
       TextReadsBack(TRUE, cfg.policy = "convolution", cfg.residual_blocks)

(* A run that ends by itself ends at a multiple of total_steps, whatever   *)
(* step it was resumed at, with its weights in the latest checkpoint and   *)
(* in the net file of that step.                                           *)
RunEndsOnBoundary ==
  pc = "output" =>
    /\ Multiple(total_steps)
    /\ latest = Checkpoint(global_step, model, swa_weights, swa_count)
    /\ nets[<<"net", global_step>>] = FileOf(model)
=============================================================================
