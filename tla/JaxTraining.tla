----------------------------- MODULE JaxTraining -----------------------------
(***************************************************************************)
(* Training with JAX from the command line: commands/train.py with         *)
(* training/training.py, init.py, migrate_checkpoint.py and jax2leela.py   *)
(* around one directory of checkpoints, and the configuration they read.   *)
(*                                                                         *)
(* Weights are known by how they came about: a log of what was done to     *)
(* them, in which an update is recorded with the number of its step and    *)
(* with its learning rate.  The averaged weights are the set of the logs   *)
(* that were averaged.                                                     *)
(*                                                                         *)
(* Orbax, which keeps the checkpoints, is modelled by what the code relies *)
(* on: a save is complete or absent, nothing is saved below the latest     *)
(* step, and a tree is restored only into a template of the same shape.    *)
(***************************************************************************)
EXTENDS JaxNet

CONSTANTS
  Configs,          \* a sequence of training configurations: losses, swa, export, schedule
  Model,            \* the model of all of them
  Schedule,         \* lr_schedule: a sequence of rules
  Foreign,          \* a sequence of net files from elsewhere: a net and its training_steps
  Overrides,        \* step numbers given to init
  Intervals,        \* options of train: [checkpoint_every, export_every], 0 when not given
  MaxCommands       \* bound: commands and edits of the configuration

(* Numbers of averaged models are counted in parts. *)
Unit == 12
ASSUME PeriodsDivideUnit ==
  \A i \in DOMAIN Configs : LET swa == Configs[i].swa IN
    swa.enabled => swa.period_steps > 0 /\ Unit % swa.period_steps = 0
ASSUME NumbersAssumption ==
  /\ \A i \in DOMAIN Configs :
       /\ Configs[i].steps_per_network \in Nat \ {0}
       /\ Configs[i].swa.period_steps \in Nat /\ Configs[i].swa.num_averages \in Nat
  /\ \A f \in DOMAIN Foreign : Foreign[f].training_steps \in Nat
  /\ Overrides \subseteq Nat

VARIABLES
  config,           \* the configuration file, by its place in Configs
  directory,        \* whether the checkpoint path exists
  checkpoints,      \* the checkpoints in it, by their step
  net_file,         \* the net file at hand: the place of a foreign one, or the last exported
  pc,               \* what the training process does
  local_step,       \* steps it has completed
  state,            \* jit_state
  options,          \* its command line, and the checkpoint that it resumed
  commands          \* bound: the commands so far

training == Configs[config]
run == <<config, directory, checkpoints, net_file, pc, local_step, state, options, commands>>

-----------------------------------------------------------------------------
(* Learning rates, as multiples of 12 with transitions at twelfths.        *)

(* How far a segment of length d has come after n steps, in twelfths.      *)
(* Lengths are at most 3, for which the cosine is rational.                *)
Share(transition, n, d) ==
  CASE transition = "linear" -> (12 * n) \div d
    [] transition = "cosine" -> (IF d = 3 THEN <<0, 3, 9>> ELSE IF d = 2 THEN <<0, 6>> ELSE <<0>>)[n + 1]
    [] OTHER -> 0

At(seq, i, default) == IF i <= Len(seq) THEN seq[i] ELSE default
End(rule, i) == FoldLeft(+, 0, SubSeq(rule.duration_steps, 1, i))

(* _create_rule_fn *)
RuleRate(rule, step) ==
  LET durations == rule.duration_steps
      period == End(rule, Len(durations))
      last == IF rule.lr = <<>> THEN 0 ELSE Last(rule.lr)
      since == step - rule.starting_step
      rel_step == IF rule.loop /\ period > 0 THEN since % period ELSE since
      segments == {i \in DOMAIN durations : End(rule, i - 1) <= rel_step /\ rel_step < End(rule, i)}
  IN IF rule.lr = <<>> \/ period = 0 \/ segments = {} THEN last
     ELSE LET i == CHOOSE i \in segments : TRUE
              a == At(rule.lr, i, last)
              b == At(rule.lr, i + 1, a)
          IN a + ((b - a) * Share(At(rule.transition, i, "constant"),
                                  rel_step - End(rule, i - 1), durations[i])) \div 12

(* make_lr_schedule: of the rules that have begun, the one that began      *)
(* last, and the first of those.                                           *)
LearningRate(step) ==
  LET starts == {Schedule[i].starting_step : i \in DOMAIN Schedule}
      begun == {s \in starts : s <= step}
      start == IF begun = {} THEN CHOOSE s \in starts : \A t \in starts : s <= t
               ELSE CHOOSE s \in begun : \A t \in begun : t <= s
      rule == Schedule[CHOOSE i \in DOMAIN Schedule :
                         /\ Schedule[i].starting_step = start
                         /\ \A j \in 1..i - 1 : Schedule[j].starting_step # start]
  IN IF Schedule = <<>> THEN 0
     ELSE IF begun = {} THEN At(rule.lr, 1, 0) ELSE RuleRate(rule, step)

-----------------------------------------------------------------------------
(* Losses.                                                                 *)

MetricName(loss) ==
  IF loss.metric # "" THEN loss.metric
  ELSE IF loss.kind = "regularization" THEN "l2" ELSE loss.head

(* The constructors of LczeroLoss and PolicyLoss. *)
LossesConstructible(losses) ==
  /\ \A i \in DOMAIN losses : losses[i].kind = "policy" => losses[i].type # "unspecified"
  /\ \A i, j \in DOMAIN losses :
       losses[i].kind = losses[j].kind /\ MetricName(losses[i]) = MetricName(losses[j]) => i = j

(* Their calls: the heads, outputs and teacher heads that they look up.    *)
HasValue(name) == name \in DOMAIN Model.value
HasError(name) == HasValue(name) /\ Model.value[name].has_error_output
PolicyComputable(loss, teacher) ==
  /\ loss.head \in DOMAIN Model.policy
  /\ loss.teacher \in {""} \cup teacher
  /\ loss.optimistic # "" => HasError(loss.optimistic)
CategoricalComputable(loss) ==
  HasValue(loss.head) /\ Model.value[loss.head].num_categorical_buckets > 0
Computable(loss, teacher) ==
  CASE loss.kind = "policy" -> PolicyComputable(loss, teacher)
    [] loss.kind = "value" -> HasValue(loss.head)
    [] loss.kind = "movesleft" -> loss.head \in DOMAIN Model.movesleft
    [] loss.kind = "value_error" -> HasError(loss.head)
    [] loss.kind = "value_categorical" -> CategoricalComputable(loss)
    [] OTHER -> TRUE

(* load_teacher_predictions_fn builds the teacher from its own net.        *)
TeacherLoads(net) ==
  LET fixed == FixOlderWeightsFile(net) IN
  Readable(fixed) /\ Importable(fixed, LeelaToModelConfig(fixed))

(* Which configurations a training can be constructed from, and with which *)
(* of them it can do a step.                                               *)
Constructs == {k \in DOMAIN Configs :
  LET c == Configs[k]
      needs_teacher == \E i \in DOMAIN c.losses : c.losses[i].teacher # "" IN
  /\ Constructible(Model) /\ LossesConstructible(c.losses)
  /\ needs_teacher => c.teacher # <<>> /\ TeacherLoads(c.teacher[1])}
Steps == {k \in Constructs :
  LET c == Configs[k]
      teacher == IF c.teacher = <<>> THEN {}
                 ELSE DOMAIN LeelaToModelConfig(FixOlderWeightsFile(c.teacher[1])).policy
  IN \A i \in DOMAIN c.losses : Computable(c.losses[i], teacher)}

-----------------------------------------------------------------------------
(* States.  A checkpoint of the older layout has no swa_state.             *)

Fresh == <<<<"fresh", 0, 0>>>>
NewFromConfig == [step |-> 0, count |-> 0, model |-> Fresh, swa_state |-> {Fresh}, num_averages |-> 0]

Restorable(checkpoint) == DOMAIN checkpoint = DOMAIN NewFromConfig
LatestStep(saved) == CHOOSE n \in DOMAIN saved : \A m \in DOMAIN saved : m <= n

(* CheckpointManager.save *)
Saved(saved, step, checkpoint) ==
  IF \E n \in DOMAIN saved : step <= n THEN saved
  ELSE [n \in DOMAIN saved \cup {step} |-> IF n = step THEN checkpoint ELSE saved[n]]
Deleted(saved, step) == [n \in DOMAIN saved \ {step} |-> saved[n]]

(* Mutant of WithUpdatedStep: the optimizer keeps its own counter. *)
WithUpdatedStepOnly(s, step) == [s EXCEPT !.step = step]
WithUpdatedStep(s, step) == [s EXCEPT !.step = step, !.count = step]

(* Files.  A foreign net and one written from the model load when they are *)
(* accepted; with ignore_config_mismatch only the sizes have to agree.     *)
Loads(net, ignore) ==
  LET fixed == FixOlderWeightsFile(net) IN
  Readable(fixed) /\ (ignore \/ Accepts(net, Model)) /\ Importable(fixed, Model)
Loadable == [ignore \in BOOLEAN |->
               {f \in DOMAIN Foreign : Loads(Foreign[f].net, ignore)}
                 \cup {f \in {0} : Loads(Exported(Model), ignore)}]

ForeignFile(f) == [file |-> f, training_steps |-> Foreign[f].training_steps]
OwnFile(steps) == [file |-> 0, training_steps |-> steps]

-----------------------------------------------------------------------------
NoOptions ==
  [checkpoint_every |-> 0, export_every |-> 0, from_network |-> FALSE, from_step |-> 0, resumed |-> 0]

Init ==
  /\ config \in DOMAIN Configs
  /\ net_file \in {ForeignFile(f) : f \in DOMAIN Foreign}
  /\ \/ directory = FALSE /\ checkpoints = <<>>
     \/ /\ directory = TRUE
        /\ \E n \in Overrides :
             checkpoints = [m \in {n} |-> [step |-> n, count |-> n, model |-> <<<<"net", n, 0>>>>,
                                           num_averages |-> 0]]
  /\ pc = "down" /\ local_step = 0 /\ state = NewFromConfig
  /\ options = NoOptions
  /\ commands = 0

Command == pc = "down" /\ commands < MaxCommands /\ commands' = commands + 1

EditConfig ==
  /\ Command /\ config' \in DOMAIN Configs \ {config}
  /\ UNCHANGED <<directory, checkpoints, net_file, pc, local_step, state, options>>

(* init: -1 stands for an option that is not given.                        *)
InitOptions ==
  {o \in [lczero_model : BOOLEAN, override : Overrides \cup {-1}, overwrite : BOOLEAN,
          no_copy_swa : BOOLEAN, swa_initial_nets : {0, 1}, ignore : BOOLEAN] :
     o.no_copy_swa \/ o.ignore => o.lczero_model}

(* What a directory of the older layout would restore to is not known.     *)
InitAccepts(o) ==
  /\ directory => o.overwrite /\ DOMAIN checkpoints # {} /\ Restorable(checkpoints[LatestStep(checkpoints)])
  /\ o.lczero_model => net_file.file \in Loadable[o.ignore]

InitState(o) ==
  LET base == IF directory THEN checkpoints[LatestStep(checkpoints)] ELSE NewFromConfig
      step == IF o.override >= 0 THEN o.override ELSE net_file.training_steps
      loaded == <<<<IF o.no_copy_swa THEN "net, other swa" ELSE "net", step, 0>>>>
      overridden == IF o.override < 0 THEN base
                    ELSE [WithUpdatedStep(base, o.override)
                            EXCEPT !.model = Append(@, <<"override", o.override, 0>>)]
  IN IF o.lczero_model
     THEN WithUpdatedStep([base EXCEPT
            !.model = loaded,
            !.swa_state = IF o.no_copy_swa THEN @ ELSE {loaded},
            !.num_averages = IF training.swa.enabled THEN Unit * o.swa_initial_nets ELSE 0], step)
     ELSE IF training.swa.enabled /\ o.swa_initial_nets > 0
     THEN [overridden EXCEPT !.num_averages = Unit * o.swa_initial_nets,
             !.model = Append(@, <<"declared", Last(overridden.model)[2], 0>>)]
     ELSE overridden

(* Mutant of Initialized: a checkpoint of the same step is left in place.  *)
InitializedBeside(o) ==
  LET s == InitState(o) IN Saved(checkpoints, s.step, s)
Initialized(o) ==
  LET s == InitState(o) IN Saved(Deleted(checkpoints, s.step), s.step, s)

InitCheckpoint(o) ==
  /\ Command /\ InitAccepts(o)
  /\ checkpoints' = Initialized(o) /\ directory' = TRUE
  /\ UNCHANGED <<config, net_file, pc, local_step, state, options>>

(* The process dies after the old checkpoint of the step is deleted and    *)
(* before the new one is saved, in init or in train --from-network.        *)
InitDies(o) ==
  /\ Command /\ InitAccepts(o) /\ InitState(o).step \in DOMAIN checkpoints
  /\ checkpoints' = Deleted(checkpoints, InitState(o).step)
  /\ UNCHANGED <<config, directory, net_file, pc, local_step, state, options>>

(* train up to Training.run, with and without --from-network.  The          *)
(* checkpoint of the older layout is restored without swa_state, and gets  *)
(* a copy of the model's weights.                                          *)
FromNetwork(override, ignore) ==
  [lczero_model |-> TRUE, override |-> override, overwrite |-> TRUE, no_copy_swa |-> FALSE,
   swa_initial_nets |-> 0, ignore |-> ignore]

StartTraining(from_network, override, ignore, every) ==
  LET o == FromNetwork(override, ignore)
      saved == IF from_network THEN Initialized(o) ELSE checkpoints
      latest == saved[LatestStep(saved)]
  IN /\ Command /\ (from_network => InitAccepts(o))
     /\ directory' = TRUE /\ checkpoints' = saved
     /\ IF DOMAIN saved = {} \/ config \notin Constructs
        THEN UNCHANGED <<pc, state, options>>
        ELSE /\ pc' = "step"
             /\ state' = IF Restorable(latest) THEN latest
                         ELSE [field \in DOMAIN NewFromConfig |->
                                 IF field = "swa_state" THEN {latest.model} ELSE latest[field]]
             /\ options' = [checkpoint_every |-> every[1], export_every |-> every[2],
                            from_network |-> from_network,
                            from_step |-> IF from_network THEN InitState(o).step ELSE 0,
                            resumed |-> LatestStep(saved)]
     /\ local_step' = 0
     /\ UNCHANGED <<config, net_file>>

(* maybe_update_swa after the step that is the n-th of this run: the first *)
(* average replaces what was there.                                        *)
UpdateSwa(s, weight) ==
  LET most == Unit * training.swa.num_averages  sum == s.num_averages + weight IN
  [s EXCEPT !.swa_state = (IF s.num_averages = 0 THEN {} ELSE @) \cup {s.model},
            !.num_averages = IF sum < most THEN sum ELSE most]
MaybeUpdateSwa(s, n) ==
  LET period == training.swa.period_steps IN
  IF ~training.swa.enabled THEN s
  ELSE IF n % period = 0 THEN UpdateSwa(s, Unit)
  ELSE IF n = training.steps_per_network
  THEN UpdateSwa(s, (Unit * (n % period)) \div period) ELSE s

Trained(s) ==
  [s EXCEPT !.step = @ + 1, !.count = @ + 1,
            !.model = Append(@, <<"update", s.step + 1, LearningRate(s.count)>>)]

(* One turn of the loop in Training.run; the hook follows. *)
TrainStep ==
  /\ pc = "step" /\ local_step < training.steps_per_network /\ config \in Steps
  /\ local_step' = local_step + 1
  /\ state' = MaybeUpdateSwa(Trained(state), local_step')
  /\ pc' = "hook save"
  /\ UNCHANGED <<config, directory, checkpoints, net_file, options, commands>>

Due(every) == every > 0 /\ state.step % every = 0

(* Mutant of HookSave: the state is saved as it was last saved or restored.*)
HookSaveRestored ==
  /\ pc = "hook save"
  /\ checkpoints' = IF Due(options.checkpoint_every)
                    THEN Saved(checkpoints, state.step, checkpoints[LatestStep(checkpoints)])
                    ELSE checkpoints
  /\ pc' = "hook export"
  /\ UNCHANGED <<config, directory, net_file, local_step, state, options, commands>>
(* The step hook: a checkpoint, then a net file. *)
HookSave ==
  /\ pc = "hook save"
  /\ checkpoints' = IF Due(options.checkpoint_every) THEN Saved(checkpoints, state.step, state)
                    ELSE checkpoints
  /\ pc' = "hook export"
  /\ UNCHANGED <<config, directory, net_file, local_step, state, options, commands>>

(* _export_network does not write training_steps. *)
HookExport ==
  /\ pc = "hook export"
  /\ net_file' = IF Due(options.export_every) /\ training.export THEN OwnFile(0) ELSE net_file
  /\ pc' = "step"
  /\ UNCHANGED <<config, directory, checkpoints, local_step, state, options, commands>>

(* The final checkpoint; the final export and the end of the process. *)
FinalSave ==
  /\ pc = "step" /\ local_step = training.steps_per_network
  /\ checkpoints' = Saved(checkpoints, state.step, state)
  /\ pc' = "final export"
  /\ UNCHANGED <<config, directory, net_file, local_step, state, options, commands>>

Stopped ==
  pc' = "down" /\ local_step' = 0 /\ state' = NewFromConfig /\ options' = NoOptions
FinalExport ==
  /\ pc = "final export" /\ Stopped
  /\ net_file' = IF training.export THEN OwnFile(0) ELSE net_file
  /\ UNCHANGED <<config, directory, checkpoints, commands>>

(* The process dies, or its step raises. *)
Crash ==
  /\ pc # "down" /\ Stopped
  /\ UNCHANGED <<config, directory, checkpoints, net_file, commands>>

(* jax2leela *)
ExportLatest ==
  /\ Command /\ DOMAIN checkpoints # {} /\ Restorable(checkpoints[LatestStep(checkpoints)])
  /\ net_file' = OwnFile(checkpoints[LatestStep(checkpoints)].step)
  /\ UNCHANGED <<config, directory, checkpoints, pc, local_step, state, options>>

(* Migration: rules move, drop or keep whole fields of the state, each     *)
(* once, and what is left over is copied to the field of the same name.    *)
RulesFit(old, new, rules) ==
  \A i \in DOMAIN rules : LET rule == rules[i] IN
    /\ rule.from # "" => rule.from \in DOMAIN old /\ \A j \in 1..i - 1 : rules[j].from # rule.from
    /\ rule.to # "" => rule.to \in DOMAIN new /\ \A j \in 1..i - 1 : rules[j].to # rule.to
    /\ rule.from = rule.to => rule.from = ""

Migration(old, new, rules) ==
  LET source == DOMAIN old \ {rules[i].from : i \in DOMAIN rules}
      dest == DOMAIN new \ {rules[i].to : i \in DOMAIN rules}
      moves == {i \in DOMAIN rules : rules[i].from \in DOMAIN old}
      Origin(field) == rules[CHOOSE i \in moves : rules[i].to = field].from
  IN [errors |-> ~RulesFit(old, new, rules) \/ source # dest,
      state |-> [field \in DOMAIN new |->
        IF field \in source \cap dest THEN old[field]
        ELSE IF \E i \in moves : rules[i].to = field THEN old[Origin(field)] ELSE new[field]]]

(* migrate_checkpoint, into the directory itself: _save_checkpoint deletes *)
(* a checkpoint that is in the way.                                        *)
MigrateCheckpoint(step, rules, new_step) ==
  LET m == Migration(checkpoints[step], NewFromConfig, rules) IN
  /\ Command /\ ~m.errors
  /\ checkpoints' = Saved(Deleted(checkpoints, new_step), new_step, m.state)
  /\ UNCHANGED <<config, directory, net_file, pc, local_step, state, options>>

MigrationDies(step, rules, new_step) ==
  /\ Command /\ new_step \in DOMAIN checkpoints
  /\ ~Migration(checkpoints[step], NewFromConfig, rules).errors
  /\ checkpoints' = Deleted(checkpoints, new_step)
  /\ UNCHANGED <<config, directory, net_file, pc, local_step, state, options>>

Rule(from, to) == [from |-> from, to |-> to]
RuleSets ==
  { <<>>, <<Rule("", "swa_state")>>,
    <<Rule("swa_state", ""), Rule("num_averages", ""),
      Rule("", "swa_state"), Rule("", "num_averages")>> }

Next ==
  \/ EditConfig
  \/ \E o \in InitOptions : InitCheckpoint(o) \/ InitDies(o)
  \/ \E from_network, ignore \in BOOLEAN, override \in Overrides \cup {-1},
       every \in Intervals : StartTraining(from_network, override, ignore, every)
  \/ TrainStep \/ HookSave \/ HookExport \/ FinalSave \/ FinalExport \/ Crash
  \/ ExportLatest
  \/ \E step \in DOMAIN checkpoints, rules \in RuleSets :
       \E new_step \in {step} \cup Overrides :
         MigrateCheckpoint(step, rules, new_step) \/ MigrationDies(step, rules, new_step)

Spec == Init /\ [][Next]_run

-----------------------------------------------------------------------------
(* The schedule written out: the rate of every step of a rule, segment by  *)
(* segment.                                                                *)
WrittenOut(rule) ==
  FlattenSeq([i \in DOMAIN rule.duration_steps |->
    [n \in 1..rule.duration_steps[i] |->
       LET a == At(rule.lr, i, Last(rule.lr))  b == At(rule.lr, i + 1, a) IN
       a + ((b - a) * Share(At(rule.transition, i, "constant"), n - 1, rule.duration_steps[i]))
             \div 12]])
RateOfStep(step) ==
  LET rule == Schedule[CHOOSE i \in DOMAIN Schedule :
                \/ step < Schedule[1].starting_step /\ i = 1
                \/ /\ Schedule[i].starting_step <= step
                   /\ i < Len(Schedule) => step < Schedule[i + 1].starting_step]
      rates == WrittenOut(rule)
      n == step - rule.starting_step
  IN IF n < 0 THEN Head(rule.lr)
     ELSE IF n < Len(rates) THEN rates[n + 1]
     ELSE IF rule.loop /\ rates # <<>> THEN rates[(n % Len(rates)) + 1] ELSE Last(rule.lr)

(* What is true of a state that training may continue from: the updates of *)
(* the weights are numbered one after the other from the point they were   *)
(* started or renumbered at, up to the state's step, which is the          *)
(* optimizer's count; each was made at the rate that the schedule has for  *)
(* it (for a schedule whose rules are in order); and the averaged weights, *)
(* once anything counts for them, are of moments of this same training,    *)
(* unless the user declared otherwise.                                     *)
OfOneRun(s) ==
  LET log == s.model
      told == \E i \in DOMAIN log : log[i][1] \in {"net, other swa", "declared"}
  IN /\ Last(log)[2] = s.step /\ s.count = s.step
     /\ \A i \in DOMAIN log : log[i][1] = "update" =>
          log[i][2] = log[i - 1][2] + 1 /\ log[i][3] = RateOfStep(log[i - 1][2])
     /\ "swa_state" \in DOMAIN s /\ s.num_averages > 0 /\ ~told =>
          \A snapshot \in s.swa_state : IsPrefix(snapshot, log)

(* Whatever is initialized, overridden, migrated, interrupted and resumed, *)
(* every checkpoint is of one training without gaps or repetitions.        *)
CheckpointsOfOneRun == \A n \in DOMAIN checkpoints : OfOneRun(checkpoints[n])

(* A training that ends has left its last state as the latest checkpoint,  *)
(* where the next one resumes, unless a migration gave the checkpoint that *)
(* it started from another number than its step.                           *)
FinishedRunIsLatest ==
  [][FinalSave /\ options.resumed = state.step - local_step =>
       checkpoints'[LatestStep(checkpoints')] = state]_run

(* A training that was started from a network trains that network, from    *)
(* the step asked for, and has averaged nothing yet, unless the directory  *)
(* has a checkpoint of a later step.                                       *)
TrainsFromNetwork ==
  [][pc = "down" /\ pc' = "step" /\ options'.from_network
       /\ (\A n \in DOMAIN checkpoints : n <= options'.from_step) =>
       /\ state'.model = <<<<"net", options'.from_step, 0>>>>
       /\ state'.step = options'.from_step /\ state'.count = options'.from_step
       /\ state'.num_averages = 0 /\ state'.swa_state = {state'.model}]_run
=============================================================================
