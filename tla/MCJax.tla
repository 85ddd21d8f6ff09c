-------------------------------- MODULE MCJax --------------------------------
(* Small instances of JaxTraining, JaxConversion and WeightWrappers for TLC. *)
(* The three share no state: each behaviour is of one of them.               *)
EXTENDS JaxTraining, JaxConversion, WeightWrappers, TLC

Policy(own) == [embedding_size |-> own, d_model |-> 5]
ValueConfig(error, buckets) ==
  [num_channels |-> 2, has_error_output |-> error, num_categorical_buckets |-> buckets]
ModelOf(shared, policy, value, movesleft, activation, blocks) ==
  [dense_size |-> 2, embedding_size |-> 3, embedding_dff |-> 7, num_blocks |-> blocks,
   d_model |-> 4, heads |-> 2, encoder_dff |-> 11, activation |-> activation,
   ffn_activation |-> activation, smolgen_activation |-> "swish", hidden_channels |-> 2,
   gen_size |-> 3, hidden_size |-> 13, shared |-> shared,
   policy |-> [name \in policy |-> Policy(IF shared = 0 THEN 6 ELSE 0)],
   value |-> value, movesleft |-> [name \in movesleft |-> [num_channels |-> 2]]]
Winner == "winner" :> ValueConfig(FALSE, 0)

(* Own and shared policy embeddings, one and several heads of each kind,   *)
(* models that files cannot describe, and one that cannot be constructed.  *)
MCModels ==
  { ModelOf(0, {"vanilla"}, Winner, {}, "mish", 1),
    ModelOf(0, {"vanilla", "soft"}, Winner @@ "q" :> ValueConfig(TRUE, 3), {}, "mish", 1),
    ModelOf(0, {"vanilla"}, Winner, {"main"}, "mish", 1),
    ModelOf(6, {"vanilla", "opponent"}, Winner, {"main"}, "mish", 2),
    ModelOf(6, {"vanilla"}, Winner, {"main"}, "mish", 2),
    ModelOf(0, {"vanilla", "human"}, Winner, {}, "mish", 1),
    ModelOf(0, {"vanilla"}, Winner, {}, "relu", 1),
    [ModelOf(0, {"vanilla", "soft"}, Winner, {}, "mish", 1) EXCEPT !.policy["soft"].embedding_size = 0] }

MCModel == ModelOf(0, {"vanilla", "soft"}, Winner @@ "q" :> ValueConfig(TRUE, 3), {}, "mish", 1)
Teacher == Exported(ModelOf(0, {"vanilla"}, Winner, {"main"}, "mish", 1))

Loss(kind, head) ==
  [kind |-> kind, head |-> head, metric |-> "", type |-> "kl", teacher |-> "", optimistic |-> ""]
AllLosses ==
  << Loss("policy", "vanilla"), [Loss("policy", "soft") EXCEPT !.teacher = "vanilla", !.optimistic = "q"],
     [Loss("policy", "vanilla") EXCEPT !.metric = "again"], Loss("value", "winner"),
     Loss("value_error", "q"), Loss("value_categorical", "q"), Loss("regularization", "") >>

Config(losses, teacher, swa, export, steps) ==
  [losses |-> losses, teacher |-> teacher, export |-> export, steps_per_network |-> steps,
   swa |-> [enabled |-> swa, period_steps |-> 2, num_averages |-> 1]]
(* With and without averaging; metrics of the same name, a teacher that is *)
(* not given, and a loss for a head that is not there.                     *)
MCConfigs ==
  << Config(AllLosses, <<Teacher>>, TRUE, TRUE, 3), Config(<<>>, <<>>, FALSE, FALSE, 2),
    Config(<<Loss("value", "q"), Loss("value", "q")>>, <<>>, TRUE, TRUE, 1),
    Config(AllLosses, <<>>, TRUE, TRUE, 1),
    Config(<<Loss("movesleft", "main")>>, <<>>, FALSE, TRUE, 1) >>

(* A rule of every transition, one that loops, and rates before the first; *)
(* the rules give every step the rate of the schedule written out.         *)
MCSchedule ==
  << [starting_step |-> 1, duration_steps |-> <<2, 0, 3>>, lr |-> <<12, 24, 36, 0>>,
      transition |-> <<"linear", "linear", "cosine">>, loop |-> FALSE],
     [starting_step |-> 4, duration_steps |-> <<1, 2>>, lr |-> <<48, 24>>,
      transition |-> <<"constant">>, loop |-> TRUE] >>
ASSUME RatesAsWrittenOut == \A n \in 0..40 : LearningRate(n) = RateOfStep(n)

(* A net with fewer heads than the model, and one of another size.         *)
MCForeign ==
  << [net |-> Exported(ModelOf(0, {"vanilla"}, Winner, {}, "mish", 1)), training_steps |-> 3],
     [net |-> Exported(ModelOf(0, {"vanilla"}, Winner, {}, "mish", 2)), training_steps |-> 3] >>

MCIntervals == {<<0, 0>>, <<2, 3>>}

VARIABLE system

NoTraining ==
  /\ config = 2 /\ net_file = OwnFile(0)
  /\ directory = FALSE /\ checkpoints = <<>> /\ pc = "down" /\ local_step = 0 /\ state = NewFromConfig
  /\ options = NoOptions
  /\ commands = 0

(* The net of another size is refused, whatever the configuration.         *)
MCInit ==
  /\ ScriptInit /\ ConversionInit
  /\ \/ system = "training" /\ Init /\ (net_file.file = 2 => config = 1)
     \/ system \in {"net", "script"} /\ NoTraining

MCNext ==
  /\ UNCHANGED system
  /\ \/ system = "training" /\ Next /\ UNCHANGED <<script, conversion>>
     \/ system = "net" /\ ConversionNext /\ UNCHANGED <<run, script>>
     \/ system = "script" /\ ScriptNext /\ UNCHANGED <<run, conversion>>

MCSpec == MCInit /\ [][MCNext]_<<system, run, script, conversion>>
=============================================================================
