---------------------------- MODULE MCTensorflow ----------------------------
(* Small instances of ChunkParser and TfTraining for TLC.  The two share   *)
(* no state: each behaviour is one of the one or one of the other.         *)
EXTENDS TfTraining, ChunkParser

CONSTANTS f1, f2

File(version, format, records, missing, torn, sane) ==
  [version |-> version, format |-> format, records |-> records, missing |-> missing,
   torn |-> torn, sane |-> sane]
Good(version, format) == File(version, format, 1, 0, FALSE, TRUE)
Unreadable == File(7, 0, 0, 0, FALSE, TRUE)
DataSet(format, a, b) ==
  [expected_input_format |-> format, content |-> (f1 :> a @@ f2 :> b)]

(* Every version and every layout of the planes; a file torn in its second *)
(* block, files that end in a part of a record, absurd values, and a file  *)
(* of another format than expected.                                        *)
MCDataSets ==
  { DataSet(1, Good(3, 0), Good(4, 0)),
    DataSet(1, Good(5, 1), Unreadable),
    DataSet(132, Unreadable, File(6, 132, 3, 0, TRUE, TRUE)),
    DataSet(2, Unreadable, File(6, 2, 2, 100, FALSE, TRUE)),
    DataSet(2, Good(6, 2), File(5, 2, 1, 100, FALSE, TRUE)),
    DataSet(3, Unreadable, File(6, 3, 1, 0, FALSE, FALSE)),
    DataSet(3, Unreadable, Good(6, 1)) }

Residual(blocks, policy, renorm, hectoplies, wdl) ==
  [residual_blocks |-> blocks, encoder_layers |-> 0, pol_encoder_layers |-> 1, policy |-> policy,
   wdl |-> wdl, moves_left |-> wdl, smolgen |-> FALSE, renorm |-> renorm,
   hectoplies |-> hectoplies]
Encoders(layers, smolgen) ==
  [residual_blocks |-> 0, encoder_layers |-> layers, pol_encoder_layers |-> 0,
   policy |-> "attention", wdl |-> TRUE, moves_left |-> TRUE, smolgen |-> smolgen,
   renorm |-> FALSE, hectoplies |-> FALSE]

(* Both bodies, every policy head, with renorm and without.                *)
MCConfigs ==
  { Residual(2, "attention", TRUE, FALSE, TRUE), Residual(1, "convolution", FALSE, TRUE, TRUE),
    Residual(2, "classical", TRUE, FALSE, FALSE), Encoders(2, TRUE) }

VARIABLE system

MCInit ==
  \/ system = "parser" /\ ParserInit /\ Init
       /\ cfg = Encoders(2, TRUE) /\ ~swa_enabled /\ ~validation
  \/ system = "training" /\ Init /\ ParserInitIn("off")
       /\ dataset = DataSet(3, Unreadable, Good(6, 1))

MCNext ==
  \/ system = "parser" /\ ParserNext /\ UNCHANGED <<system, vars>>
  \/ system = "training" /\ Next /\ UNCHANGED <<system, parserVars>>

MCSpec == MCInit /\ [][MCNext]_<<system, vars, parserVars>> /\ ParserFairness
=============================================================================
