---------------------------- MODULE JaxConversion ----------------------------
(***************************************************************************)
(* The weights of a model are written to a net file (jax_to_leela), which  *)
(* is loaded as the weights of a second model (_load_lc0_model_state):     *)
(* JaxNet, for models of any configurations.                               *)
(***************************************************************************)
EXTENDS JaxNet

CONSTANT Models     \* the configurations of models
ASSUME ModelsAssumption == \A m \in Models : IsConfiguration(m)

VARIABLES
  exporter,         \* the configuration of the model that was written
  exported,         \* the net file
  importer,         \* the configuration of the model it was loaded for
  imported          \* its weights; each is <<>> while there is none

conversion == <<exporter, exported, importer, imported>>

ConversionInit == exporter = <<>> /\ exported = <<>> /\ importer = <<>> /\ imported = <<>>

(* The model that is written exists, and was built by its constructor.     *)
Export ==
  /\ \E m \in Models : /\ Constructible(m) /\ Visitable(m)
                       /\ exporter' = <<m>> /\ exported' = <<Exported(m)>>
  /\ importer' = <<>> /\ imported' = <<>>

(* _load_lc0_model_state, which does not ignore a mismatch unless asked    *)
(* to: there are no weights if an assertion fails or the configurations do *)
(* not match.                                                              *)
Import ==
  /\ exported # <<>>
  /\ \E m \in Models :
       LET net == FixOlderWeightsFile(exported[1]) IN
       /\ importer' = <<m>>
       /\ imported' = IF Accepts(exported[1], m) /\ Importable(net, m)
                      THEN <<LeelaToJax(net, m)>> ELSE <<>>
  /\ UNCHANGED <<exporter, exported>>

ConversionNext == Export \/ Import
ConversionSpec == ConversionInit /\ [][ConversionNext]_conversion

-----------------------------------------------------------------------------
(* A net written from a model is loaded, through the update of older       *)
(* formats, the configuration extracted from the sizes and the check       *)
(* against the configuration expected, as the same weights: each parameter *)
(* of the target that the source has gets the value of its own path,       *)
(* scaled as it was, and the heads that only the target has stay random.   *)
(* This is so for the activations and head names that files can say, and   *)
(* but for a moves left head that only the target has: that one is         *)
(* asserted to be in the file.                                             *)
NetsRoundTrip ==
  importer # <<>> =>
    LET source == exporter[1]  target == importer[1]
        net == FixOlderWeightsFile(exported[1])
    IN Standard(source) =>
         /\ Readable(net)
         /\ LeelaToModelConfig(net) = source
         /\ imported =
              IF /\ Constructible(target) /\ IsCompatibleSubset(source, target)
                 /\ "main" \notin DOMAIN target.movesleft \ DOMAIN source.movesleft
              THEN <<[path \in Paths(target) |-> IF path \in Paths(source) THEN Own(path) ELSE Random]>>
              ELSE <<>>
=============================================================================
