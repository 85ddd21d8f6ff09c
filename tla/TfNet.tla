------------------------------- MODULE TfNet -------------------------------
(***************************************************************************)
(* tf/net.py and the construction of the network in tf/tfprocess.py: which *)
(* tensors a configuration has, into which field of the protobuf each of   *)
(* them goes, and what becomes of a tensor that is written to a net file   *)
(* and read back.                                                          *)
(*                                                                         *)
(* A tensor is named by its layer, the block the layer is in (0 for none)  *)
(* and the variable.  Of its values only what the conversions treat apart  *)
(* is kept: the order of the axes, whether it is a deviation or a          *)
(* variance, and the factor 99 on the weights of the rule 50 plane.  The   *)
(* rounding to 16 bits is left out.                                        *)
(***************************************************************************)
EXTENDS Integers, Sequences, FiniteSets, SequencesExt, TLC

Policies == {"classical", "convolution", "attention"}

(* A configuration, as the constructor of TFProcess accepts it; hectoplies *)
(* is input_type canonical_100 or later.                                   *)
NetConfigs ==
  { c \in [residual_blocks : Nat, encoder_layers : Nat, pol_encoder_layers : Nat,
           policy : Policies, wdl : BOOLEAN, moves_left : BOOLEAN, smolgen : BOOLEAN,
           renorm : BOOLEAN, hectoplies : BOOLEAN] :
      /\ (c.residual_blocks > 0) # (c.encoder_layers > 0)
      /\ ~(c.pol_encoder_layers > 0 /\ c.encoder_layers > 0)
      /\ c.encoder_layers > 0 => c.policy = "attention"
      /\ c.smolgen => c.encoder_layers > 0 }

-----------------------------------------------------------------------------
(* The tensors of the model.                                               *)

Tensor(layer, block, var) == [layer |-> layer, block |-> block, var |-> var]
Tensors(layer, block, vars) == {Tensor(layer, block, var) : var \in vars}

Dense(layer, block) == Tensors(layer, block, {"kernel", "bias"})
Kernel(layer, block) == Tensors(layer, block, {"kernel"})
LayerNorm(layer, block) == Tensors(layer, block, {"gamma", "beta"})

BatchNorm(c, layer, block, scale) ==
  Tensors(Append(layer, "bn"), block,
          {"beta", "moving_mean", "moving_variance"}
            \cup (IF scale THEN {"gamma"} ELSE {})
            \cup (IF c.renorm THEN {"moving_stddev", "renorm_mean", "renorm_stddev"} ELSE {}))

ConvBlock(c, layer, block, scale) ==
  Kernel(Append(layer, "conv2d"), block) \cup BatchNorm(c, layer, block, scale)

ResidualBlock(c, i) ==
  ConvBlock(c, <<"residual", "1">>, i, FALSE) \cup ConvBlock(c, <<"residual", "2">>, i, TRUE)
    \cup Dense(<<"residual", "se", "dense1">>, i) \cup Dense(<<"residual", "se", "dense2">>, i)

Smolgen(layer, i) ==
  Kernel(layer \o <<"compress">>, i)
    \cup UNION {Dense(layer \o <<l>>, i) : l \in {"hidden1_dense", "gen_from"}}
    \cup UNION {LayerNorm(layer \o <<l>>, i) : l \in {"hidden1_ln", "gen_from_ln"}}

EncoderLayer(c, layer, i) ==
  UNION {Dense(layer \o <<"mha", l>>, i) : l \in {"wq", "wk", "wv", "dense"}}
    \cup UNION {Dense(layer \o <<"ffn", l>>, i) : l \in {"dense1", "dense2"}}
    \cup LayerNorm(layer \o <<"ln1">>, i) \cup LayerNorm(layer \o <<"ln2">>, i)
    \cup (IF c.smolgen THEN Smolgen(layer \o <<"mha", "smolgen">>, i) ELSE {})

ResidualBody(c) ==
  ConvBlock(c, <<"input">>, 0, TRUE) \cup UNION {ResidualBlock(c, i) : i \in 1..c.residual_blocks}

EncoderBody(c) ==
  Dense(<<"embedding">>, 0)
    \cup Tensors(<<"embedding", "mult_gate">>, 0, {"gate"})
    \cup Tensors(<<"embedding", "add_gate">>, 0, {"gate"})
    \cup (IF c.smolgen THEN Kernel(<<"smol_weight_gen">>, 0) ELSE {})
    \cup UNION {EncoderLayer(c, <<"encoder">>, i) : i \in 1..c.encoder_layers}

PolicyHead(c) ==
  CASE c.policy = "convolution" -> ConvBlock(c, <<"policy1">>, 0, FALSE) \cup Dense(<<"policy">>, 0)
    [] c.policy = "classical" ->
         ConvBlock(c, <<"policy">>, 0, FALSE) \cup Dense(<<"policy", "dense">>, 0)
    [] c.policy = "attention" ->
         Dense(<<"policy", "embedding">>, 0)
           \cup Dense(<<"policy", "attention", "wq">>, 0)
           \cup Dense(<<"policy", "attention", "wk">>, 0)
           \cup Kernel(<<"policy", "attention", "ppo">>, 0)
           \cup UNION {EncoderLayer(c, <<"policy", "enc_layer">>, i) : i \in 1..c.pol_encoder_layers}

(* The value head and the moves left head.  *)
ScalarHead(c, head) ==
  (IF c.encoder_layers > 0 THEN Dense(<<head, "embedding">>, 0)
                           ELSE ConvBlock(c, <<head>>, 0, FALSE))
    \cup Dense(<<head, "dense1">>, 0) \cup Dense(<<head, "dense2">>, 0)

Weights(c) ==
  (IF c.encoder_layers > 0 THEN EncoderBody(c) ELSE ResidualBody(c))
    \cup PolicyHead(c) \cup ScalarHead(c, "value")
    \cup (IF c.moves_left THEN ScalarHead(c, "moves_left") ELSE {})

Dimensions(t) ==
  CASE t.var = "kernel" /\ (Last(t.layer) = "conv2d" \/ t.layer = <<"policy">>) -> 4
    [] t.var \in {"kernel", "gate"} /\ ~(Last(t.layer) = "conv2d" \/ t.layer = <<"policy">>) -> 2
    [] OTHER -> 1

-----------------------------------------------------------------------------
(* tf_name_to_pb_name: the message of the protobuf and the field in it.    *)

ConvField == [kernel |-> "weights", gamma |-> "bn_gammas", beta |-> "bn_betas",
              moving_mean |-> "bn_means", moving_variance |-> "bn_stddivs", bias |-> "biases"]
DenseField == [kernel |-> "w", bias |-> "b", gamma |-> "gammas", beta |-> "betas"]
AttentionPolicyNumber == [wq |-> "2", wk |-> "3", ppo |-> "4"]
MhaField == [wq |-> "q", wk |-> "k", wv |-> "v", dense |-> "dense"]
SmolgenField == [compress |-> "compress", hidden1_dense |-> "dense1", hidden1_ln |-> "ln1",
                 gen_from |-> "dense2", gen_from_ln |-> "ln2"]
HeadNumber == [embedding |-> "", dense1 |-> "1", dense2 |-> "2"]

Field(message, i, path) == [message |-> message, index |-> i, path |-> path]

EncoderField(message, t, rest) ==
  Field(message, t.block,
    CASE Head(rest) = "mha" /\ rest[2] = "smolgen" ->
           <<"mha", "smolgen", SmolgenField[rest[3]], DenseField[t.var]>>
      [] Head(rest) = "mha" /\ rest[2] # "smolgen" -> <<"mha", MhaField[rest[2]], DenseField[t.var]>>
      [] Head(rest) = "ffn" -> <<"ffn", rest[2], DenseField[t.var]>>
      [] OTHER -> <<Head(rest), DenseField[t.var]>>)

(* Mutant of HeadField: the two layers of a head share a field. *)
HeadFieldShared(t, suffix) ==
  IF t.layer[2] \in DOMAIN HeadNumber THEN <<"ip", "1", suffix, DenseField[t.var]>>
                                     ELSE <<t.layer[1], ConvField[t.var]>>

HeadField(t, suffix) ==
  IF t.layer[2] \in DOMAIN HeadNumber THEN <<"ip", HeadNumber[t.layer[2]], suffix, DenseField[t.var]>>
                                     ELSE <<t.layer[1], ConvField[t.var]>>

PolicyField(t) ==
  IF t.layer = <<"policy">> THEN Field("weights", 0, <<"policy", ConvField[t.var]>>)
  ELSE CASE t.layer[2] \in {"dense", "embedding"} ->
              Field("weights", 0, <<"ip", "", "pol", DenseField[t.var]>>)
         [] t.layer[2] = "attention" ->
              Field("weights", 0, <<"ip", AttentionPolicyNumber[t.layer[3]], "pol", DenseField[t.var]>>)
         [] t.layer[2] = "enc_layer" -> EncoderField("pol_encoder", t, SubSeq(t.layer, 3, Len(t.layer)))
         [] OTHER -> Field("weights", 0, <<"policy", ConvField[t.var]>>)

ResidualField(t) ==
  Field("residual", t.block,
    IF t.layer[2] = "se" THEN <<"se", t.layer[3], DenseField[t.var]>>
                         ELSE <<"conv", t.layer[2], ConvField[t.var]>>)

PbField(t) ==
  LET base == Head(t.layer) IN
    CASE base \in {"input", "policy1"} -> Field("weights", 0, <<base, ConvField[t.var]>>)
      [] base = "policy" -> PolicyField(t)
      [] base = "value" -> Field("weights", 0, HeadField(t, "val"))
      [] base = "moves_left" -> Field("weights", 0, HeadField(t, "mov"))
      [] base = "residual" -> ResidualField(t)
      [] base = "encoder" -> EncoderField("encoder", t, Tail(t.layer))
      [] base = "embedding" ->
           Field("weights", 0, IF t.var = "gate" THEN <<"ip", t.layer[2]>>
                                                 ELSE <<"ip", "emb", DenseField[t.var]>>)
      [] base = "smol_weight_gen" -> Field("weights", 0, <<"smolgen", DenseField[t.var]>>)

-----------------------------------------------------------------------------
(* Writing and reading a net file.                                         *)

IsRenorm(t) == t.var \in {"renorm_mean", "renorm_stddev"}
AsVariance(t) == IF t.var = "moving_stddev" THEN [t EXCEPT !.var = "moving_variance"] ELSE t

Identity(n) == [i \in 1..n |-> i]
FillAxes == <<Identity(1), <<2, 1>>, Identity(3), <<4, 3, 1, 2>>>>
ReplaceAxes == <<Identity(1), <<2, 1>>, Identity(3), <<3, 4, 2, 1>>>>

Rule50(t) == t.var = "kernel" /\ t.layer \in {<<"input", "conv2d">>, <<"embedding">>}

(* A client does not divide the rule 50 counter, so the factor is moved    *)
(* into the weights: into those of a convolution and of an embedding when  *)
(* a file is written, out of those of a convolution when it is read.       *)
FillPower(c) == IF c.hectoplies THEN 0 ELSE -1
ReplacePower(c) == IF c.hectoplies \/ c.encoder_layers > 0 THEN 0 ELSE 1

(* What the file holds of a tensor; rule50 is the power of 99 on it.       *)
Stored(c, t) ==
  [of |-> t, axes |-> FillAxes[Dimensions(t)], squared |-> t.var = "moving_stddev",
   rule50 |-> IF Rule50(t) THEN FillPower(c) ELSE 0]

Ones == [of |-> "ones", axes |-> <<1>>, squared |-> FALSE, rule50 |-> 0]

Written(c) == {t \in Weights(c) : ~IsRenorm(t) /\ ~(c.renorm /\ t.var = "moving_variance")}

(* fill_net_v2.  Batch norms without a gamma get one of ones.              *)
GammaOf(t) == [t EXCEPT !.var = "gamma"]
NeedsGamma(c) ==
  {t \in Written(c) : t.var = "beta" /\ Last(t.layer) = "bn" /\ GammaOf(t) \notin Weights(c)}

FillNet(c) ==
  [f \in {PbField(AsVariance(t)) : t \in Written(c)} |->
     Stored(c, CHOOSE t \in Written(c) : PbField(AsVariance(t)) = f)]
  @@ [f \in {PbField(GammaOf(t)) : t \in NeedsGamma(c)} |-> Ones]

(* get_weights_v2 and replace_weights on one tensor: a deviation is the    *)
(* root of what the file holds.                                            *)
Replaced(c, net, t) ==
  LET s == net[PbField(AsVariance(t))] IN
    [of |-> s.of,
     axes |-> [i \in DOMAIN s.axes |-> s.axes[ReplaceAxes[Dimensions(t)][i]]],
     squared |-> s.squared # (t.var = "moving_stddev"),
     rule50 |-> s.rule50 + (IF Rule50(t) THEN ReplacePower(c) ELSE 0)]

ReadableTensors(c) == {t \in Weights(c) : ~IsRenorm(t)}

ReplaceWeights(c, net) == [t \in ReadableTensors(c) |-> Replaced(c, net, t)]

(* Every tensor is what it was.  With renorm the variance that Keras keeps *)
(* beside the deviation is not stored; and the factor is lost on an        *)
(* encoder body.                                                           *)
LosesRule50(c) == c.encoder_layers > 0 /\ ~c.hectoplies

IsOwn(c, t, r) ==
  /\ r.of = t /\ r.axes = Identity(Dimensions(t)) /\ ~r.squared
  /\ r.rule50 = IF LosesRule50(c) /\ Rule50(t) THEN -1 ELSE 0

ReadsBack(c) ==
  LET read == ReplaceWeights(c, FillNet(c)) IN
    \A t \in ReadableTensors(c) :
      ~(c.renorm /\ t.var = "moving_variance") => IsOwn(c, t, read[t])

-----------------------------------------------------------------------------
(* The text format of net.py: one row of values for each field, in the     *)
(* order get_weights collects them in and fill_net takes them in.          *)

ConvRows(message, i, path, se) ==
  LET F(name) == Field(message, i, path \o <<name>>) IN
    IF se THEN <<F("bn_stddivs"), F("bn_means"), F("bn_betas"), F("bn_gammas"), F("weights")>>
          ELSE <<F("bn_stddivs"), F("bn_means"), F("biases"), F("weights")>>

WeightRow(path) == Field("weights", 0, path)

ResidualRows(i, se) ==
  (IF se THEN <<Field("residual", i, <<"se", "dense2", "b">>), Field("residual", i, <<"se", "dense2", "w">>),
                Field("residual", i, <<"se", "dense1", "b">>), Field("residual", i, <<"se", "dense1", "w">>)>>
         ELSE <<>>)
    \o ConvRows("residual", i, <<"conv", "2">>, se) \o ConvRows("residual", i, <<"conv", "1">>, se)

Rows(se, convolution, blocks) ==
  <<WeightRow(<<"ip", "2", "val", "b">>), WeightRow(<<"ip", "2", "val", "w">>),
    WeightRow(<<"ip", "1", "val", "b">>), WeightRow(<<"ip", "1", "val", "w">>)>>
  \o ConvRows("weights", 0, <<"value">>, se)
  \o (IF convolution THEN <<WeightRow(<<"policy", "biases">>), WeightRow(<<"policy", "weights">>)>>
                            \o ConvRows("weights", 0, <<"policy1">>, se)
                     ELSE <<WeightRow(<<"ip", "", "pol", "b">>), WeightRow(<<"ip", "", "pol", "w">>)>>
                            \o ConvRows("weights", 0, <<"policy">>, se))
  \o FlattenSeq([k \in 1..blocks |-> ResidualRows(blocks + 1 - k, se)])
  \o ConvRows("weights", 0, <<"input">>, se)

(* save_txt. *)
Text(se, convolution, blocks) ==
  [version |-> IF convolution THEN 4 ELSE IF se THEN 3 ELSE 2,
   rows |-> Reverse(Rows(se, convolution, blocks))]

WeightAmounts(se) ==
  [input |-> IF se THEN 5 ELSE 4, residual |-> IF se THEN 14 ELSE 8,
   head |-> 8 + 6 + (IF se THEN 2 ELSE 0)]

(* parse_txt: a Net is made with squeeze and excitation, and no version    *)
(* changes that.  fill_net pops the rows from the end, and refuses a       *)
(* number of them that makes no whole number of blocks.                    *)
TextBlocks(text) ==
  LET ws == WeightAmounts(TRUE)  extra == Len(text.rows) - (ws.input + ws.head) IN
    [accepted |-> extra % ws.residual = 0, blocks |-> extra \div ws.residual]

Parsed(text) == Rows(TRUE, text.version = 4, TextBlocks(text).blocks)

(* Every row goes back to the field it was taken from. *)
TextReadsBack(se, convolution, blocks) ==
  LET text == Text(se, convolution, blocks) IN
    TextBlocks(text).accepted => Reverse(Parsed(text)) = text.rows
=============================================================================
