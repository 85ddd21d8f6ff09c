------------------------------- MODULE JaxNet -------------------------------
(***************************************************************************)
(* The network of the JAX trainer and its conversion to and from net       *)
(* files: model/ says which parameters there are and of which shape,       *)
(* convert/leela_pytree_visitor.py which field of a net file is whose, and *)
(* jax_to_leela.py, leela_to_modelconfig.py and leela_to_jax.py write a    *)
(* file, read a configuration from one and read the weights back.          *)
(*                                                                         *)
(* Parameters and fields are known by their paths, sizes are computed as   *)
(* in the source, and weights are opaque values.                           *)
(***************************************************************************)
EXTENDS Integers, Sequences, FiniteSets, SequencesExt

PolicyNames == {"vanilla", "optimistic_st", "soft", "opponent"}
ValueNames == {"winner", "q", "st"}

(* A configuration: sizes, activations and heads, each a function from the *)
(* names of the heads there are.  0 stands for a field that is not set.    *)
Kinds == {"policy", "value", "movesleft"}
Size == Nat \ {0}
ConfigurationsWith(policy, value, movesleft) ==
  [dense_size : Size, embedding_size : Size, embedding_dff : Size, num_blocks : Size,
   d_model : Size, heads : Size, encoder_dff : Size, hidden_channels : Size,
   gen_size : Size, hidden_size : Size, shared : Nat,
   activation : STRING, ffn_activation : STRING, smolgen_activation : STRING,
   policy : [policy -> [embedding_size : Nat, d_model : Size]],
   value : [value -> [num_channels : Size, has_error_output : BOOLEAN,
                      num_categorical_buckets : Nat]],
   movesleft : [movesleft -> [num_channels : Size]]]
IsConfiguration(cfg) ==
  cfg \in ConfigurationsWith(DOMAIN cfg.policy, DOMAIN cfg.value, DOMAIN cfg.movesleft)

-----------------------------------------------------------------------------
(* The parameters of a model, as pairs of a path and a shape.              *)

Kernel(path, in, out) == {<<Append(path, "kernel"), <<in, out>>>>}
Linear(path, in, out) == Kernel(path, in, out) \cup {<<Append(path, "bias"), <<out>>>>}
LayerNorm(path, features) ==
  {<<Append(path, "scale"), <<features>>>>, <<Append(path, "bias"), <<features>>>>}
Ffn(path, in, hidden) ==
  Linear(Append(path, "linear1"), in, hidden) \cup Linear(Append(path, "linear2"), hidden, in)

MaGating(path, features) ==
  {<<path \o <<gate, "gate">>, <<64, features>>>> : gate \in {"mult_gate", "add_gate"}}

Embedding(cfg) ==
  LET p(name) == <<"embedding", name>>  emb == cfg.embedding_size IN
  UNION { Linear(p("preprocess"), 64 * 12, 64 * cfg.dense_size),
          Linear(p("embedding"), 112 + cfg.dense_size, emb), LayerNorm(p("norm"), emb),
          MaGating(p("ma_gating"), emb),
          Ffn(p("ffn"), emb, cfg.embedding_dff), LayerNorm(p("out_norm"), emb) }

SmolgenOf(path, cfg) ==
  LET p(name) == Append(path, name)  generated == cfg.gen_size * cfg.heads IN
  UNION { Kernel(p("compress"), cfg.embedding_size, cfg.hidden_channels),
          Linear(p("dense1"), cfg.hidden_channels * 64, cfg.hidden_size),
          LayerNorm(p("ln1"), cfg.hidden_size),
          Linear(p("dense2"), cfg.hidden_size, generated), LayerNorm(p("ln2"), generated) }

(* The layer that all blocks share is found at the first of them. *)
EncoderTower(cfg) ==
  LET emb == cfg.embedding_size
      block(i) ==
        LET b(name) == <<"encoders", i, name>>
            m(name) == <<"encoders", i, "mha", name>>
        IN UNION { UNION {Linear(m(name), emb, cfg.d_model) : name \in {"q", "k", "v"}},
                   Linear(m("output_dense"), cfg.d_model, emb), SmolgenOf(m("smolgen"), cfg),
                   LayerNorm(b("ln1"), emb), LayerNorm(b("ln2"), emb),
                   Ffn(b("ffn"), emb, cfg.encoder_dff) }
  IN Kernel(<<"encoders", 0, "mha", "smolgen", "weight_gen_dense">>, cfg.gen_size, 64 * 64)
       \cup UNION {block(i) : i \in 0 .. cfg.num_blocks - 1}

PolicyHead(name, cfg) ==
  LET head == cfg.policy[name]
      p(layer) == <<"policy_heads", name, layer>>
      size == IF cfg.shared # 0 THEN cfg.shared ELSE head.embedding_size
  IN UNION { IF cfg.shared # 0 THEN {} ELSE Linear(p("tokens"), cfg.embedding_size, size),
             Linear(p("q"), size, head.d_model), Linear(p("k"), size, head.d_model),
             Kernel(p("promotion_dense"), head.d_model, 4) }

ValueHead(name, cfg) ==
  LET head == cfg.value[name]
      p(layer) == <<"value_heads", name, layer>>
  IN UNION { Linear(p("embed"), cfg.embedding_size, head.num_channels),
             Linear(p("dense1"), head.num_channels * 64, 128), Linear(p("wdl"), 128, 3),
             IF head.has_error_output THEN Linear(p("error"), 128, 1) ELSE {},
             IF head.num_categorical_buckets = 0 THEN {}
             ELSE Linear(p("categorical"), 128, head.num_categorical_buckets) }

MovesLeftHead(name, cfg) ==
  LET p(layer) == <<"movesleft_heads", name, layer>>
      channels == cfg.movesleft[name].num_channels
  IN UNION { Linear(p("embed"), cfg.embedding_size, channels),
             Linear(p("dense1"), channels * 64, 128), Linear(p("out"), 128, 1) }

(* What the constructors assert. *)
Constructible(cfg) ==
  /\ cfg.dense_size > 0 /\ cfg.embedding_size > 0 /\ cfg.num_blocks > 0
  /\ cfg.gen_size # 0
  /\ cfg.d_model % cfg.heads = 0
  /\ \A name \in DOMAIN cfg.policy : (cfg.shared # 0) # (cfg.policy[name].embedding_size # 0)

Params(cfg) ==
  UNION { Embedding(cfg), EncoderTower(cfg),
          UNION {ValueHead(name, cfg) : name \in DOMAIN cfg.value},
          IF cfg.shared = 0 THEN {}
          ELSE Linear(<<"policy_embedding_shared">>, cfg.embedding_size, cfg.shared),
          UNION {PolicyHead(name, cfg) : name \in DOMAIN cfg.policy},
          UNION {MovesLeftHead(name, cfg) : name \in DOMAIN cfg.movesleft} }

Paths(cfg) == {x[1] : x \in Params(cfg)}
Product(shape) == IF Len(shape) = 1 THEN shape[1] ELSE shape[1] * shape[2]
Sizes(cfg) ==
  LET params == Params(cfg) IN
  [path \in {x[1] : x \in params} |-> Product((CHOOSE x \in params : x[1] = path)[2])]

-----------------------------------------------------------------------------
(* The visitor: which parameter is which field, for the heads that are     *)
(* visited.                                                                *)

(* matmul without and with biases, layernorm *)
Weight(path, field) == {<<Append(path, "kernel"), Append(field, "w")>>}
MatMul(path, field) == Weight(path, field) \cup {<<Append(path, "bias"), Append(field, "b")>>}
Norm(path, field) ==
  {<<Append(path, "scale"), Append(field, "gammas")>>, <<Append(path, "bias"), Append(field, "betas")>>}
VisitFfn(path, field) ==
  MatMul(Append(path, "linear1"), Append(field, "dense1"))
    \cup MatMul(Append(path, "linear2"), Append(field, "dense2"))

VisitEmbedding ==
  LET p(name) == <<"embedding", name>> IN
  UNION { MatMul(p("preprocess"), <<"ip_emb_preproc">>), MatMul(p("embedding"), <<"ip_emb">>),
          Norm(p("norm"), <<"ip_emb_ln">>),
          {<<<<"embedding", "ma_gating", "mult_gate", "gate">>, <<"ip_mult_gate">>>>,
           <<<<"embedding", "ma_gating", "add_gate", "gate">>, <<"ip_add_gate">>>>},
          VisitFfn(p("ffn"), <<"ip_emb_ffn">>), Norm(p("out_norm"), <<"ip_emb_ffn_ln">>) }

VisitSmolgen(path, field) ==
  LET p(name) == Append(path, name)  f(name) == Append(field, name) IN
  UNION { Weight(p("compress"), f("compress")), MatMul(p("dense1"), f("dense1")),
          Norm(p("ln1"), f("ln1")), MatMul(p("dense2"), f("dense2")), Norm(p("ln2"), f("ln2")) }

VisitTower(num_blocks) ==
  LET block(i) ==
        LET b(name) == <<"encoders", i, name>>
            m(name) == <<"encoders", i, "mha", name>>
            f(name) == <<"encoder", i, name>>
            g(name) == <<"encoder", i, "mha", name>>
        IN UNION { MatMul(m("q"), g("q")), MatMul(m("k"), g("k")), MatMul(m("v"), g("v")),
                   MatMul(m("output_dense"), g("dense")), VisitSmolgen(m("smolgen"), g("smolgen")),
                   Norm(b("ln1"), f("ln1")), Norm(b("ln2"), f("ln2")), VisitFfn(b("ffn"), f("ffn")) }
  IN Weight(<<"encoders", 0, "mha", "smolgen", "weight_gen_dense">>, <<"smolgen">>)
       \cup UNION {block(i) : i \in 0 .. num_blocks - 1}

VisitPolicy(name, tokens) ==
  LET p(layer) == <<"policy_heads", name, layer>>  f(layer) == <<"policy_heads", name, layer>> IN
  UNION { IF tokens THEN MatMul(p("tokens"), f("ip_pol")) ELSE {},
          MatMul(p("q"), f("ip2_pol")), MatMul(p("k"), f("ip3_pol")),
          Weight(p("promotion_dense"), f("ip4_pol")) }

VisitValue(name, error, categorical) ==
  LET p(layer) == <<"value_heads", name, layer>>  f(layer) == <<"value_heads", name, layer>> IN
  UNION { MatMul(p("embed"), f("ip_val")), MatMul(p("dense1"), f("ip1_val")),
          MatMul(p("wdl"), f("ip2_val")),
          IF error THEN MatMul(p("error"), f("ip_val_err")) ELSE {},
          IF categorical THEN MatMul(p("categorical"), f("ip_val_cat")) ELSE {} }

VisitMovesLeft ==
  LET p(layer) == <<"movesleft_heads", "main", layer>> IN
  UNION { MatMul(p("embed"), <<"ip_mov">>), MatMul(p("dense1"), <<"ip1_mov">>),
          MatMul(p("out"), <<"ip2_mov">>) }

(* The containers that the visitor asks for before it visits them.  There  *)
(* is no such question for the moves left head.                            *)
SharedEmbedding == <<"policy_heads", "ip_pol", "w">>
Containers == {SharedEmbedding} \cup {<<"policy_heads", name>> : name \in PolicyNames}
                \cup {<<"value_heads", name>> : name \in ValueNames}

(* run: present are the containers that the source has. *)
Visit(cfg, present) ==
  LET policy == {name \in PolicyNames \cap DOMAIN cfg.policy : <<"policy_heads", name>> \in present}
      value == {name \in ValueNames \cap DOMAIN cfg.value : <<"value_heads", name>> \in present}
  IN UNION { VisitEmbedding, VisitTower(cfg.num_blocks),
             IF cfg.shared # 0 /\ SharedEmbedding \in present
             THEN MatMul(<<"policy_embedding_shared">>, <<"policy_heads", "ip_pol">>) ELSE {},
             UNION {VisitPolicy(name, cfg.shared = 0) : name \in policy},
             UNION {VisitValue(name, cfg.value[name].has_error_output,
                               cfg.value[name].num_categorical_buckets # 0) : name \in value},
             IF "main" \in DOMAIN cfg.movesleft THEN VisitMovesLeft ELSE {} }

(* The state of a model without heads of a kind has no entry for them, and *)
(* the visitor looks up the value heads and the policy heads.              *)
Visitable(cfg) == DOMAIN cfg.value # {} /\ DOMAIN cfg.policy # {}

-----------------------------------------------------------------------------
(* Export.  A field has the size and the value of its parameter, and the   *)
(* power of 99 that the plane of the rule 50 counter was multiplied with.  *)

Plane(path) == path = <<"embedding", "embedding", "kernel">>

(* Mutant of Written: the plane is not divided. *)
WrittenPlain(path, w) == w
Written(path, w) == IF Plane(path) THEN [w EXCEPT !.power = @ - 1] ELSE w

ModernFormat(cfg) ==
  [network |-> "attention_multihead", input_embedding |-> "dense", policy |-> "attention",
   value |-> "wdl", moves_left |-> DOMAIN cfg.movesleft # {}, default_activation |-> "mish",
   smolgen_activation |-> "swish", ffn_activation |-> "default"]

(* weights: the values of a model of configuration cfg, by path. *)
NetOf(cfg, weights, format) ==
  LET pairs == Visit(cfg, Containers)
      sizes == Sizes(cfg)
      param(field) == (CHOOSE x \in pairs : x[2] = field)[1]
  IN [format |-> format, headcount |-> cfg.heads, encoders |-> cfg.num_blocks,
      fields |-> [field \in {x[2] : x \in pairs} |->
                    [size |-> sizes[param(field)],
                     value |-> Written(param(field), weights[param(field)])]]]

JaxToLeela(cfg, weights) == NetOf(cfg, weights, ModernFormat(cfg))

-----------------------------------------------------------------------------
(* Import: the format of an older file is brought up to date, the          *)
(* configuration is read off the sizes, compared with the one expected,    *)
(* and the weights are read into a model of the latter.                    *)

HasField(net, container) ==
  \E field \in DOMAIN net.fields : IsPrefix(container, field)
SizeOf(net, field) == IF field \in DOMAIN net.fields THEN net.fields[field].size ELSE 0

FixOlderWeightsFile(net) ==
  LET old == net.format
      network == CASE old.network = "none" -> "classical_headformat"
                   [] old.network = "classical" -> "classical_headformat"
                   [] old.network = "se" -> "se_headformat"
                   [] old.network = "se_headformat" /\ net.encoders > 0 -> "attention_headformat"
                   [] old.network = "ab_legacy_multihead" -> "attention_multihead"
                   [] OTHER -> old.network
      renamed == old.network = "se_headformat" /\ net.encoders > 0
      headformat == old.network \in {"none", "classical", "se"}
      multihead == /\ network = "attention_headformat"
                   /\ HasField(net, <<"policy_heads">>) /\ HasField(net, <<"value_heads">>)
      smolgen == renamed /\ HasField(net, <<"smolgen">>)
      format ==
        [old EXCEPT
          !.network = IF multihead THEN "attention_multihead" ELSE network,
          !.policy = IF headformat THEN "classical" ELSE old.policy,
          !.value = IF headformat THEN "classical" ELSE old.value,
          !.input_embedding =
            IF multihead THEN "dense"
            ELSE IF network = "attention_headformat" /\ old.input_embedding = "none" THEN "map"
            ELSE old.input_embedding,
          !.ffn_activation = IF smolgen THEN "relu_2" ELSE old.ffn_activation,
          !.smolgen_activation = IF smolgen THEN "swish" ELSE old.smolgen_activation]
  IN [net EXCEPT !.format = format]

Readable(net) ==
  /\ net.format.input_embedding = "dense" /\ net.format.policy = "attention"
  /\ net.format.value = "wdl" /\ net.format.network = "attention_multihead"
  /\ SizeOf(net, <<"ip_mult_gate">>) > 0 /\ SizeOf(net, <<"ip_add_gate">>) > 0
  /\ net.encoders > 0

Or(activation, default) == IF activation = "default" THEN default ELSE activation

(* The own embedding of a policy head, unless there is a shared one.       *)
OwnEmbedding(net, name) ==
  IF HasField(net, <<"policy_heads", name, "ip_pol", "w">>)
     \/ ~HasField(net, <<"policy_heads", "ip_pol", "w">>)
  THEN SizeOf(net, <<"policy_heads", name, "ip_pol", "b">>) ELSE 0

LeelaToModelConfig(net) ==
  LET size(field) == SizeOf(net, field)
      encoder(f) == size(<<"encoder", 0>> \o f)
      activation == net.format.default_activation
      emb == size(<<"ip_emb", "b">>)
      smolgen == HasField(net, <<"smolgen">>)
      channels == size(<<"ip_mov", "b">>)
  IN [dense_size |-> size(<<"ip_emb_preproc", "b">>) \div 64, embedding_size |-> emb,
      embedding_dff |-> size(<<"ip_emb_ffn", "dense1", "b">>), num_blocks |-> net.encoders,
      d_model |-> encoder(<<"mha", "q", "b">>), heads |-> net.headcount,
      encoder_dff |-> encoder(<<"ffn", "dense1", "b">>),
      activation |-> activation,
      ffn_activation |-> Or(net.format.ffn_activation, activation),
      smolgen_activation |->
        IF smolgen THEN Or(net.format.smolgen_activation, activation) ELSE "default",
      hidden_channels |-> IF smolgen THEN encoder(<<"mha", "smolgen", "compress", "w">>) \div emb ELSE 0,
      gen_size |-> IF smolgen THEN encoder(<<"mha", "smolgen", "dense2", "b">>) \div net.headcount ELSE 0,
      hidden_size |-> IF smolgen THEN encoder(<<"mha", "smolgen", "dense1", "b">>) ELSE 0,
      shared |-> size(<<"policy_heads", "ip_pol", "b">>),
      policy |-> [name \in {n \in PolicyNames : HasField(net, <<"policy_heads", n>>)} |->
                    [embedding_size |-> OwnEmbedding(net, name),
                     d_model |-> size(<<"policy_heads", name, "ip2_pol", "b">>)]],
      value |-> [name \in {n \in ValueNames : HasField(net, <<"value_heads", n>>)} |->
                   [num_channels |-> size(<<"value_heads", name, "ip_val", "b">>),
                    has_error_output |-> HasField(net, <<"value_heads", name, "ip_val_err", "w">>),
                    num_categorical_buckets |-> size(<<"value_heads", name, "ip_val_cat", "b">>)]],
      movesleft |-> IF net.format.moves_left /\ channels > 0
                    THEN [name \in {"main"} |-> [num_channels |-> channels]] ELSE <<>>]

(* The heads of the source are among those of the target, and are the same.*)
Body(cfg) == [field \in DOMAIN cfg \ Kinds |-> cfg[field]]
IsCompatibleSubset(source, target) ==
  /\ Body(source) = Body(target)
  /\ \A kind \in Kinds :
       \A name \in DOMAIN source[kind] :
         name \in DOMAIN target[kind] /\ source[kind][name] = target[kind][name]

(* LeelaToJax.tensor asserts that the sizes agree. *)
ImportPairs(net, target) ==
  Visit(target, {container \in Containers : HasField(net, container)})
Importable(net, target) ==
  /\ Constructible(target) /\ Visitable(target)
  /\ LET sizes == Sizes(target) IN
     \A x \in ImportPairs(net, target) : SizeOf(net, x[2]) = sizes[x[1]]

Random == [value |-> <<"random">>, power |-> 0]
LeelaToJax(net, target) ==
  LET pairs == ImportPairs(net, target)
      read(path) == net.fields[(CHOOSE x \in pairs : x[1] = path)[2]].value
  IN [path \in Paths(target) |->
        IF ~ \E x \in pairs : x[1] = path THEN Random
        ELSE IF Plane(path) THEN [read(path) EXCEPT !.power = @ + 1] ELSE read(path)]

(* _load_lc0_model_state: a net is accepted as the weights of a model. *)
Accepts(net, target) ==
  LET fixed == FixOlderWeightsFile(net) IN
  Readable(fixed) /\ IsCompatibleSubset(LeelaToModelConfig(fixed), target)

-----------------------------------------------------------------------------
(* The names of heads that files have, and the activations they are given. *)
Standard(cfg) ==
  /\ DOMAIN cfg.policy \subseteq PolicyNames /\ DOMAIN cfg.value \subseteq ValueNames
  /\ DOMAIN cfg.movesleft \subseteq {"main"}
  /\ cfg.activation = "mish" /\ cfg.ffn_activation = "mish" /\ cfg.smolgen_activation = "swish"

(* The weights of a model are known by their paths.                        *)
Own(path) == [value |-> path, power |-> 0]
Exported(cfg) == JaxToLeela(cfg, [path \in Paths(cfg) |-> Own(path)])
=============================================================================
