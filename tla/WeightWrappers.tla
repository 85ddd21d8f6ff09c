--------------------------- MODULE WeightWrappers ---------------------------
(***************************************************************************)
(* tools/weight_wrappers.py and weights_tool.py: a script that reads and   *)
(* changes nets through wrappers.  A wrapper decodes its layer when it is  *)
(* first read and keeps the array; what is written to it reaches the       *)
(* protobuf when the net is saved, and only if the wrapper is still in the *)
(* cache of the wrapper above it.                                          *)
(*                                                                         *)
(* A net has the layer "ip", the optional layer "extra" and a list of at   *)
(* most two encoders with one layer each.  A layer's array is a number.    *)
(***************************************************************************)
EXTENDS Integers, FiniteSets, Sequences, FiniteSetsExt

CONSTANTS MaxOps    \* bound: the operations of a script

VARIABLES
  layers,     \* _proto: the stored layers of a net
  wrappers,   \* _attr_cache, _item_cache: the wrappers of a net, by the key they were reached by
  meant,      \* ghost: the value the script gave each layer, as if wrappers were arrays
  excused,    \* ghost: the layers whose value the wrappers are known to lose
  ops         \* bound: the operations so far

script == <<layers, wrappers, meant, excused, ops>>

Nets == {"A", "B"}          \* the variables of the script
Leaves == {"ip", "extra", "enc0", "enc1"}
List == <<"enc0", "enc1">>
Keys == Leaves \cup {"last"}          \* encoder[0], encoder[1] and encoder[-1]

LINEAR16 == 1
FLOAT16 == 2
BFLOAT16 == 3
Encodings == {FLOAT16, BFLOAT16}       \* bound: of the files saved
Unset == [value |-> {}, encoding |-> 0, bytes |-> 0]
(* A layer that is there without parameters. *)
Empty == [value |-> {0}, encoding |-> 0, bytes |-> 0]
NoWrapper == [value |-> {}, decoded |-> FALSE, modified |-> FALSE]
Wrapped == NoWrapper

-----------------------------------------------------------------------------
(* Layers.  A value is a singleton: {0} is the empty array.                *)

Has(n, leaf) == layers[n][leaf] # Unset
Length(n) == Cardinality({i \in 1..2 : Has(n, List[i])})

(* The layer behind a key: _proto_list[-1] is the last of the list. *)
Leaf(n, key) == IF key = "last" THEN List[Length(n)] ELSE key

Reachable(n, key) ==
  CASE key = "last" -> Length(n) > 0
    [] key \in {List[1], List[2]} -> Has(n, key)
    [] OTHER -> TRUE

Encode(value, encoding) == [value |-> value, encoding |-> encoding, bytes |-> encoding]

(* A layer without an encoding of its own is in the format's; bytes that   *)
(* are read in another encoding than they were written in are garbage.     *)
Decode(layer, fallback) ==
  LET encoding == IF layer.encoding # 0 THEN layer.encoding ELSE fallback IN
  CASE layer \in {Unset, Empty} -> {0}
    [] layer.bytes = encoding -> layer.value
    [] OTHER -> {-1}

(* _detect_encoding: of every net there is. *)
Fallback == LINEAR16

Value(n, key) ==
  IF wrappers[n][key].decoded THEN wrappers[n][key].value
  ELSE Decode(layers[n][Leaf(n, key)], Fallback)

Decoded(n, key) ==
  [wrappers[n][key] EXCEPT !.value = Value(n, key), !.decoded = TRUE]

Uncommitted(n, leaf) ==
  \E key \in Keys : Reachable(n, key) /\ Leaf(n, key) = leaf /\ wrappers[n][key].modified

Excuse(n, leaf, lost) == IF lost THEN excused[n] \cup {leaf} ELSE excused[n] \ {leaf}

-----------------------------------------------------------------------------
Stored(ip, extra, encoders) ==
  LET layer(v) == [value |-> {v}, encoding |-> 0, bytes |-> LINEAR16] IN
  [leaf \in Leaves |->
     CASE leaf = "ip" -> layer(ip)
       [] leaf = "extra" -> IF extra = 0 THEN Unset ELSE layer(extra)
       [] leaf = "enc0" -> layer(encoders[1])
       [] leaf = "enc1" -> IF Len(encoders) < 2 THEN Unset ELSE layer(encoders[2])]

(* load_weights. *)
ScriptInit ==
  /\ layers = [n \in Nets |-> IF n = "A" THEN Stored(1, 2, <<3, 4>>) ELSE Stored(10, 0, <<30>>)]
  /\ wrappers = [n \in Nets |-> [key \in Keys |-> NoWrapper]]
  /\ meant = [n \in Nets |-> [leaf \in Leaves |-> layers[n][leaf].value]]
  /\ excused = [n \in Nets |-> {}]
  /\ ops = 0

Operation == ops < MaxOps /\ ops' = ops + 1

(* LayerWrapper.value *)
Read(n, key) ==
  /\ Operation /\ Reachable(n, key)
  /\ wrappers' = [wrappers EXCEPT ![n][key] = Decoded(n, key)]
  /\ UNCHANGED <<layers, meant, excused>>

(* LayerWrapper.value = v *)
Write(n, key, v) ==
  /\ Operation /\ Reachable(n, key)
  /\ wrappers' = [wrappers EXCEPT ![n][key] = [value |-> {v}, decoded |-> TRUE, modified |-> TRUE]]
  /\ meant' = [meant EXCEPT ![n][Leaf(n, key)] = {v}]
  /\ excused' = [excused EXCEPT ![n] = Excuse(n, Leaf(n, key), key = "last")]
  /\ UNCHANGED layers

(* CopyFrom gives the destination a field, of whatever the source has. *)
Copied(layer) == IF layer = Unset THEN Empty ELSE layer

(* Mutant of Assign: the wrapper of the field that is replaced stays in    *)
(* the cache.                                                              *)
AssignKeepingWrapper(n, key, layer) ==
  /\ layers' = [layers EXCEPT ![n][Leaf(n, key)] = layer]
  /\ UNCHANGED wrappers

(* __setattr__, __setitem__ *)
Assign(n, key, layer) ==
  /\ layers' = [layers EXCEPT ![n][Leaf(n, key)] = layer]
  /\ wrappers' = [wrappers EXCEPT ![n][key] = Wrapped]

(* n.key = m.key: the stored layer of m is copied, without what was        *)
(* written to its wrapper and not yet committed.                           *)
Graft(n, m, key) ==
  /\ Operation /\ n # m /\ Reachable(n, key) /\ Reachable(m, key)
  /\ Assign(n, key, Copied(layers[m][Leaf(m, key)]))
  /\ meant' = [meant EXCEPT ![n][Leaf(n, key)] =
                 IF meant[m][Leaf(m, key)] # {} THEN meant[m][Leaf(m, key)] ELSE {0}]
  /\ excused' = [excused EXCEPT ![n] = Excuse(n, Leaf(n, key),
       \/ Leaf(m, key) \in excused[m]
       \/ Uncommitted(m, Leaf(m, key))
       \/ key = "last" /\ wrappers[n][Leaf(n, key)].decoded)]

(* n.key = n.key + m.key: the sum is a wrapper around a new layer and is   *)
(* not committed, so an empty layer is what is copied.                     *)
GraftSum(n, m, key) ==
  LET k == Leaf(n, key)  j == Leaf(m, key) IN
  /\ Operation /\ Reachable(n, key) /\ Reachable(m, key)
  /\ {0} \notin {Value(n, key), Value(m, key)}
  /\ layers' = [layers EXCEPT ![n][k] = Empty]
  /\ wrappers' = [x \in Nets |-> [wrappers[x] EXCEPT ![key] =
                    IF x = n THEN Wrapped ELSE IF x = m THEN Decoded(m, key) ELSE @]]
  /\ meant' = [meant EXCEPT ![n][k] = {Max(meant[n][k]) + Max(meant[m][j])}]
  /\ excused' = [excused EXCEPT ![n] = @ \cup {k}]

(* n.weights = m.weights, which forgets every wrapper below; of the same   *)
(* message it changes nothing else.                                        *)
GraftAll(n, m) ==
  /\ Operation
  /\ layers' = [layers EXCEPT ![n] = layers[m]]
  /\ wrappers' = [wrappers EXCEPT ![n] = [key \in Keys |-> Wrapped]]
  /\ meant' = [meant EXCEPT ![n] = meant[m]]
  /\ excused' = [excused EXCEPT ![n] =
                   excused[m] \cup {leaf \in Leaves : Uncommitted(m, leaf)}]

-----------------------------------------------------------------------------
(* Arithmetic: x = l + r, l - r or scalar * l.                             *)

Both(l, r) == {leaf \in Leaves : Has(l, leaf) /\ Has(r, leaf)}
MeantBoth(l, r) == {leaf \in Leaves : meant[l][leaf] # {} /\ meant[r][leaf] # {}}

(* scalar * l is modelled as an operation on l and l. *)
Operators == {"plus", "minus"}
Result(op, a, b) == CASE op = "plus" -> a + b [] op = "minus" -> a - b [] op = "scale" -> 2 * a

(* The result starts as a copy of what l has stored.  A layer that both    *)
(* have gets the value the wrappers show, a list is cut to the shorter     *)
(* one, and a layer that only l has stays as it was stored.  What a side   *)
(* has is what its protobuf has: a layer that was written and not saved is *)
(* skipped where it is not stored, on the left and on the right.  The      *)
(* script means the result for every layer that it gave both sides.        *)
Combine(x, l, r, op) ==
  /\ Operation
  /\ \A leaf \in Both(l, r) : {0} \notin {Value(l, leaf), Value(r, leaf)}
  /\ LET kept == [leaf \in Leaves |->
                    IF leaf \in {"enc0", "enc1"} \ Both(l, r) THEN Unset ELSE layers[l][leaf]]
         value(leaf) == {Result(op, Max(Value(l, leaf)), Max(Value(r, leaf)))}
         ghost == [leaf \in Leaves |->
                     IF leaf \in MeantBoth(l, r)
                     THEN {Result(op, Max(meant[l][leaf]), Max(meant[r][leaf]))}
                     ELSE IF leaf \in {"enc0", "enc1"} THEN {} ELSE meant[l][leaf]]
     IN /\ layers' = [layers EXCEPT ![x] = kept]
        /\ wrappers' = [n \in Nets |-> [key \in Keys |->
             CASE n = x /\ key \in Both(l, r) ->
                    [value |-> value(key), decoded |-> TRUE, modified |-> TRUE]
               [] n = x /\ key \notin Both(l, r) -> NoWrapper
               [] n # x /\ n \in {l, r} /\ key \in Both(l, r) -> Decoded(n, key)
               [] OTHER -> wrappers[n][key]]]
        /\ meant' = [meant EXCEPT ![x] = ghost]
        /\ excused' = [excused EXCEPT ![x] =
             {leaf \in Leaves : IF leaf \in Both(l, r) THEN leaf \in excused[l] \cup excused[r]
                                ELSE \/ leaf \in MeantBoth(l, r) \cup excused[l]
                                     \/ Uncommitted(l, leaf)}]

-----------------------------------------------------------------------------
(* NetWrapper.save: the modified layers among the cached wrappers are      *)
(* encoded into the protobuf.  _commit_all visits a list by the indices    *)
(* from 0, so the wrapper of encoder[-1] is not among them.  The protobuf  *)
(* is then what the file holds.                                            *)
Save(n, encoding) ==
  LET committed == [leaf \in Leaves |->
        IF wrappers[n][leaf].modified THEN Encode(wrappers[n][leaf].value, encoding)
        ELSE layers[n][leaf]]
  IN /\ Operation
     /\ layers' = [layers EXCEPT ![n] = committed]
     /\ wrappers' = [wrappers EXCEPT ![n] = [key \in Keys |->
                       IF key \in Leaves THEN [@[key] EXCEPT !.modified = FALSE] ELSE @[key]]]
     /\ UNCHANGED <<meant, excused>>

ScriptNext ==
  \/ \E n \in Nets, key \in Keys : Read(n, key) \/ Write(n, key, 7)
  \/ \E n, m \in Nets, key \in Keys : Graft(n, m, key) \/ GraftSum(n, m, key)
  \/ \E n, m \in Nets : GraftAll(n, m)
  \/ \E x, l, r \in Nets : \E op \in Operators : Combine(x, l, r, op)
  \/ \E x, l \in Nets : Combine(x, l, l, "scale")
  \/ \E n \in Nets, encoding \in Encodings : Save(n, encoding)

ScriptSpec == ScriptInit /\ [][ScriptNext]_script

-----------------------------------------------------------------------------
(* After any sequence of reads, writes, grafts, sums and saves, a save     *)
(* writes for every layer the value the script gave it, as if wrappers     *)
(* were plain arrays: no cached wrapper resurrects a layer that was        *)
(* replaced, hides one that was written or carries a value to another net. *)
(* The exceptions are: a layer assigned from a wrapper with writes that    *)
(* were not saved or with a sum of layers, one written as encoder[-1] or   *)
(* replaced as that after encoder[n-1] was read, and in a sum, difference  *)
(* or multiple of nets a layer that was written and not saved and that the *)
(* protobuf of one of the sides does not have.                             *)
SavedAsMeant ==
  \A n \in Nets : (\E encoding \in Encodings : Save(n, encoding)) =>
    \A leaf \in Leaves \ excused[n] :
      IF meant[n][leaf] = {} THEN layers'[n][leaf] = Unset
      ELSE Decode(layers'[n][leaf], Fallback) = meant[n][leaf]
SavesAsMeant == [][SavedAsMeant]_script
=============================================================================
