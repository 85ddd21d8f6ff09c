--------------------------- MODULE StageGraphProofs ---------------------------
(***************************************************************************)
(* Proofs about StageGraph, for every graph of stages that is well formed  *)
(* and is fed distinct frames: ItemsConserved, with its two parts.         *)
(***************************************************************************)
EXTENDS StageGraph, FiniteSetTheorems, SequenceTheorems, TLAPS

(* What a queue may hold, and what a worker may put where.                 *)
Sources(g) ==
  CHOOSE sources \in SUBSET DOMAIN g.capacity : \A w \in DOMAIN g.workers : WorkerFits(g, w, sources)
Carried(g, q) == IF q \in Sources(g) THEN Sets(g) \cup {Sentinel} ELSE Sets(g)
Parcels(g, w) == UNION {{q} \X Carried(g, q) : q \in ToSet(g.workers[w].outputs)}

QueuesOK == DOMAIN queue = Queues /\ \A q \in Queues : queue[q] \in Seq(Carried(graph, q))
CrewOK ==
  /\ DOMAIN life = Workers /\ DOMAIN opened = Workers
  /\ \A w \in Workers : /\ life[w] \in {"awaiting", "enqueued", "running", "ended"}
                        /\ opened[w] \in 0 .. Len(Outputs(w))
                        /\ life[w] = "awaiting" => opened[w] = 0
                        /\ life[w] = "enqueued" /\ Outputs(w) # <<>> => opened[w] < Len(Outputs(w))
                        /\ life[w] = "running" => opened[w] = Len(Outputs(w))
ScriptOK ==
  DOMAIN script = Workers /\ \A w \in Workers : script[w] \in Seq(ToSet(graph.workers[w].script))
HandOK == DOMAIN hand = Workers /\ \A w \in Workers : hand[w] \in Seq(Sets(graph))
TodoOK ==
  /\ DOMAIN todo = Workers
  /\ \A w \in Workers :
       /\ todo[w] \in Seq(Parcels(graph, w))
       /\ Kind(w) = "rescorer" =>
            Len(todo[w]) =< 1 /\ \A i \in DOMAIN todo[w] : todo[w][i][2] \in Sets(graph)
PoolOK ==
  /\ pooled \subseteq Sets(graph) /\ cached \subseteq Stock(graph)
  /\ cached # {} => \E w \in Workers : Kind(w) = "caching"
EndsOK == closed \subseteq Queues /\ delivered \subseteq Stock(graph) /\ dropped \subseteq Stock(graph)
TypeOK ==
  /\ graph \in Graphs /\ stop \in Nat
  /\ QueuesOK /\ CrewOK /\ ScriptOK /\ HandOK /\ TodoOK /\ PoolOK /\ EndsOK

-----------------------------------------------------------------------------
(* Sequences of sets of frames.                                            *)

All(s) == UNION {Frames(s[i]) : i \in DOMAIN s}
Once(s) == \A i, j \in DOMAIN s : i # j => Frames(s[i]) \cap Frames(s[j]) = {}

LEMMA Empty == All(<<>>) = {} /\ Once(<<>>)
BY DEF All, Once

LEMMA Single == ASSUME NEW x PROVE All(<<x>>) = Frames(x) /\ Once(<<x>>)
BY DEF All, Once

LEMMA HeadOff ==
  ASSUME NEW S, NEW s \in Seq(S), s # <<>>, Once(s)
  PROVE  /\ Tail(s) \in Seq(S) /\ Head(s) \in S
         /\ Once(Tail(s))
         /\ Frames(Head(s)) \subseteq All(s)
         /\ All(Tail(s)) = All(s) \ Frames(Head(s))
<1>. DEFINE n == Len(s)
<1>1. n \in Nat \ {0} /\ DOMAIN s = 1 .. n /\ Head(s) = s[1] /\ Head(s) \in S /\ Tail(s) \in Seq(S)
  OBVIOUS
<1>2. DOMAIN Tail(s) = 1 .. (n - 1) /\ \A i \in 1 .. (n - 1) : Tail(s)[i] = s[i + 1]
  OBVIOUS
<1>3. \A i \in 1 .. (n - 1) : i + 1 \in 1 .. n /\ i + 1 # 1
  BY <1>1
<1>4. \A i \in 1 .. n : i # 1 => i - 1 \in 1 .. (n - 1) /\ (i - 1) + 1 = i
  BY <1>1
<1>5. Once(Tail(s))
  <2>. SUFFICES ASSUME NEW i \in 1 .. (n - 1), NEW j \in 1 .. (n - 1), i # j
                PROVE  Frames(s[i + 1]) \cap Frames(s[j + 1]) = {}
    BY <1>2 DEF Once
  <2>1. i + 1 # j + 1
    BY <1>1
  <2>. QED BY <2>1, <1>1, <1>3 DEF Once
<1>6. Frames(Head(s)) \subseteq All(s)
  BY <1>1 DEF All
<1>7. ASSUME NEW f \in All(Tail(s)) PROVE f \in All(s) \ Frames(Head(s))
  <2>1. PICK i \in 1 .. (n - 1) : f \in Frames(s[i + 1])
    BY <1>2 DEF All
  <2>. QED BY <2>1, <1>1, <1>3 DEF All, Once
<1>8. ASSUME NEW f \in All(s), f \notin Frames(Head(s)) PROVE f \in All(Tail(s))
  <2>1. PICK i \in 1 .. n : f \in Frames(s[i])
    BY <1>1 DEF All
  <2>2. i # 1
    BY <2>1, <1>1, <1>8
  <2>3. i - 1 \in DOMAIN Tail(s) /\ Tail(s)[i - 1] = s[i]
    BY <2>2, <1>2, <1>4
  <2>. QED BY <2>1, <2>3 DEF All
<1>. QED BY <1>1, <1>5, <1>6, <1>7, <1>8

LEMMA AddedLast ==
  ASSUME NEW S, NEW s \in Seq(S), NEW x \in S, Once(s), All(s) \cap Frames(x) = {}
  PROVE  /\ Append(s, x) \in Seq(S)
         /\ Once(Append(s, x))
         /\ All(Append(s, x)) = All(s) \cup Frames(x)
<1>. DEFINE n == Len(s)  t == Append(s, x)
<1>1. n \in Nat /\ DOMAIN s = 1 .. n /\ DOMAIN t = 1 .. (n + 1) /\ t \in Seq(S)
  OBVIOUS
<1>2. t[n + 1] = x /\ \A i \in 1 .. n : t[i] = s[i]
  OBVIOUS
<1>3. \A i \in 1 .. (n + 1) : i = n + 1 \/ i \in 1 .. n
  BY <1>1
<1>4. n + 1 \in 1 .. (n + 1) /\ \A i \in 1 .. n : i \in 1 .. (n + 1)
  BY <1>1
<1>5. \A i \in 1 .. n : Frames(s[i]) \subseteq All(s)
  BY <1>1 DEF All
<1>. HIDE DEF n, t
<1>6. Once(t)
  <2>. SUFFICES ASSUME NEW i \in 1 .. (n + 1), NEW j \in 1 .. (n + 1), i # j
                PROVE  Frames(t[i]) \cap Frames(t[j]) = {}
    BY <1>1 DEF Once
  <2>1. CASE i = n + 1
    BY <2>1, <1>2, <1>3, <1>5
  <2>2. CASE j = n + 1
    BY <2>2, <1>2, <1>3, <1>5
  <2>3. CASE i \in 1 .. n /\ j \in 1 .. n
    BY <2>3, <1>1, <1>2 DEF Once
  <2>. QED BY <2>1, <2>2, <2>3, <1>3
<1>7. All(t) = All(s) \cup Frames(x)
  BY <1>1, <1>2, <1>3, <1>4, Zenon DEF All
<1>. QED BY <1>1, <1>6, <1>7 DEF t

LEMMA TakenOut ==
  ASSUME NEW S, NEW s \in Seq(S), NEW k \in DOMAIN s
  PROVE  /\ RemoveAt(s, k) \in Seq(S) /\ s[k] \in S
         /\ Once(s) => /\ Once(RemoveAt(s, k))
                       /\ Frames(s[k]) \subseteq All(s)
                       /\ All(RemoveAt(s, k)) = All(s) \ Frames(s[k])
<1>. DEFINE n == Len(s)  t == RemoveAt(s, k)
            from(i) == IF i < k THEN i ELSE i + 1
            back(i) == IF i < k THEN i ELSE i - 1
<1>1. n \in Nat \ {0} /\ DOMAIN s = 1 .. n /\ k \in 1 .. n /\ s[k] \in S
  OBVIOUS
<1>2. t \in Seq(S) /\ Len(t) = n - 1 /\ \A i \in 1 .. (n - 1) : t[i] = s[from(i)]
  <2>. DEFINE u == SubSeq(s, 1, k - 1)  v == SubSeq(s, k + 1, n)
  <2>1. u \in Seq(S) /\ Len(u) = k - 1 /\ \A i \in 1 .. (k - 1) : u[i] = s[i]
    BY <1>1
  <2>2. v \in Seq(S) /\ Len(v) = n - k /\ \A i \in 1 .. (n - k) : v[i] = s[k + i]
    BY <1>1
  <2>3. t = u \o v
    BY DEF RemoveAt
  <2>. HIDE DEF n, t, u, v
  <2>4. t \in Seq(S) /\ Len(t) = (k - 1) + (n - k)
    BY <2>1, <2>2, <2>3
  <2>5. \A i \in 1 .. (n - 1) : t[i] = IF i < k THEN u[i] ELSE v[i - (k - 1)]
    BY <2>1, <2>2, <2>3, <1>1
  <2>6. \A i \in 1 .. (n - 1) :
          IF i < k THEN i \in 1 .. (k - 1)
          ELSE i - (k - 1) \in 1 .. (n - k) /\ k + (i - (k - 1)) = i + 1
    BY <1>1
  <2>7. Len(t) = n - 1
    BY <2>4, <1>1
  <2>8. ASSUME NEW i \in 1 .. (n - 1) PROVE t[i] = s[from(i)]
    <3>1. CASE i < k
      BY <3>1, <2>1, <2>5, <2>6
    <3>2. CASE ~(i < k)
      <4>. DEFINE j == i - (k - 1)
      <4>1. t[i] = v[j] /\ j \in 1 .. (n - k) /\ k + j = i + 1
        BY <3>2, <2>5, <2>6
      <4>. HIDE DEF j
      <4>. QED BY <3>2, <4>1, <2>2
    <3>. QED BY <3>1, <3>2
  <2>. QED BY <2>4, <2>7, <2>8
<1>3. DOMAIN t = 1 .. (n - 1)
  BY <1>2
<1>. HIDE DEF n, t
<1>4. \A i \in 1 .. (n - 1) : from(i) \in 1 .. n /\ from(i) # k
  BY <1>1
<1>5. \A i \in 1 .. n : i # k => back(i) \in 1 .. (n - 1) /\ from(back(i)) = i
  BY <1>1
<1>6. \A i, j \in 1 .. (n - 1) : i # j => from(i) # from(j)
  BY <1>1
<1>. HIDE DEF from, back
<1>7. ASSUME Once(s) PROVE Once(t)
  BY <1>1, <1>2, <1>3, <1>4, <1>6, <1>7 DEF Once
<1>8. Frames(s[k]) \subseteq All(s)
  BY <1>1 DEF All
<1>9. ASSUME Once(s), NEW f \in All(t) PROVE f \in All(s) \ Frames(s[k])
  <2>1. PICK i \in 1 .. (n - 1) : f \in Frames(s[from(i)])
    BY <1>2, <1>3 DEF All
  <2>. QED BY <2>1, <1>1, <1>4, <1>9 DEF All, Once
<1>10. ASSUME NEW f \in All(s), f \notin Frames(s[k]) PROVE f \in All(t)
  <2>1. PICK i \in 1 .. n : f \in Frames(s[i])
    BY <1>1 DEF All
  <2>2. back(i) \in 1 .. (n - 1) /\ from(back(i)) = i
    BY <2>1, <1>5, <1>10
  <2>. QED BY <2>1, <2>2, <1>2, <1>3 DEF All
<1>. QED BY <1>1, <1>2, <1>7, <1>8, <1>9, <1>10 DEF t

(* SetToSeqs gives every element of a finite set once.                     *)
LEMMA Ordered ==
  ASSUME NEW S, IsFiniteSet(S), NEW order \in SetToSeqs(S)
  PROVE  /\ order \in Seq(S)
         /\ \A i, j \in DOMAIN order : i # j => order[i] # order[j]
         /\ \A x \in S : \E i \in DOMAIN order : order[i] = x
<1>. DEFINE n == Cardinality(S)
<1>1. n \in Nat
  BY FS_CardinalityType
<1>2. order \in [1 .. n -> S] /\ \A i, j \in 1 .. n : i # j => order[i] # order[j]
  BY DEF SetToSeqs
<1>3. ASSUME NEW x \in S, \A i \in 1 .. n : order[i] # x PROVE FALSE
  <2>. DEFINE D == 1 .. n  T == S \ {x}
  <2>1. IsFiniteSet(T) /\ Cardinality(T) = n - 1
    BY FS_RemoveElement
  <2>2. IsFiniteSet(D) /\ Cardinality(D) = n
    <3>1. IsFiniteSet(1 .. n) /\ Cardinality(1 .. n) = IF 1 > n THEN 0 ELSE n - 1 + 1
      BY <1>1, FS_Interval
    <3>. QED BY <3>1, <1>1
  <2>3. order \in [D -> S] /\ \A i \in D : order[i] \in T
    BY <1>2, <1>3
  <2>4. Cardinality(T) < Cardinality(D)
    BY <2>1, <2>2, <1>1
  <2>5. \A i, j \in D : i # j => order[i] # order[j]
    BY <1>2
  <2>. HIDE DEF D, T
  <2>6. order \in [D -> T]
    BY <2>3
  <2>. QED BY <2>1, <2>2, <2>4, <2>5, <2>6, FS_PigeonHole
<1>. QED BY <1>1, <1>2, <1>3

-----------------------------------------------------------------------------
(* What a graph that is well formed gives.                                 *)

LEMMA Fitting ==
  ASSUME NEW g \in Graphs
  PROVE  /\ Sources(g) \subseteq DOMAIN g.capacity
         /\ \A w \in DOMAIN g.workers : WorkerFits(g, w, Sources(g))
<1>1. \E sources \in SUBSET DOMAIN g.capacity :
        \A w \in DOMAIN g.workers : WorkerFits(g, w, sources)
  BY GraphsAssumption DEF WellFormed
<1>. QED BY <1>1 DEF Sources

LEMMA WorkerFacts ==
  ASSUME graph \in Graphs, NEW w \in Workers
  PROVE  /\ Kind(w) \in Kinds /\ graph.workers[w].stage \in Nat \ {0}
         /\ Outputs(w) \in Seq(Queues)
         /\ graph.workers[w].script \in Seq(Sets(graph) \cup {Sentinel})
         /\ Kind(w) \notin {"init", "ingestion", "caching"} => Outputs(w) # <<>>
         /\ Kind(w) \notin {"feed", "output"} => Input(w) \in Queues
         /\ Kind(w) = "splitter" => ToSet(Outputs(w)) \subseteq Sources(graph)
         /\ Kind(w) = "unpacker" => Len(Outputs(w)) \in {1, 2}
         /\ Kind(w) = "feed" /\ Sentinel \in ToSet(graph.workers[w].script) =>
              ToSet(Outputs(w)) \subseteq Sources(graph)
         /\ Kind(w) \in {"rescorer", "unpacker", "join", "sampler", "tensor", "caching"} =>
              Input(w) \notin Sources(graph)
<1>1. WorkerFits(graph, w, Sources(graph))
  BY Fitting DEF Workers
<1>. DEFINE worker == graph.workers[w]  sources == Sources(graph)
<1>2. /\ worker.stage \in Nat \ {0} /\ worker.kind \in Kinds
      /\ worker.outputs \in Seq(DOMAIN graph.capacity)
      /\ worker.script \in Seq(Sets(graph) \cup {Sentinel})
  BY <1>1 DEF WorkerFits
<1>3. /\ worker.kind \notin {"init", "ingestion", "caching"} => worker.outputs # <<>>
      /\ worker.kind \notin {"feed", "output"} => worker.input \in DOMAIN graph.capacity
      /\ worker.kind = "splitter" => ToSet(worker.outputs) \subseteq sources
      /\ worker.kind = "unpacker" => Len(worker.outputs) \in {1, 2}
  BY <1>1 DEF WorkerFits
<1>4. /\ worker.kind = "feed" /\ Sentinel \in ToSet(worker.script) =>
           ToSet(worker.outputs) \subseteq sources
      /\ worker.kind \in {"rescorer", "unpacker", "join", "sampler", "tensor", "caching"} =>
           worker.input \notin sources
  BY <1>1 DEF WorkerFits
<1>5. /\ worker.kind = Kind(w) /\ worker.outputs = Outputs(w) /\ worker.input = Input(w)
      /\ DOMAIN graph.capacity = Queues
  BY DEF Kind, Outputs, Input, Queues
<1>. QED BY <1>2, <1>3, <1>4, <1>5

LEMMA Carrying ==
  ASSUME NEW g, NEW q
  PROVE  /\ q \notin Sources(g) => Carried(g, q) = Sets(g)
         /\ Sets(g) \subseteq Carried(g, q)
         /\ Carried(g, q) \subseteq Sets(g) \cup {Sentinel}
         /\ q \in Sources(g) => Sentinel \in Carried(g, q)
BY DEF Carried

LEMMA SetsOfFrames ==
  ASSUME graph \in Graphs
  PROVE  /\ \A x \in Sets(graph) : x # Sentinel /\ Frames(x) = x /\ x \subseteq Stock(graph)
         /\ Frames(Sentinel) = {}
         /\ IsFiniteSet(Stock(graph))
BY GraphsAssumption DEF Distinct, Sets, Frames

(* A worker may put into its outputs what they carry.                      *)
LEMMA Parcel ==
  ASSUME NEW g, NEW w, NEW i \in DOMAIN g.workers[w].outputs,
         NEW x \in Carried(g, g.workers[w].outputs[i])
  PROVE  <<g.workers[w].outputs[i], x>> \in Parcels(g, w)
BY DEF Parcels, ToSet

LEMMA PoolFacts ==
  ASSUME graph \in Graphs
  PROVE  /\ \A v, w \in Workers : Kind(v) = "init" /\ Kind(w) = "init" => v = w
         /\ \A w \in Workers : Kind(w) \in PoolKinds =>
              /\ HasPool
              /\ \E v \in Workers : Kind(v) = "output"
         /\ (\E w \in Workers : Kind(w) = "caching") =>
              \A w \in Workers : Kind(w) = "output" => Len(Outputs(w)) = 2
BY GraphsAssumption DEF WellFormed, PoolFits, Workers, Kind, Outputs, HasPool

LEMMA FirstOutput ==
  ASSUME graph \in Graphs, NEW w \in Workers, Kind(w) = "init"
  PROVE  \E v \in Workers : /\ Kind(v) = "output" /\ PoolOutputs = Outputs(v)
                            /\ 1 \in DOMAIN Outputs(v) /\ PoolOutputs[1] \in Queues
<1>1. \E v \in Workers : Kind(v) = "output"
  BY PoolFacts DEF PoolKinds
<1>. DEFINE v == CHOOSE v \in Workers : Kind(v) = "output"
<1>2. v \in Workers /\ Kind(v) = "output"
  BY <1>1
<1>3. PoolOutputs = Outputs(v)
  BY DEF PoolOutputs
<1>. HIDE DEF v
<1>. QED BY <1>2, <1>3, WorkerFacts

LEMMA QueueFacts ==
  graph \in Graphs =>
    graph.read \subseteq Queues /\ \A q \in Queues : graph.capacity[q] \in Nat \ {0}
BY GraphsAssumption DEF WellFormed, Queues

LEMMA CacheOutput ==
  ASSUME graph \in Graphs, NEW w \in Workers, Kind(w) = "output",
         \E v \in Workers : Kind(v) = "caching"
  PROVE  2 \in DOMAIN Outputs(w)
BY PoolFacts, WorkerFacts

-----------------------------------------------------------------------------
(* Types.                                                                  *)

LEMMA TypesInit == Init => TypeOK
<1>. SUFFICES ASSUME Init PROVE TypeOK
  OBVIOUS
<1>1. graph \in Graphs /\ stop \in Nat
  BY DEF Init
<1>2. QueuesOK /\ HandOK /\ TodoOK
  BY DEF Init, QueuesOK, HandOK, TodoOK
<1>3. CrewOK
  BY <1>1, WorkerFacts DEF Init, CrewOK
<1>4. ScriptOK
  <2>1. ASSUME NEW w \in Workers PROVE script[w] \in Seq(ToSet(graph.workers[w].script))
    <3>. DEFINE s == graph.workers[w].script
    <3>1. script[w] = s
      BY DEF Init
    <3>2. PICK S : s \in Seq(S)
      BY <1>1, WorkerFacts
    <3>. HIDE DEF s
    <3>3. s \in Seq(ToSet(s))
      BY <3>2 DEF ToSet
    <3>. QED BY <3>1, <3>3 DEF s
  <2>. QED BY <2>1 DEF Init, ScriptOK
<1>5. PoolOK /\ EndsOK
  BY DEF Init, PoolOK, EndsOK
<1>. QED BY <1>1, <1>2, <1>3, <1>4, <1>5 DEF TypeOK

(* What a step leaves alone keeps its type.                                *)
LEMMA Same ==
  ASSUME TypeOK, graph' = graph
  PROVE  /\ queue' = queue => QueuesOK'
         /\ UNCHANGED <<life, opened>> => CrewOK'
         /\ script' = script => ScriptOK'
         /\ hand' = hand => HandOK'
         /\ todo' = todo => TodoOK'
         /\ UNCHANGED pool => PoolOK'
         /\ UNCHANGED <<closed, delivered, dropped>> => EndsOK'
<1>1. queue' = queue => QueuesOK'
  BY DEF TypeOK, QueuesOK, Queues
<1>2. UNCHANGED <<life, opened>> => CrewOK'
  BY DEF TypeOK, CrewOK, Workers, Outputs
<1>3. script' = script => ScriptOK'
  BY DEF TypeOK, ScriptOK, Workers
<1>4. hand' = hand => HandOK'
  BY DEF TypeOK, HandOK, Workers
<1>5. todo' = todo => TodoOK'
  BY DEF TypeOK, TodoOK, Workers, Kind
<1>6. UNCHANGED pool => PoolOK'
  BY DEF TypeOK, PoolOK, pool, Workers, Kind
<1>7. UNCHANGED <<closed, delivered, dropped>> => EndsOK'
  BY DEF TypeOK, EndsOK, Queues
<1>. QED BY <1>1, <1>2, <1>3, <1>4, <1>5, <1>6, <1>7

LEMMA LeaveTypes ==
  ASSUME TypeOK, NEW w \in Workers, Leave(w), UNCHANGED <<graph, opened, delivered>>,
         dropped' \subseteq Stock(graph)
  PROVE  CrewOK' /\ EndsOK'
<1>1. CrewOK'
  BY DEF TypeOK, CrewOK, Leave, Become, Workers, Outputs
<1>2. closed' \subseteq Queues'
  BY DEF TypeOK, EndsOK, Leave, Queues
<1>. QED BY <1>1, <1>2 DEF TypeOK, EndsOK

LEMMA TakesTypes ==
  ASSUME TypeOK, NEW w \in Workers, Takes(w)
  PROVE  /\ QueuesOK' /\ graph' = graph /\ stop' = stop
         /\ Input(w) \in Queues /\ queue[Input(w)] \in Seq(Carried(graph, Input(w)))
         /\ queue[Input(w)] # <<>>
         /\ Head(queue[Input(w)]) \in Carried(graph, Input(w))
<1>1. /\ Input(w) \in Queues /\ queue[Input(w)] # <<>> /\ graph' = graph /\ stop' = stop
      /\ queue' = [queue EXCEPT ![Input(w)] = Tail(@)]
  BY WorkerFacts DEF TypeOK, Takes, Wants
<1>2. queue[Input(w)] \in Seq(Carried(graph, Input(w)))
  BY <1>1 DEF TypeOK, QueuesOK
<1>3. /\ Tail(queue[Input(w)]) \in Seq(Carried(graph, Input(w)))
      /\ Head(queue[Input(w)]) \in Carried(graph, Input(w))
  BY <1>1, <1>2
<1>4. QueuesOK'
  BY <1>1, <1>3 DEF TypeOK, QueuesOK, Queues
<1>. QED BY <1>1, <1>2, <1>3, <1>4

LEMMA WillPutTypes ==
  ASSUME TypeOK, graph' = graph, NEW w \in Workers, NEW puts \in Seq(Parcels(graph, w)),
         Kind(w) # "rescorer", WillPut(w, puts)
  PROVE  TodoOK'
BY DEF TypeOK, TodoOK, WillPut, Workers, Kind

LEMMA OneParcel ==
  ASSUME graph \in Graphs, NEW w \in Workers, Outputs(w) # <<>>,
         NEW x \in Carried(graph, Outputs(w)[1])
  PROVE  << <<Outputs(w)[1], x>> >> \in Seq(Parcels(graph, w))
<1>1. 1 \in DOMAIN graph.workers[w].outputs
  BY WorkerFacts DEF Outputs
<1>2. <<Outputs(w)[1], x>> \in Parcels(graph, w)
  BY <1>1, Parcel DEF Outputs
<1>. QED BY <1>2

LEMMA HandTypes ==
  ASSUME TypeOK, graph' = graph, NEW w \in Workers, NEW items \in Seq(Sets(graph)),
         hand' = [hand EXCEPT ![w] = items]
  PROVE  HandOK'
BY DEF TypeOK, HandOK, Workers

LEMMA StartTypes ==
  ASSUME TypeOK, NEW w \in Workers,
         Start(w) \/ CreateProducer(w) \/ Abandon(w) \/ GetThrows(w) \/ EndFeed(w)
  PROVE  TypeOK'
<1>1. /\ UNCHANGED <<graph, flow, work, pool, stop>>
      /\ \A v \in Workers : Outputs(v) \in Seq(Queues)
  BY WorkerFacts DEF TypeOK, Start, CreateProducer, Abandon, GetThrows, EndFeed
<1>2. /\ graph' = graph /\ queue' = queue /\ script' = script /\ hand' = hand /\ todo' = todo
      /\ UNCHANGED pool /\ delivered' = delivered /\ dropped' = dropped /\ stop' = stop
  BY <1>1 DEF flow, work
<1>3. QueuesOK' /\ ScriptOK' /\ HandOK' /\ TodoOK' /\ PoolOK' /\ graph' \in Graphs /\ stop' \in Nat
  BY <1>2, Same DEF TypeOK
<1>4. dropped' \subseteq Stock(graph)
  BY <1>2 DEF TypeOK, EndsOK
<1>5. CASE Start(w) \/ Abandon(w)
  <2>1. closed' = closed /\ opened' = opened
    BY <1>5 DEF Start, Abandon
  <2>2. CrewOK'
    BY <1>2, <1>5, <2>1 DEF Start, Abandon, Become, TypeOK, CrewOK, Workers, Outputs
  <2>. QED BY <1>2, <1>3, <2>1, <2>2, Same DEF TypeOK
<1>6. CASE GetThrows(w) \/ EndFeed(w)
  <2>1. Leave(w) /\ opened' = opened
    BY <1>6 DEF GetThrows, EndFeed
  <2>. QED BY <1>2, <1>3, <1>4, <2>1, LeaveTypes DEF TypeOK
<1>7. CASE CreateProducer(w)
  <2>1. CASE Outputs(w)[opened[w] + 1] \in closed
    <3>1. Leave(w) /\ opened' = opened
      BY <1>7, <2>1 DEF CreateProducer
    <3>. QED BY <1>2, <1>3, <1>4, <3>1, LeaveTypes DEF TypeOK
  <2>2. CASE ~(Outputs(w)[opened[w] + 1] \in closed)
    <3>1. /\ opened' = [opened EXCEPT ![w] = @ + 1] /\ closed' = closed
          /\ life' = [life EXCEPT ![w] = IF opened'[w] = Len(Outputs(w)) THEN "running" ELSE "enqueued"]
      BY <1>7, <2>2 DEF CreateProducer, Become
    <3>2. opened[w] + 1 \in 0 .. Len(Outputs(w))
      BY <1>7 DEF TypeOK, CrewOK, CreateProducer
    <3>3. CrewOK'
      BY <1>2, <3>1, <3>2 DEF TypeOK, CrewOK, Workers, Outputs
    <3>. QED BY <1>2, <1>3, <3>1, <3>3, Same DEF TypeOK
  <2>. QED BY <2>1, <2>2
<1>. QED BY <1>5, <1>6, <1>7

LEMMA TakingTypes ==
  ASSUME TypeOK, NEW w \in Workers,
         \/ Split(w) \/ Extract(w) \/ Rescore(w) \/ Unpack(w) \/ Pass(w) \/ Reserve(w) \/ Collect(w)
         \/ CollectSource(w) \/ Ingest(w) \/ Cache(w)
  PROVE  TypeOK'
<1>. DEFINE item == Head(queue[Input(w)])
<1>1. Takes(w)
  BY DEF Split, Extract, Rescore, Unpack, Pass, Reserve, Collect, CollectSource, Ingest, Cache
<1>2. /\ QueuesOK' /\ graph' = graph /\ stop' = stop
      /\ delivered' = delivered /\ opened' = opened /\ script' = script
      /\ Input(w) \in Queues /\ item \in Carried(graph, Input(w))
  BY <1>1, TakesTypes DEF Takes
<1>3. closed' = closed /\ life' = life
  BY DEF Split, Extract, Rescore, Unpack, Pass, Reserve, Collect, CollectSource, Ingest, Cache
<1>4. graph' \in Graphs /\ stop' \in Nat /\ QueuesOK' /\ CrewOK' /\ ScriptOK'
  BY <1>2, <1>3, Same DEF TypeOK
<1>5. /\ item \in Sets(graph) \cup {Sentinel}
      /\ Input(w) \notin Sources(graph) => item \in Sets(graph)
  BY <1>2, Carrying
<1>6. /\ \A x \in Sets(graph) : x # Sentinel /\ Frames(x) = x /\ x \subseteq Stock(graph)
      /\ IsFiniteSet(Stock(graph)) /\ dropped \subseteq Stock(graph)
  BY SetsOfFrames DEF TypeOK, EndsOK
<1>7. \A x : x \subseteq Stock(graph) => x \in Sets(graph)
  BY DEF Sets
<1>8. graph \in Graphs /\ Outputs(w) \in Seq(Queues)
  BY WorkerFacts DEF TypeOK
<1>. HIDE DEF item
<1>9. CASE Split(w)
  <2>1. UNCHANGED <<dropped, hand, pool>> /\ Kind(w) # "rescorer"
    BY <1>9 DEF Split
  <2>2. ASSUME item = Sentinel PROVE TodoOK'
    <3>. DEFINE puts == [i \in DOMAIN Outputs(w) |-> <<Outputs(w)[i], Sentinel>>]
    <3>1. WillPut(w, puts)
      BY <1>9, <2>2 DEF Split, item
    <3>2. \A i \in DOMAIN Outputs(w) : Outputs(w)[i] \in Sources(graph)
      BY <1>8, <1>9, WorkerFacts DEF Split, ToSet
    <3>3. \A i \in DOMAIN Outputs(w) : <<Outputs(w)[i], Sentinel>> \in Parcels(graph, w)
      BY <3>2, Carrying, Parcel DEF Outputs
    <3>4. puts \in Seq(Parcels(graph, w))
      BY <3>3, <1>8
    <3>. HIDE DEF puts
    <3>. QED BY <1>2, <2>1, <3>1, <3>4, WillPutTypes
  <2>3. ASSUME item # Sentinel PROVE TodoOK'
    <3>1. item \subseteq Stock(graph)
      BY <2>3, <1>5, <1>6
    <3>2. PICK f \in [item -> DOMAIN Outputs(w)] :
            \E order \in SetToSeqs({f[x] : x \in item}) :
              WillPut(w, [i \in DOMAIN order |-> <<Outputs(w)[order[i]], {x \in item : f[x] = order[i]}>>])
      BY <1>9, <2>3 DEF Split, item
    <3>. DEFINE parts == {f[x] : x \in item}  view(i) == {x \in item : f[x] = i}
    <3>. PICK order \in SetToSeqs(parts) :
           WillPut(w, [i \in DOMAIN order |-> <<Outputs(w)[order[i]], view(order[i])>>])
      BY <3>2
    <3>. DEFINE puts == [i \in DOMAIN order |-> <<Outputs(w)[order[i]], view(order[i])>>]
    <3>3. parts \subseteq DOMAIN Outputs(w)
      OBVIOUS
    <3>4. order \in Seq(parts)
      <4>1. IsFiniteSet(DOMAIN Outputs(w))
        BY <1>8, FS_Interval
      <4>2. IsFiniteSet(parts)
        BY <3>3, <4>1, FS_Subset
      <4>. HIDE DEF parts
      <4>. QED BY <4>2, Ordered DEF parts
    <3>5. \A i \in DOMAIN order : order[i] \in DOMAIN Outputs(w)
      BY <3>3, <3>4
    <3>6. \A i : view(i) \in Sets(graph)
      BY <3>1, <1>7
    <3>. HIDE DEF view, parts
    <3>7. \A i \in DOMAIN order : <<Outputs(w)[order[i]], view(order[i])>> \in Parcels(graph, w)
      BY <3>5, <3>6, Carrying, Parcel DEF Outputs
    <3>8. puts \in Seq(Parcels(graph, w))
      BY <3>4, <3>7
    <3>9. WillPut(w, puts)
      OBVIOUS
    <3>. HIDE DEF puts
    <3>. QED BY <1>2, <2>1, <3>8, <3>9, WillPutTypes
  <2>. QED BY <1>2, <1>3, <1>4, <2>1, <2>2, <2>3, Same DEF TypeOK
<1>10. CASE Extract(w)
  <2>1. UNCHANGED <<hand, pool>> /\ Kind(w) = "extractor" /\ Outputs(w) # <<>>
    BY <1>8, <1>10, WorkerFacts DEF Extract
  <2>2. CASE item = Sentinel
    <3>1. todo' = todo /\ dropped' = dropped
      BY <1>10, <2>2 DEF Extract, item
    <3>. QED BY <1>2, <1>3, <1>4, <2>1, <3>1, Same DEF TypeOK
  <2>3. CASE item # Sentinel
    <3>1. item \subseteq Stock(graph) /\ dropped' = dropped \cup (item \cap Unreadable)
      BY <1>5, <1>6, <1>10, <2>3 DEF Extract, item
    <3>2. EndsOK'
      BY <1>2, <1>3, <1>6, <3>1 DEF TypeOK, EndsOK, Queues
    <3>3. PICK order \in SetToSeqs(item \ Unreadable) :
            WillPut(w, [i \in DOMAIN order |-> <<Outputs(w)[1], {order[i]}>>])
      BY <1>10, <2>3 DEF Extract, item
    <3>. DEFINE puts == [i \in DOMAIN order |-> <<Outputs(w)[1], {order[i]}>>]
    <3>4. order \in Seq(Stock(graph))
      <4>1. IsFiniteSet(item \ Unreadable)
        BY <1>6, <3>1, FS_Subset
      <4>. QED BY <3>1, <4>1, Ordered
    <3>5. 1 \in DOMAIN Outputs(w)
      BY <1>8, <2>1
    <3>6. \A i \in DOMAIN order : <<Outputs(w)[1], {order[i]}>> \in Parcels(graph, w)
      BY <1>7, <3>4, <3>5, Carrying, Parcel DEF Outputs
    <3>7. puts \in Seq(Parcels(graph, w))
      BY <3>4, <3>6
    <3>8. WillPut(w, puts)
      BY <3>3
    <3>. HIDE DEF puts
    <3>9. TodoOK'
      BY <1>2, <2>1, <3>7, <3>8, WillPutTypes
    <3>. QED BY <1>2, <1>3, <1>4, <2>1, <3>2, <3>9, Same DEF TypeOK
  <2>. QED BY <2>2, <2>3
<1>11. CASE Rescore(w)
  <2>1. UNCHANGED <<hand, pool>> /\ Kind(w) = "rescorer"
    BY <1>11 DEF Rescore
  <2>2. Outputs(w) # <<>> /\ item \in Sets(graph) /\ item \in Carried(graph, Outputs(w)[1])
    BY <1>5, <1>8, <2>1, WorkerFacts, Carrying
  <2>3. CASE WillPut(w, << <<Outputs(w)[1], item>> >>) /\ dropped' = dropped
    <3>. DEFINE puts == << <<Outputs(w)[1], item>> >>
    <3>1. puts \in Seq(Parcels(graph, w))
      BY <1>8, <2>2, OneParcel
    <3>2. Len(puts) = 1 /\ \A i \in DOMAIN puts : puts[i][2] \in Sets(graph)
      BY <2>2
    <3>3. todo' = [todo EXCEPT ![w] = puts]
      BY <2>3 DEF WillPut
    <3>. HIDE DEF puts
    <3>4. DOMAIN todo' = DOMAIN todo /\ todo'[w] = puts /\ \A v \in Workers \ {w} : todo'[v] = todo[v]
      BY <3>3 DEF TypeOK, TodoOK
    <3>5. Len(puts) =< 1
      BY <3>2
    <3>6. TodoOK'
      BY <1>2, <3>1, <3>2, <3>4, <3>5 DEF TypeOK, TodoOK, Workers, Kind
    <3>. QED BY <1>2, <1>3, <1>4, <2>1, <2>3, <3>6, Same DEF TypeOK
  <2>4. CASE todo' = todo /\ dropped' = dropped \cup item
    <3>1. EndsOK'
      BY <1>2, <1>3, <1>6, <2>2, <2>4 DEF TypeOK, EndsOK, Queues
    <3>. QED BY <1>2, <1>3, <1>4, <2>1, <2>4, <3>1, Same DEF TypeOK
  <2>. QED BY <1>11, <2>3, <2>4 DEF Rescore, item
<1>12. CASE Unpack(w)
  <2>1. UNCHANGED <<dropped, hand, pool>> /\ Kind(w) = "unpacker" /\ Outputs(w) # <<>>
        /\ Len(Outputs(w)) \in {1, 2} /\ item \subseteq Stock(graph)
    BY <1>5, <1>6, <1>8, <1>12, WorkerFacts DEF Unpack
  <2>2. PICK order \in SetToSeqs(item) :
          IF Len(Outputs(w)) = 1 \/ order = <<>>
          THEN WillPut(w, [i \in DOMAIN order |-> <<Outputs(w)[1], {order[i]}>>])
          ELSE WillPut(w, IF item \ {order[1]} = {} THEN << <<Outputs(w)[1], {order[1]}>> >>
                          ELSE << <<Outputs(w)[1], {order[1]}>>, <<Outputs(w)[2], item \ {order[1]}>> >>)
    BY <1>12 DEF Unpack, item
  <2>3. order \in Seq(item)
    BY <1>6, <2>1, FS_Subset, Ordered
  <2>4. 1 \in DOMAIN Outputs(w) /\ (Len(Outputs(w)) # 1 => 2 \in DOMAIN Outputs(w))
    BY <1>8, <2>1
  <2>5. \A i \in DOMAIN order : <<Outputs(w)[1], {order[i]}>> \in Parcels(graph, w)
    BY <1>7, <2>1, <2>3, <2>4, Carrying, Parcel DEF Outputs
  <2>6. CASE Len(Outputs(w)) = 1 \/ order = <<>>
    <3>. DEFINE puts == [i \in DOMAIN order |-> <<Outputs(w)[1], {order[i]}>>]
    <3>1. puts \in Seq(Parcels(graph, w)) /\ WillPut(w, puts)
      BY <2>2, <2>3, <2>5, <2>6
    <3>. HIDE DEF puts
    <3>. QED BY <1>2, <1>3, <1>4, <2>1, <3>1, WillPutTypes, Same DEF TypeOK
  <2>7. CASE ~(Len(Outputs(w)) = 1 \/ order = <<>>)
    <3>. DEFINE first == <<Outputs(w)[1], {order[1]}>>
                rest == <<Outputs(w)[2], item \ {order[1]}>>
                puts == IF item \ {order[1]} = {} THEN <<first>> ELSE <<first, rest>>
    <3>1. 1 \in DOMAIN order
      BY <2>3, <2>7
    <3>2. first \in Parcels(graph, w) /\ rest \in Parcels(graph, w)
      BY <1>7, <2>1, <2>4, <2>5, <2>7, <3>1, Carrying, Parcel DEF Outputs
    <3>3. WillPut(w, puts)
      BY <2>2, <2>7
    <3>4. puts \in Seq(Parcels(graph, w))
      <4>. HIDE DEF first, rest
      <4>. QED BY <3>2
    <3>. HIDE DEF puts
    <3>. QED BY <1>2, <1>3, <1>4, <2>1, <3>3, <3>4, WillPutTypes, Same DEF TypeOK
  <2>. QED BY <2>6, <2>7
<1>13. CASE Pass(w)
  <2>1. UNCHANGED <<dropped, hand, pool>> /\ Kind(w) = "join"
        /\ WillPut(w, << <<Outputs(w)[1], item>> >>)
    BY <1>13 DEF Pass, item
  <2>2. Outputs(w) # <<>> /\ item \in Carried(graph, Outputs(w)[1])
    BY <1>5, <1>8, <2>1, WorkerFacts, Carrying
  <2>3. TodoOK'
    BY <1>2, <1>8, <2>1, <2>2, OneParcel, WillPutTypes
  <2>. QED BY <1>2, <1>3, <1>4, <2>1, <2>3, Same DEF TypeOK
<1>14. CASE Reserve(w)
  <2>1. UNCHANGED <<dropped, todo, pool>> /\ hand' = [hand EXCEPT ![w] = Append(@, item)]
        /\ item \in Sets(graph)
    BY <1>5, <1>8, <1>14, WorkerFacts DEF Reserve, item
  <2>2. hand' = [hand EXCEPT ![w] = Append(hand[w], item)] /\ hand[w] \in Seq(Sets(graph))
    BY <2>1 DEF TypeOK, HandOK
  <2>3. Append(hand[w], item) \in Seq(Sets(graph))
    BY <2>1, <2>2
  <2>4. HandOK'
    BY <1>2, <2>2, <2>3, HandTypes
  <2>. QED BY <1>2, <1>3, <1>4, <2>1, <2>4, Same DEF TypeOK
<1>15. CASE Collect(w)
  <2>. DEFINE batch == Append(hand[w], item)
  <2>1. UNCHANGED <<dropped, pool>> /\ item \in Sets(graph) /\ hand[w] \in Seq(Sets(graph))
        /\ Kind(w) = "tensor" /\ Outputs(w) # <<>>
    BY <1>5, <1>8, <1>15, WorkerFacts DEF Collect, item, TypeOK, HandOK
  <2>2. batch \in Seq(Sets(graph)) /\ <<>> \in Seq(Sets(graph))
    BY <2>1
  <2>. HIDE DEF batch
  <2>3. CASE hand' = [hand EXCEPT ![w] = batch] /\ todo' = todo
    BY <1>2, <1>3, <1>4, <2>1, <2>2, <2>3, Same, HandTypes DEF TypeOK
  <2>4. CASE WillPut(w, << <<Outputs(w)[1], UNION ToSet(batch)>> >>) /\ hand' = [hand EXCEPT ![w] = <<>>]
    <3>1. \A x \in ToSet(batch) : x \subseteq Stock(graph)
      BY <2>2, <1>6 DEF ToSet
    <3>2. UNION ToSet(batch) \in Carried(graph, Outputs(w)[1])
      BY <3>1, <1>7, Carrying
    <3>3. TodoOK' /\ HandOK'
      BY <1>2, <1>8, <2>1, <2>2, <2>4, <3>2, OneParcel, WillPutTypes, HandTypes
    <3>. QED BY <1>2, <1>3, <1>4, <2>1, <3>3, Same DEF TypeOK
  <2>. QED BY <1>15, <2>3, <2>4 DEF Collect, item, batch
<1>16. CASE CollectSource(w)
  <2>1. UNCHANGED <<dropped, todo, pool>> /\ hand' = [hand EXCEPT ![w] = Append(@, item)]
        /\ item # Sentinel
    BY <1>16 DEF CollectSource, item
  <2>2. hand' = [hand EXCEPT ![w] = Append(hand[w], item)] /\ hand[w] \in Seq(Sets(graph))
    BY <2>1 DEF TypeOK, HandOK
  <2>3. Append(hand[w], item) \in Seq(Sets(graph))
    BY <1>5, <2>1, <2>2
  <2>4. HandOK'
    BY <1>2, <2>2, <2>3, HandTypes
  <2>. QED BY <1>2, <1>3, <1>4, <2>1, <2>4, Same DEF TypeOK
<1>17. CASE Ingest(w)
  <2>1. UNCHANGED <<dropped, hand, todo, cached>> /\ pooled' \subseteq pooled \cup (Sets(graph))
    BY <1>5, <1>17 DEF Ingest, item
  <2>2. PoolOK'
    BY <1>2, <2>1 DEF PoolOK, TypeOK, Workers, Kind
  <2>. QED BY <1>2, <1>3, <1>4, <2>1, <2>2, Same DEF TypeOK
<1>18. CASE Cache(w)
  <2>1. UNCHANGED <<dropped, hand, todo, pooled>> /\ cached' \subseteq cached \cup item
        /\ Kind(w) = "caching"
    BY <1>18 DEF Cache, item
  <2>2. item \subseteq Stock(graph)
    BY <1>5, <1>6, <1>8, <2>1, WorkerFacts
  <2>3. PoolOK'
    BY <1>2, <2>1, <2>2 DEF PoolOK, TypeOK, Workers, Kind
  <2>. QED BY <1>2, <1>3, <1>4, <2>1, <2>3, Same DEF TypeOK
<1>. QED BY <1>9, <1>10, <1>11, <1>12, <1>13, <1>14, <1>15, <1>16, <1>17, <1>18

LEMMA PoolTypes ==
  ASSUME TypeOK, NEW w \in Workers,
         Initialized(w) \/ FailInitialization(w) \/ Draw(w) \/ Sample(w) \/ Feed(w)
  PROVE  TypeOK'
<1>1. graph' = graph /\ graph \in Graphs /\ stop' = stop
  BY DEF TypeOK, Initialized, Takes, FailInitialization, Draw, Sample, Feed
<1>2. \A x \in Sets(graph) : x # Sentinel /\ Frames(x) = x /\ x \subseteq Stock(graph)
  BY <1>1, SetsOfFrames
<1>3. CASE Initialized(w)
  <2>1. /\ Takes(w) /\ pooled' = ToSet(hand[w]) /\ cached' = cached
        /\ hand' = [hand EXCEPT ![w] = <<>>] /\ UNCHANGED <<dropped, closed, todo>>
        /\ life' = [v \in Workers |-> IF v = w THEN "ended"
                                     ELSE IF life[v] = "awaiting" THEN "enqueued" ELSE life[v]]
    BY <1>3 DEF Initialized
  <2>2. UNCHANGED <<delivered, opened, script>> /\ QueuesOK'
    BY <2>1, TakesTypes DEF Takes
  <2>3. HandOK'
    <3>1. <<>> \in Seq(Sets(graph))
      OBVIOUS
    <3>. QED BY <1>1, <2>1, <3>1, HandTypes
  <2>4. PoolOK'
    BY <1>1, <2>1 DEF TypeOK, PoolOK, HandOK, ToSet, Workers, Kind
  <2>5. CrewOK'
    <3>1. \A v \in Workers : Outputs(v) # <<>> => 0 < Len(Outputs(v))
      BY <1>1, WorkerFacts
    <3>. QED BY <1>1, <2>1, <2>2, <3>1 DEF TypeOK, CrewOK, Workers, Outputs
  <2>. QED BY <1>1, <2>1, <2>2, <2>3, <2>4, <2>5, Same DEF TypeOK
<1>4. CASE FailInitialization(w)
  <2>1. /\ UNCHANGED <<delivered, dropped, opened, work, pool>>
        /\ life' = [life EXCEPT ![w] = "ended"] /\ closed' = closed \cup {PoolOutputs[1]}
        /\ Kind(w) = "init"
    BY <1>4 DEF FailInitialization, Become
  <2>2. QueuesOK'
    <3>1. CASE queue' = queue
      BY <1>1, <3>1, Same
    <3>2. CASE queue[Input(w)] # <<>> /\ queue' = [queue EXCEPT ![Input(w)] = Tail(@)]
      <4>1. Input(w) \in Queues /\ queue[Input(w)] \in Seq(Carried(graph, Input(w)))
        BY <1>1, <2>1, WorkerFacts DEF TypeOK, QueuesOK
      <4>2. Tail(queue[Input(w)]) \in Seq(Carried(graph, Input(w)))
        BY <3>2, <4>1
      <4>. QED BY <1>1, <3>2, <4>1, <4>2 DEF TypeOK, QueuesOK, Queues
    <3>. QED BY <1>4, <3>1, <3>2 DEF FailInitialization
  <2>3. CrewOK'
    BY <1>1, <2>1 DEF TypeOK, CrewOK, Workers, Outputs
  <2>4. PoolOutputs[1] \in Queues
    BY <1>1, <2>1, FirstOutput
  <2>5. EndsOK'
    BY <1>1, <2>1, <2>4 DEF TypeOK, EndsOK, Queues
  <2>. QED BY <1>1, <2>1, <2>2, <2>3, <2>5, Same DEF TypeOK, work
<1>5. CASE Draw(w)
  <2>1. UNCHANGED <<flow, closed, crew, script, hand, pooled>> /\ Kind(w) = "output"
    BY <1>5 DEF Draw
  <2>2. Outputs(w) \in Seq(Queues) /\ Outputs(w) # <<>> /\ 1 \in DOMAIN Outputs(w)
    BY <1>1, <2>1, WorkerFacts
  <2>3. PICK chunk \in pooled :
          \/ WillPut(w, << <<Outputs(w)[1], chunk>> >>) /\ cached' = cached
          \/ \E frame \in chunk \cap cached :
               /\ WillPut(w, << <<Outputs(w)[2], {frame}>> >>)
               /\ cached' = cached \ {frame}
    BY <1>5 DEF Draw
  <2>4. chunk \in Sets(graph) /\ chunk \subseteq Stock(graph)
    BY <1>2 DEF TypeOK, PoolOK
  <2>5. PoolOK'
    BY <1>1, <2>1, <2>3 DEF TypeOK, PoolOK, Workers, Kind
  <2>6. TodoOK'
    <3>1. CASE WillPut(w, << <<Outputs(w)[1], chunk>> >>)
      BY <1>1, <2>1, <2>2, <2>4, <3>1, Carrying, OneParcel, WillPutTypes
    <3>2. ASSUME NEW frame \in chunk \cap cached, WillPut(w, << <<Outputs(w)[2], {frame}>> >>)
          PROVE  TodoOK'
      <4>1. 2 \in DOMAIN Outputs(w)
        BY <1>1, <2>1, <2>2, CacheOutput DEF TypeOK, PoolOK
      <4>2. {frame} \in Carried(graph, Outputs(w)[2])
        BY <2>4, Carrying DEF Sets
      <4>3. <<Outputs(w)[2], {frame}>> \in Parcels(graph, w)
        BY <4>1, <4>2, Parcel DEF Outputs
      <4>4. << <<Outputs(w)[2], {frame}>> >> \in Seq(Parcels(graph, w))
        BY <4>3
      <4>. QED BY <1>1, <2>1, <3>2, <4>4, WillPutTypes
    <3>. QED BY <2>3, <3>1, <3>2
  <2>. QED BY <1>1, <2>1, <2>5, <2>6, Same DEF TypeOK, crew, flow
<1>6. CASE Sample(w)
  <2>1. PICK i \in DOMAIN hand[w] :
          /\ WillPut(w, << <<Outputs(w)[1], hand[w][i]>> >>)
          /\ hand' = [hand EXCEPT ![w] = RemoveAt(@, i)]
    BY <1>6 DEF Sample
  <2>2. UNCHANGED <<flow, closed, crew, script, pool>> /\ Kind(w) = "sampler" /\ Outputs(w) # <<>>
    BY <1>1, <1>6, WorkerFacts DEF Sample
  <2>3. hand[w] \in Seq(Sets(graph))
    BY DEF TypeOK, HandOK
  <2>4. hand[w][i] \in Carried(graph, Outputs(w)[1]) /\ RemoveAt(hand[w], i) \in Seq(Sets(graph))
    BY <2>3, TakenOut, Carrying
  <2>5. HandOK'
    BY <1>1, <2>1, <2>4, HandTypes
  <2>6. TodoOK'
    BY <1>1, <2>1, <2>2, <2>4, OneParcel, WillPutTypes
  <2>. QED BY <1>1, <2>2, <2>5, <2>6, Same DEF TypeOK, crew, flow
<1>7. CASE Feed(w)
  <2>. DEFINE all == graph.workers[w].script
  <2>1. /\ WillPut(w, << <<Outputs(w)[1], Head(script[w])>> >>)
        /\ script' = [script EXCEPT ![w] = Tail(@)] /\ script[w] # <<>>
        /\ UNCHANGED <<flow, closed, crew, hand, pool>> /\ Kind(w) = "feed"
    BY <1>7 DEF Feed
  <2>2. script[w] \in Seq(ToSet(all)) /\ DOMAIN script = Workers
    BY DEF TypeOK, ScriptOK
  <2>3. all \in Seq(Sets(graph) \cup {Sentinel}) /\ Outputs(w) \in Seq(Queues) /\ Outputs(w) # <<>>
        /\ (Sentinel \in ToSet(all) => ToSet(Outputs(w)) \subseteq Sources(graph))
    BY <1>1, <2>1, WorkerFacts
  <2>4. Head(script[w]) \in ToSet(all) /\ Tail(script[w]) \in Seq(ToSet(all))
    <3>. DEFINE S == ToSet(all)  t == script[w]
    <3>. HIDE DEF S, t
    <3>1. t \in Seq(S) /\ t # <<>>
      BY <2>1, <2>2 DEF S, t
    <3>2. Head(t) \in S /\ Tail(t) \in Seq(S)
      BY <3>1
    <3>. QED BY <3>2 DEF S, t
  <2>5. \A x \in ToSet(all) : x \in Sets(graph) \cup {Sentinel}
    BY <2>3 DEF ToSet
  <2>6. Outputs(w)[1] \in ToSet(Outputs(w))
    BY <2>3 DEF ToSet
  <2>. HIDE DEF all
  <2>7. Head(script[w]) \in Carried(graph, Outputs(w)[1])
    BY <2>3, <2>4, <2>5, <2>6, Carrying
  <2>8. TodoOK'
    BY <1>1, <2>1, <2>3, <2>7, OneParcel, WillPutTypes
  <2>9. ScriptOK'
    BY <1>1, <2>1, <2>2, <2>4 DEF TypeOK, ScriptOK, Workers, all
  <2>. QED BY <1>1, <2>1, <2>8, <2>9, Same DEF TypeOK, crew, flow
<1>. QED BY <1>3, <1>4, <1>5, <1>6, <1>7

(* What a worker is about to put is of a queue of its own.                 *)
LEMMA NextParcel ==
  ASSUME TypeOK, NEW w \in Workers, todo[w] # <<>>
  PROVE  /\ \E i \in DOMAIN Outputs(w) : Outputs(w)[i] = Head(todo[w])[1]
         /\ Head(todo[w])[1] \in Queues
         /\ Head(todo[w])[2] \in Carried(graph, Head(todo[w])[1])
         /\ todo[w] \in Seq(Parcels(graph, w)) /\ Tail(todo[w]) \in Seq(Parcels(graph, w))
         /\ Head(todo[w]) = todo[w][1] /\ 1 \in DOMAIN todo[w]
<1>. DEFINE S == Parcels(graph, w)  t == todo[w]
<1>1. t \in Seq(S) /\ Outputs(w) \in Seq(Queues)
  BY WorkerFacts DEF TypeOK, TodoOK
<1>. HIDE DEF S, t
<1>2. Head(t) \in S /\ Tail(t) \in Seq(S) /\ Head(t) = t[1] /\ 1 \in DOMAIN t
  BY <1>1 DEF t
<1>3. PICK q \in ToSet(Outputs(w)) : Head(t) \in {q} \X Carried(graph, q)
  BY <1>2 DEF S, Parcels, Outputs
<1>4. Head(t)[1] = q /\ Head(t)[2] \in Carried(graph, q)
  BY <1>3
<1>5. PICK i \in DOMAIN Outputs(w) : Outputs(w)[i] = q
  BY DEF ToSet
<1>. QED BY <1>1, <1>2, <1>4, <1>5 DEF S, t

LEMMA PutTypes == ASSUME TypeOK, NEW w \in Workers, Put(w) \/ PutThrows(w) PROVE TypeOK'
<1>. DEFINE q == Head(todo[w])[1]  item == Head(todo[w])[2]
<1>1. /\ graph' = graph /\ graph \in Graphs /\ stop' = stop /\ todo[w] # <<>>
      /\ UNCHANGED <<delivered, opened, script, hand, pool>>
  BY DEF TypeOK, Put, PutThrows, crew
<1>2. /\ q \in Queues /\ item \in Carried(graph, q)
      /\ todo[w] \in Seq(Parcels(graph, w)) /\ Tail(todo[w]) \in Seq(Parcels(graph, w))
      /\ queue[q] \in Seq(Carried(graph, q)) /\ DOMAIN queue = Queues
  BY <1>1, NextParcel DEF TypeOK, QueuesOK
<1>3. /\ \A x \in Sets(graph) : x # Sentinel /\ Frames(x) = x /\ x \subseteq Stock(graph)
      /\ Frames(Sentinel) = {}
  BY <1>1, SetsOfFrames
<1>4. \A x \in Carried(graph, q) : Frames(x) \subseteq Stock(graph)
  BY <1>3, Carrying
<1>. HIDE DEF q, item
<1>5. CASE Put(w)
  <2>1. closed' = closed /\ life' = life /\ todo' = [todo EXCEPT ![w] = Tail(@)]
    BY <1>5 DEF Put, crew
  <2>2. TodoOK'
    <3>1. Kind(w) = "rescorer" => Tail(todo[w]) = <<>>
      <4>. DEFINE S == Parcels(graph, w)  t == todo[w]
      <4>1. ASSUME Kind(w) = "rescorer" PROVE Len(t) =< 1
        BY <4>1 DEF TypeOK, TodoOK
      <4>2. t \in Seq(S) /\ t # <<>>
        BY <1>1, <1>2
      <4>. HIDE DEF S, t
      <4>3. Len(t) =< 1 => Tail(t) = <<>>
        BY <4>2
      <4>. QED BY <4>1, <4>3 DEF t
    <3>2. DOMAIN todo' = DOMAIN todo /\ todo'[w] = Tail(todo[w])
          /\ \A v \in Workers \ {w} : todo'[v] = todo[v]
      BY <2>1 DEF TypeOK, TodoOK
    <3>3. Kind(w) = "rescorer" => Len(todo'[w]) =< 1 /\ DOMAIN todo'[w] = {}
      <4>1. Len(<<>>) =< 1 /\ DOMAIN <<>> = {}
        OBVIOUS
      <4>. QED BY <3>1, <3>2, <4>1, Zenon
    <3>. QED BY <1>1, <1>2, <3>2, <3>3 DEF TypeOK, TodoOK, Workers, Kind
  <2>3. CASE queue' = [queue EXCEPT ![q] = Append(@, item)] /\ dropped' = dropped
    <3>1. Append(queue[q], item) \in Seq(Carried(graph, q))
      BY <1>2
    <3>2. QueuesOK'
      BY <1>1, <1>2, <2>3, <3>1 DEF TypeOK, QueuesOK, Queues
    <3>. QED BY <1>1, <2>1, <2>2, <2>3, <3>2, Same DEF TypeOK
  <2>4. CASE queue' = queue /\ dropped' = dropped \cup Frames(item)
    <3>1. EndsOK'
      BY <1>1, <1>2, <1>4, <2>1, <2>4 DEF TypeOK, EndsOK, Queues
    <3>. QED BY <1>1, <2>1, <2>2, <2>4, <3>1, Same DEF TypeOK
  <2>5. CASE /\ queue' = [queue EXCEPT ![q] = Append(Tail(@), item)]
             /\ dropped' = dropped \cup Frames(Head(queue[q])) /\ Full(q)
    <3>1. queue[q] # <<>>
      BY <1>1, <1>2, <2>5, QueueFacts DEF Full
    <3>2. /\ Append(Tail(queue[q]), item) \in Seq(Carried(graph, q))
          /\ Head(queue[q]) \in Carried(graph, q)
      BY <1>2, <3>1
    <3>3. QueuesOK'
      BY <1>1, <1>2, <2>5, <3>2 DEF TypeOK, QueuesOK, Queues
    <3>4. EndsOK'
      BY <1>1, <1>4, <2>1, <2>5, <3>2 DEF TypeOK, EndsOK, Queues
    <3>. QED BY <1>1, <2>1, <2>2, <3>3, <3>4, Same DEF TypeOK
  <2>. QED BY <1>5, <2>3, <2>4, <2>5 DEF Put, q, item
<1>6. CASE PutThrows(w)
  <2>1. queue' = queue
    BY <1>6 DEF PutThrows
  <2>2. CASE Kind(w) = "rescorer"
    <3>1. dropped' = dropped \cup item /\ WillPut(w, <<>>) /\ UNCHANGED <<life, closed>>
      BY <1>6, <2>2 DEF PutThrows, item
    <3>2. item \in Sets(graph)
      BY <1>1, <2>2, NextParcel DEF TypeOK, TodoOK, item
    <3>3. EndsOK'
      BY <1>1, <1>3, <3>1, <3>2 DEF TypeOK, EndsOK, Queues
    <3>4. TodoOK'
      <4>1. DOMAIN todo' = DOMAIN todo /\ todo'[w] = <<>>
            /\ \A v \in Workers \ {w} : todo'[v] = todo[v]
        BY <3>1 DEF TypeOK, TodoOK, WillPut
      <4>2. todo'[w] \in Seq(Parcels(graph, w)) /\ Len(todo'[w]) =< 1 /\ DOMAIN todo'[w] = {}
        BY <4>1
      <4>. QED BY <1>1, <4>1, <4>2 DEF TypeOK, TodoOK, Workers, Kind
    <3>. QED BY <1>1, <2>1, <3>1, <3>3, <3>4, Same DEF TypeOK
  <2>3. CASE Kind(w) # "rescorer"
    <3>1. Leave(w) /\ UNCHANGED <<dropped, todo>>
      BY <1>6, <2>3 DEF PutThrows
    <3>2. dropped' \subseteq Stock(graph)
      BY <3>1 DEF TypeOK, EndsOK
    <3>. QED BY <1>1, <2>1, <3>1, <3>2, LeaveTypes, Same DEF TypeOK
  <2>. QED BY <2>2, <2>3
<1>. QED BY <1>5, <1>6

LEMMA OutsideTypes ==
  ASSUME TypeOK, (\E q \in graph.read : Read(q)) \/ LeaveReader \/ BeginStop \/ StageStopped
  PROVE  TypeOK'
<1>1. CASE \E q \in graph.read : Read(q)
  <2>1. PICK q \in graph.read : Read(q)
    BY <1>1
  <2>2. /\ UNCHANGED <<graph, dropped, closed, crew, work, pool, stop>> /\ queue[q] # <<>>
        /\ delivered' = delivered \cup Frames(Head(queue[q]))
        /\ queue' = [queue EXCEPT ![q] = Tail(@)]
    BY <2>1 DEF Read
  <2>3. q \in Queues /\ queue[q] \in Seq(Carried(graph, q))
    BY QueueFacts DEF TypeOK, QueuesOK
  <2>4. Tail(queue[q]) \in Seq(Carried(graph, q)) /\ Head(queue[q]) \in Carried(graph, q)
    BY <2>2, <2>3
  <2>5. Frames(Head(queue[q])) \subseteq Stock(graph)
    BY <2>4, Carrying, SetsOfFrames DEF TypeOK
  <2>6. QueuesOK'
    BY <2>2, <2>3, <2>4 DEF TypeOK, QueuesOK, Queues
  <2>7. EndsOK'
    BY <2>2, <2>5 DEF TypeOK, EndsOK, Queues
  <2>. QED BY <2>2, <2>6, <2>7, Same DEF TypeOK, crew, work
<1>2. CASE LeaveReader \/ BeginStop
  <2>1. UNCHANGED <<graph, flow, closed, crew, work, pool>> /\ stop' \in Nat
    BY <1>2 DEF LeaveReader, BeginStop, TypeOK
  <2>. QED BY <2>1, Same DEF TypeOK, flow, crew, work
<1>3. CASE StageStopped
  <2>1. UNCHANGED <<graph, flow, crew, work, pool>> /\ stop' = stop + 1
        /\ closed' = closed \cup UNION {ToSet(Outputs(w)) : w \in {v \in Workers : StopsAs(v) = stop}}
    BY <1>3 DEF StageStopped
  <2>2. \A w \in Workers : ToSet(Outputs(w)) \subseteq Queues
    BY WorkerFacts DEF TypeOK, ToSet
  <2>3. closed' \subseteq Queues
    BY <2>1, <2>2 DEF TypeOK, EndsOK
  <2>. QED BY <2>1, <2>3, Same DEF TypeOK, EndsOK, flow, crew, work, Queues
<1>. QED BY <1>1, <1>2, <1>3

LEMMA WorkersStay ==
  ASSUME NEW w, Work(w) \/ Feed(w) \/ EndFeed(w) \/ Abandon(w)
  PROVE  graph' = graph /\ stop' = stop
<1>1. Takes(w) => graph' = graph /\ stop' = stop
  BY DEF Takes
<1>2. CASE Start(w) \/ CreateProducer(w) \/ GetThrows(w) \/ Feed(w) \/ EndFeed(w) \/ Abandon(w)
  BY <1>2 DEF Start, CreateProducer, GetThrows, Feed, EndFeed, Abandon
<1>3. CASE Split(w) \/ Extract(w) \/ Rescore(w) \/ Unpack(w) \/ Pass(w)
  BY <1>1, <1>3 DEF Split, Extract, Rescore, Unpack, Pass
<1>4. CASE Reserve(w) \/ Collect(w) \/ CollectSource(w) \/ Initialized(w) \/ Ingest(w) \/ Cache(w)
  BY <1>1, <1>4 DEF Reserve, Collect, CollectSource, Initialized, Ingest, Cache
<1>5. CASE Sample(w) \/ FailInitialization(w) \/ Draw(w) \/ Put(w) \/ PutThrows(w)
  BY <1>5 DEF Sample, FailInitialization, Draw, Put, PutThrows
<1>. QED BY <1>2, <1>3, <1>4, <1>5 DEF Work

LEMMA GraphStays == ASSUME [Next]_vars PROVE graph' = graph
<1>1. ASSUME NEW w \in Workers, Work(w) \/ Feed(w) \/ EndFeed(w) \/ Abandon(w) PROVE graph' = graph
  BY <1>1, WorkersStay
<1>2. ASSUME NEW q \in graph.read, Read(q) PROVE graph' = graph
  BY <1>2 DEF Read
<1>3. CASE LeaveReader
  BY <1>3 DEF LeaveReader
<1>4. CASE BeginStop
  BY <1>4 DEF BeginStop
<1>5. CASE StageStopped
  BY <1>5 DEF StageStopped
<1>6. CASE UNCHANGED vars
  BY <1>6 DEF vars
<1>. QED BY <1>1, <1>2, <1>3, <1>4, <1>5, <1>6 DEF Next

LEMMA StopStays == ASSUME stop \in Nat, stop # 0, [Next]_vars PROVE stop' # 0
<1>1. ASSUME NEW w \in Workers, Work(w) \/ Feed(w) \/ EndFeed(w) \/ Abandon(w) PROVE stop' # 0
  BY <1>1, WorkersStay
<1>2. ASSUME NEW q \in graph.read, Read(q) PROVE stop' # 0
  BY <1>2 DEF Read
<1>3. CASE LeaveReader
  BY <1>3 DEF LeaveReader
<1>4. CASE BeginStop
  BY <1>4 DEF BeginStop
<1>5. CASE StageStopped
  BY <1>5 DEF StageStopped
<1>6. CASE UNCHANGED vars
  BY <1>6 DEF vars
<1>. QED BY <1>1, <1>2, <1>3, <1>4, <1>5, <1>6 DEF Next

LEMMA TypesStep == ASSUME TypeOK, [Next]_vars PROVE TypeOK'
<1>1. CASE UNCHANGED vars
  BY <1>1, Same DEF TypeOK, vars, crew, work, flow
<1>2. ASSUME NEW w \in Workers, Work(w) \/ Feed(w) \/ EndFeed(w) \/ Abandon(w) PROVE TypeOK'
  BY <1>2, StartTypes, TakingTypes, PoolTypes, PutTypes DEF Work
<1>. QED BY <1>1, <1>2, OutsideTypes DEF Next

(* Every variable keeps its type.                                          *)
THEOREM TypesHold == Spec => []TypeOK
BY TypesInit, TypesStep, PTL DEF Spec

-----------------------------------------------------------------------------
(* Every frame is in one place: what the shelves hold is disjoint.         *)

Shelves(g) ==
  ({"script", "hand", "todo"} \X DOMAIN g.workers) \cup ({"queue"} \X DOMAIN g.capacity)
    \cup {<<"delivered", 0>>, <<"dropped", 0>>}
BagOf(g, scripts, hands, todos, queues, read, lost) ==
  [s \in Shelves(g) |-> IF s[1] = "script" THEN All(scripts[s[2]])
                        ELSE IF s[1] = "hand" THEN All(hands[s[2]])
                        ELSE IF s[1] = "todo" THEN All(Items(todos[s[2]]))
                        ELSE IF s[1] = "queue" THEN All(queues[s[2]])
                        ELSE IF s[1] = "delivered" THEN read ELSE lost]
Bag == BagOf(graph, script, hand, todo, queue, delivered, dropped)

Parted(bag, U) == /\ \A s, t \in DOMAIN bag : s # t => bag[s] \cap bag[t] = {}
                  /\ \A f \in U : \E s \in DOMAIN bag : f \in bag[s]
Kept ==
  ~HasPool => /\ \A w \in Workers : Once(script[w]) /\ Once(hand[w]) /\ Once(Items(todo[w]))
              /\ \A q \in Queues : Once(queue[q])
              /\ Parted(Bag, Stock(graph))

LEMMA BagIs ==
  ASSUME NEW g, NEW scripts, NEW hands, NEW todos, NEW queues, NEW read, NEW lost
  PROVE  LET bag == BagOf(g, scripts, hands, todos, queues, read, lost) IN
         /\ DOMAIN bag = Shelves(g)
         /\ \A w \in DOMAIN g.workers :
              /\ <<"script", w>> \in Shelves(g) /\ bag[<<"script", w>>] = All(scripts[w])
              /\ <<"hand", w>> \in Shelves(g) /\ bag[<<"hand", w>>] = All(hands[w])
              /\ <<"todo", w>> \in Shelves(g) /\ bag[<<"todo", w>>] = All(Items(todos[w]))
         /\ \A q \in DOMAIN g.capacity :
              <<"queue", q>> \in Shelves(g) /\ bag[<<"queue", q>>] = All(queues[q])
         /\ <<"delivered", 0>> \in Shelves(g) /\ bag[<<"delivered", 0>>] = read
         /\ <<"dropped", 0>> \in Shelves(g) /\ bag[<<"dropped", 0>>] = lost
BY DEF BagOf, Shelves

LEMMA BagNow ==
  /\ DOMAIN Bag = Shelves(graph)
  /\ \A w \in Workers : /\ Bag[<<"script", w>>] = All(script[w])
                        /\ Bag[<<"hand", w>>] = All(hand[w])
                        /\ Bag[<<"todo", w>>] = All(Items(todo[w]))
  /\ \A q \in Queues : Bag[<<"queue", q>>] = All(queue[q])
  /\ Bag[<<"delivered", 0>>] = delivered /\ Bag[<<"dropped", 0>>] = dropped
BY BagIs DEF Bag, Workers, Queues

LEMMA BagNext ==
  ASSUME graph' = graph
  PROVE  /\ DOMAIN Bag' = Shelves(graph)
         /\ \A w \in Workers : /\ Bag'[<<"script", w>>] = All(script'[w])
                               /\ Bag'[<<"hand", w>>] = All(hand'[w])
                               /\ Bag'[<<"todo", w>>] = All(Items(todo'[w]))
         /\ \A q \in Queues : Bag'[<<"queue", q>>] = All(queue'[q])
         /\ Bag'[<<"delivered", 0>>] = delivered' /\ Bag'[<<"dropped", 0>>] = dropped'
BY BagIs DEF Bag, Workers, Queues

LEMMA ShelvesAre ==
  /\ \A w \in Workers : /\ <<"script", w>> \in Shelves(graph) /\ <<"hand", w>> \in Shelves(graph)
                        /\ <<"todo", w>> \in Shelves(graph)
  /\ \A q \in Queues : <<"queue", q>> \in Shelves(graph)
  /\ <<"delivered", 0>> \in Shelves(graph) /\ <<"dropped", 0>> \in Shelves(graph)
BY DEF Shelves, Workers, Queues

LEMMA ShelfKinds ==
  ASSUME NEW g, NEW s \in Shelves(g)
  PROVE  \/ \E w \in DOMAIN g.workers : s \in {<<"script", w>>, <<"hand", w>>, <<"todo", w>>}
         \/ \E q \in DOMAIN g.capacity : s = <<"queue", q>>
         \/ s \in {<<"delivered", 0>>, <<"dropped", 0>>}
BY DEF Shelves

(* Three shelves exchange what they hold.                                  *)
LEMMA Rearranged ==
  ASSUME NEW bag, NEW new, NEW U, Parted(bag, U), DOMAIN new = DOMAIN bag,
         NEW a \in DOMAIN bag, NEW b \in DOMAIN bag, NEW c \in DOMAIN bag,
         \A s \in DOMAIN bag : s \notin {a, b, c} => new[s] = bag[s],
         a # b => new[a] \cap new[b] = {}, a # c => new[a] \cap new[c] = {},
         b # c => new[b] \cap new[c] = {},
         new[a] \cup new[b] \cup new[c] = bag[a] \cup bag[b] \cup bag[c]
  PROVE  Parted(new, U)
<1>1. ASSUME NEW s \in DOMAIN bag, s \notin {a, b, c}, NEW t \in {a, b, c}
      PROVE  new[s] \cap new[t] = {}
  <2>1. new[s] = bag[s] /\ new[t] \subseteq bag[a] \cup bag[b] \cup bag[c]
    BY <1>1
  <2>2. bag[s] \cap bag[a] = {} /\ bag[s] \cap bag[b] = {} /\ bag[s] \cap bag[c] = {}
    BY <1>1 DEF Parted
  <2>. QED BY <2>1, <2>2
<1>2. ASSUME NEW s \in DOMAIN bag, NEW t \in DOMAIN bag, s # t PROVE new[s] \cap new[t] = {}
  <2>1. CASE s \notin {a, b, c} /\ t \notin {a, b, c}
    BY <1>2, <2>1 DEF Parted
  <2>2. CASE s \notin {a, b, c} /\ t \in {a, b, c}
    BY <2>2, <1>1
  <2>3. CASE s \in {a, b, c} /\ t \notin {a, b, c}
    BY <2>3, <1>1
  <2>4. CASE s \in {a, b, c} /\ t \in {a, b, c}
    BY <1>2, <2>4
  <2>. QED BY <2>1, <2>2, <2>3, <2>4
<1>3. ASSUME NEW f \in U PROVE \E s \in DOMAIN bag : f \in new[s]
  <2>1. PICK s \in DOMAIN bag : f \in bag[s]
    BY DEF Parted
  <2>2. CASE s \notin {a, b, c}
    BY <2>1, <2>2
  <2>3. CASE s \in {a, b, c}
    <3>1. f \in new[a] \cup new[b] \cup new[c]
      BY <2>1, <2>3
    <3>. QED BY <3>1
  <2>. QED BY <2>2, <2>3
<1>. QED BY <1>2, <1>3 DEF Parted

(* A step of worker w touches no shelf of another, and one queue.          *)
Near(w, q) == {<<"script", w>>, <<"hand", w>>, <<"todo", w>>, <<"queue", q>>,
               <<"delivered", 0>>, <<"dropped", 0>>}

LEMMA Untouched ==
  ASSUME graph' = graph, NEW w, NEW q,
         \A v \in Workers : v # w => script'[v] = script[v] /\ hand'[v] = hand[v] /\ todo'[v] = todo[v],
         \A p \in Queues : p # q => queue'[p] = queue[p],
         NEW s \in Shelves(graph) \ Near(w, q)
  PROVE  Bag'[s] = Bag[s]
<1>1. CASE \E v \in Workers : s \in {<<"script", v>>, <<"hand", v>>, <<"todo", v>>}
  <2>1. PICK v \in Workers : s \in {<<"script", v>>, <<"hand", v>>, <<"todo", v>>}
    BY <1>1
  <2>2. v # w
    BY <2>1 DEF Near
  <2>3. script'[v] = script[v] /\ hand'[v] = hand[v] /\ todo'[v] = todo[v]
    BY <2>2
  <2>4. /\ Bag'[<<"script", v>>] = Bag[<<"script", v>>] /\ Bag'[<<"hand", v>>] = Bag[<<"hand", v>>]
        /\ Bag'[<<"todo", v>>] = Bag[<<"todo", v>>]
    BY <2>3, BagNow, BagNext
  <2>. QED BY <2>1, <2>4, Zenon
<1>2. CASE \E p \in Queues : s = <<"queue", p>>
  BY <1>2, BagNow, BagNext DEF Near
<1>. QED BY <1>1, <1>2, ShelfKinds DEF Workers, Queues, Near

LEMMA Moved ==
  ASSUME Kept, ~HasPool, graph' = graph, NEW w \in Workers, NEW q \in Queues,
         \A v \in Workers : v # w => script'[v] = script[v] /\ hand'[v] = hand[v] /\ todo'[v] = todo[v],
         \A p \in Queues : p # q => queue'[p] = queue[p],
         Once(script'[w]), Once(hand'[w]), Once(Items(todo'[w])), Once(queue'[q]),
         NEW a \in Shelves(graph), NEW b \in Shelves(graph), NEW c \in Shelves(graph),
         \A s \in Near(w, q) : s \notin {a, b, c} => Bag'[s] = Bag[s],
         a # b => Bag'[a] \cap Bag'[b] = {}, a # c => Bag'[a] \cap Bag'[c] = {},
         b # c => Bag'[b] \cap Bag'[c] = {},
         Bag'[a] \cup Bag'[b] \cup Bag'[c] = Bag[a] \cup Bag[b] \cup Bag[c]
  PROVE  Kept'
<1>1. Workers' = Workers /\ Queues' = Queues
  BY DEF Workers, Queues
<1>2. DOMAIN Bag = Shelves(graph) /\ DOMAIN Bag' = Shelves(graph)
  BY BagNow, BagNext
<1>3. \A s \in DOMAIN Bag : s \notin {a, b, c} => Bag'[s] = Bag[s]
  BY <1>2, Untouched
<1>4. Parted(Bag, Stock(graph))
  BY DEF Kept
<1>5. Parted(Bag', Stock(graph))
  <2>. DEFINE old == Bag  new == Bag'  U == Stock(graph)
  <2>. HIDE DEF old, new, U
  <2>1. /\ Parted(old, U) /\ DOMAIN new = DOMAIN old
        /\ a \in DOMAIN old /\ b \in DOMAIN old /\ c \in DOMAIN old
        /\ \A s \in DOMAIN old : s \notin {a, b, c} => new[s] = old[s]
    BY <1>2, <1>3, <1>4 DEF old, new, U
  <2>2. /\ a # b => new[a] \cap new[b] = {}
        /\ a # c => new[a] \cap new[c] = {}
        /\ b # c => new[b] \cap new[c] = {}
        /\ new[a] \cup new[b] \cup new[c] = old[a] \cup old[b] \cup old[c]
    BY DEF old, new
  <2>3. Parted(new, U)
    BY <2>1, <2>2, Rearranged
  <2>. QED BY <2>3 DEF new, U
<1>6. /\ \A v \in Workers : Once(script'[v]) /\ Once(hand'[v]) /\ Once(Items(todo'[v]))
      /\ \A p \in Queues : Once(queue'[p])
  <2>1. ASSUME NEW v \in Workers PROVE Once(script'[v]) /\ Once(hand'[v]) /\ Once(Items(todo'[v]))
    BY DEF Kept
  <2>2. ASSUME NEW p \in Queues PROVE Once(queue'[p])
    BY DEF Kept
  <2>. QED BY <2>1, <2>2
<1>. QED BY <1>1, <1>5, <1>6 DEF Kept

LEMMA NearSame ==
  ASSUME graph' = graph, NEW w \in Workers, NEW q \in Queues
  PROVE  /\ script'[w] = script[w] => Bag'[<<"script", w>>] = Bag[<<"script", w>>]
         /\ hand'[w] = hand[w] => Bag'[<<"hand", w>>] = Bag[<<"hand", w>>]
         /\ todo'[w] = todo[w] => Bag'[<<"todo", w>>] = Bag[<<"todo", w>>]
         /\ queue'[q] = queue[q] => Bag'[<<"queue", q>>] = Bag[<<"queue", q>>]
         /\ delivered' = delivered => Bag'[<<"delivered", 0>>] = Bag[<<"delivered", 0>>]
         /\ dropped' = dropped => Bag'[<<"dropped", 0>>] = Bag[<<"dropped", 0>>]
BY BagNow, BagNext

LEMMA TakesKept ==
  ASSUME TypeOK, Kept, ~HasPool, NEW w \in Workers, Takes(w)
  PROVE  LET q == Input(w)  item == Head(queue[q]) IN
         /\ graph' = graph /\ q \in Queues /\ UNCHANGED <<script, delivered>>
         /\ \A p \in Queues : p # q => queue'[p] = queue[p]
         /\ queue'[q] = Tail(queue[q])
         /\ Once(queue'[q]) /\ Frames(item) \subseteq All(queue[q])
         /\ All(queue'[q]) = All(queue[q]) \ Frames(item)
         /\ todo[w] = <<>> /\ All(Items(todo[w])) = {}
<1>. DEFINE q == Input(w)
<1>1. /\ graph' = graph /\ q \in Queues /\ queue[q] \in Seq(Carried(graph, q)) /\ queue[q] # <<>>
  BY TakesTypes
<1>2. /\ queue' = [queue EXCEPT ![q] = Tail(@)] /\ UNCHANGED <<script, delivered>> /\ todo[w] = <<>>
  BY DEF Takes, Wants
<1>3. /\ \A p \in Queues : p # q => queue'[p] = queue[p]
      /\ queue'[q] = Tail(queue[q])
  BY <1>1, <1>2 DEF TypeOK, QueuesOK
<1>4. Once(queue[q])
  BY <1>1 DEF Kept
<1>5. /\ Once(Tail(queue[q])) /\ Frames(Head(queue[q])) \subseteq All(queue[q])
      /\ All(Tail(queue[q])) = All(queue[q]) \ Frames(Head(queue[q]))
  BY <1>1, <1>4, HeadOff
<1>6. All(Items(<<>>)) = {}
  BY DEF All, Items
<1>. QED BY <1>1, <1>2, <1>3, <1>5, <1>6

(* What is taken is put, or lost.                                          *)
LEMMA TakeAndPut ==
  ASSUME TypeOK, Kept, ~HasPool, NEW w \in Workers, Takes(w), UNCHANGED hand,
         NEW puts, NEW lost, dropped' = dropped \cup lost,
         todo'[w] = puts, \A v \in Workers : v # w => todo'[v] = todo[v],
         Once(Items(puts)), All(Items(puts)) \cap lost = {},
         All(Items(puts)) \cup lost = Frames(Head(queue[Input(w)]))
  PROVE  Kept'
<1>. DEFINE q == Input(w)  item == Head(queue[q])
            a == <<"queue", q>>  b == <<"todo", w>>  c == <<"dropped", 0>>
<1>1. /\ graph' = graph /\ q \in Queues /\ UNCHANGED <<script, delivered>>
      /\ \A p \in Queues : p # q => queue'[p] = queue[p]
      /\ Once(queue'[q]) /\ Frames(item) \subseteq All(queue[q])
      /\ All(queue'[q]) = All(queue[q]) \ Frames(item)
      /\ All(Items(todo[w])) = {}
  BY TakesKept
<1>2. todo'[w] = puts /\ \A v \in Workers : v # w => todo'[v] = todo[v]
  OBVIOUS
<1>3. Once(script'[w]) /\ Once(hand'[w])
  BY <1>1 DEF Kept
<1>4. a \in Shelves(graph) /\ b \in Shelves(graph) /\ c \in Shelves(graph) /\ a # b /\ a # c /\ b # c
  BY <1>1, ShelvesAre
<1>5. /\ Bag[a] = All(queue[q]) /\ Bag[b] = {} /\ Bag[c] = dropped
      /\ Bag'[a] = All(queue[q]) \ Frames(item) /\ Bag'[b] = All(Items(puts)) /\ Bag'[c] = dropped \cup lost
  BY <1>1, <1>2, BagNow, BagNext
<1>6. Bag[a] \cap Bag[c] = {}
  BY <1>4, BagNow DEF Kept, Parted
<1>7. \A s \in Near(w, q) : s \notin {a, b, c} => Bag'[s] = Bag[s]
  <2>1. script'[w] = script[w] /\ hand'[w] = hand[w] /\ delivered' = delivered
    BY <1>1
  <2>. QED BY <1>1, <2>1, NearSame, Zenon DEF Near
<1>. HIDE DEF q, item, a, b, c
<1>8. /\ Bag'[a] \cap Bag'[b] = {} /\ Bag'[a] \cap Bag'[c] = {} /\ Bag'[b] \cap Bag'[c] = {}
      /\ Bag'[a] \cup Bag'[b] \cup Bag'[c] = Bag[a] \cup Bag[b] \cup Bag[c]
  BY <1>1, <1>5, <1>6 DEF item, q
<1>. QED BY <1>1, <1>2, <1>3, <1>4, <1>7, <1>8, Moved

LEMMA OnePut == ASSUME NEW q, NEW x
  PROVE Once(Items(<< <<q, x>> >>)) /\ All(Items(<< <<q, x>> >>)) = Frames(x)
<1>. DEFINE puts == << <<q, x>> >>  items == Items(puts)
<1>1. DOMAIN puts = {1} /\ puts[1][2] = x
  OBVIOUS
<1>. HIDE DEF puts
<1>2. DOMAIN items = {1} /\ items[1] = x
  BY <1>1 DEF Items
<1>. HIDE DEF items
<1>3. Once(items) /\ All(items) = Frames(x)
  BY <1>2 DEF Once, All
<1>. QED BY <1>3 DEF items, puts

(* Puts of the parts of an item, each part once.                           *)
LEMMA PutParts ==
  ASSUME graph \in Graphs, NEW puts, NEW whole, whole \subseteq Stock(graph),
         \A i \in DOMAIN puts : puts[i][2] \subseteq whole,
         \A i, j \in DOMAIN puts : i # j => puts[i][2] \cap puts[j][2] = {},
         \A x \in whole : \E i \in DOMAIN puts : x \in puts[i][2]
  PROVE  Once(Items(puts)) /\ All(Items(puts)) = whole
<1>. DEFINE items == Items(puts)
<1>1. DOMAIN items = DOMAIN puts /\ \A i \in DOMAIN puts : items[i] = puts[i][2]
  BY DEF Items
<1>2. \A i \in DOMAIN puts : Frames(items[i]) = puts[i][2]
  BY <1>1, SetsOfFrames DEF Sets
<1>. HIDE DEF items
<1>3. Once(items)
  BY <1>1, <1>2 DEF Once
<1>4. All(items) = whole
  BY <1>1, <1>2 DEF All
<1>. QED BY <1>3, <1>4 DEF items

LEMMA OneByOne ==
  ASSUME graph \in Graphs, NEW q, NEW whole, whole \subseteq Stock(graph), IsFiniteSet(whole),
         NEW order \in SetToSeqs(whole)
  PROVE  LET puts == [i \in DOMAIN order |-> <<q, {order[i]}>>] IN
         Once(Items(puts)) /\ All(Items(puts)) = whole
<1>. DEFINE puts == [i \in DOMAIN order |-> <<q, {order[i]}>>]
<1>1. /\ order \in Seq(whole)
      /\ \A i, j \in DOMAIN order : i # j => order[i] # order[j]
      /\ \A x \in whole : \E i \in DOMAIN order : order[i] = x
  BY Ordered
<1>2. DOMAIN puts = DOMAIN order /\ \A i \in DOMAIN order : puts[i][2] = {order[i]}
  OBVIOUS
<1>. HIDE DEF puts
<1>3. \A i \in DOMAIN puts : puts[i][2] \subseteq whole
  BY <1>1, <1>2
<1>4. \A i, j \in DOMAIN puts : i # j => puts[i][2] \cap puts[j][2] = {}
  BY <1>1, <1>2
<1>5. \A x \in whole : \E i \in DOMAIN puts : x \in puts[i][2]
  BY <1>1, <1>2
<1>6. Once(Items(puts)) /\ All(Items(puts)) = whole
  BY <1>3, <1>4, <1>5, PutParts
<1>. QED BY <1>6 DEF puts

LEMMA TakingKept ==
  ASSUME TypeOK, Kept, ~HasPool, NEW w \in Workers,
         Split(w) \/ Extract(w) \/ Rescore(w) \/ Unpack(w) \/ Pass(w)
  PROVE  Kept'
<1>. DEFINE item == Head(queue[Input(w)])
<1>1. Takes(w) /\ UNCHANGED hand
  BY DEF Split, Extract, Rescore, Unpack, Pass
<1>2. /\ item \in Sets(graph) \cup {Sentinel}
      /\ Input(w) \notin Sources(graph) => item \in Sets(graph)
  BY <1>1, TakesTypes, Carrying
<1>3. /\ \A x \in Sets(graph) : x # Sentinel /\ Frames(x) = x /\ x \subseteq Stock(graph)
      /\ Frames(Sentinel) = {} /\ IsFiniteSet(Stock(graph))
  BY SetsOfFrames DEF TypeOK
<1>4. graph \in Graphs /\ Outputs(w) \in Seq(Queues) /\ todo[w] = <<>> /\ DOMAIN todo = Workers
  BY <1>1, WorkerFacts DEF TypeOK, TodoOK, Takes, Wants
<1>. HIDE DEF item
<1>5. ASSUME NEW puts, WillPut(w, puts), UNCHANGED dropped, Once(Items(puts)),
             All(Items(puts)) = Frames(item)
      PROVE  Kept'
  <2>. DEFINE lost == {}
  <2>1. dropped' = dropped \cup lost /\ All(Items(puts)) \cap lost = {} /\ All(Items(puts)) \cup lost = Frames(item)
    BY <1>5
  <2>2. todo'[w] = puts /\ \A v \in Workers : v # w => todo'[v] = todo[v]
    BY <1>4, <1>5 DEF WillPut
  <2>. HIDE DEF lost
  <2>. QED BY <1>1, <1>5, <2>1, <2>2, TakeAndPut DEF item
<1>6. ASSUME UNCHANGED todo, dropped' = dropped \cup Frames(item) PROVE Kept'
  <2>. DEFINE puts == <<>>
  <2>1. todo'[w] = puts /\ \A v \in Workers : v # w => todo'[v] = todo[v]
    BY <1>4, <1>6
  <2>2. Once(Items(puts)) /\ All(Items(puts)) \cap Frames(item) = {}
        /\ All(Items(puts)) \cup Frames(item) = Frames(item)
    BY DEF Items, Once, All
  <2>. HIDE DEF puts
  <2>. QED BY <1>1, <1>6, <2>1, <2>2, TakeAndPut DEF item
<1>7. CASE Split(w)
  <2>1. CASE item = Sentinel
    <3>. DEFINE puts == [i \in DOMAIN Outputs(w) |-> <<Outputs(w)[i], Sentinel>>]
    <3>1. WillPut(w, puts) /\ UNCHANGED dropped
      BY <1>7, <2>1 DEF Split, item
    <3>2. Once(Items(puts)) /\ All(Items(puts)) = Frames(item)
      BY <1>3, <2>1 DEF Once, All, Items
    <3>. HIDE DEF puts
    <3>. QED BY <1>5, <3>1, <3>2
  <2>2. CASE item # Sentinel
    <3>1. item \subseteq Stock(graph) /\ Frames(item) = item
      BY <1>2, <1>3, <2>2
    <3>2. PICK f \in [item -> DOMAIN Outputs(w)] :
            \E order \in SetToSeqs({f[x] : x \in item}) :
              WillPut(w, [i \in DOMAIN order |-> <<Outputs(w)[order[i]], {x \in item : f[x] = order[i]}>>])
      BY <1>7, <2>2 DEF Split, item
    <3>. DEFINE parts == {f[x] : x \in item}  view(i) == {x \in item : f[x] = i}
    <3>. PICK order \in SetToSeqs(parts) :
           WillPut(w, [i \in DOMAIN order |-> <<Outputs(w)[order[i]], view(order[i])>>])
      BY <3>2
    <3>. DEFINE puts == [i \in DOMAIN order |-> <<Outputs(w)[order[i]], view(order[i])>>]
    <3>3. WillPut(w, puts) /\ UNCHANGED dropped
      BY <1>7 DEF Split
    <3>4. /\ \A i, j \in DOMAIN order : i # j => order[i] # order[j]
          /\ \A y \in parts : \E i \in DOMAIN order : order[i] = y
      <4>1. parts \subseteq DOMAIN Outputs(w)
        OBVIOUS
      <4>2. IsFiniteSet(DOMAIN Outputs(w))
        BY <1>4, FS_Interval
      <4>3. IsFiniteSet(parts)
        BY <4>1, <4>2, FS_Subset
      <4>. HIDE DEF parts
      <4>. QED BY <4>3, Ordered DEF parts
    <3>5. DOMAIN puts = DOMAIN order /\ \A i \in DOMAIN order : puts[i][2] = view(order[i])
      OBVIOUS
    <3>6. ASSUME NEW x \in item PROVE \E i \in DOMAIN order : x \in view(order[i])
      BY <3>4
    <3>7. Once(Items(puts)) /\ All(Items(puts)) = item
      <4>1. \A i \in DOMAIN puts : puts[i][2] \subseteq item
        BY <3>5
      <4>2. \A i, j \in DOMAIN puts : i # j => puts[i][2] \cap puts[j][2] = {}
        BY <3>4, <3>5
      <4>3. \A x \in item : \E i \in DOMAIN puts : x \in puts[i][2]
        BY <3>5, <3>6
      <4>. HIDE DEF puts
      <4>. QED BY <1>4, <3>1, <4>1, <4>2, <4>3, PutParts
    <3>. HIDE DEF puts
    <3>. QED BY <1>5, <3>1, <3>3, <3>7
  <2>. QED BY <2>1, <2>2
<1>8. CASE Extract(w)
  <2>1. CASE item = Sentinel
    <3>1. UNCHANGED <<todo, dropped>>
      BY <1>8, <2>1 DEF Extract, item
    <3>2. dropped' = dropped \cup Frames(item)
      BY <1>3, <2>1, <3>1
    <3>. QED BY <1>6, <3>1, <3>2
  <2>2. CASE item # Sentinel
    <3>. DEFINE readable == item \ Unreadable
    <3>1. item \subseteq Stock(graph) /\ Frames(item) = item
      BY <1>2, <1>3, <2>2
    <3>2. PICK order \in SetToSeqs(readable) :
            WillPut(w, [i \in DOMAIN order |-> <<Outputs(w)[1], {order[i]}>>])
      BY <1>8, <2>2 DEF Extract, item
    <3>. DEFINE puts == [i \in DOMAIN order |-> <<Outputs(w)[1], {order[i]}>>]
    <3>3. WillPut(w, puts) /\ dropped' = dropped \cup (item \cap Unreadable)
      BY <1>8, <2>2, <3>2 DEF Extract, item
    <3>4. readable \subseteq Stock(graph) /\ IsFiniteSet(readable)
      BY <1>3, <3>1, FS_Subset
    <3>. HIDE DEF readable
    <3>5. Once(Items(puts)) /\ All(Items(puts)) = readable
      BY <1>4, <3>4, OneByOne
    <3>. HIDE DEF puts
    <3>6. All(Items(puts)) \cap (item \cap Unreadable) = {}
          /\ All(Items(puts)) \cup (item \cap Unreadable) = Frames(item)
      BY <3>1, <3>5 DEF readable
    <3>7. todo'[w] = puts /\ \A v \in Workers : v # w => todo'[v] = todo[v]
      BY <1>4, <3>3 DEF WillPut
    <3>. QED BY <1>1, <3>3, <3>5, <3>6, <3>7, TakeAndPut DEF item
  <2>. QED BY <2>1, <2>2
<1>9. CASE Rescore(w)
  <2>1. CASE WillPut(w, << <<Outputs(w)[1], item>> >>) /\ UNCHANGED dropped
    BY <1>5, <2>1, OnePut
  <2>2. CASE UNCHANGED todo /\ dropped' = dropped \cup item
    <3>1. Frames(item) = item
      BY <1>2, <1>3, <1>9, WorkerFacts DEF TypeOK, Rescore
    <3>. QED BY <1>6, <2>2, <3>1
  <2>. QED BY <1>9, <2>1, <2>2 DEF Rescore, item
<1>10. CASE Unpack(w)
  <2>1. item \subseteq Stock(graph) /\ Frames(item) = item /\ UNCHANGED dropped /\ IsFiniteSet(item)
    BY <1>2, <1>3, <1>10, WorkerFacts, FS_Subset DEF TypeOK, Unpack
  <2>2. PICK order \in SetToSeqs(item) :
          IF Len(Outputs(w)) = 1 \/ order = <<>>
          THEN WillPut(w, [i \in DOMAIN order |-> <<Outputs(w)[1], {order[i]}>>])
          ELSE WillPut(w, IF item \ {order[1]} = {} THEN << <<Outputs(w)[1], {order[1]}>> >>
                          ELSE << <<Outputs(w)[1], {order[1]}>>, <<Outputs(w)[2], item \ {order[1]}>> >>)
    BY <1>10 DEF Unpack, item
  <2>3. CASE Len(Outputs(w)) = 1 \/ order = <<>>
    <3>. DEFINE puts == [i \in DOMAIN order |-> <<Outputs(w)[1], {order[i]}>>]
    <3>1. Once(Items(puts)) /\ All(Items(puts)) = item
      BY <1>4, <2>1, OneByOne
    <3>2. WillPut(w, puts)
      BY <2>2, <2>3
    <3>. HIDE DEF puts
    <3>. QED BY <1>5, <2>1, <3>1, <3>2
  <2>4. CASE ~(Len(Outputs(w)) = 1 \/ order = <<>>)
    <3>. DEFINE one == {order[1]}  rest == item \ {order[1]}
                first == <<Outputs(w)[1], one>>  second == <<Outputs(w)[2], rest>>
    <3>1. order[1] \in item
      <4>1. order \in Seq(item)
        BY <2>1, Ordered
      <4>. QED BY <2>4, <4>1
    <3>2. first[2] = one /\ second[2] = rest /\ one \cup rest = item /\ one \cap rest = {}
      BY <3>1
    <3>3. CASE rest = {}
      <4>. DEFINE puts == <<first>>
      <4>1. WillPut(w, puts)
        BY <2>2, <2>4, <3>3
      <4>. HIDE DEF first, one, rest
      <4>2. DOMAIN puts = {1} /\ puts[1] = first
        OBVIOUS
      <4>. HIDE DEF puts
      <4>3. Once(Items(puts)) /\ All(Items(puts)) = item
        <5>1. \A i \in DOMAIN puts : puts[i][2] = item
          BY <3>2, <3>3, <4>2
        <5>2. \A i, j \in DOMAIN puts : i # j => puts[i][2] \cap puts[j][2] = {}
          BY <4>2
        <5>3. \A x \in item : \E i \in DOMAIN puts : x \in puts[i][2]
          BY <4>2, <5>1
        <5>. QED BY <1>4, <2>1, <5>1, <5>2, <5>3, PutParts
      <4>. QED BY <1>5, <2>1, <4>1, <4>3
    <3>4. CASE rest # {}
      <4>. DEFINE puts == <<first, second>>
      <4>1. WillPut(w, puts)
        BY <2>2, <2>4, <3>4
      <4>. HIDE DEF first, second, one, rest
      <4>2. DOMAIN puts = {1, 2} /\ puts[1] = first /\ puts[2] = second
        OBVIOUS
      <4>. HIDE DEF puts
      <4>3. Once(Items(puts)) /\ All(Items(puts)) = item
        <5>0. puts[1][2] = one /\ puts[2][2] = rest
          BY <3>2, <4>2
        <5>1. \A i \in DOMAIN puts : puts[i][2] \subseteq item
          BY <3>2, <4>2, <5>0
        <5>2. \A i, j \in DOMAIN puts : i # j => puts[i][2] \cap puts[j][2] = {}
          BY <3>2, <4>2, <5>0
        <5>3. \A x \in item : \E i \in DOMAIN puts : x \in puts[i][2]
          BY <3>2, <4>2, <5>0
        <5>. QED BY <1>4, <2>1, <5>1, <5>2, <5>3, PutParts
      <4>. QED BY <1>5, <2>1, <4>1, <4>3
    <3>. QED BY <3>3, <3>4
  <2>. QED BY <2>3, <2>4
<1>11. CASE Pass(w)
  BY <1>5, <1>11, OnePut DEF Pass, item
<1>. QED BY <1>7, <1>8, <1>9, <1>10, <1>11

LEMMA KeptSame ==
  ASSUME Kept, UNCHANGED <<graph, script, hand, todo, queue, delivered, dropped>>
  PROVE  Kept'
<1>1. Bag' = Bag /\ Workers' = Workers /\ Queues' = Queues /\ HasPool' = HasPool
  BY DEF Bag, Workers, Queues, HasPool, Kind
<1>. QED BY <1>1 DEF Kept

(* What is taken is added to the hand.                                     *)
LEMMA ReserveKept ==
  ASSUME TypeOK, Kept, ~HasPool, NEW w \in Workers, Takes(w), UNCHANGED <<dropped, todo>>,
         Head(queue[Input(w)]) \in Sets(graph),
         hand' = [hand EXCEPT ![w] = Append(@, Head(queue[Input(w)]))]
  PROVE  Kept'
<1>. DEFINE q == Input(w)  item == Head(queue[q])
            a == <<"queue", q>>  b == <<"hand", w>>
<1>1. /\ graph' = graph /\ q \in Queues /\ UNCHANGED <<script, delivered>>
      /\ \A p \in Queues : p # q => queue'[p] = queue[p]
      /\ Once(queue'[q]) /\ Frames(item) \subseteq All(queue[q])
      /\ All(queue'[q]) = All(queue[q]) \ Frames(item)
  BY TakesKept
<1>2. /\ hand'[w] = Append(hand[w], item) /\ \A v \in Workers : v # w => hand'[v] = hand[v]
      /\ hand[w] \in Seq(Sets(graph))
  BY DEF TypeOK, HandOK
<1>3. Once(script'[w]) /\ Once(Items(todo'[w])) /\ Once(hand[w])
  BY <1>1 DEF Kept
<1>4. a \in Shelves(graph) /\ b \in Shelves(graph) /\ a # b
  BY <1>1, ShelvesAre
<1>5. Bag[a] = All(queue[q]) /\ Bag[b] = All(hand[w]) /\ Bag[a] \cap Bag[b] = {}
  BY <1>1, <1>4, BagNow DEF Kept, Parted
<1>6. All(hand[w]) \cap Frames(item) = {}
  BY <1>1, <1>5
<1>7. Once(hand'[w]) /\ All(hand'[w]) = All(hand[w]) \cup Frames(item)
  BY <1>2, <1>3, <1>6, AddedLast
<1>8. Bag'[a] = All(queue[q]) \ Frames(item) /\ Bag'[b] = All(hand[w]) \cup Frames(item)
  BY <1>1, <1>7, BagNext
<1>9. \A s \in Near(w, q) : s \notin {a, b, b} => Bag'[s] = Bag[s]
  <2>1. script'[w] = script[w] /\ todo'[w] = todo[w] /\ delivered' = delivered /\ dropped' = dropped
    BY <1>1
  <2>. QED BY <1>1, <2>1, NearSame, Zenon DEF Near
<1>10. \A v \in Workers : v # w => script'[v] = script[v] /\ hand'[v] = hand[v] /\ todo'[v] = todo[v]
  BY <1>1, <1>2
<1>. HIDE DEF q, item, a, b
<1>11. /\ Bag'[a] \cap Bag'[b] = {}
       /\ Bag'[a] \cup Bag'[b] \cup Bag'[b] = Bag[a] \cup Bag[b] \cup Bag[b]
  BY <1>1, <1>5, <1>8 DEF item, q
<1>. QED BY <1>1, <1>3, <1>4, <1>7, <1>9, <1>10, <1>11, Moved

LEMMA CollectKept == ASSUME TypeOK, Kept, ~HasPool, NEW w \in Workers, Collect(w) PROVE Kept'
<1>. DEFINE q == Input(w)  item == Head(queue[q])  batch == Append(hand[w], item)
            a == <<"queue", q>>  b == <<"hand", w>>  c == <<"todo", w>>
<1>1. Takes(w) /\ Kind(w) = "tensor" /\ dropped' = dropped
  BY DEF Collect
<1>2. item \in Sets(graph)
  BY <1>1, TakesTypes, Carrying, WorkerFacts DEF TypeOK
<1>3. CASE hand' = [hand EXCEPT ![w] = batch] /\ todo' = todo
  <2>1. hand' = [hand EXCEPT ![w] = Append(@, Head(queue[Input(w)]))]
    BY <1>3
  <2>. QED BY <1>1, <1>2, <1>3, <2>1, ReserveKept
<1>4. CASE /\ WillPut(w, << <<Outputs(w)[1], UNION ToSet(batch)>> >>)
           /\ hand' = [hand EXCEPT ![w] = <<>>]
  <2>. DEFINE puts == << <<Outputs(w)[1], UNION ToSet(batch)>> >>
  <2>1. /\ graph' = graph /\ q \in Queues /\ UNCHANGED <<script, delivered>>
        /\ \A p \in Queues : p # q => queue'[p] = queue[p]
        /\ Once(queue'[q]) /\ Frames(item) \subseteq All(queue[q])
        /\ All(queue'[q]) = All(queue[q]) \ Frames(item)
        /\ All(Items(todo[w])) = {}
    BY <1>1, TakesKept
  <2>2. /\ hand'[w] = <<>> /\ \A v \in Workers : v # w => hand'[v] = hand[v]
        /\ hand[w] \in Seq(Sets(graph))
    BY <1>4 DEF TypeOK, HandOK
  <2>3. todo'[w] = puts /\ \A v \in Workers : v # w => todo'[v] = todo[v]
    BY <1>4 DEF TypeOK, TodoOK, WillPut
  <2>4. Once(script'[w]) /\ Once(hand[w])
    BY <2>1 DEF Kept
  <2>5. a \in Shelves(graph) /\ b \in Shelves(graph) /\ c \in Shelves(graph) /\ a # b /\ a # c /\ b # c
    BY <2>1, ShelvesAre
  <2>6. Bag[a] = All(queue[q]) /\ Bag[b] = All(hand[w]) /\ Bag[c] = {} /\ Bag[a] \cap Bag[b] = {}
    BY <2>1, <2>5, BagNow DEF Kept, Parted
  <2>7. All(hand[w]) \cap Frames(item) = {}
    BY <2>1, <2>6
  <2>8. batch \in Seq(Sets(graph)) /\ All(batch) = All(hand[w]) \cup Frames(item)
    BY <1>2, <2>2, <2>4, <2>7, AddedLast
  <2>9. \A x \in Sets(graph) : Frames(x) = x /\ x \subseteq Stock(graph)
    BY SetsOfFrames DEF TypeOK
  <2>. HIDE DEF batch
  <2>10. UNION ToSet(batch) = All(batch) /\ Frames(UNION ToSet(batch)) = UNION ToSet(batch)
    <3>1. \A i \in DOMAIN batch : Frames(batch[i]) = batch[i] /\ batch[i] \subseteq Stock(graph)
      BY <2>8, <2>9
    <3>2. UNION ToSet(batch) = All(batch)
      BY <3>1 DEF All, ToSet
    <3>3. UNION ToSet(batch) \subseteq Stock(graph)
      BY <3>1 DEF ToSet
    <3>. QED BY <2>9, <3>2, <3>3 DEF Sets
  <2>11. Once(Items(puts)) /\ All(Items(puts)) = All(hand[w]) \cup Frames(item)
    BY <2>8, <2>10, OnePut
  <2>. HIDE DEF puts
  <2>12. Once(hand'[w]) /\ Once(Items(todo'[w])) /\ All(hand'[w]) = {}
    BY <2>2, <2>3, <2>11, Empty
  <2>13. /\ Bag'[a] = All(queue[q]) \ Frames(item) /\ Bag'[b] = {}
         /\ Bag'[c] = All(hand[w]) \cup Frames(item)
    BY <2>1, <2>3, <2>11, <2>12, BagNext
  <2>14. \A s \in Near(w, q) : s \notin {a, b, c} => Bag'[s] = Bag[s]
    <3>1. script'[w] = script[w] /\ delivered' = delivered /\ dropped' = dropped
      BY <1>1, <2>1
    <3>. QED BY <2>1, <3>1, NearSame, Zenon DEF Near
  <2>15. \A v \in Workers : v # w => script'[v] = script[v] /\ hand'[v] = hand[v] /\ todo'[v] = todo[v]
    BY <2>1, <2>2, <2>3
  <2>. HIDE DEF q, item, a, b, c
  <2>16. /\ Bag'[a] \cap Bag'[b] = {} /\ Bag'[a] \cap Bag'[c] = {} /\ Bag'[b] \cap Bag'[c] = {}
         /\ Bag'[a] \cup Bag'[b] \cup Bag'[c] = Bag[a] \cup Bag[b] \cup Bag[c]
    BY <2>1, <2>6, <2>13 DEF item, q
  <2>. QED BY <2>1, <2>4, <2>5, <2>12, <2>14, <2>15, <2>16, Moved
<1>. QED BY <1>3, <1>4 DEF Collect

(* One item goes from the hand, or from the script, to be put.             *)
LEMMA SampleKept == ASSUME TypeOK, Kept, ~HasPool, NEW w \in Workers, Sample(w) PROVE Kept'
<1>. DEFINE q == Outputs(w)[1]  a == <<"hand", w>>  b == <<"todo", w>>
<1>1. PICK i \in DOMAIN hand[w] :
        /\ WillPut(w, << <<q, hand[w][i]>> >>)
        /\ hand' = [hand EXCEPT ![w] = RemoveAt(@, i)]
  BY DEF Sample
<1>. DEFINE item == hand[w][i]  puts == << <<q, item>> >>
<1>2. graph' = graph /\ UNCHANGED <<queue, script, delivered, dropped>> /\ todo[w] = <<>> /\ Kind(w) = "sampler"
  BY DEF Sample, flow
<1>3. q \in Queues
  BY <1>2, WorkerFacts DEF TypeOK
<1>4. /\ hand'[w] = RemoveAt(hand[w], i) /\ \A v \in Workers : v # w => hand'[v] = hand[v]
      /\ hand[w] \in Seq(Sets(graph))
  BY <1>1 DEF TypeOK, HandOK
<1>5. todo'[w] = puts /\ \A v \in Workers : v # w => todo'[v] = todo[v]
  BY <1>1 DEF TypeOK, TodoOK, WillPut
<1>6. Once(script'[w]) /\ Once(hand[w]) /\ Once(queue'[q])
  BY <1>2, <1>3 DEF Kept
<1>7. /\ Once(hand'[w]) /\ Frames(item) \subseteq All(hand[w])
      /\ All(hand'[w]) = All(hand[w]) \ Frames(item)
  BY <1>4, <1>6, TakenOut
<1>8. Once(Items(todo'[w])) /\ All(Items(todo'[w])) = Frames(item) /\ All(Items(todo[w])) = {}
  BY <1>2, <1>5, OnePut DEF Items, All
<1>9. a \in Shelves(graph) /\ b \in Shelves(graph) /\ a # b
  BY ShelvesAre
<1>10. /\ Bag[a] = All(hand[w]) /\ Bag[b] = {}
       /\ Bag'[a] = All(hand[w]) \ Frames(item) /\ Bag'[b] = Frames(item)
  BY <1>2, <1>7, <1>8, BagNow, BagNext
<1>11. \A s \in Near(w, q) : s \notin {a, b, b} => Bag'[s] = Bag[s]
  <2>1. script'[w] = script[w] /\ queue'[q] = queue[q] /\ delivered' = delivered /\ dropped' = dropped
    BY <1>2
  <2>. QED BY <1>2, <1>3, <2>1, NearSame, Zenon DEF Near
<1>12. /\ \A v \in Workers : v # w => script'[v] = script[v] /\ hand'[v] = hand[v] /\ todo'[v] = todo[v]
       /\ \A p \in Queues : p # q => queue'[p] = queue[p]
  BY <1>2, <1>4, <1>5
<1>. HIDE DEF q, item, a, b, puts
<1>13. /\ Bag'[a] \cap Bag'[b] = {}
       /\ Bag'[a] \cup Bag'[b] \cup Bag'[b] = Bag[a] \cup Bag[b] \cup Bag[b]
  BY <1>7, <1>10
<1>. QED BY <1>2, <1>3, <1>6, <1>7, <1>8, <1>9, <1>11, <1>12, <1>13, Moved

LEMMA FeedKept == ASSUME TypeOK, Kept, ~HasPool, NEW w \in Workers, Feed(w) PROVE Kept'
<1>. DEFINE q == Outputs(w)[1]  item == Head(script[w])  puts == << <<q, item>> >>
            a == <<"script", w>>  b == <<"todo", w>>
<1>1. /\ WillPut(w, puts) /\ script' = [script EXCEPT ![w] = Tail(@)] /\ script[w] # <<>>
      /\ graph' = graph /\ UNCHANGED <<queue, hand, delivered, dropped>>
      /\ todo[w] = <<>> /\ Kind(w) = "feed"
  BY DEF Feed, flow
<1>2. q \in Queues
  BY <1>1, WorkerFacts DEF TypeOK
<1>3. /\ script'[w] = Tail(script[w]) /\ \A v \in Workers : v # w => script'[v] = script[v]
      /\ script[w] \in Seq(ToSet(graph.workers[w].script))
  BY <1>1 DEF TypeOK, ScriptOK
<1>4. todo'[w] = puts /\ \A v \in Workers : v # w => todo'[v] = todo[v]
  BY <1>1 DEF TypeOK, TodoOK, WillPut
<1>5. Once(hand'[w]) /\ Once(script[w]) /\ Once(queue'[q])
  BY <1>1, <1>2 DEF Kept
<1>6. /\ Once(script'[w]) /\ Frames(item) \subseteq All(script[w])
      /\ All(script'[w]) = All(script[w]) \ Frames(item)
  BY <1>1, <1>3, <1>5, HeadOff
<1>7. Once(Items(todo'[w])) /\ All(Items(todo'[w])) = Frames(item) /\ All(Items(todo[w])) = {}
  BY <1>1, <1>4, OnePut DEF Items, All
<1>8. a \in Shelves(graph) /\ b \in Shelves(graph) /\ a # b
  BY ShelvesAre
<1>9. /\ Bag[a] = All(script[w]) /\ Bag[b] = {}
      /\ Bag'[a] = All(script[w]) \ Frames(item) /\ Bag'[b] = Frames(item)
  BY <1>1, <1>6, <1>7, BagNow, BagNext
<1>10. \A s \in Near(w, q) : s \notin {a, b, b} => Bag'[s] = Bag[s]
  <2>1. hand'[w] = hand[w] /\ queue'[q] = queue[q] /\ delivered' = delivered /\ dropped' = dropped
    BY <1>1
  <2>. QED BY <1>1, <1>2, <2>1, NearSame, Zenon DEF Near
<1>11. /\ \A v \in Workers : v # w => script'[v] = script[v] /\ hand'[v] = hand[v] /\ todo'[v] = todo[v]
       /\ \A p \in Queues : p # q => queue'[p] = queue[p]
  BY <1>1, <1>3, <1>4
<1>. HIDE DEF q, item, a, b, puts
<1>12. /\ Bag'[a] \cap Bag'[b] = {}
       /\ Bag'[a] \cup Bag'[b] \cup Bag'[b] = Bag[a] \cup Bag[b] \cup Bag[b]
  BY <1>6, <1>9
<1>. QED BY <1>1, <1>2, <1>5, <1>6, <1>7, <1>8, <1>10, <1>11, <1>12, Moved

LEMMA ReadKept == ASSUME TypeOK, Kept, ~HasPool, NEW q \in graph.read, Read(q) PROVE Kept'
<1>. DEFINE item == Head(queue[q])  a == <<"queue", q>>  b == <<"delivered", 0>>
<1>1. /\ queue' = [queue EXCEPT ![q] = Tail(@)] /\ queue[q] # <<>>
      /\ graph' = graph /\ UNCHANGED <<script, hand, todo, dropped>>
      /\ delivered' = delivered \cup Frames(item)
  BY DEF Read, work
<1>2. q \in Queues
  BY QueueFacts DEF TypeOK
<1>3. /\ queue'[q] = Tail(queue[q]) /\ \A p \in Queues : p # q => queue'[p] = queue[p]
      /\ queue[q] \in Seq(Carried(graph, q))
  BY <1>1, <1>2 DEF TypeOK, QueuesOK
<1>4. Once(queue[q])
  BY <1>2 DEF Kept
<1>5. /\ Once(queue'[q]) /\ Frames(item) \subseteq All(queue[q])
      /\ All(queue'[q]) = All(queue[q]) \ Frames(item)
  BY <1>1, <1>3, <1>4, HeadOff
<1>6. a \in Shelves(graph) /\ b \in Shelves(graph) /\ a # b
  BY <1>2, ShelvesAre
<1>7. /\ Bag[a] = All(queue[q]) /\ Bag[b] = delivered /\ Bag[a] \cap Bag[b] = {}
      /\ Bag'[a] = All(queue[q]) \ Frames(item) /\ Bag'[b] = delivered \cup Frames(item)
  BY <1>1, <1>2, <1>5, <1>6, BagNow, BagNext DEF Kept, Parted
<1>. HIDE DEF item, a, b
<1>8. /\ Bag'[a] \cap Bag'[b] = {}
      /\ Bag'[a] \cup Bag'[b] = Bag[a] \cup Bag[b]
  BY <1>5, <1>7
<1>9. \A s \in Shelves(graph) : s \notin {a, b} => Bag'[s] = Bag[s]
  <2>1. ASSUME NEW v \in Workers
        PROVE  /\ Bag'[<<"script", v>>] = Bag[<<"script", v>>] /\ Bag'[<<"hand", v>>] = Bag[<<"hand", v>>]
               /\ Bag'[<<"todo", v>>] = Bag[<<"todo", v>>]
    BY <1>1, <1>2, NearSame
  <2>2. ASSUME NEW p \in Queues, p # q PROVE Bag'[<<"queue", p>>] = Bag[<<"queue", p>>]
    BY <1>1, <1>3, <2>2, BagNow, BagNext
  <2>3. Bag'[<<"dropped", 0>>] = Bag[<<"dropped", 0>>]
    BY <1>1, BagNow, BagNext
  <2>4. ASSUME NEW s \in Shelves(graph), s \notin {a, b} PROVE Bag'[s] = Bag[s]
    <3>1. CASE \E v \in Workers : s \in {<<"script", v>>, <<"hand", v>>, <<"todo", v>>}
      BY <3>1, <2>1
    <3>2. CASE \E p \in Queues : s = <<"queue", p>>
      BY <3>2, <2>2, <2>4 DEF a
    <3>3. CASE s \in {<<"delivered", 0>>, <<"dropped", 0>>}
      BY <3>3, <2>3, <2>4 DEF b
    <3>. QED BY <3>1, <3>2, <3>3, ShelfKinds DEF Workers, Queues
  <2>. QED BY <2>4
<1>10. Parted(Bag', Stock(graph))
  <2>. DEFINE old == Bag  new == Bag'  U == Stock(graph)
  <2>1. DOMAIN old = Shelves(graph) /\ DOMAIN new = Shelves(graph) /\ Parted(old, U)
    BY <1>1, BagNow, BagNext DEF Kept
  <2>2. /\ \A s \in Shelves(graph) : s \notin {a, b, b} => new[s] = old[s]
        /\ new[a] \cap new[b] = {} /\ new[a] \cup new[b] \cup new[b] = old[a] \cup old[b] \cup old[b]
    BY <1>8, <1>9
  <2>. HIDE DEF old, new, U
  <2>3. Parted(new, U)
    BY <1>6, <2>1, <2>2, Rearranged
  <2>. QED BY <2>3 DEF new, U
<1>11. Workers' = Workers /\ Queues' = Queues
  BY <1>1 DEF Workers, Queues
<1>12. \A p \in Queues : Once(queue'[p])
  BY <1>3, <1>5 DEF Kept
<1>. QED BY <1>1, <1>10, <1>11, <1>12 DEF Kept

(* The first of the puts is made.                                          *)
LEMMA FirstPut ==
  ASSUME NEW S, NEW puts \in Seq(S), puts # <<>>, Once(Items(puts))
  PROVE  /\ Once(Items(Tail(puts))) /\ Frames(Head(puts)[2]) \subseteq All(Items(puts))
         /\ All(Items(Tail(puts))) = All(Items(puts)) \ Frames(Head(puts)[2])
<1>. DEFINE T == {puts[i][2] : i \in DOMAIN puts}  items == Items(puts)
<1>1. items \in Seq(T) /\ items # <<>> /\ Head(items) = Head(puts)[2]
  BY DEF Items
<1>2. Items(Tail(puts)) = Tail(items)
  BY DEF Items
<1>. HIDE DEF T, items
<1>3. Once(items)
  BY DEF items
<1>4. /\ Once(Tail(items)) /\ Frames(Head(items)) \subseteq All(items)
      /\ All(Tail(items)) = All(items) \ Frames(Head(items))
  BY <1>1, <1>3, HeadOff
<1>. QED BY <1>1, <1>2, <1>4 DEF items

LEMMA PutKept == ASSUME TypeOK, Kept, ~HasPool, NEW w \in Workers, Put(w) PROVE Kept'
<1>. DEFINE q == Head(todo[w])[1]  item == Head(todo[w])[2]
            a == <<"todo", w>>  b == <<"queue", q>>  c == <<"dropped", 0>>
<1>1. /\ graph' = graph /\ todo[w] # <<>> /\ UNCHANGED <<script, hand, delivered>>
      /\ todo' = [todo EXCEPT ![w] = Tail(@)]
  BY DEF Put
<1>2. /\ q \in Queues /\ item \in Carried(graph, q) /\ todo[w] \in Seq(Parcels(graph, w))
      /\ queue[q] \in Seq(Carried(graph, q)) /\ DOMAIN queue = Queues
  BY <1>1, NextParcel DEF TypeOK, QueuesOK
<1>3. todo'[w] = Tail(todo[w]) /\ \A v \in Workers : v # w => todo'[v] = todo[v]
  BY <1>1 DEF TypeOK, TodoOK
<1>4. Once(script'[w]) /\ Once(hand'[w]) /\ Once(queue[q]) /\ Once(Items(todo[w]))
  BY <1>1, <1>2 DEF Kept
<1>5. /\ Once(Items(todo'[w])) /\ Frames(item) \subseteq All(Items(todo[w]))
      /\ All(Items(todo'[w])) = All(Items(todo[w])) \ Frames(item)
  BY <1>1, <1>2, <1>3, <1>4, FirstPut
<1>6. a \in Shelves(graph) /\ b \in Shelves(graph) /\ c \in Shelves(graph) /\ a # b /\ a # c /\ b # c
  BY <1>2, ShelvesAre
<1>7. /\ Bag[a] = All(Items(todo[w])) /\ Bag[b] = All(queue[q]) /\ Bag[c] = dropped
      /\ Bag'[a] = All(Items(todo[w])) \ Frames(item) /\ Bag'[b] = All(queue'[q]) /\ Bag'[c] = dropped'
      /\ Bag[a] \cap Bag[b] = {} /\ Bag[a] \cap Bag[c] = {} /\ Bag[b] \cap Bag[c] = {}
  BY <1>1, <1>2, <1>5, <1>6, BagNow, BagNext DEF Kept, Parted
<1>8. \A s \in Near(w, q) : s \notin {a, b, c} => Bag'[s] = Bag[s]
  <2>1. script'[w] = script[w] /\ hand'[w] = hand[w] /\ delivered' = delivered
    BY <1>1
  <2>. QED BY <1>1, <1>2, <2>1, NearSame, Zenon DEF Near
<1>9. \A v \in Workers : v # w => script'[v] = script[v] /\ hand'[v] = hand[v] /\ todo'[v] = todo[v]
  BY <1>1, <1>3
<1>10. ASSUME Once(queue'[q]), \A p \in Queues : p # q => queue'[p] = queue[p],
              \/ queue'[q] = queue[q] /\ dropped' = dropped \cup Frames(item)
              \/ All(queue'[q]) = All(queue[q]) \cup Frames(item) /\ dropped' = dropped
              \/ \E lost : /\ All(queue'[q]) = (All(queue[q]) \ lost) \cup Frames(item)
                          /\ dropped' = dropped \cup lost /\ lost \subseteq All(queue[q])
       PROVE  Kept'
  <2>. HIDE DEF q, item, a, b, c
  <2>1. /\ Bag'[a] \cap Bag'[b] = {} /\ Bag'[a] \cap Bag'[c] = {} /\ Bag'[b] \cap Bag'[c] = {}
        /\ Bag'[a] \cup Bag'[b] \cup Bag'[c] = Bag[a] \cup Bag[b] \cup Bag[c]
    BY <1>5, <1>7, <1>10
  <2>. QED BY <1>1, <1>2, <1>4, <1>5, <1>6, <1>8, <1>9, <1>10, <2>1, Moved
<1>11. CASE queue' = [queue EXCEPT ![q] = Append(@, item)] /\ dropped' = dropped
  <2>1. queue'[q] = Append(queue[q], item) /\ \A p \in Queues : p # q => queue'[p] = queue[p]
    BY <1>2, <1>11
  <2>2. All(queue[q]) \cap Frames(item) = {}
    BY <1>5, <1>7
  <2>3. Once(queue'[q]) /\ All(queue'[q]) = All(queue[q]) \cup Frames(item)
    BY <1>2, <1>4, <2>1, <2>2, AddedLast
  <2>. QED BY <1>10, <1>11, <2>1, <2>3
<1>12. CASE queue' = queue /\ dropped' = dropped \cup Frames(item)
  BY <1>4, <1>10, <1>12
<1>13. CASE /\ queue' = [queue EXCEPT ![q] = Append(Tail(@), item)]
            /\ dropped' = dropped \cup Frames(Head(queue[q])) /\ Full(q)
  <2>. DEFINE lost == Frames(Head(queue[q]))
  <2>1. queue'[q] = Append(Tail(queue[q]), item) /\ \A p \in Queues : p # q => queue'[p] = queue[p]
    BY <1>2, <1>13
  <2>2. queue[q] # <<>>
    BY <1>2, <1>13, QueueFacts DEF Full, TypeOK
  <2>3. /\ Tail(queue[q]) \in Seq(Carried(graph, q)) /\ Once(Tail(queue[q]))
        /\ All(Tail(queue[q])) = All(queue[q]) \ lost /\ lost \subseteq All(queue[q])
    BY <1>2, <1>4, <2>2, HeadOff
  <2>4. All(Tail(queue[q])) \cap Frames(item) = {}
    BY <1>5, <1>7, <2>3
  <2>5. Once(queue'[q]) /\ All(queue'[q]) = (All(queue[q]) \ lost) \cup Frames(item)
    <3>. DEFINE S == Carried(graph, q)  t == Tail(queue[q])
    <3>1. t \in Seq(S) /\ Once(t) /\ item \in S /\ All(t) \cap Frames(item) = {}
      BY <1>2, <2>3, <2>4
    <3>. HIDE DEF S, t, q, item, lost
    <3>2. Once(Append(t, item)) /\ All(Append(t, item)) = All(t) \cup Frames(item)
      BY <3>1, AddedLast
    <3>. QED BY <2>1, <2>3, <3>2 DEF t
  <2>6. dropped' = dropped \cup lost
    BY <1>13
  <2>. HIDE DEF lost
  <2>. QED BY <1>10, <2>1, <2>3, <2>5, <2>6
<1>. QED BY <1>11, <1>12, <1>13 DEF Put

LEMMA PutThrowsKept == ASSUME TypeOK, Kept, ~HasPool, NEW w \in Workers, PutThrows(w) PROVE Kept'
<1>. DEFINE q == Head(todo[w])[1]  item == Head(todo[w])[2]
            a == <<"todo", w>>  c == <<"dropped", 0>>
<1>1. /\ graph' = graph /\ todo[w] # <<>> /\ UNCHANGED <<script, hand, delivered, queue>>
  BY DEF PutThrows
<1>2. CASE Kind(w) # "rescorer"
  <2>1. UNCHANGED <<todo, dropped>>
    BY <1>2 DEF PutThrows
  <2>. QED BY <1>1, <2>1, KeptSame
<1>3. CASE Kind(w) = "rescorer"
  <2>1. dropped' = dropped \cup item /\ WillPut(w, <<>>)
    BY <1>3 DEF PutThrows
  <2>2. /\ q \in Queues /\ todo[w] \in Seq(Parcels(graph, w)) /\ Head(todo[w]) = todo[w][1]
        /\ 1 \in DOMAIN todo[w]
    BY <1>1, NextParcel
  <2>3. todo'[w] = <<>> /\ \A v \in Workers : v # w => todo'[v] = todo[v]
    BY <2>1 DEF TypeOK, TodoOK, WillPut
  <2>4. item \in Sets(graph) /\ Frames(item) = item /\ Len(todo[w]) =< 1
    BY <1>3, <2>2, SetsOfFrames DEF TypeOK, TodoOK
  <2>5. All(Items(todo[w])) = item /\ All(Items(todo'[w])) = {} /\ Once(Items(todo'[w]))
    <3>1. DOMAIN todo[w] = {1}
      BY <2>2, <2>4
    <3>2. DOMAIN Items(todo[w]) = {1} /\ Items(todo[w])[1] = item
      BY <2>2, <3>1 DEF Items
    <3>. HIDE DEF item
    <3>3. All(Items(todo[w])) = item
      BY <2>4, <3>2 DEF All
    <3>4. All(Items(<<>>)) = {} /\ Once(Items(<<>>))
      BY DEF All, Items, Once
    <3>. QED BY <2>3, <3>3, <3>4
  <2>6. a \in Shelves(graph) /\ c \in Shelves(graph) /\ a # c
    BY ShelvesAre
  <2>7. /\ Bag[a] = item /\ Bag[c] = dropped /\ Bag'[a] = {} /\ Bag'[c] = dropped \cup item
    BY <1>1, <2>1, <2>5, BagNow, BagNext
  <2>8. \A s \in Near(w, q) : s \notin {a, c, c} => Bag'[s] = Bag[s]
    <3>1. script'[w] = script[w] /\ hand'[w] = hand[w] /\ queue'[q] = queue[q] /\ delivered' = delivered
      BY <1>1
    <3>. QED BY <1>1, <2>2, <3>1, NearSame, Zenon DEF Near
  <2>9. /\ Once(script'[w]) /\ Once(hand'[w]) /\ Once(queue'[q])
        /\ \A v \in Workers : v # w => script'[v] = script[v] /\ hand'[v] = hand[v] /\ todo'[v] = todo[v]
        /\ \A p \in Queues : p # q => queue'[p] = queue[p]
    BY <1>1, <2>2, <2>3 DEF Kept
  <2>. HIDE DEF q, item, a, c
  <2>10. /\ Bag'[a] \cap Bag'[c] = {}
         /\ Bag'[a] \cup Bag'[c] \cup Bag'[c] = Bag[a] \cup Bag[c] \cup Bag[c]
    BY <2>7
  <2>. QED BY <1>1, <2>2, <2>5, <2>6, <2>8, <2>9, <2>10, Moved
<1>. QED BY <1>2, <1>3

LEMMA KeptInit == Init => Kept
<1>. SUFFICES ASSUME Init PROVE Kept
  OBVIOUS
<1>1. /\ graph \in Graphs /\ Distinct(graph)
      /\ \A w \in Workers : script[w] = graph.workers[w].script /\ hand[w] = <<>> /\ todo[w] = <<>>
      /\ \A q \in Queues : queue[q] = <<>>
      /\ delivered = {} /\ dropped = {}
  BY GraphsAssumption DEF Init
<1>2. Once(<<>>) /\ Once(Items(<<>>)) /\ All(<<>>) = {} /\ All(Items(<<>>)) = {}
  BY DEF Once, Items, All
<1>3. \A v, w \in Workers : \A i \in DOMAIN script[v], j \in DOMAIN script[w] :
        Frames(script[v][i]) \cap Frames(script[w][j]) # {} => v = w /\ i = j
  <2>. SUFFICES ASSUME NEW v \in Workers, NEW w \in Workers,
                       NEW i \in DOMAIN script[v], NEW j \in DOMAIN script[w],
                       Frames(script[v][i]) \cap Frames(script[w][j]) # {}
                PROVE  v = w /\ i = j
    OBVIOUS
  <2>. DEFINE s == graph.workers[v].script  t == graph.workers[w].script
  <2>1. \A k \in DOMAIN s, l \in DOMAIN t : Frames(s[k]) \cap Frames(t[l]) # {} => v = w /\ k = l
    BY <1>1 DEF Distinct, Workers
  <2>2. script[v] = s /\ script[w] = t
    BY <1>1
  <2>. HIDE DEF s, t
  <2>. QED BY <2>1, <2>2
<1>4. \A w \in Workers : Once(script[w])
  BY <1>3 DEF Once
<1>5. \A v, w \in Workers : v # w => All(script[v]) \cap All(script[w]) = {}
  BY <1>3 DEF All
<1>6. \A f \in Stock(graph) : \E w \in Workers : f \in All(script[w])
  BY <1>1 DEF Stock, All, Workers
<1>7. ASSUME NEW s \in Shelves(graph)
      PROVE  Bag[s] = {} \/ \E w \in Workers : s = <<"script", w>> /\ Bag[s] = All(script[w])
  <2>1. CASE \E w \in Workers : s \in {<<"script", w>>, <<"hand", w>>, <<"todo", w>>}
    BY <1>1, <1>2, <2>1, BagNow
  <2>2. CASE \E q \in Queues : s = <<"queue", q>>
    BY <1>1, <1>2, <2>2, BagNow
  <2>3. CASE s \in {<<"delivered", 0>>, <<"dropped", 0>>}
    BY <1>1, <2>3, BagNow
  <2>. QED BY <2>1, <2>2, <2>3, ShelfKinds DEF Workers, Queues
<1>8. \A s, t \in DOMAIN Bag : s # t => Bag[s] \cap Bag[t] = {}
  BY <1>5, <1>7, BagNow
<1>9. \A f \in Stock(graph) : \E s \in DOMAIN Bag : f \in Bag[s]
  BY <1>6, BagNow, ShelvesAre
<1>. QED BY <1>1, <1>2, <1>4, <1>8, <1>9 DEF Kept, Parted

LEMMA KeptStep == ASSUME TypeOK, Kept, [Next]_vars PROVE Kept'
<1>1. CASE HasPool
  <2>1. graph' = graph
    BY GraphStays
  <2>2. HasPool'
    BY <1>1, <2>1 DEF HasPool, Workers, Kind
  <2>. QED BY <2>2 DEF Kept
<1>2. CASE ~HasPool
  <2>1. ASSUME NEW w \in Workers,
               \/ Start(w) \/ CreateProducer(w) \/ Abandon(w) \/ GetThrows(w) \/ EndFeed(w)
        PROVE  Kept'
    <3>1. UNCHANGED <<graph, flow, work>>
      BY <2>1 DEF Start, CreateProducer, Abandon, GetThrows, EndFeed
    <3>. QED BY <3>1, KeptSame DEF flow, work
  <2>2. ASSUME NEW w \in Workers, Reserve(w) PROVE Kept'
    <3>1. Takes(w) /\ Kind(w) = "sampler" /\ UNCHANGED <<dropped, todo>>
          /\ hand' = [hand EXCEPT ![w] = Append(@, Head(queue[Input(w)]))]
      BY <2>2 DEF Reserve
    <3>2. Head(queue[Input(w)]) \in Sets(graph)
      BY <3>1, TakesTypes, Carrying, WorkerFacts DEF TypeOK
    <3>. QED BY <1>2, <3>1, <3>2, ReserveKept
  <2>3. \A w \in Workers :
          ~CollectSource(w) /\ ~Initialized(w) /\ ~FailInitialization(w) /\ ~Ingest(w) /\ ~Cache(w) /\ ~Draw(w)
    BY <1>2, PoolFacts
       DEF TypeOK, PoolKinds, CollectSource, Initialized, FailInitialization, Ingest, Cache, Draw
  <2>4. ASSUME NEW w \in Workers, Work(w) \/ Feed(w) \/ EndFeed(w) \/ Abandon(w) PROVE Kept'
    BY <1>2, <2>1, <2>2, <2>3, <2>4, TakingKept, CollectKept, SampleKept, FeedKept, PutKept, PutThrowsKept
       DEF Work
  <2>5. CASE LeaveReader \/ BeginStop \/ StageStopped \/ UNCHANGED vars
    <3>1. UNCHANGED <<graph, flow, work>>
      BY <2>5 DEF LeaveReader, BeginStop, StageStopped, vars
    <3>. QED BY <3>1, KeptSame DEF flow, work
  <2>6. CASE \E q \in graph.read : Read(q)
    BY <1>2, <2>6, ReadKept
  <2>. QED BY <2>4, <2>5, <2>6 DEF Next
<1>. QED BY <1>1, <1>2

(* A frame of the stock is in one place.                                   *)
OnShelf(s) == IF s[1] = "script" THEN script[s[2]]
              ELSE IF s[1] = "hand" THEN hand[s[2]]
              ELSE IF s[1] = "todo" THEN Items(todo[s[2]])
              ELSE IF s[1] = "queue" THEN queue[s[2]]
              ELSE IF s[1] = "delivered" THEN <<delivered>> ELSE <<dropped>>

LEMMA OnShelfIs ==
  /\ \A w \in Workers : /\ OnShelf(<<"script", w>>) = script[w] /\ OnShelf(<<"hand", w>>) = hand[w]
                        /\ OnShelf(<<"todo", w>>) = Items(todo[w])
  /\ \A q \in Queues : OnShelf(<<"queue", q>>) = queue[q]
  /\ OnShelf(<<"delivered", 0>>) = <<delivered>> /\ OnShelf(<<"dropped", 0>>) = <<dropped>>
BY DEF OnShelf

LEMMA PlacesAre ==
  ASSUME NEW f
  PROVE  Places(f) = UNION {In(f, s, OnShelf(s)) : s \in Shelves(graph)}
<1>. DEFINE scripts == UNION {In(f, <<"script", w>>, script[w]) : w \in Workers}
            hands == UNION {In(f, <<"hand", w>>, hand[w]) : w \in Workers}
            todos == UNION {In(f, <<"todo", w>>, Items(todo[w])) : w \in Workers}
            queues == UNION {In(f, <<"queue", q>>, queue[q]) : q \in Queues}
            read == In(f, <<"delivered", 0>>, <<delivered>>)
            lost == In(f, <<"dropped", 0>>, <<dropped>>)
            all == UNION {In(f, s, OnShelf(s)) : s \in Shelves(graph)}
<1>1. Places(f) = scripts \cup hands \cup todos \cup queues \cup read \cup lost
  BY DEF Places
<1>2. scripts \subseteq all
  BY OnShelfIs, ShelvesAre
<1>3. hands \subseteq all
  BY OnShelfIs, ShelvesAre
<1>4. todos \subseteq all
  BY OnShelfIs, ShelvesAre
<1>5. queues \subseteq all
  BY OnShelfIs, ShelvesAre
<1>6. read \subseteq all /\ lost \subseteq all
  BY OnShelfIs, ShelvesAre
<1>7. all \subseteq scripts \cup hands \cup todos \cup queues \cup read \cup lost
  <2>. SUFFICES ASSUME NEW s \in Shelves(graph), NEW place \in In(f, s, OnShelf(s))
                PROVE  place \in scripts \cup hands \cup todos \cup queues \cup read \cup lost
    OBVIOUS
  <2>1. CASE \E w \in Workers : s = <<"script", w>>
    BY <2>1, OnShelfIs
  <2>2. CASE \E w \in Workers : s = <<"hand", w>>
    BY <2>2, OnShelfIs
  <2>3. CASE \E w \in Workers : s = <<"todo", w>>
    BY <2>3, OnShelfIs
  <2>4. CASE \E q \in Queues : s = <<"queue", q>>
    BY <2>4, OnShelfIs
  <2>5. CASE s \in {<<"delivered", 0>>, <<"dropped", 0>>}
    BY <2>5, OnShelfIs
  <2>. HIDE DEF scripts, hands, todos, queues, read, lost
  <2>. QED BY <2>1, <2>2, <2>3, <2>4, <2>5, ShelfKinds DEF Workers, Queues
<1>. HIDE DEF scripts, hands, todos, queues, read, lost, all
<1>8. Places(f) = all
  BY <1>1, <1>2, <1>3, <1>4, <1>5, <1>6, <1>7
<1>. QED BY <1>8 DEF all

LEMMA KeptConserves == ASSUME TypeOK, Kept PROVE FramesConserved
<1>. SUFFICES ASSUME ~HasPool, NEW f \in Stock(graph)
              PROVE  \E place \in Places(f) : Places(f) = {place}
  BY DEF FramesConserved
<1>1. Parted(Bag, Stock(graph)) /\ DOMAIN Bag = Shelves(graph)
  BY BagNow DEF Kept
<1>2. ASSUME NEW x, x \subseteq Stock(graph)
      PROVE  DOMAIN <<x>> = {1} /\ All(<<x>>) = x /\ Once(<<x>>)
  <2>1. Frames(x) = x
    BY <1>2, SetsOfFrames DEF TypeOK, Sets
  <2>. QED BY <2>1, Single
<1>3. ASSUME NEW s \in Shelves(graph) PROVE Bag[s] = All(OnShelf(s)) /\ Once(OnShelf(s))
  <2>1. CASE \E w \in Workers : s \in {<<"script", w>>, <<"hand", w>>, <<"todo", w>>}
    BY <2>1, BagNow, OnShelfIs DEF Kept
  <2>2. CASE \E q \in Queues : s = <<"queue", q>>
    BY <2>2, BagNow, OnShelfIs DEF Kept
  <2>3. CASE s \in {<<"delivered", 0>>, <<"dropped", 0>>}
    <3>1. delivered \subseteq Stock(graph) /\ dropped \subseteq Stock(graph)
      BY DEF TypeOK, EndsOK
    <3>. QED BY <1>2, <2>3, <3>1, BagNow, OnShelfIs
  <2>. QED BY <2>1, <2>2, <2>3, ShelfKinds DEF Workers, Queues
<1>4. \A place : place \in Places(f) <=>
        \E s \in Shelves(graph) : \E i \in DOMAIN OnShelf(s) :
          f \in Frames(OnShelf(s)[i]) /\ place = <<s, i>>
  BY PlacesAre DEF In
<1>5. PICK s \in Shelves(graph) : f \in Bag[s]
  BY <1>1 DEF Parted
<1>6. PICK i \in DOMAIN OnShelf(s) : f \in Frames(OnShelf(s)[i])
  BY <1>3, <1>5 DEF All
<1>7. <<s, i>> \in Places(f)
  BY <1>4, <1>6
<1>8. ASSUME NEW place \in Places(f) PROVE place = <<s, i>>
  <2>0. PICK t \in Shelves(graph) :
          \E j \in DOMAIN OnShelf(t) : f \in Frames(OnShelf(t)[j]) /\ place = <<t, j>>
    BY <1>4
  <2>1. PICK j \in DOMAIN OnShelf(t) : f \in Frames(OnShelf(t)[j]) /\ place = <<t, j>>
    BY <2>0
  <2>2. f \in Bag[t]
    BY <1>3, <2>1 DEF All
  <2>3. t = s
    BY <1>1, <1>5, <2>2 DEF Parted
  <2>. QED BY <1>3, <1>6, <2>1, <2>3 DEF Once
<1>. QED BY <1>7, <1>8

-----------------------------------------------------------------------------
(* Before a stop: who has not started has nothing, nobody has a producer   *)
(* for a queue that is closed, what is closed is so since a worker left or *)
(* the pool failed, and who has left has emptied what it got from.         *)

Idle ==
  \A w \in Workers :
    /\ life[w] \in {"awaiting", "enqueued"} => todo[w] = <<>> /\ hand[w] = <<>>
    /\ life[w] = "ended" => todo[w] = <<>>
    /\ hand[w] # <<>> => Kind(w) \in {"sampler", "tensor", "init"}
Closings ==
  \A q \in closed :
    /\ \A w \in Workers : ~Holds(w, q)
    /\ \E v \in Workers : q \in ToSet(Outputs(v)) /\ (life[v] = "ended" \/ Kind(v) = "output")
PoolWaits ==
  \A v, w \in Workers :
    Kind(v) = "init" /\ life[v] # "ended" /\ Kind(w) \in PoolKinds \ {"init"} => life[w] = "awaiting"
Drained ==
  \A w \in Workers :
    life[w] = "ended" /\ Kind(w) \notin {"feed", "init", "output"} /\ ~LateJoin(w) =>
      Input(w) \in closed /\ queue[Input(w)] = <<>>
Protocol == stop = 0 => Idle /\ Closings /\ PoolWaits /\ Drained

LEMMA ProtocolInit == Init => Protocol
BY DEF Init, Protocol, Idle, Closings, PoolWaits, Drained, PoolKinds

LEMMA ProtocolHolds == ASSUME TypeOK, Protocol PROVE NothingStranded
BY DEF Protocol, Idle, Drained, NothingStranded

(* Queues that two workers put into are of workers that are alike.         *)
LEMMA Sharing ==
  ASSUME graph \in Graphs, NEW v \in Workers, NEW w \in Workers,
         NEW q \in ToSet(Outputs(v)), q \in ToSet(Outputs(w))
  PROVE  Kind(v) = Kind(w) /\ (Kind(v) # "join" => Input(v) = Input(w))
BY GraphsAssumption DEF WellFormed, Alike, Workers, Outputs, Kind, Input

LEMMA NoStopYet ==
  ASSUME graph \in Graphs, stop = 0, NEW w \in Workers
  PROVE  ~StopRequested(w)
BY WorkerFacts DEF StopRequested, StopsAs

(* A step in which no worker starts or ends.                               *)
LEMMA Quiet ==
  ASSUME Protocol, stop = 0, UNCHANGED <<graph, life, opened, closed, late>>,
         \A v \in Workers : life[v] # "running" => todo'[v] = todo[v] /\ hand'[v] = hand[v],
         \A v \in Workers : hand'[v] # <<>> => Kind(v) \in {"sampler", "tensor", "init"},
         \A q \in closed : queue[q] = <<>> => queue'[q] = <<>>
  PROVE  Protocol'
<1>1. Workers' = Workers
  BY DEF Workers
<1>2. Idle'
  BY <1>1 DEF Protocol, Idle, Kind
<1>3. Closings'
  BY <1>1 DEF Protocol, Closings, Holds, Outputs, Kind
<1>4. PoolWaits'
  BY <1>1 DEF Protocol, PoolWaits, Kind
<1>5. Drained'
  BY <1>1 DEF Protocol, Drained, Kind, Input, LateJoin
<1>. QED BY <1>2, <1>3, <1>4, <1>5 DEF Protocol

(* A worker ends and has left nothing behind.                              *)
LEMMA Leaving ==
  ASSUME TypeOK, Protocol, stop = 0, NEW w \in Workers, Leave(w), late \subseteq late',
         life[w] # "awaiting",
         UNCHANGED <<graph, opened, queue, todo, hand>>, todo[w] = <<>>,
         Kind(w) \notin {"feed", "init", "output"} /\ ~LateJoin(w)' =>
           Input(w) \in closed /\ queue[Input(w)] = <<>>
  PROVE  Protocol'
<1>1. Workers' = Workers /\ Queues' = Queues
  BY DEF Workers, Queues
<1>2. /\ DOMAIN life' = Workers /\ life'[w] = "ended" /\ \A v \in Workers : v # w => life'[v] = life[v]
      /\ closed' = closed \cup {q \in Queues : LastProducer(w, q)}
  BY DEF TypeOK, CrewOK, Leave, Become
<1>3. Idle'
  BY <1>1, <1>2 DEF Protocol, Idle, Kind
<1>4. ASSUME NEW q \in closed', NEW v \in Workers PROVE ~Holds(v, q)'
  <2>1. CASE v = w
    BY <1>2, <2>1 DEF Holds
  <2>2. CASE v # w
    <3>1. ~Holds(v, q)
      BY <1>2, <2>2 DEF Protocol, Closings, LastProducer
    <3>2. life'[v] = life[v] /\ Outputs(v)' = Outputs(v) /\ opened' = opened
      BY <1>2, <2>2 DEF Outputs
    <3>. QED BY <3>1, <3>2 DEF Holds
  <2>. QED BY <2>1, <2>2
<1>5. ASSUME NEW q \in closed'
      PROVE  \E v \in Workers : q \in ToSet(Outputs(v)) /\ (life'[v] = "ended" \/ Kind(v) = "output")
  <2>1. CASE q \in closed
    BY <1>2, <2>1 DEF Protocol, Closings
  <2>2. CASE Holds(w, q)
    <3>1. PICK i \in 1 .. opened[w] : Outputs(w)[i] = q
      BY <2>2 DEF Holds
    <3>2. i \in DOMAIN Outputs(w)
      BY WorkerFacts DEF TypeOK, CrewOK
    <3>. QED BY <1>2, <3>1, <3>2 DEF ToSet
  <2>. QED BY <1>2, <2>1, <2>2 DEF LastProducer
<1>6. Closings'
  BY <1>1, <1>4, <1>5 DEF Closings, Outputs, Kind
<1>7. PoolWaits'
  BY <1>1, <1>2 DEF Protocol, PoolWaits, Kind
<1>8. Drained'
  BY <1>1, <1>2 DEF Protocol, Drained, Kind, Input, LateJoin
<1>. QED BY <1>3, <1>6, <1>7, <1>8 DEF Protocol

LEMMA StartProtocol ==
  ASSUME TypeOK, Protocol, stop = 0, NEW w \in Workers,
         Start(w) \/ CreateProducer(w) \/ Abandon(w) \/ GetThrows(w) \/ EndFeed(w)
  PROVE  Protocol'
<1>1. /\ graph' = graph /\ UNCHANGED <<queue, todo, hand>> /\ Workers' = Workers /\ graph \in Graphs
      /\ ~StopRequested(w)
  BY NoStopYet DEF TypeOK, Start, CreateProducer, Abandon, GetThrows, EndFeed, flow, work, Workers
<1>2. CASE Start(w)
  <2>1. /\ life[w] = "enqueued" /\ Outputs(w) = <<>>
        /\ life' = [life EXCEPT ![w] = "running"] /\ UNCHANGED <<closed, opened, late>>
    BY <1>2 DEF Start, Become
  <2>2. life'[w] = "running" /\ \A v \in Workers : v # w => life'[v] = life[v]
    BY <2>1 DEF TypeOK, CrewOK
  <2>3. \A v \in Workers : life'[v] = "ended" <=> life[v] = "ended"
    BY <2>1, <2>2
  <2>4. Idle' /\ PoolWaits' /\ Drained'
    BY <1>1, <2>1, <2>2, <2>3 DEF Protocol, Idle, PoolWaits, Drained, Kind, Input, LateJoin
  <2>5. \A v \in Workers : \A q : Holds(v, q)' => Holds(v, q)
    BY <1>1, <2>1, <2>2 DEF Holds, Outputs
  <2>6. Closings'
    BY <1>1, <2>1, <2>3, <2>5 DEF Protocol, Closings, Outputs, Kind
  <2>7. stop' = stop
    BY <1>2 DEF Start
  <2>. QED BY <2>4, <2>6 DEF Protocol
<1>3. CASE CreateProducer(w)
  <2>1. /\ life[w] = "enqueued" /\ Outputs(w) # <<>> /\ opened[w] + 1 \in DOMAIN Outputs(w)
        /\ todo[w] = <<>>
    <3>1. Outputs(w) \in Seq(Queues) /\ opened[w] \in 0 .. Len(Outputs(w)) /\ life[w] = "enqueued"
          /\ Outputs(w) # <<>> /\ opened[w] < Len(Outputs(w))
      BY <1>1, <1>3, WorkerFacts DEF CreateProducer, TypeOK, CrewOK
    <3>. QED BY <3>1 DEF Protocol, Idle
  <2>. DEFINE q == Outputs(w)[opened[w] + 1]
  <2>2. q \in ToSet(Outputs(w))
    BY <2>1 DEF ToSet
  <2>3. CASE q \in closed
    <3>1. Leave(w) /\ late' = late \cup {w} /\ opened' = opened
      BY <1>3, <2>3 DEF CreateProducer
    <3>2. ASSUME Kind(w) \notin {"feed", "init", "output"}, ~LateJoin(w)'
          PROVE  Input(w) \in closed /\ queue[Input(w)] = <<>>
      <4>1. Kind(w) # "join"
        BY <1>1, <3>1, <3>2 DEF LateJoin, Kind
      <4>2. PICK v \in Workers : q \in ToSet(Outputs(v)) /\ (life[v] = "ended" \/ Kind(v) = "output")
        BY <2>3 DEF Protocol, Closings
      <4>3. Kind(v) = Kind(w) /\ Input(v) = Input(w)
        BY <1>1, <2>2, <4>1, <4>2, Sharing
      <4>4. life[v] = "ended" /\ ~LateJoin(v)
        BY <3>2, <4>1, <4>2, <4>3 DEF LateJoin
      <4>. QED BY <3>2, <4>3, <4>4 DEF Protocol, Drained
    <3>. QED BY <1>1, <2>1, <3>1, <3>2, Leaving
  <2>4. CASE q \notin closed
    <3>1. /\ opened' = [opened EXCEPT ![w] = @ + 1] /\ UNCHANGED <<closed, late>>
          /\ life' = [life EXCEPT ![w] = IF opened'[w] = Len(Outputs(w)) THEN "running" ELSE "enqueued"]
      BY <1>3, <2>4 DEF CreateProducer, Become
    <3>2. /\ life'[w] \in {"running", "enqueued"} /\ opened'[w] = opened[w] + 1
          /\ \A v \in Workers : v # w => life'[v] = life[v] /\ opened'[v] = opened[v]
      BY <3>1 DEF TypeOK, CrewOK
    <3>3. \A v \in Workers : life'[v] = "ended" <=> life[v] = "ended"
      BY <2>1, <3>2
    <3>4. Idle' /\ PoolWaits' /\ Drained'
      BY <1>1, <2>1, <3>1, <3>2, <3>3 DEF Protocol, Idle, PoolWaits, Drained, Kind, Input, LateJoin
    <3>5. ASSUME NEW v \in Workers, NEW p \in closed PROVE ~Holds(v, p)'
      <4>1. ~Holds(v, p)
        BY DEF Protocol, Closings
      <4>2. Outputs(v)' = Outputs(v)
        BY <1>1 DEF Outputs
      <4>3. CASE v # w
        BY <3>2, <4>1, <4>2, <4>3 DEF Holds
      <4>4. CASE v = w
        <5>1. ASSUME NEW i \in 1 .. (opened[w] + 1) PROVE Outputs(w)[i] # p
          <6>1. CASE i = opened[w] + 1
            BY <2>4, <6>1
          <6>2. CASE i # opened[w] + 1
            <7>1. i \in 1 .. opened[w]
              BY <6>2 DEF TypeOK, CrewOK
            <7>. QED BY <2>1, <4>1, <4>4, <7>1 DEF Holds
          <6>. QED BY <6>1, <6>2
        <5>. QED BY <3>2, <4>2, <4>4, <5>1 DEF Holds
      <4>. QED BY <4>3, <4>4
    <3>6. Closings'
      BY <1>1, <3>1, <3>3, <3>5 DEF Protocol, Closings, Outputs, Kind
    <3>. QED BY <3>4, <3>6 DEF Protocol
  <2>. QED BY <2>3, <2>4
<1>4. CASE GetThrows(w)
  <2>1. /\ Leave(w) /\ UNCHANGED <<opened, late>> /\ todo[w] = <<>> /\ life[w] = "running"
        /\ queue[Input(w)] = <<>> /\ Input(w) \in closed
    BY <1>1, <1>4 DEF GetThrows, Wants
  <2>. QED BY <1>1, <2>1, Leaving
<1>5. CASE EndFeed(w)
  <2>1. Leave(w) /\ UNCHANGED <<opened, late>> /\ todo[w] = <<>> /\ life[w] = "running" /\ Kind(w) = "feed"
    BY <1>5 DEF EndFeed
  <2>. QED BY <1>1, <2>1, Leaving
<1>6. CASE Abandon(w)
  BY <1>1, <1>6 DEF Abandon
<1>. QED BY <1>2, <1>3, <1>4, <1>5, <1>6

LEMMA InitProtocol ==
  ASSUME TypeOK, Protocol, stop = 0, NEW w \in Workers, Initialized(w) \/ FailInitialization(w)
  PROVE  Protocol'
<1>1. /\ graph' = graph /\ Workers' = Workers /\ graph \in Graphs /\ Kind(w) = "init"
      /\ life[w] = "running" /\ todo[w] = <<>> /\ UNCHANGED <<opened, late, todo>>
  BY DEF TypeOK, Initialized, FailInitialization, Takes, Wants, Workers, work
<1>2. \A v \in Workers : v # w => Kind(v) # "init"
  BY <1>1, PoolFacts
<1>3. \A q \in Queues : queue[q] = <<>> => queue'[q] = <<>>
  <2>1. ASSUME NEW q \in Queues, queue[q] = <<>> PROVE queue'[q] = <<>>
    BY <2>1 DEF Initialized, FailInitialization, Takes, TypeOK, QueuesOK
  <2>. QED BY <2>1
<1>4. CASE Initialized(w)
  <2>1. /\ life' = [v \in Workers |-> IF v = w THEN "ended"
                                     ELSE IF life[v] = "awaiting" THEN "enqueued" ELSE life[v]]
        /\ hand' = [hand EXCEPT ![w] = <<>>] /\ closed' = closed
    BY <1>4 DEF Initialized
  <2>2. hand'[w] = <<>> /\ \A v \in Workers : v # w => hand'[v] = hand[v]
    BY <2>1 DEF TypeOK, HandOK
  <2>3. \A v \in Workers : v # w => (life'[v] = "ended" <=> life[v] = "ended")
    BY <2>1
  <2>4. Idle'
    BY <1>1, <2>1, <2>2 DEF Protocol, Idle, Kind
  <2>5. PoolWaits'
    BY <1>1, <1>2, <2>1 DEF PoolWaits, Kind
  <2>6. Drained'
    BY <1>1, <1>3, <2>1, <2>3 DEF Protocol, Drained, Kind, Input, LateJoin, TypeOK, EndsOK
  <2>7. ASSUME NEW v \in Workers, NEW q \in closed PROVE ~Holds(v, q)'
    <3>1. ~Holds(v, q) /\ Outputs(v)' = Outputs(v)
      BY <1>1 DEF Protocol, Closings, Outputs
    <3>2. life[v] = "awaiting" => opened[v] = 0
      BY DEF TypeOK, CrewOK
    <3>. QED BY <1>1, <2>1, <3>1, <3>2 DEF Holds
  <2>8. Closings'
    BY <1>1, <2>1, <2>3, <2>7 DEF Protocol, Closings, Outputs, Kind
  <2>. QED BY <2>4, <2>5, <2>6, <2>8 DEF Protocol
<1>5. CASE FailInitialization(w)
  <2>1. life' = [life EXCEPT ![w] = "ended"] /\ hand' = hand /\ closed' = closed \cup {PoolOutputs[1]}
    BY <1>5 DEF FailInitialization, Become, work
  <2>2. life'[w] = "ended" /\ \A v \in Workers : v # w => life'[v] = life[v]
    BY <2>1 DEF TypeOK, CrewOK
  <2>3. Idle' /\ PoolWaits'
    BY <1>1, <1>2, <2>1, <2>2 DEF Protocol, Idle, PoolWaits, Kind
  <2>4. Drained'
    BY <1>1, <1>3, <2>1, <2>2 DEF Protocol, Drained, Kind, Input, LateJoin, TypeOK, EndsOK
  <2>5. PICK u \in Workers : Kind(u) = "output" /\ PoolOutputs[1] \in ToSet(Outputs(u))
    BY <1>1, FirstOutput DEF ToSet
  <2>6. ASSUME NEW v \in Workers, NEW q \in closed' PROVE ~Holds(v, q)'
    <3>1. Outputs(v)' = Outputs(v)
      BY <1>1 DEF Outputs
    <3>2. ~Holds(v, q) => ~Holds(v, q)'
      BY <1>1, <2>2, <3>1 DEF Holds
    <3>3. CASE q \in closed
      BY <3>2, <3>3 DEF Protocol, Closings
    <3>4. CASE q = PoolOutputs[1]
      <4>1. ASSUME Holds(v, q) PROVE FALSE
        <5>1. life[v] # "awaiting" /\ \E i \in 1 .. opened[v] : Outputs(v)[i] = q
          BY <4>1 DEF Holds
        <5>2. q \in ToSet(Outputs(v))
          BY <1>1, <5>1, WorkerFacts DEF TypeOK, CrewOK, ToSet
        <5>3. Kind(v) = "output"
          BY <1>1, <2>5, <3>4, <5>2, Sharing
        <5>. QED BY <1>1, <5>1, <5>3 DEF Protocol, PoolWaits, PoolKinds
      <4>. QED BY <3>2, <4>1
    <3>. QED BY <2>1, <3>3, <3>4
  <2>7. Closings'
    <3>1. ASSUME NEW q \in closed'
          PROVE  \E v \in Workers : q \in ToSet(Outputs(v)) /\ (life'[v] = "ended" \/ Kind(v) = "output")
      <4>1. CASE q \in closed
        BY <2>2, <4>1 DEF Protocol, Closings
      <4>. QED BY <2>1, <2>5, <4>1
    <3>. QED BY <1>1, <2>6, <3>1 DEF Closings, Outputs, Kind
  <2>. QED BY <2>3, <2>4, <2>7 DEF Protocol
<1>. QED BY <1>4, <1>5

(* Nobody who has a producer puts into a queue that is closed.             *)
LEMMA WorkProtocol ==
  ASSUME TypeOK, Protocol, stop = 0, NEW w \in Workers,
         \/ Split(w) \/ Extract(w) \/ Rescore(w) \/ Unpack(w) \/ Pass(w) \/ Reserve(w) \/ Collect(w)
         \/ CollectSource(w) \/ Ingest(w) \/ Cache(w)
         \/ Feed(w) \/ Sample(w) \/ Draw(w) \/ Put(w) \/ PutThrows(w)
  PROVE  Protocol'
<1>1. /\ UNCHANGED <<graph, opened, late>> /\ life[w] = "running"
      /\ DOMAIN todo = Workers /\ DOMAIN hand = Workers /\ DOMAIN queue = Queues
      /\ ~PutThrows(w)
  BY NoStopYet
     DEF TypeOK, TodoOK, HandOK, QueuesOK, Split, Extract, Rescore, Unpack, Pass, Reserve, Collect,
         CollectSource, Ingest, Cache, Feed, Sample, Draw, Put, PutThrows, Takes, Wants, crew
<1>2. UNCHANGED <<life, closed>>
  BY <1>1 DEF Split, Extract, Rescore, Unpack, Pass, Reserve, Collect, CollectSource, Ingest, Cache,
         Feed, Sample, Draw, Put, crew
<1>3. \A v \in Workers : v # w => todo'[v] = todo[v]
  BY <1>1 DEF Split, Extract, Rescore, Unpack, Pass, Reserve, Collect, CollectSource, Ingest, Cache,
         Feed, Sample, Draw, Put, WillPut
<1>4. /\ \A v \in Workers : v # w => hand'[v] = hand[v]
      /\ hand' # hand => Kind(w) \in {"sampler", "tensor", "init"}
  BY <1>1 DEF Split, Extract, Rescore, Unpack, Pass, Reserve, Collect, CollectSource, Ingest, Cache,
         Feed, Sample, Draw, Put
<1>5. ASSUME NEW q \in closed, queue[q] = <<>> PROVE queue'[q] = <<>>
  <2>1. q \in Queues
    BY DEF TypeOK, EndsOK
  <2>2. CASE Takes(w)
    BY <1>1, <1>5, <2>1, <2>2 DEF Takes
  <2>3. CASE queue' = queue
    BY <1>5, <2>3
  <2>4. CASE Put(w)
    <3>1. \E i \in DOMAIN Outputs(w) : Outputs(w)[i] = Head(todo[w])[1]
      BY <2>4, NextParcel DEF Put
    <3>2. opened[w] = Len(Outputs(w)) /\ Outputs(w) \in Seq(Queues)
      BY <1>1, WorkerFacts DEF TypeOK, CrewOK
    <3>3. Holds(w, Head(todo[w])[1])
      BY <1>1, <3>1, <3>2 DEF Holds
    <3>4. Head(todo[w])[1] # q
      BY <3>3 DEF Protocol, Closings
    <3>. QED BY <1>1, <1>5, <2>1, <2>4, <3>4 DEF Put
  <2>. QED BY <1>1, <2>2, <2>3, <2>4
           DEF Split, Extract, Rescore, Unpack, Pass, Reserve, Collect, CollectSource, Ingest, Cache,
               Feed, Sample, Draw, flow
<1>6. \A v \in Workers : hand'[v] # <<>> => Kind(v) \in {"sampler", "tensor", "init"}
  BY <1>4 DEF Protocol, Idle
<1>7. \A v \in Workers : life[v] # "running" => todo'[v] = todo[v] /\ hand'[v] = hand[v]
  BY <1>1, <1>3, <1>4
<1>. QED BY <1>1, <1>2, <1>5, <1>6, <1>7, Quiet

LEMMA ProtocolStep == ASSUME TypeOK, Protocol, [Next]_vars PROVE Protocol'
<1>1. CASE stop # 0
  <2>1. stop' # 0
    BY <1>1, StopStays DEF TypeOK
  <2>. QED BY <2>1 DEF Protocol
<1>2. CASE stop = 0
  <2>1. ASSUME NEW w \in Workers, Work(w) \/ Feed(w) \/ EndFeed(w) \/ Abandon(w) PROVE Protocol'
    BY <1>2, <2>1, StartProtocol, InitProtocol, WorkProtocol DEF Work
  <2>2. CASE BeginStop
    BY <2>2 DEF BeginStop, Protocol
  <2>3. ~StageStopped
    BY <1>2, WorkerFacts DEF StageStopped, Stages, TypeOK
  <2>4. CASE LeaveReader \/ UNCHANGED vars
    <3>1. UNCHANGED <<graph, life, opened, closed, late, todo, hand, queue>>
      BY <2>4 DEF LeaveReader, vars, crew, work, flow
    <3>2. \A v \in Workers : hand'[v] # <<>> => Kind(v) \in {"sampler", "tensor", "init"}
      BY <1>2, <3>1 DEF Protocol, Idle
    <3>. QED BY <1>2, <3>1, <3>2, Quiet
  <2>5. ASSUME NEW q \in graph.read, Read(q) PROVE Protocol'
    <3>1. UNCHANGED <<graph, life, opened, closed, late, todo, hand>>
      BY <2>5 DEF Read, crew, work
    <3>2. \A v \in Workers : hand'[v] # <<>> => Kind(v) \in {"sampler", "tensor", "init"}
      BY <1>2, <3>1 DEF Protocol, Idle
    <3>3. \A p \in closed : queue[p] = <<>> => queue'[p] = <<>>
      BY <2>5 DEF Read, TypeOK, QueuesOK, EndsOK
    <3>. QED BY <1>2, <3>1, <3>2, <3>3, Quiet
  <2>. QED BY <2>1, <2>2, <2>3, <2>4, <2>5 DEF Next
<1>. QED BY <1>1, <1>2

-----------------------------------------------------------------------------
(* Where there is no pool, no stage duplicates or forgets a frame, and     *)
(* before a stop a worker that has ended has left nothing behind in what   *)
(* it got from, with or without a pool: for every graph of stages, however *)
(* many workers share a queue and however often a put overflows or fails.  *)
THEOREM NothingIsLost == Spec => []ItemsConserved
<1>. DEFINE Inv == TypeOK /\ Kept /\ Protocol
<1>1. Init => Inv
  BY TypesInit, KeptInit, ProtocolInit
<1>2. Inv /\ [Next]_vars => Inv'
  BY TypesStep, KeptStep, ProtocolStep
<1>3. Inv => ItemsConserved
  BY KeptConserves, ProtocolHolds DEF ItemsConserved
<1>. QED BY <1>1, <1>2, <1>3, PTL DEF Spec

=============================================================================
