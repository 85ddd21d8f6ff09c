----------------------------- MODULE StageGraph -----------------------------
(***************************************************************************)
(* The stages of a data loader (csrc/loader/stages/) as they work together *)
(* between DataLoader::Start and the end of DataLoader::Stop: every stage  *)
(* is some workers that get from one queue and put into others, and closes *)
(* what it puts into when its last worker leaves or it has been stopped.   *)
(*                                                                         *)
(* A graph says which workers there are and how they are connected, as the *)
(* configuration of the loader does; "feed" stands for the stages up to a  *)
(* queue that the graph leaves out.  What travels is a set of frames: a    *)
(* source or a view of one, a chunk, a batch, or Sentinel.  Of a chunk     *)
(* only the frames that its unpacker picks are counted.  A queue is the    *)
(* channel that BoundedQueue implements: a Get or a Put is one step.  The  *)
(* wake-up that BoundedQueue can lose is not in this module.               *)
(***************************************************************************)
EXTENDS Naturals, Sequences, FiniteSets, SequencesExt

CONSTANTS Graphs,     \* the graphs that are looked at
          Sentinel,   \* kInitialScanComplete
          Unreadable, \* the frames whose chunk a source fails to return
          MaxWorkers, MaxQueues  \* bounds: the workers and queues of a graph

VARIABLES
  graph,       \* the graph of this loader
  queue,       \* queue[q]: what queue q holds, oldest first
  closed,      \* the queues that are closed
  life,        \* life[w]: what has become of worker w
  opened,      \* opened[w]: how many of its outputs w has a producer for
  script,      \* script[w]: what feed w has not put yet
  hand,        \* hand[w]: reservoir, batch, or sources collected by w
  todo,        \* todo[w]: the <<queue, item>> pairs w is to put next
  pooled,      \* the chunks in the pool's window
  cached,      \* the frames in the pool's cache
  stop,        \* the stage that Stop has got to: 0 before Stop
  reading,     \* the reader has not gone away
  delivered,   \* the frames that were read
  dropped,     \* the frames an overflow, a failure or an unreadable chunk cost
  late         \* the workers that found an output closed when they started

flow == <<queue, dropped, delivered>>
work == <<script, hand, todo>>
pool == <<pooled, cached>>
crew == <<life, opened, late>>
vars == <<crew, work, flow, closed, pool, stop, reading, graph>>

Workers == DOMAIN graph.workers
Queues == DOMAIN graph.capacity
Stages == {graph.workers[w].stage : w \in Workers}
Kind(w) == graph.workers[w].kind
Input(w) == graph.workers[w].input
Outputs(w) == graph.workers[w].outputs
Size(w) == graph.workers[w].size

PoolKinds == {"init", "ingestion", "output", "caching"}
Kinds == PoolKinds \cup {"feed", "splitter", "extractor", "rescorer", "unpacker", "join",
                         "sampler", "tensor"}

(* What the classes of the stages and the types of their queues see to: a  *)
(* queue belongs to one stage, whose workers are alike (each one of a join *)
(* has an input of its own), and only queues of sources carry the marker.  *)
Frames(item) == IF item = Sentinel THEN {} ELSE item
Stock(g) == UNION {UNION {Frames(g.workers[w].script[i]) : i \in DOMAIN g.workers[w].script} :
                     w \in DOMAIN g.workers}
Sets(g) == SUBSET Stock(g)
WorkerFits(g, w, sources) ==
  LET worker == g.workers[w]  outputs == ToSet(worker.outputs) IN
  /\ worker.stage \in Nat \ {0} /\ worker.kind \in Kinds
  /\ worker.outputs \in Seq(DOMAIN g.capacity)
  /\ worker.script \in Seq(Sets(g) \cup {Sentinel})
  /\ worker.kind \notin {"init", "ingestion", "caching"} => worker.outputs # <<>>
  /\ worker.kind \notin {"feed", "output"} => worker.input \in DOMAIN g.capacity
  /\ worker.kind = "splitter" => worker.input \in sources /\ outputs \subseteq sources
  /\ worker.kind = "unpacker" => Len(worker.outputs) \in {1, 2}
  /\ worker.kind = "feed" /\ Sentinel \in ToSet(worker.script) => outputs \subseteq sources
  /\ worker.kind \in {"rescorer", "unpacker", "join", "sampler", "tensor", "caching"} =>
       worker.input \notin sources
Alike(v, w) == v.kind = w.kind /\ (v.kind # "join" => v.input = w.input)
PoolFits(g) ==
  LET of(kind) == {w \in DOMAIN g.workers : g.workers[w].kind = kind} IN
  /\ \A v, w \in of("init") : v = w
  /\ (\E kind \in PoolKinds : of(kind) # {}) => of("init") # {} /\ of("output") # {}
  /\ of("caching") # {} => \A w \in of("output") : Len(g.workers[w].outputs) = 2
WellFormed(g) ==
  /\ \E sources \in SUBSET DOMAIN g.capacity : \A w \in DOMAIN g.workers : WorkerFits(g, w, sources)
  /\ \A v, w \in DOMAIN g.workers :
       ToSet(g.workers[v].outputs) \cap ToSet(g.workers[w].outputs) # {} =>
         Alike(g.workers[v], g.workers[w])
  /\ PoolFits(g)
  /\ \A q \in DOMAIN g.capacity : g.capacity[q] \in Nat \ {0}
  /\ g.read \subseteq DOMAIN g.capacity

(* What is fed has each frame once, and the marker is no set of frames.    *)
Distinct(g) ==
  /\ IsFiniteSet(Stock(g)) /\ \A set \in Sets(g) : set # Sentinel
  /\ \A v, w \in DOMAIN g.workers :
       \A i \in DOMAIN g.workers[v].script, j \in DOMAIN g.workers[w].script :
         Frames(g.workers[v].script[i]) \cap Frames(g.workers[w].script[j]) # {} => v = w /\ i = j
ASSUME GraphsAssumption == \A g \in Graphs : WellFormed(g) /\ Distinct(g)

HasPool == \E w \in Workers : Kind(w) = "init"

Holds(w, q) == /\ life[w] \in {"enqueued", "running"}
               /\ \E i \in 1 .. opened[w] : Outputs(w)[i] = q

-----------------------------------------------------------------------------
(* Every stage has been started: its tasks are in its thread pool.  Those  *)
(* of the pool are enqueued when it has been initialized.                  *)
Init ==
  /\ graph \in Graphs
  /\ queue = [q \in Queues |-> <<>>]
  /\ closed = {}
  /\ life = [w \in Workers |-> IF Kind(w) \in PoolKinds \ {"init"} THEN "awaiting" ELSE "enqueued"]
  /\ opened = [w \in Workers |-> 0]
  /\ script = [w \in Workers |-> graph.workers[w].script]
  /\ hand = [w \in Workers |-> <<>>]
  /\ todo = [w \in Workers |-> <<>>]
  /\ pooled = {} /\ cached = {}
  /\ stop = 0
  /\ reading = TRUE
  /\ delivered = {} /\ dropped = {} /\ late = {}

(* Mutant of StopsAs: the last stage is stopped first.                     *)
LastFirst(w) == Cardinality(Stages) + 1 - graph.workers[w].stage

(* The stages are stopped in the order in which they were configured.      *)
StopsAs(w) == graph.workers[w].stage

(* Stop of w's stage has requested a stop.                                 *)
StopRequested(w) == stop = StopsAs(w)

Become(w, state) == life' = [life EXCEPT ![w] = state]

(* Mutant of LastProducer: the first worker that leaves closes the queue.  *)
AnyProducer(w, q) == Holds(w, q)
LastProducer(w, q) == Holds(w, q) /\ \A v \in Workers \ {w} : ~Holds(v, q)

(* A worker leaves: what it holds is gone with it, and a queue whose last  *)
(* producer it had is closed.                                              *)
Leave(w) ==
  /\ Become(w, "ended")
  /\ closed' = closed \cup {q \in Queues : LastProducer(w, q)}

-----------------------------------------------------------------------------
(* A task starts: it creates a producer for each of its outputs, one after *)
(* another, and ends when one of them is closed.                           *)
Start(w) ==
  /\ life[w] = "enqueued" /\ Outputs(w) = <<>>
  /\ Become(w, "running")
  /\ UNCHANGED <<graph, flow, closed, opened, late, work, pool, stop, reading>>

CreateProducer(w) ==
  /\ life[w] = "enqueued" /\ Outputs(w) # <<>>
  /\ IF Outputs(w)[opened[w] + 1] \in closed
     THEN /\ Leave(w)
          /\ late' = late \cup {w}
          /\ UNCHANGED opened
     ELSE /\ opened' = [opened EXCEPT ![w] = @ + 1]
          /\ Become(w, IF opened'[w] = Len(Outputs(w)) THEN "running" ELSE "enqueued")
          /\ UNCHANGED <<closed, late>>
  /\ UNCHANGED <<graph, flow, work, pool, stop, reading>>

(* Stop of the pool requests the stop before it joins the initialization:  *)
(* a thread that sees it with no task enqueued returns, and a task that is *)
(* enqueued then may not find a thread.                                    *)
Abandon(w) ==
  /\ Kind(w) \in PoolKinds \ {"init"} /\ life[w] = "enqueued" /\ opened[w] = 0
  /\ StopRequested(w)
  /\ Become(w, "ended")
  /\ UNCHANGED <<graph, flow, closed, opened, late, work, pool, stop, reading>>

(* Between two steps of its loop, about to get from its input.             *)
Wants(w) ==
  /\ life[w] = "running" /\ todo[w] = <<>>
  /\ Kind(w) \notin {"feed", "output"}
  /\ Kind(w) = "sampler" => Len(hand[w]) < Size(w)

(* w takes what it is handed from its input: there is something, whether   *)
(* or not the queue is closed or a stop has been requested.                *)
Takes(w) ==
  /\ Wants(w) /\ queue[Input(w)] # <<>>
  /\ queue' = [queue EXCEPT ![Input(w)] = Tail(@)]
  /\ UNCHANGED <<graph, delivered, opened, late, script, stop, reading>>

WillPut(w, puts) == todo' = [todo EXCEPT ![w] = puts]

(* The queue is closed or a stop has been requested, and it is empty.      *)
GetThrows(w) ==
  /\ Wants(w) /\ Kind(w) # "init" /\ queue[Input(w)] = <<>>
  /\ Input(w) \in closed \/ StopRequested(w)
  /\ Leave(w)
  /\ UNCHANGED <<graph, flow, opened, late, work, pool, stop, reading>>

-----------------------------------------------------------------------------
(* The stages, by what they do with an item.                               *)

(* A stage that is not in the graph has something to put, or ends.         *)
Feed(w) ==
  /\ Kind(w) = "feed" /\ life[w] = "running" /\ todo[w] = <<>> /\ script[w] # <<>>
  /\ WillPut(w, << <<Outputs(w)[1], Head(script[w])>> >>)
  /\ script' = [script EXCEPT ![w] = Tail(@)]
  /\ UNCHANGED <<graph, flow, closed, crew, hand, pool, stop, reading>>

EndFeed(w) ==
  /\ Kind(w) = "feed" /\ life[w] = "running" /\ todo[w] = <<>>
  /\ Leave(w)
  /\ UNCHANGED <<graph, flow, opened, late, work, pool, stop, reading>>

(* ChunkSourceSplitter: the marker goes to all outputs; the chunks of a    *)
(* source are divided by hash, and a part without chunks is not put.       *)
Split(w) == LET item == Head(queue[Input(w)]) IN
  /\ Kind(w) = "splitter" /\ Takes(w)
  /\ IF item = Sentinel
     THEN WillPut(w, [i \in DOMAIN Outputs(w) |-> <<Outputs(w)[i], Sentinel>>])
     ELSE \E f \in [item -> DOMAIN Outputs(w)] :
            LET view(i) == {x \in item : f[x] = i} IN
            \E order \in SetToSeqs({f[x] : x \in item}) :
              /\ \A i, j \in DOMAIN order : i < j => order[i] < order[j]
              /\ WillPut(w, [i \in DOMAIN order |-> <<Outputs(w)[order[i]], view(order[i])>>])
  /\ UNCHANGED <<dropped, closed, life, hand, pool>>

(* SimpleChunkExtractor: the chunks of a source in a random order, without *)
(* those that cannot be read.                                              *)
Extract(w) == LET item == Head(queue[Input(w)]) IN
  /\ Kind(w) = "extractor" /\ Takes(w)
  /\ IF item = Sentinel
     THEN UNCHANGED <<todo, dropped>>
     ELSE /\ \E order \in SetToSeqs(item \ Unreadable) :
               WillPut(w, [i \in DOMAIN order |-> <<Outputs(w)[1], {order[i]}>>])
          /\ dropped' = dropped \cup (item \cap Unreadable)
  /\ UNCHANGED <<closed, life, hand, pool>>

(* ChunkRescorer, which gives up a chunk that it fails to rescore.         *)
Rescore(w) == LET item == Head(queue[Input(w)]) IN
  /\ Kind(w) = "rescorer" /\ Takes(w)
  /\ \/ WillPut(w, << <<Outputs(w)[1], item>> >>) /\ UNCHANGED dropped
     \/ UNCHANGED todo /\ dropped' = dropped \cup item
  /\ UNCHANGED <<closed, life, hand, pool>>

(* ChunkUnpacker: the frames of a chunk one by one; with a second output,  *)
(* the first of them there and the others, in one request, here.           *)
Unpack(w) == LET item == Head(queue[Input(w)]) IN
  /\ Kind(w) = "unpacker" /\ Takes(w)
  /\ \E order \in SetToSeqs(item) :
       IF Len(Outputs(w)) = 1 \/ order = <<>>
       THEN WillPut(w, [i \in DOMAIN order |-> <<Outputs(w)[1], {order[i]}>>])
       ELSE LET first == <<Outputs(w)[1], {order[1]}>>
                rest == item \ {order[1]}
            IN WillPut(w, IF rest = {} THEN <<first>> ELSE <<first, <<Outputs(w)[2], rest>> >>)
  /\ UNCHANGED <<dropped, closed, life, hand, pool>>

(* JoinStage: one worker for each input.                                   *)
Pass(w) == LET item == Head(queue[Input(w)]) IN
  /\ Kind(w) = "join" /\ Takes(w)
  /\ WillPut(w, << <<Outputs(w)[1], item>> >>)
  /\ UNCHANGED <<dropped, closed, life, hand, pool>>

(* ShufflingFrameSampler: a full reservoir gives up a frame at random.     *)
Reserve(w) == LET item == Head(queue[Input(w)]) IN
  /\ Kind(w) = "sampler" /\ Takes(w)
  /\ hand' = [hand EXCEPT ![w] = Append(@, item)]
  /\ UNCHANGED <<dropped, closed, life, todo, pool>>

Sample(w) ==
  /\ Kind(w) = "sampler" /\ life[w] = "running" /\ todo[w] = <<>> /\ Len(hand[w]) = Size(w)
  /\ \E i \in DOMAIN hand[w] :
       /\ WillPut(w, << <<Outputs(w)[1], hand[w][i]>> >>)
       /\ hand' = [hand EXCEPT ![w] = RemoveAt(@, i)]
  /\ UNCHANGED <<graph, flow, closed, crew, script, pool, stop, reading>>

(* TensorGenerator: a full batch is converted and put.                     *)
Collect(w) == LET item == Head(queue[Input(w)]) IN
  /\ Kind(w) = "tensor" /\ Takes(w)
  /\ LET batch == Append(hand[w], item) IN
     IF Len(batch) < Size(w)
     THEN hand' = [hand EXCEPT ![w] = batch] /\ UNCHANGED todo
     ELSE /\ WillPut(w, << <<Outputs(w)[1], UNION ToSet(batch)>> >>)
          /\ hand' = [hand EXCEPT ![w] = <<>>]
  /\ UNCHANGED <<dropped, closed, life, pool>>

-----------------------------------------------------------------------------
(* ShufflingChunkPool, as far as the other stages can tell (what it draws  *)
(* and when is the module of that name): an initialization thread collects *)
(* sources up to the marker and starts the others, which add later sources *)
(* to the window, draw chunks from it again and again, and keep the frames *)
(* of some of the requests for the next draw of their chunk.               *)

PoolOutputs == Outputs(CHOOSE w \in Workers : Kind(w) = "output")

CollectSource(w) ==
  /\ Kind(w) = "init" /\ Takes(w) /\ Head(queue[Input(w)]) # Sentinel
  /\ hand' = [hand EXCEPT ![w] = Append(@, Head(queue[Input(w)]))]
  /\ UNCHANGED <<dropped, closed, life, todo, pool>>

Initialized(w) ==
  /\ Kind(w) = "init" /\ Takes(w) /\ Head(queue[Input(w)]) = Sentinel
  /\ hand[w] # <<>>
  /\ pooled' = ToSet(hand[w])
  /\ hand' = [hand EXCEPT ![w] = <<>>]
  /\ life' = [v \in Workers |-> IF v = w THEN "ended"
                                ELSE IF life[v] = "awaiting" THEN "enqueued" ELSE life[v]]
  /\ UNCHANGED <<dropped, closed, todo, cached>>

(* No chunk before the marker, or no marker: the first output is closed    *)
(* and the second one is not.  Only a closed input ends the Get: it is     *)
(* called without a stop token.                                            *)
FailInitialization(w) ==
  /\ Kind(w) = "init" /\ Wants(w)
  /\ \/ /\ queue[Input(w)] # <<>> /\ Head(queue[Input(w)]) = Sentinel /\ hand[w] = <<>>
        /\ queue' = [queue EXCEPT ![Input(w)] = Tail(@)]
     \/ queue[Input(w)] = <<>> /\ Input(w) \in closed /\ UNCHANGED queue
  /\ Become(w, "ended")
  /\ closed' = closed \cup {PoolOutputs[1]}
  /\ UNCHANGED <<graph, delivered, dropped, opened, late, work, pool, stop, reading>>

Ingest(w) == LET item == Head(queue[Input(w)]) IN
  /\ Kind(w) = "ingestion" /\ Takes(w)
  /\ pooled' = IF item = Sentinel THEN pooled ELSE pooled \cup {item}
  /\ UNCHANGED <<dropped, closed, life, hand, todo, cached>>

Cache(w) == LET item == Head(queue[Input(w)]) IN
  /\ Kind(w) = "caching" /\ Takes(w)
  /\ cached' = cached \cup item \/ UNCHANGED cached
  /\ UNCHANGED <<dropped, closed, life, hand, todo, pooled>>

(* OutputWorker, whose loop looks at no stop token.                        *)
Draw(w) ==
  /\ Kind(w) = "output" /\ life[w] = "running" /\ todo[w] = <<>>
  /\ \E chunk \in pooled :
       IF chunk \cap cached = {}
       THEN WillPut(w, << <<Outputs(w)[1], chunk>> >>) /\ UNCHANGED cached
       ELSE \E frame \in chunk \cap cached :
              /\ WillPut(w, << <<Outputs(w)[2], {frame}>> >>)
              /\ cached' = cached \ {frame}
  /\ UNCHANGED <<graph, flow, closed, crew, script, hand, pooled, stop, reading>>

-----------------------------------------------------------------------------
(* Producer::Put.  A queue is open while a worker has a producer for it.   *)

Full(q) == Len(queue[q]) >= graph.capacity[q]

Put(w) ==
  /\ life[w] = "running" /\ todo[w] # <<>>
  /\ LET q == Head(todo[w])[1]
         item == Head(todo[w])[2]
     IN \/ /\ ~Full(q)
           /\ queue' = [queue EXCEPT ![q] = Append(@, item)]
           /\ UNCHANGED dropped
        \/ /\ Full(q) /\ graph.overflow[q] = "DROP_NEW"
           /\ dropped' = dropped \cup Frames(item)
           /\ UNCHANGED queue
        \/ /\ Full(q) /\ graph.overflow[q] = "KEEP_NEWEST"
           /\ queue' = [queue EXCEPT ![q] = Append(Tail(@), item)]
           /\ dropped' = dropped \cup Frames(Head(queue[q]))
  /\ todo' = [todo EXCEPT ![w] = Tail(@)]
  /\ UNCHANGED <<graph, delivered, closed, crew, script, hand, pool, stop, reading>>

(* A Put that waits is cancelled by a stop, which ends the worker; but the *)
(* rescorer takes it for a failure to rescore and goes on.                 *)
PutThrows(w) ==
  /\ life[w] = "running" /\ todo[w] # <<>> /\ StopRequested(w)
  /\ LET q == Head(todo[w])[1] IN Full(q) /\ graph.overflow[q] = "BLOCK"
  /\ IF Kind(w) = "rescorer"
     THEN /\ dropped' = dropped \cup Head(todo[w])[2]
          /\ WillPut(w, <<>>)
          /\ UNCHANGED <<life, closed>>
     ELSE Leave(w) /\ UNCHANGED <<dropped, todo>>
  /\ UNCHANGED <<graph, queue, delivered, opened, late, script, hand, pool, stop, reading>>

-----------------------------------------------------------------------------
(* The reader, and DataLoader::Stop, which stops the stages in the order   *)
(* of the configuration and joins each before it goes on to the next.      *)

Read(q) ==
  /\ reading /\ q \in graph.read /\ queue[q] # <<>>
  /\ delivered' = delivered \cup Frames(Head(queue[q]))
  /\ queue' = [queue EXCEPT ![q] = Tail(@)]
  /\ UNCHANGED <<graph, dropped, closed, crew, work, pool, stop, reading>>

LeaveReader ==
  /\ reading
  /\ reading' = FALSE
  /\ UNCHANGED <<graph, flow, closed, crew, work, pool, stop>>

BeginStop ==
  /\ stop = 0
  /\ stop' = 1
  /\ UNCHANGED <<graph, flow, closed, crew, work, pool, reading>>

Joined(w) == \/ life[w] = "ended"
             \/ /\ life[w] = "awaiting"
                /\ \A v \in Workers : Kind(v) = "init" => life[v] = "ended"

(* Stop of a stage closes what it puts into, after the join.               *)
StageStopped ==
  /\ stop \in Stages
  /\ LET crews == {w \in Workers : StopsAs(w) = stop} IN
     /\ \A w \in crews : Joined(w)
     /\ closed' = closed \cup UNION {ToSet(Outputs(w)) : w \in crews}
  /\ stop' = stop + 1
  /\ UNCHANGED <<graph, flow, crew, work, pool, reading>>

Stopped == stop # 0 /\ stop \notin Stages

-----------------------------------------------------------------------------
(* A step that a thread takes when it can.                                 *)
Work(w) == \/ Start(w) \/ CreateProducer(w) \/ GetThrows(w)
           \/ Split(w) \/ Extract(w) \/ Rescore(w) \/ Unpack(w) \/ Pass(w)
           \/ Reserve(w) \/ Sample(w) \/ Collect(w)
           \/ CollectSource(w) \/ Initialized(w) \/ FailInitialization(w)
           \/ Ingest(w) \/ Cache(w) \/ Draw(w)
           \/ Put(w) \/ PutThrows(w)

Next == \/ \E w \in Workers : Work(w) \/ Feed(w) \/ EndFeed(w) \/ Abandon(w)
        \/ \E q \in graph.read : Read(q)
        \/ LeaveReader \/ BeginStop \/ StageStopped

Spec == Init /\ [][Next]_vars

(* Threads run.  A feed need not have anything to put, but it does stop;   *)
(* the reader reads while it is there.                                     *)
FairSpec == /\ Spec
            /\ \A w \in 1 .. MaxWorkers : WF_vars(w \in Workers /\ Work(w))
            /\ WF_vars(\E w \in Workers : StopRequested(w) /\ EndFeed(w))
            /\ \A q \in 1 .. MaxQueues : WF_vars(q \in Queues /\ Read(q))
            /\ WF_vars(StageStopped)

-----------------------------------------------------------------------------
(* Properties.                                                             *)

(* The places where frame f is: what a worker is still to put and has in   *)
(* its hand, the queues, what was read and what was lost.                  *)
In(f, shelf, items) ==
  {<<shelf, i>> : i \in {j \in DOMAIN items : f \in Frames(items[j])}}
Items(puts) == [i \in DOMAIN puts |-> puts[i][2]]
Places(f) ==
  (UNION {In(f, <<"script", w>>, script[w]) : w \in Workers})
    \cup (UNION {In(f, <<"hand", w>>, hand[w]) : w \in Workers})
    \cup (UNION {In(f, <<"todo", w>>, Items(todo[w])) : w \in Workers})
    \cup (UNION {In(f, <<"queue", q>>, queue[q]) : q \in Queues})
    \cup In(f, <<"delivered", 0>>, <<delivered>>) \cup In(f, <<"dropped", 0>>, <<dropped>>)

(* A join worker that started late leaves its input as it is.              *)
LateJoin(w) == w \in late /\ Kind(w) = "join"

(* What enters the stages is in one place until it is read: no stage       *)
(* duplicates or forgets a frame, however its workers share their queues,  *)
(* start, overflow, fail and end, and unless there is a stop a worker that *)
(* has ended leaves nothing behind but an unfinished batch or reservoir:   *)
(* its input is closed and empty.  The exception is the join worker that   *)
(* starts after the others have ended.  After a pool, which hands out the  *)
(* same chunks again, only the second part can hold.                       *)
FramesConserved == ~HasPool => \A f \in Stock(graph) : \E place \in Places(f) : Places(f) = {place}
NothingStranded ==
  stop = 0 => \A w \in Workers :
    life[w] = "ended" /\ Kind(w) \notin {"feed", "init"} /\ ~LateJoin(w) =>
      /\ todo[w] = <<>>
      /\ hand[w] # <<>> => Kind(w) \in {"sampler", "tensor"}
      /\ Kind(w) # "output" => Input(w) \in closed /\ queue[Input(w)] = <<>>
ItemsConserved == FramesConserved /\ NothingStranded

FeedsEnded == \A w \in Workers : Kind(w) = "feed" => life[w] = "ended"
AllRead == \A q \in graph.read : q \in closed /\ queue[q] = <<>>
(* The pool draws for ever, and its second output stays open if it fails.  *)
Endless == \/ \E w \in Workers : LateJoin(w)
           \/ HasPool /\ (pooled # {} \/ Len(PoolOutputs) = 2)

(* Stop returns from any state it is called in, though nothing is read any *)
(* more and whatever the workers are blocked on; with a pool, whose output *)
(* workers notice a stop only when they have to wait, once nothing is read.*)
(* And without a stop the end of what is fed gets to the reader, through   *)
(* all stages.                                                             *)
StopReturns == stop # 0 /\ (HasPool => ~reading) ~> Stopped
EndArrives == FeedsEnded ~> (AllRead \/ ~reading \/ Endless)
ShutsDown == StopReturns /\ EndArrives
=============================================================================
