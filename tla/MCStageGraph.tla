---------------------------- MODULE MCStageGraph ----------------------------
EXTENDS StageGraph

Worker(stage, kind, input, outputs, size) ==
  [stage |-> stage, kind |-> kind, input |-> input, outputs |-> outputs, size |-> size,
   script |-> <<>>]
Feeder(stage, output, items) ==
  [stage |-> stage, kind |-> "feed", input |-> 0, outputs |-> <<output>>, size |-> 0,
   script |-> items]

(* Sources are split, and the chunks of one part rescored.                 *)
Splitting ==
  [workers |-> << Feeder(1, 1, << {1, 2}, Sentinel, {3} >>),
                  Worker(2, "splitter", 1, <<2, 3>>, 0),
                  Worker(3, "extractor", 2, <<4>>, 0),
                  Worker(4, "rescorer", 4, <<5>>, 0) >>,
   capacity |-> <<1, 1, 1, 1, 1>>,
   overflow |-> <<"BLOCK", "BLOCK", "KEEP_NEWEST", "BLOCK", "BLOCK">>,
   read |-> {3, 5}]

(* Chunks are rescored by two workers.                                     *)
Rescoring ==
  [workers |-> << Feeder(1, 1, << {1, 2}, {3}, {4, 5} >>),
                  Worker(2, "extractor", 1, <<2>>, 0),
                  Worker(3, "rescorer", 2, <<3>>, 0),
                  Worker(3, "rescorer", 2, <<3>>, 0) >>,
   capacity |-> <<1, 1, 1>>,
   overflow |-> <<"BLOCK", "BLOCK", "BLOCK">>,
   read |-> {3}]

(* Frames from two stages are joined, sampled and made into batches.       *)
Joining ==
  [workers |-> << Feeder(1, 1, << {1} >>),
                  Feeder(2, 2, << {2}, {3} >>),
                  Worker(3, "join", 1, <<3>>, 0),
                  Worker(3, "join", 2, <<3>>, 0),
                  Worker(4, "sampler", 3, <<4>>, 1),
                  Worker(5, "tensor", 4, <<5>>, 2) >>,
   capacity |-> <<1, 1, 1, 1, 1>>,
   overflow |-> <<"BLOCK", "DROP_NEW", "BLOCK", "BLOCK", "BLOCK">>,
   read |-> {5}]

(* A pool with a cache, and its loop of requests.                          *)
Caching ==
  [workers |-> << Feeder(1, 1, << {1, 2}, Sentinel >>),
                  Worker(2, "init", 1, <<>>, 0),
                  Worker(2, "output", 0, <<2, 3>>, 0),
                  Worker(2, "caching", 5, <<>>, 0),
                  Worker(3, "unpacker", 2, <<4, 5>>, 0) >>,
   capacity |-> <<1, 1, 1, 1, 1>>,
   overflow |-> <<"BLOCK", "BLOCK", "BLOCK", "BLOCK", "BLOCK">>,
   read |-> {3, 4}]

(* A pool without one, of two workers.                                     *)
Pooling ==
  [workers |-> << Feeder(1, 1, << {1, 2}, Sentinel >>),
                  Worker(2, "init", 1, <<>>, 0),
                  Worker(2, "ingestion", 1, <<>>, 0),
                  Worker(2, "output", 0, <<2>>, 0),
                  Worker(2, "output", 0, <<2>>, 0),
                  Worker(3, "unpacker", 2, <<3>>, 0) >>,
   capacity |-> <<1, 1, 1>>,
   overflow |-> <<"BLOCK", "BLOCK", "BLOCK">>,
   read |-> {3}]

(* A pool that has a source to ingest.                                     *)
Ingesting ==
  [workers |-> << Feeder(1, 1, << {1}, Sentinel, {2} >>),
                  Worker(2, "init", 1, <<>>, 0),
                  Worker(2, "ingestion", 1, <<>>, 0),
                  Worker(2, "output", 0, <<2>>, 0),
                  Worker(3, "unpacker", 2, <<3>>, 0) >>,
   capacity |-> <<1, 1, 1>>,
   overflow |-> <<"BLOCK", "BLOCK", "BLOCK">>,
   read |-> {3}]

(* The scan finds nothing, with a cache and without.                       *)
Failing == {[g EXCEPT !.workers[1] = Feeder(1, 1, <<Sentinel>>)] : g \in {Caching, Pooling}}

Loaders == {Splitting, Rescoring, Joining, Caching, Pooling, Ingesting} \cup Failing
BadChunks == {3}
=============================================================================
