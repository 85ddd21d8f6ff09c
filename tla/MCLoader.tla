------------------------------- MODULE MCLoader -------------------------------
(* The loader of chunk sources, two workers and three files, and the        *)
(* aggregator of the metrics of all stages, each on its own.                *)
EXTENDS ChunkSourceLoader

VARIABLES
  system,
  now, last_tick_time, tick_count, buckets, pending_bucket, query, records, ticks

Metrics == INSTANCE ExponentialAggregator
             WITH Period <- 2, MaxTime <- 10, MaxRecords <- 2, Durations <- {3, 7}

metrics == <<now, last_tick_time, tick_count, buckets, pending_bucket, query, records, ticks>>

MCInit ==
  /\ Init /\ Metrics!Init
  /\ system \in {"loader", "metrics"}

Running(name) ==
  /\ system = name /\ UNCHANGED system
  /\ name # "loader" => UNCHANGED vars
  /\ name # "metrics" => UNCHANGED metrics

MCNext == \/ Running("loader") /\ Next
          \/ Running("metrics") /\ Metrics!Next

MCFairSpec ==
  /\ MCInit /\ [][MCNext]_<<system, vars, metrics>>
  /\ \A w \in Workers : WF_vars(Running("loader") /\ Work(w))
  /\ WF_vars(Running("loader") /\ ~stop_requested /\ Deliver)

MetricsOfTheirTime == Metrics!MetricsOfTheirTime
=============================================================================
