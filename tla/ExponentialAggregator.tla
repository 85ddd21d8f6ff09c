----------------------- MODULE ExponentialAggregator -----------------------
(***************************************************************************)
(* Class ExponentialAggregator of csrc/utils/metrics/ as the data loader   *)
(* uses it: its metrics thread records and advances, the daemon asks for   *)
(* the metrics of some time.  The buckets are the digits of a binary       *)
(* counter of ticks, and two mutexes guard them and the pending metrics.   *)
(*                                                                         *)
(* Metrics are the sequences of the records merged into them, numbered as  *)
(* they come: merging, of newer into older, appends.                       *)
(***************************************************************************)
EXTENDS Integers, Sequences, SequencesExt, FiniteSetsExt

CONSTANTS Period,              \* kPeriodDuration, in units of time
          MaxTime, MaxRecords, \* bounds: the time that passes, the records
          Durations            \* bound: the durations that are asked for

VARIABLES now, last_tick_time,
          tick_count, buckets,
          pending_bucket,
          query,      \* a call of GetAggregateEndingNow
          records,    \* the number of records so far
          ticks       \* the number of the last record at each tick so far

clock == <<now, last_tick_time>>
counter == <<tick_count, buckets, ticks>>
pending == <<pending_bucket, records>>
vars == <<clock, counter, pending, query>>

NoQuery == [step |-> "none"]

Init ==
  /\ now = 0 /\ last_tick_time = 0
  /\ tick_count = 0 /\ buckets = <<>>
  /\ pending_bucket = <<>>
  /\ query = NoQuery
  /\ records = 0 /\ ticks = <<>>

TimePasses ==
  /\ now < MaxTime
  /\ now' = now + 1
  /\ UNCHANGED <<last_tick_time, counter, pending, query>>

RecordMetrics ==
  /\ records < MaxRecords
  /\ pending_bucket' = Append(pending_bucket, records + 1)
  /\ records' = records + 1
  /\ UNCHANGED <<clock, counter, query>>

-----------------------------------------------------------------------------
(* Advance.  Bucket i is number i + 1 of the sequence.                     *)

Bucket(i) == IF i < Len(buckets) THEN buckets[i + 1] ELSE <<>>

(* The buckets that tick t changes, up to the lowest digit of t that is 1. *)
Changed(t) == {i \in 0 .. t : t % 2^i = 0}

(* What was in a bucket, with what replaces it, is carried to the next.    *)
OneTick(state, metric) ==
  LET t == state.tick_count + 1
      size == Len(state.buckets)
      carry[i \in 0 .. size] == IF i = 0 THEN metric ELSE state.buckets[i] \o carry[i - 1]
  IN [tick_count |-> t,
      buckets |-> [j \in 1 .. size + (IF size \in Changed(t) THEN 1 ELSE 0) |->
                     IF j - 1 \in Changed(t) THEN carry[j - 1] ELSE state.buckets[j]]]

(* What is pending goes into the first of the ticks that are due.          *)
Advance ==
  LET due == (now - last_tick_time) \div Period
      metrics == [k \in 1 .. due |-> IF k = 1 THEN pending_bucket ELSE <<>>]
      after == FoldLeft(OneTick, [tick_count |-> tick_count, buckets |-> buckets], metrics)
  IN /\ due > 0
     /\ last_tick_time' = last_tick_time + due * Period
     /\ tick_count' = after.tick_count /\ buckets' = after.buckets
     /\ ticks' = ticks \o [k \in 1 .. due |-> records]
     /\ pending_bucket' = <<>>
     /\ UNCHANGED <<now, records, query>>

-----------------------------------------------------------------------------
(* GetAggregateEndingNow, whose two mutexes are taken one after the other. *)

(* The number of binary digits.                                            *)
Width(n) == CHOOSE w \in 0 .. n : 2^w > n /\ (w > 0 => 2^(w - 1) =< n)

(* Mutant of Masked: there is always enough in the buckets that count.     *)
MaskedOnly(n) == tick_count % 2^Width(n)

(* The buckets to merge for n ticks: the digits of this number.            *)
Masked(n) ==
  LET candidate == tick_count % 2^Width(n)
  IN IF candidate >= n THEN candidate ELSE candidate + 2^Width(n)

Digits(n) == {i \in 0 .. Width(n) : (n \div 2^i) % 2 = 1}

Merged(set) ==
  LET oldest_first == SelectSeq(Reverse([j \in DOMAIN buckets |-> j - 1]), LAMBDA i : i \in set)
  IN FlattenSeq([k \in DOMAIN oldest_first |-> Bucket(oldest_first[k])])

(* With the time, or without what has come since the last tick.            *)
AskAggregate ==
  /\ query = NoQuery
  /\ \E d \in Durations, with_now \in BOOLEAN :
       LET since == IF with_now THEN now - last_tick_time ELSE 0
           remaining == d - since
           set == IF remaining > 0 THEN Digits(Masked(-((-remaining) \div Period))) ELSE {}
           covered == {i \in set : i < Len(buckets)}
       IN query' = [step |-> IF with_now THEN "pending" ELSE "returned",
                    duration |-> d, since |-> since,
                    covers |-> SumSet({2^i : i \in covered}),
                    result |-> Merged(covered),
                    from |-> tick_count, to |-> tick_count]
  /\ UNCHANGED <<clock, counter, pending>>

MergePending ==
  /\ query.step = "pending"
  /\ query' = [query EXCEPT !.step = "returned", !.result = @ \o pending_bucket,
                            !.to = tick_count]
  /\ UNCHANGED <<clock, counter, pending>>

Return ==
  /\ query.step = "returned"
  /\ query' = NoQuery
  /\ UNCHANGED <<clock, counter, pending>>

Next == \/ TimePasses \/ RecordMetrics \/ Advance
        \/ AskAggregate \/ MergePending \/ Return

-----------------------------------------------------------------------------
(* Properties.                                                             *)

LastRecordAt(tick) == IF tick =< 0 THEN 0 ELSE ticks[tick]
(* The records of the ticks after the first and up to the last of two.     *)
RecordsOf(after, last) ==
  [k \in 1 .. LastRecordAt(last) - LastRecordAt(after) |-> LastRecordAt(after) + k]
Larger(m, n) == IF m > n THEN m ELSE n

(* At every count of ticks, whether they come one by one or many at once,  *)
(* a bucket has the records of the last window of its length that is       *)
(* complete.                                                               *)
BucketsAreWindows ==
  \A i \in 0 .. Len(buckets) - 1 :
    LET end == tick_count - (tick_count % (2^i)) IN Bucket(i) = RecordsOf(end - 2^i, end)

(* And what is asked for in a duration is of all ticks of at least that    *)
(* duration, or of all there were, in order, none twice, with what has     *)
(* come since; but ticks that end while the call goes from one mutex to    *)
(* the other are in neither part of the answer.                            *)
AggregateEndsNow ==
  query.step = "returned" =>
    LET ended == RecordsOf(query.from - query.covers, query.from) IN
    /\ IsPrefix(ended, query.result)
    /\ \E last \in LastRecordAt(query.to) .. records :
         query.result = ended \o [k \in 1 .. last - LastRecordAt(query.to) |->
                                    LastRecordAt(query.to) + k]
    /\ query.covers =< query.from
    /\ \/ query.covers = query.from
       \/ query.covers * Period + query.since >= query.duration

MetricsOfTheirTime == BucketsAreWindows /\ AggregateEndsNow
=============================================================================
