------------------------- MODULE ChunkSourceLoader -------------------------
(***************************************************************************)
(* Class ChunkSourceLoader of csrc/loader/stages/chunk_source_loader.cc: a *)
(* pool of workers turns the files that FilePathProvider finds into chunk  *)
(* sources.  The marker kInitialScanComplete, sent once among the files,   *)
(* is to be forwarded when the files sent before it have been dealt with.  *)
(*                                                                         *)
(* The queues on either side are the channels that BoundedQueue            *)
(* implements.  The queue on the input is as long as there are files; the  *)
(* one on the output blocks when it is full.                               *)
(***************************************************************************)
EXTENDS Integers, Sequences, FiniteSets, Functions

CONSTANTS Workers,      \* config.threads() workers
          Files,        \* bound: the files that are found
          Unsupported,  \* those of them no chunk source can be made of
          Sentinel,     \* kInitialScanComplete, in either queue
          Capacity      \* the capacity of the output queue

ASSUME WorkersAssumption == IsFiniteSet(Workers)
ASSUME FilesAssumption == Unsupported \subseteq Files /\ Sentinel \notin Files
ASSUME CapacityAssumption == Capacity \in Nat \ {0}

VARIABLES
  sent,               \* the messages put into the input queue so far, in order
  input,              \* those of them not yet got
  input_closed,
  pc,                 \* what each worker does next
  file,               \* the message each worker has got
  is_pre_sentinel,    \* the local variable of each worker
  sentinel_received,  \* sentinel_received_
  pre_sentinel_work_count,
  skipped_files_count,
  flushed,            \* what FlushMetrics has reported of it
  phase_mutex,        \* the worker that blocks with phase_mutex_ held, if any
  output,             \* the output queue
  delivered,          \* what the next stage has got from it, in order
  output_closed,
  stop_requested

upstream == <<sent, input_closed>>
phase == <<sentinel_received, pre_sentinel_work_count>>
skips == <<skipped_files_count, flushed>>
downstream == <<output, delivered, output_closed>>
vars == <<upstream, input, pc, file, is_pre_sentinel, phase, skips, phase_mutex,
          downstream, stop_requested>>

Goto(w, step) == pc' = [pc EXCEPT ![w] = step]

-----------------------------------------------------------------------------
Init ==
  /\ sent = <<>> /\ input = <<>> /\ input_closed = FALSE
  /\ pc = [w \in Workers |-> "enqueued"]
  /\ file = [w \in Workers |-> Sentinel]
  /\ is_pre_sentinel = [w \in Workers |-> FALSE]
  /\ sentinel_received = FALSE
  /\ pre_sentinel_work_count = 0
  /\ skipped_files_count = 0 /\ flushed = 0
  /\ phase_mutex = {}
  /\ output = <<>> /\ delivered = <<>> /\ output_closed = FALSE
  /\ stop_requested = FALSE

-----------------------------------------------------------------------------
(* The stage before: every file once, and the marker once.                 *)

Provide(m) ==
  /\ ~input_closed /\ m \notin Range(sent)
  /\ sent' = Append(sent, m)
  /\ input' = Append(input, m)
  /\ UNCHANGED <<input_closed, pc, file, is_pre_sentinel, phase, skips,
                 phase_mutex, downstream, stop_requested>>

CloseInput ==
  /\ ~input_closed
  /\ input_closed' = TRUE
  /\ UNCHANGED <<sent, input, pc, file, is_pre_sentinel, phase, skips,
                 phase_mutex, downstream, stop_requested>>

-----------------------------------------------------------------------------
(* A worker.                                                               *)

(* The task starts: with a producer, or not at all when the others have    *)
(* come and gone.                                                          *)
CreateProducer(w) ==
  /\ pc[w] = "enqueued"
  /\ Goto(w, IF output_closed THEN "exited" ELSE "getting")
  /\ UNCHANGED <<upstream, input, file, is_pre_sentinel, phase, skips,
                 phase_mutex, downstream, stop_requested>>

(* Leaving Worker removes its producer, and the last one closes the queue. *)
Leave(w) ==
  /\ Goto(w, "exited")
  /\ output_closed' = \A v \in Workers \ {w} : pc[v] \in {"enqueued", "exited"}

(* input_queue()->Get.  No lock is held when it returns.                   *)
GetFile(w) ==
  /\ pc[w] = "getting" /\ input # <<>>
  /\ file' = [file EXCEPT ![w] = Head(input)]
  /\ input' = Tail(input)
  /\ Goto(w, IF Head(input) = Sentinel THEN "noting" ELSE "counting")
  /\ UNCHANGED <<upstream, is_pre_sentinel, phase, skips, phase_mutex,
                 downstream, stop_requested>>

(* Mutant of NothingMoreToGet: a stop is not noticed.                      *)
OnlyWhenClosed == input = <<>> /\ input_closed

NothingMoreToGet == input = <<>> /\ (input_closed \/ stop_requested)

GetThrows(w) ==
  /\ pc[w] = "getting"
  /\ NothingMoreToGet
  /\ Leave(w)
  /\ UNCHANGED <<upstream, input, file, is_pre_sentinel, phase, skips,
                 phase_mutex, output, delivered, stop_requested>>

(* Mutant of ShouldForward: the worker forwards the marker it has got.     *)
ForwardAtOnce == TRUE

ShouldForward == pre_sentinel_work_count = 0

NoteSentinel(w) ==
  /\ pc[w] = "noting" /\ phase_mutex = {}
  /\ sentinel_received' = TRUE
  /\ Goto(w, IF ShouldForward THEN "forwarding" ELSE "getting")
  /\ UNCHANGED <<upstream, input, file, is_pre_sentinel, pre_sentinel_work_count,
                 skips, phase_mutex, downstream, stop_requested>>

CountFile(w) ==
  /\ pc[w] = "counting" /\ phase_mutex = {}
  /\ is_pre_sentinel' = [is_pre_sentinel EXCEPT ![w] = ~sentinel_received]
  /\ pre_sentinel_work_count' =
       pre_sentinel_work_count + IF sentinel_received THEN 0 ELSE 1
  /\ Goto(w, "loading")
  /\ UNCHANGED <<upstream, input, file, sentinel_received, skips, phase_mutex,
                 downstream, stop_requested>>

AfterFile(w) == IF is_pre_sentinel[w] THEN "completing" ELSE "getting"

(* CreateChunkSourceFromFile does not make a source of the file.           *)
SkipFile(w) ==
  /\ pc[w] = "loading" /\ file[w] \in Unsupported
  /\ skipped_files_count' = skipped_files_count + 1
  /\ Goto(w, AfterFile(w))
  /\ UNCHANGED <<upstream, input, file, is_pre_sentinel, phase, flushed,
                 phase_mutex, downstream, stop_requested>>

(* Mutant of Put: the queue drops what it has no room for.                 *)
PutDroppingNew(m) ==
  output' = IF Len(output) < Capacity THEN Append(output, m) ELSE output

(* producer.Put, when there is room for the message, whether or not a stop *)
(* has been requested.  The queue is open while a worker has a producer.   *)
Put(m) == Len(output) < Capacity /\ output' = Append(output, m)

(* CreateChunkSourceFromFile makes a source of the file, and it is put.    *)
PutSource(w) ==
  /\ pc[w] = "loading" /\ file[w] \notin Unsupported
  /\ Put(file[w])
  /\ Goto(w, AfterFile(w))
  /\ UNCHANGED <<upstream, input, file, is_pre_sentinel, phase, skips,
                 phase_mutex, delivered, output_closed, stop_requested>>

(* Mutant of LastOfPhase: the count is compared before it is decremented.  *)
NoneBeforeMe == pre_sentinel_work_count = 0 /\ sentinel_received

LastOfPhase == pre_sentinel_work_count = 1 /\ sentinel_received

(* Completes the tracking of a file sent before the marker.  The last one  *)
(* goes on to forward the marker before it releases the mutex.             *)
CompleteFile(w) ==
  /\ pc[w] = "completing" /\ phase_mutex = {}
  /\ pre_sentinel_work_count' = pre_sentinel_work_count - 1
  /\ phase_mutex' = IF LastOfPhase THEN {w} ELSE {}
  /\ Goto(w, IF LastOfPhase THEN "handing over" ELSE "getting")
  /\ UNCHANGED <<upstream, input, file, is_pre_sentinel, sentinel_received,
                 skips, downstream, stop_requested>>

(* The marker is put, by the worker that got it or by the last of the      *)
(* others.                                                                 *)
ForwardSentinel(w) ==
  /\ pc[w] \in {"forwarding", "handing over"}
  /\ Put(Sentinel)
  /\ phase_mutex' = phase_mutex \ {w}
  /\ Goto(w, "getting")
  /\ UNCHANGED <<upstream, input, file, is_pre_sentinel, phase, skips,
                 delivered, output_closed, stop_requested>>

(* A Put that has to wait is cancelled by a stop; what it was to put, and  *)
(* the tracking of the file, are lost with it.                             *)
PutThrows(w) ==
  /\ \/ pc[w] \in {"forwarding", "handing over"}
     \/ pc[w] = "loading" /\ file[w] \notin Unsupported
  /\ stop_requested /\ Len(output) = Capacity
  /\ phase_mutex' = phase_mutex \ {w}
  /\ Leave(w)
  /\ UNCHANGED <<upstream, input, file, is_pre_sentinel, phase, skips,
                 output, delivered, stop_requested>>

-----------------------------------------------------------------------------
(* Other threads: the next stage, metrics, and Stop, which requests a stop,*)
(* joins the workers and closes the queue that the last of them closes.    *)

Deliver ==
  /\ output # <<>>
  /\ delivered' = Append(delivered, Head(output))
  /\ output' = Tail(output)
  /\ UNCHANGED <<upstream, input, pc, file, is_pre_sentinel, phase, skips,
                 phase_mutex, output_closed, stop_requested>>

FlushMetrics ==
  /\ skipped_files_count > 0
  /\ flushed' = flushed + skipped_files_count
  /\ skipped_files_count' = 0
  /\ UNCHANGED <<upstream, input, pc, file, is_pre_sentinel, phase, phase_mutex,
                 downstream, stop_requested>>

Stop ==
  /\ ~stop_requested
  /\ stop_requested' = TRUE
  /\ UNCHANGED <<upstream, input, pc, file, is_pre_sentinel, phase, skips,
                 phase_mutex, downstream>>

-----------------------------------------------------------------------------
Work(w) == \/ CreateProducer(w) \/ GetFile(w) \/ GetThrows(w)
           \/ NoteSentinel(w) \/ CountFile(w) \/ SkipFile(w)
           \/ PutSource(w) \/ CompleteFile(w) \/ ForwardSentinel(w)
           \/ PutThrows(w)

Next == \/ \E m \in Files \cup {Sentinel} : Provide(m)
        \/ CloseInput
        \/ \E w \in Workers : Work(w)
        \/ Deliver \/ FlushMetrics \/ Stop

Spec == Init /\ [][Next]_vars

(* The workers are threads that run when they can, and the next stage gets *)
(* what there is until a stop.                                             *)
FairSpec == /\ Spec
            /\ \A w \in Workers : WF_vars(Work(w))
            /\ WF_vars(~stop_requested /\ Deliver)

-----------------------------------------------------------------------------
(* Properties.                                                             *)

Out == delivered \o output
Times(m, s) == Cardinality({i \in DOMAIN s : s[i] = m})
Holders(m) ==
  {w \in Workers : pc[w] \in {"counting", "loading"} /\ file[w] = m}
Forwarders == {w \in Workers : pc[w] \in {"forwarding", "handing over"}}
Counted == {w \in Workers :
              pc[w] \in {"loading", "completing"} /\ is_pre_sentinel[w]}

(* Whichever worker gets the marker and whichever finishes last, only one  *)
(* of them forwards it, and only when no file that was counted before the  *)
(* marker is still being worked on.                                        *)
ForwardedOnceWhenDue ==
  LET times == Times(Sentinel, Out) + Cardinality(Forwarders)
  IN /\ times =< 1
     /\ times = 1 => sentinel_received /\ Counted = {}

(* Until a stop, every file that was found is in one place: it waits, one  *)
(* worker has it, it was put once, or it is in the count of the skipped    *)
(* ones or in an earlier report of it.                                     *)
FilesConserved ==
  ~stop_requested =>
    /\ \A f \in Range(sent) \ (Unsupported \cup {Sentinel}) :
          Times(f, input) + Cardinality(Holders(f)) + Times(f, Out) = 1
    /\ skipped_files_count + flushed =
         Cardinality({f \in Range(sent) \cap Unsupported :
                        Times(f, input) + Cardinality(Holders(f)) = 0})

(* The marker gets to the next stage, so that its initialization ends.     *)
SentinelArrives ==
  Sentinel \in Range(sent) ~> (Sentinel \in Range(delivered) \/ stop_requested)

(* Stop can join the workers, though the next stage gets nothing more and  *)
(* a worker may be blocked with phase_mutex_ held.                         *)
WorkersJoin == stop_requested ~> \A w \in Workers : pc[w] = "exited"

(* What chunk_source_loader_test.cc says of the marker: it comes after the *)
(* files that were sent before it.                                         *)
SentinelBarrier ==
  \A i, j \in DOMAIN sent : i < j /\ sent[j] = Sentinel =>
    ~ \E k, l \in DOMAIN Out : k < l /\ Out[k] = Sentinel /\ Out[l] = sent[i]
=============================================================================
