---------------------------- MODULE LoaderProofs ----------------------------
(***************************************************************************)
(* Proofs about the two stages at the start of a loader.                   *)
(*                                                                         *)
(* ChunkSourceLoader, for any workers, files and capacity: the marker is   *)
(* forwarded once and when it is due (ForwardedOnceWhenDue), and until a   *)
(* stop every file is in one place (FilesConserved).                       *)
(*                                                                         *)
(* FilePathProvider, for any tree of directories, any files and any number *)
(* of changes to it: but for what the kernel drops and what was put with a *)
(* full batch, no version of a file is overlooked, and none is put twice   *)
(* (EveryFileReported).                                                    *)
(***************************************************************************)
EXTENDS ChunkSourceLoader, FilePathProvider, FiniteSetTheorems, SequenceTheorems, TLAPS

Messages == Files \cup {Sentinel}

-----------------------------------------------------------------------------
(* How often a message is in a sequence.                                   *)

At(m, s) == {i \in DOMAIN s : s[i] = m}
One(m, e) == IF e = m THEN 1 ELSE 0

LEMMA AtFinite ==
  ASSUME NEW S, NEW s \in Seq(S), NEW m
  PROVE  /\ At(m, s) \subseteq 1 .. Len(s) /\ IsFiniteSet(At(m, s))
         /\ Times(m, s) = Cardinality(At(m, s)) /\ Times(m, s) \in Nat
<1>1. At(m, s) \subseteq 1 .. Len(s)
  BY DEF At
<1>2. IsFiniteSet(1 .. Len(s))
  BY FS_Interval
<1>3. IsFiniteSet(At(m, s))
  BY <1>1, <1>2, FS_Subset
<1>4. Times(m, s) = Cardinality(At(m, s))
  BY DEF Times, At
<1>. QED
  BY <1>1, <1>3, <1>4, FS_CardinalityType

LEMMA TimesEmpty == \A m : Times(m, <<>>) = 0
<1>1. \A m : At(m, <<>>) = {}
  BY DEF At
<1>. QED
  BY <1>1, FS_EmptySet DEF Times, At

LEMMA TimesAppend ==
  ASSUME NEW S, NEW s \in Seq(S), NEW e \in S, NEW m
  PROVE  Times(m, Append(s, e)) = Times(m, s) + One(m, e)
<1>. DEFINE t == Append(s, e)
            n == Len(s) + 1
<1>1. /\ t \in Seq(S) /\ Len(t) = n /\ t[n] = e
      /\ \A i \in 1 .. Len(s) : t[i] = s[i]
      /\ DOMAIN t = 1 .. n /\ DOMAIN s = 1 .. Len(s) /\ Len(s) \in Nat
  BY AppendProperties, LenProperties
<1>. HIDE DEF t
<1>2. /\ Times(m, t) = Cardinality(At(m, t))
      /\ Times(m, s) = Cardinality(At(m, s)) /\ Times(m, s) \in Nat
      /\ IsFiniteSet(At(m, s))
  BY <1>1, AtFinite
<1>3. Times(m, t) = Times(m, s) + One(m, e)
  <2>1. CASE e = m
    <3>1. At(m, t) = At(m, s) \cup {n} /\ n \notin At(m, s)
      BY <1>1, <2>1 DEF At
    <3>. QED
      BY <1>2, <2>1, <3>1, FS_AddElement DEF One
  <2>2. CASE e # m
    <3>1. At(m, t) = At(m, s)
      BY <1>1, <2>2 DEF At
    <3>. QED
      BY <1>2, <2>2, <3>1 DEF One
  <2>. QED
    BY <2>1, <2>2
<1>. QED
  BY <1>3 DEF t

LEMMA TimesTail ==
  ASSUME NEW S, NEW s \in Seq(S), s # <<>>, NEW m
  PROVE  Times(m, s) = Times(m, Tail(s)) + One(m, Head(s))
<1>. DEFINE t == Tail(s)
            A == At(m, s) \ {1}
            f == [i \in A |-> i - 1]
<1>1. /\ t \in Seq(S) /\ Len(t) = Len(s) - 1 /\ Len(s) \in Nat \ {0}
      /\ \A i \in 1 .. Len(t) : t[i] = s[i + 1]
      /\ DOMAIN t = 1 .. Len(t) /\ DOMAIN s = 1 .. Len(s) /\ Head(s) = s[1]
  BY HeadTailProperties, LenProperties, EmptySeq
<1>. HIDE DEF t
<1>2. IsFiniteSet(A) /\ Cardinality(A) \in Nat
  BY AtFinite, FS_RemoveElement, FS_CardinalityType
<1>3. f \in Bijection(A, At(m, t))
  <2>1. \A i \in A : i \in 2 .. Len(s) /\ s[i] = m
    BY <1>1 DEF At
  <2>2. f \in [A -> At(m, t)]
    BY <1>1, <2>1 DEF At
  <2>3. \A i, j \in A : f[i] = f[j] => i = j
    BY <2>1
  <2>4. ASSUME NEW j \in At(m, t)
        PROVE  \E i \in A : f[i] = j
    <3>1. j \in 1 .. Len(t) /\ t[j] = m
      BY <1>1 DEF At
    <3>2. j + 1 \in A /\ f[j + 1] = j
      BY <1>1, <3>1 DEF At
    <3>. QED
      BY <3>2
  <2>. HIDE DEF f, A
  <2>5. f \in Injection(A, At(m, t))
    BY <2>2, <2>3 DEF Injection, IsInjective
  <2>6. f \in Surjection(A, At(m, t))
    BY <2>2, <2>4, Zenon DEF Surjection
  <2>. QED
    BY <2>5, <2>6 DEF Bijection
<1>4. Cardinality(At(m, t)) = Cardinality(A)
  BY <1>2, <1>3, FS_Bijection DEF ExistsBijection
<1>5. /\ Times(m, t) = Cardinality(At(m, t))
      /\ Times(m, s) = Cardinality(At(m, s)) /\ Times(m, s) \in Nat
      /\ IsFiniteSet(At(m, s))
  BY <1>1, AtFinite
<1>6. 1 \in At(m, s) <=> Head(s) = m
  BY <1>1 DEF At
<1>7. Cardinality(A) = Cardinality(At(m, s)) - One(m, Head(s))
  <2>1. Cardinality(A) = IF 1 \in At(m, s) THEN Cardinality(At(m, s)) - 1
                         ELSE Cardinality(At(m, s))
    BY <1>5, FS_RemoveElement, Zenon
  <2>. QED
    BY <1>5, <1>6, <2>1 DEF One
<1>8. Times(m, s) = Times(m, t) + One(m, Head(s))
  BY <1>4, <1>5, <1>7 DEF One
<1>. QED
  BY <1>8 DEF t

LEMMA RangeAppend ==
  ASSUME NEW S, NEW s \in Seq(S), NEW e \in S
  PROVE  Range(Append(s, e)) = Range(s) \cup {e}
<1>. DEFINE t == Append(s, e)
<1>1. /\ DOMAIN s = 1 .. Len(s) /\ Len(s) \in Nat
      /\ DOMAIN t = 1 .. Len(s) + 1
      /\ t[Len(s) + 1] = e /\ \A i \in 1 .. Len(s) : t[i] = s[i]
  BY AppendProperties, LenProperties
<1>. HIDE DEF t
<1>2. Range(t) = Range(s) \cup {e}
  BY <1>1 DEF Range
<1>. QED
  BY <1>2 DEF t

LEMMA RangeFinite ==
  ASSUME NEW S, NEW s \in Seq(S)
  PROVE  Range(s) \subseteq S /\ IsFiniteSet(Range(s))
<1>1. s \in [1 .. Len(s) -> S] /\ IsFiniteSet(1 .. Len(s))
  BY LenProperties, FS_Interval
<1>2. Range(s) \subseteq S
  BY <1>1 DEF Range
<1>3. s \in Surjection(1 .. Len(s), Range(s))
  BY <1>1 DEF Surjection, Range
<1>. QED
  BY <1>1, <1>2, <1>3, FS_Surjection DEF ExistsSurjection

-----------------------------------------------------------------------------
(* The invariant.                                                          *)

Places == {"enqueued", "getting", "noting", "counting", "loading", "completing",
           "forwarding", "handing over", "exited"}

Types ==
  /\ sent \in Seq(Messages) /\ input \in Seq(Messages)
  /\ output \in Seq(Messages) /\ delivered \in Seq(Messages)
  /\ pc \in [Workers -> Places]
  /\ file \in [Workers -> Messages]
  /\ is_pre_sentinel \in [Workers -> BOOLEAN]
  /\ sentinel_received \in BOOLEAN
  /\ pre_sentinel_work_count \in Nat
  /\ skipped_files_count \in Nat /\ flushed \in Nat

(* A worker that has a file deals with a file, and one that completes its  *)
(* tracking has tracked it.                                                *)
AtWork ==
  \A w \in Workers :
    /\ pc[w] \in {"counting", "loading"} => file[w] \in Files
    /\ pc[w] = "completing" => is_pre_sentinel[w]

(* The marker was not sent yet, or is in the input, or a worker has got it *)
(* and not noted it yet, or it is noted.                                   *)
Noting == {w \in Workers : pc[w] = "noting"}
MarkerOnce ==
  Times(Sentinel, input) + Cardinality(Noting) + (IF sentinel_received THEN 1 ELSE 0)
    = IF Sentinel \in Range(sent) THEN 1 ELSE 0

(* pre_sentinel_work_count_ covers the files that are worked on; a Put     *)
(* that throws leaves it above.                                            *)
Tracked == Cardinality(Counted) =< pre_sentinel_work_count

(* The marker is on its way, or has been put, once, and then nothing is    *)
(* tracked any more.                                                       *)
Forwarded ==
  LET times == Times(Sentinel, Out) + Cardinality(Forwarders)
  IN times = 0 \/ (times = 1 /\ sentinel_received /\ pre_sentinel_work_count = 0)

Marker == Types /\ AtWork /\ MarkerOnce /\ Tracked /\ Forwarded

-----------------------------------------------------------------------------
(* How often a file is still to be dealt with.                             *)
Place(f) == Times(f, input) + Cardinality(Holders(f))
Sent(f) == IF f \in Range(sent) THEN 1 ELSE 0

(* No file is got, held or put a second time, and until a stop one that a  *)
(* source can be made of is not lost.                                      *)
Placed ==
  \A f \in Files : /\ Place(f) + Times(f, Out) =< Sent(f)
                   /\ ~stop_requested /\ f \notin Unsupported =>
                        Place(f) + Times(f, Out) = Sent(f)

(* The files that were skipped have been counted, a stop or not.           *)
Passed == {f \in Range(sent) \cap Unsupported : Place(f) = 0}
Skipped == skipped_files_count + flushed = Cardinality(Passed)

Conserved == Marker /\ Placed /\ Skipped

-----------------------------------------------------------------------------
(* Workers in a place are finitely many.                                   *)
LEMMA FiniteWorkers ==
  \A S \in SUBSET Workers : IsFiniteSet(S) /\ Cardinality(S) \in Nat
BY WorkersAssumption, FS_Subset, FS_CardinalityType

LEMMA Joins ==
  ASSUME NEW S \in SUBSET Workers, NEW w \in Workers, w \notin S
  PROVE  Cardinality(S \cup {w}) = Cardinality(S) + 1
BY FiniteWorkers, FS_AddElement

LEMMA Leaves ==
  ASSUME NEW S \in SUBSET Workers, NEW w \in S
  PROVE  Cardinality(S \ {w}) = Cardinality(S) - 1 /\ Cardinality(S) >= 1
<1>1. IsFiniteSet(S) /\ Cardinality(S) \in Nat /\ Cardinality(S \ {w}) \in Nat
  BY FiniteWorkers
<1>2. Cardinality(S \ {w}) = Cardinality(S) - 1
  BY <1>1, FS_RemoveElement
<1>. QED
  BY <1>1, <1>2

(* What has left the loader, and is in its output queue.                   *)
LEMMA OutAfterDeliver == Types /\ Deliver => Out' = Out
<1>. SUFFICES ASSUME Types, Deliver
              PROVE  Out' = Out
  OBVIOUS
<1>1. /\ delivered \in Seq(Messages) /\ output \in Seq(Messages) /\ output # <<>>
      /\ delivered' = Append(delivered, Head(output)) /\ output' = Tail(output)
  BY DEF Types, Deliver
<1>2. Head(output) \in Messages /\ Tail(output) \in Seq(Messages)
      /\ <<Head(output)>> \in Seq(Messages)
  BY <1>1, HeadTailProperties
<1>3. delivered' = delivered \o <<Head(output)>>
  BY <1>1, <1>2, AppendIsConcat
<1>4. output = <<Head(output)>> \o Tail(output)
  <2>1. Len(output) \in Nat \ {0}
    BY <1>1, EmptySeq
  <2>2. SubSeq(output, 1, Len(output)) = <<output[1]>> \o SubSeq(output, 2, Len(output))
    BY <1>1, <2>1, SubSeqRecursiveFirst
  <2>. QED
    BY <1>1, <2>1, <2>2, SubSeqFull, TailIsSubSeq, HeadTailProperties
<1>5. (delivered \o <<Head(output)>>) \o Tail(output) = delivered \o output
  BY <1>1, <1>2, <1>4, ConcatAssociative
<1>. QED
  BY <1>1, <1>3, <1>5 DEF Out

LEMMA OutAfterPut ==
  ASSUME Types, NEW m \in Messages, Put(m), UNCHANGED delivered
  PROVE  \A x : Times(x, Out') = Times(x, Out) + One(x, m)
<1>1. /\ delivered \in Seq(Messages) /\ output \in Seq(Messages)
      /\ output' = Append(output, m) /\ <<m>> \in Seq(Messages)
  BY DEF Types, Put
<1>2. Out \in Seq(Messages)
  BY <1>1, ConcatProperties DEF Out
<1>3. Out' = Out \o <<m>>
  <2>1. output' = output \o <<m>>
    BY <1>1, AppendIsConcat
  <2>2. (delivered \o output) \o <<m>> = delivered \o (output \o <<m>>)
    BY <1>1, ConcatAssociative
  <2>. QED
    BY <2>1, <2>2 DEF Out
<1>4. Out' = Append(Out, m)
  BY <1>2, <1>3, AppendIsConcat
<1>. QED
  BY <1>2, <1>4, TimesAppend

LEMMA OutTimes == Types => \A m : Times(m, Out) \in Nat /\ Times(m, input) \in Nat
<1>. SUFFICES ASSUME Types
              PROVE  \A m : Times(m, Out) \in Nat /\ Times(m, input) \in Nat
  OBVIOUS
<1>1. Out \in Seq(Messages) /\ input \in Seq(Messages)
  BY ConcatProperties DEF Out, Types
<1>. QED
  BY <1>1, AtFinite

-----------------------------------------------------------------------------
(* Types.                                                                  *)

(* The steps of a worker that move it and nothing that is counted.         *)
Passes(w) == CreateProducer(w) \/ GetThrows(w)

(* The steps of the others.                                                *)
Around == CloseInput \/ Deliver \/ FlushMetrics \/ Stop \/ UNCHANGED vars

LEMMA AroundTypes == Types /\ Around => Types'
<1>. SUFFICES ASSUME Types, Around
              PROVE  Types'
  OBVIOUS
<1>. USE DEF Types, upstream, phase, skips, downstream
<1>1. CASE Deliver
  <2>1. Head(output) \in Messages /\ Tail(output) \in Seq(Messages)
    BY <1>1, HeadTailProperties DEF Deliver
  <2>2. Append(delivered, Head(output)) \in Seq(Messages)
    BY <2>1, AppendProperties
  <2>. QED
    BY <1>1, <2>1, <2>2 DEF Deliver
<1>2. CASE CloseInput \/ FlushMetrics \/ Stop \/ UNCHANGED vars
  BY <1>2 DEF CloseInput, FlushMetrics, Stop, vars
<1>. QED
  BY <1>1, <1>2 DEF Around

LEMMA ProvideTypes ==
  ASSUME Types, NEW m \in Messages, Provide(m)
  PROVE  Types'
<1>1. Append(sent, m) \in Seq(Messages) /\ Append(input, m) \in Seq(Messages)
  BY AppendProperties DEF Types
<1>. QED
  BY <1>1 DEF Types, Provide, phase, skips, downstream

LEMMA WorkTypes ==
  ASSUME Types, AtWork, Tracked, NEW w \in Workers, Work(w)
  PROVE  Types'
<1>0. /\ CountFile(w) => pre_sentinel_work_count' \in Nat
      /\ SkipFile(w) => skipped_files_count' \in Nat
      /\ CompleteFile(w) => pre_sentinel_work_count' \in Nat
  <2>1. pre_sentinel_work_count \in Nat /\ skipped_files_count \in Nat
    BY DEF Types
  <2>2. CountFile(w) => pre_sentinel_work_count' \in Nat
    BY <2>1 DEF CountFile
  <2>3. SkipFile(w) => skipped_files_count' \in Nat
    BY <2>1 DEF SkipFile
  <2>4. ASSUME CompleteFile(w)
        PROVE  pre_sentinel_work_count' \in Nat
    <3>1. w \in Counted
      BY <2>4 DEF CompleteFile, AtWork, Counted
    <3>2. Cardinality(Counted) >= 1 /\ Cardinality(Counted) \in Nat
      BY <3>1, FiniteWorkers, Leaves DEF Counted
    <3>3. pre_sentinel_work_count' = pre_sentinel_work_count - 1
      BY <2>4 DEF CompleteFile
    <3>4. pre_sentinel_work_count >= 1
      BY <2>1, <3>2 DEF Tracked
    <3>. QED
      BY <2>1, <3>3, <3>4
  <2>. QED
    BY <2>2, <2>3, <2>4
<1>. USE DEF Types, upstream, phase, skips, downstream, Goto, Places
<1>1. CASE Passes(w)
  BY <1>1 DEF Passes, CreateProducer, GetThrows, Leave
<1>2. CASE GetFile(w)
  <2>1. Head(input) \in Messages /\ Tail(input) \in Seq(Messages)
    BY <1>2, HeadTailProperties DEF GetFile
  <2>. QED
    BY <1>2, <2>1 DEF GetFile
<1>3. CASE NoteSentinel(w)
  BY <1>3 DEF NoteSentinel
<1>4. CASE CountFile(w)
  <2>1. pc' \in [Workers -> Places] /\ is_pre_sentinel' \in [Workers -> BOOLEAN]
    BY <1>4 DEF CountFile
  <2>. QED
    BY <1>0, <1>4, <2>1 DEF CountFile
<1>5. CASE SkipFile(w)
  <2>1. pc' \in [Workers -> Places]
    BY <1>5 DEF SkipFile, AfterFile
  <2>. QED
    BY <1>0, <1>5, <2>1 DEF SkipFile
<1>6. CASE PutSource(w)
  <2>1. Append(output, file[w]) \in Seq(Messages)
    BY AppendProperties
  <2>. QED
    BY <1>6, <2>1 DEF PutSource, Put, AfterFile
<1>7. CASE CompleteFile(w)
  <2>1. pc' \in [Workers -> Places]
    BY <1>7 DEF CompleteFile
  <2>. QED
    BY <1>0, <1>7, <2>1 DEF CompleteFile
<1>8. CASE ForwardSentinel(w)
  <2>1. Append(output, Sentinel) \in Seq(Messages)
    BY AppendProperties DEF Messages
  <2>. QED
    BY <1>8, <2>1 DEF ForwardSentinel, Put
<1>9. CASE PutThrows(w)
  BY <1>9 DEF PutThrows, Leave
<1>. QED
  BY <1>1, <1>2, <1>3, <1>4, <1>5, <1>6, <1>7, <1>8, <1>9 DEF Work, Passes

LEMMA AtWorkKept == Types /\ AtWork /\ [Next]_vars => AtWork'
<1>. SUFFICES ASSUME Types, AtWork, [Next]_vars
              PROVE  AtWork'
  OBVIOUS
<1>. USE DEF Types, AtWork, Goto, phase
<1>1. CASE Around \/ \E m \in Messages : Provide(m)
  BY <1>1 DEF Around, CloseInput, Deliver, FlushMetrics, Stop, vars, Provide
<1>2. ASSUME NEW w \in Workers, Work(w)
      PROVE  AtWork'
  <2>1. CASE Passes(w) \/ PutThrows(w)
    BY <2>1 DEF Passes, CreateProducer, GetThrows, PutThrows, Leave
  <2>2. CASE GetFile(w)
    <3>1. Head(input) \in Messages
      BY <2>2, HeadTailProperties DEF GetFile
    <3>. QED
      BY <2>2, <3>1 DEF GetFile, Messages
  <2>3. CASE NoteSentinel(w) \/ CountFile(w) \/ CompleteFile(w) \/ ForwardSentinel(w)
    BY <2>3 DEF NoteSentinel, CountFile, CompleteFile, ForwardSentinel
  <2>4. CASE SkipFile(w) \/ PutSource(w)
    BY <2>4 DEF SkipFile, PutSource, AfterFile
  <2>. QED
    BY <1>2, <2>1, <2>2, <2>3, <2>4 DEF Work, Passes
<1>. QED
  BY <1>1, <1>2 DEF Next, Around, Messages

-----------------------------------------------------------------------------
(* The marker.                                                             *)

LEMMA MarkerOnceKept ==
  Types /\ MarkerOnce /\ [Next]_vars => MarkerOnce'
<1>. SUFFICES ASSUME Types, MarkerOnce, [Next]_vars
              PROVE  MarkerOnce'
  OBVIOUS
<1>. USE DEF Goto, phase, upstream, downstream
<1>0. /\ Cardinality(Noting) \in Nat /\ Noting \subseteq Workers
      /\ Times(Sentinel, input) \in Nat
  BY FiniteWorkers, OutTimes DEF Noting
<1>1. ASSUME NEW m \in Messages, Provide(m)
      PROVE  MarkerOnce'
  <2>1. UNCHANGED <<Noting, sentinel_received>>
    BY <1>1 DEF Provide, Noting
  <2>2. Times(Sentinel, input') = Times(Sentinel, input) + One(Sentinel, m)
    BY <1>1, TimesAppend DEF Provide, Types
  <2>3. Range(sent') = Range(sent) \cup {m}
    BY <1>1, RangeAppend DEF Provide, Types
  <2>4. m \notin Range(sent)
    BY <1>1 DEF Provide
  <2>. QED
    BY <1>0, <2>1, <2>2, <2>3, <2>4 DEF MarkerOnce, One
<1>2. CASE Around
  <2>1. UNCHANGED <<Noting, sentinel_received, input, sent>>
    BY <1>2 DEF Around, CloseInput, Deliver, FlushMetrics, Stop, vars, Noting
  <2>. QED
    BY <2>1 DEF MarkerOnce
<1>3. ASSUME NEW w \in Workers, Work(w)
      PROVE  MarkerOnce'
  <2>1. CASE GetFile(w)
    <3>1. /\ input \in Seq(Messages) /\ input # <<>> /\ input' = Tail(input)
          /\ UNCHANGED <<sent, sentinel_received>> /\ w \notin Noting
      BY <2>1 DEF GetFile, Types, Noting
    <3>2. Times(Sentinel, input) = Times(Sentinel, input') + One(Sentinel, Head(input))
      BY <3>1, TimesTail
    <3>3. Noting' = IF Head(input) = Sentinel THEN Noting \cup {w} ELSE Noting
      BY <2>1 DEF GetFile, Types, Noting
    <3>4. Times(Sentinel, input') \in Nat
      BY <3>1, HeadTailProperties, AtFinite
    <3>. QED
      BY <1>0, <3>1, <3>2, <3>3, <3>4, Joins DEF MarkerOnce, One
  <2>2. CASE NoteSentinel(w)
    <3>1. w \in Noting /\ UNCHANGED <<input, sent>> /\ sentinel_received' = TRUE
      BY <2>2 DEF NoteSentinel, Noting
    <3>2. Noting' = Noting \ {w}
      BY <2>2 DEF NoteSentinel, Types, Noting
    <3>. QED
      BY <1>0, <3>1, <3>2, Leaves DEF MarkerOnce
  <2>3. CASE CountFile(w) \/ SkipFile(w) \/ PutSource(w) \/ CompleteFile(w)
             \/ ForwardSentinel(w) \/ PutThrows(w) \/ Passes(w)
    <3>1. UNCHANGED <<sentinel_received, input, sent>>
      BY <2>3 DEF CountFile, SkipFile, PutSource, CompleteFile, ForwardSentinel,
                  PutThrows, Passes, CreateProducer, GetThrows
    <3>2. Noting' = Noting
      BY <2>3 DEF CountFile, SkipFile, PutSource, CompleteFile, ForwardSentinel,
                  PutThrows, Passes, CreateProducer, GetThrows, Leave, AfterFile,
                  Types, Noting
    <3>. QED
      BY <3>1, <3>2 DEF MarkerOnce
  <2>. QED
    BY <1>3, <2>1, <2>2, <2>3 DEF Work, Passes
<1>. QED
  BY <1>1, <1>2, <1>3 DEF Next, Around, Messages

LEMMA TrackedKept ==
  Types /\ AtWork /\ Tracked /\ [Next]_vars => Tracked'
<1>. SUFFICES ASSUME Types, AtWork, Tracked, [Next]_vars
              PROVE  Tracked'
  OBVIOUS
<1>. USE DEF Goto, phase
<1>0. /\ Cardinality(Counted) \in Nat /\ Counted \subseteq Workers
      /\ pre_sentinel_work_count \in Nat
  BY FiniteWorkers DEF Counted, Types
<1>1. CASE Around \/ \E m \in Messages : Provide(m)
  BY <1>1 DEF Around, CloseInput, Deliver, FlushMetrics, Stop, vars, Provide,
              Counted, Tracked
<1>2. ASSUME NEW w \in Workers, Work(w)
      PROVE  Tracked'
  <2>1. CASE CountFile(w)
    <3>1. w \notin Counted
          /\ Counted' = IF sentinel_received THEN Counted ELSE Counted \cup {w}
      BY <2>1 DEF CountFile, Counted, Types
    <3>. QED
      BY <1>0, <2>1, <3>1, Joins DEF CountFile, Tracked
  <2>2. CASE CompleteFile(w)
    <3>1. w \in Counted /\ Counted' = Counted \ {w}
      BY <2>2 DEF CompleteFile, Counted, Types, AtWork
    <3>2. QED
      <4>1. pre_sentinel_work_count' = pre_sentinel_work_count - 1
        BY <2>2 DEF CompleteFile
      <4>2. Cardinality(Counted') = Cardinality(Counted) - 1
        BY <1>0, <3>1, Leaves
      <4>. QED
        BY <1>0, <4>1, <4>2 DEF Tracked
  <2>3. CASE PutThrows(w)
    <3>1. Counted' = Counted \ {w}
      BY <2>3 DEF PutThrows, Leave, Counted, Types
    <3>2. Counted' = Counted \/ w \in Counted
      BY <3>1
    <3>3. QED
      <4>1. pre_sentinel_work_count' = pre_sentinel_work_count
        BY <2>3 DEF PutThrows
      <4>2. Cardinality(Counted') =< Cardinality(Counted)
        BY <1>0, <3>1, <3>2, Leaves
      <4>. QED
        BY <1>0, <3>1, <4>1, <4>2, FiniteWorkers DEF Tracked
  <2>4. CASE SkipFile(w) \/ PutSource(w) \/ ForwardSentinel(w) \/ Passes(w)
             \/ NoteSentinel(w) \/ GetFile(w)
    <3>1. UNCHANGED pre_sentinel_work_count
      BY <2>4 DEF SkipFile, PutSource, ForwardSentinel, Passes, CreateProducer,
                  GetThrows, NoteSentinel, GetFile
    <3>2. Counted' = Counted
      <4>1. CASE SkipFile(w) \/ PutSource(w)
        BY <4>1 DEF SkipFile, PutSource, AfterFile, Counted, Types
      <4>2. CASE ForwardSentinel(w) \/ Passes(w) \/ NoteSentinel(w) \/ GetFile(w)
        BY <4>2 DEF ForwardSentinel, Passes, CreateProducer, GetThrows, Leave,
                    NoteSentinel, GetFile, Counted, Types
      <4>. QED
        BY <2>4, <4>1, <4>2
    <3>. QED
      BY <3>1, <3>2 DEF Tracked
  <2>. QED
    BY <1>2, <2>1, <2>2, <2>3, <2>4 DEF Work, Passes
<1>. QED
  BY <1>1, <1>2 DEF Next, Around, Messages

(* The output of a worker.                                                 *)
LEMMA OutAfterWork ==
  ASSUME Types, NEW w \in Workers, Work(w)
  PROVE  \A m : Times(m, Out') = Times(m, Out) +
           IF PutSource(w) THEN One(m, file[w])
           ELSE IF ForwardSentinel(w) THEN One(m, Sentinel) ELSE 0
<1>0. \A m : Times(m, Out) \in Nat
  BY OutTimes
<1>1. CASE PutSource(w)
  <2>1. file[w] \in Messages
    BY DEF Types
  <2>. QED
    BY <1>1, <2>1, OutAfterPut DEF PutSource
<1>2. CASE ForwardSentinel(w)
  <2>1. ~PutSource(w)
    BY <1>2 DEF ForwardSentinel, PutSource
  <2>2. Sentinel \in Messages
    BY DEF Messages
  <2>. QED
    BY <1>2, <2>1, <2>2, OutAfterPut DEF ForwardSentinel
<1>3. CASE ~PutSource(w) /\ ~ForwardSentinel(w)
  <2>1. UNCHANGED <<delivered, output>>
    BY <1>3 DEF Work, CreateProducer, GetFile, GetThrows, NoteSentinel, CountFile,
                SkipFile, CompleteFile, PutThrows, downstream
  <2>2. Out' = Out
    BY <2>1 DEF Out
  <2>. QED
    BY <1>0, <1>3, <2>2
<1>. QED
  BY <1>1, <1>2, <1>3

LEMMA OutAfterAround ==
  Types /\ (Around \/ \E m \in Messages : Provide(m)) => Out' = Out
<1>1. CASE Deliver
  BY <1>1, OutAfterDeliver
<1>2. CASE ~Deliver
  BY <1>2 DEF Around, CloseInput, FlushMetrics, Stop, Provide, vars, downstream, Out
<1>. QED
  BY <1>1, <1>2

LEMMA ForwardedKept ==
  Marker /\ [Next]_vars => Forwarded'
<1>. SUFFICES ASSUME Marker, [Next]_vars
              PROVE  Forwarded'
  OBVIOUS
<1>. USE DEF phase
<1>. DEFINE times == Times(Sentinel, Out) + Cardinality(Forwarders)
<1>0. /\ Cardinality(Forwarders) \in Nat /\ Forwarders \subseteq Workers
      /\ Times(Sentinel, Out) \in Nat /\ pre_sentinel_work_count \in Nat
      /\ Types /\ AtWork /\ Tracked /\ MarkerOnce
      /\ times = 0 \/ (times = 1 /\ sentinel_received /\ pre_sentinel_work_count = 0)
  BY FiniteWorkers, OutTimes DEF Forwarders, Types, Marker, Forwarded
<1>1. CASE Around \/ \E m \in Messages : Provide(m)
  <2>1. Out' = Out
    BY <1>0, <1>1, OutAfterAround
  <2>2. UNCHANGED <<Forwarders, sentinel_received, pre_sentinel_work_count>>
    BY <1>1 DEF Around, CloseInput, Deliver, FlushMetrics, Stop, vars, Provide,
                Forwarders
  <2>. QED
    BY <1>0, <2>1, <2>2 DEF Forwarded
<1>2. ASSUME NEW w \in Workers, Work(w)
      PROVE  Forwarded'
  <2>0. Times(Sentinel, Out') = Times(Sentinel, Out) +
          IF PutSource(w) THEN One(Sentinel, file[w])
          ELSE IF ForwardSentinel(w) THEN 1 ELSE 0
    BY <1>0, <1>2, OutAfterWork DEF One
  <2>1. CASE NoteSentinel(w)
    <3>1. ~PutSource(w) /\ ~ForwardSentinel(w)
      BY <2>1 DEF NoteSentinel, PutSource, ForwardSentinel
    <3>2. ~sentinel_received
      <4>1. w \in Noting /\ Noting \subseteq Workers
        BY <2>1 DEF NoteSentinel, Noting
      <4>2. Cardinality(Noting) >= 1 /\ Cardinality(Noting) \in Nat
        BY <4>1, Leaves, FiniteWorkers
      <4>3. Times(Sentinel, input) \in Nat
        BY <1>0, OutTimes
      <4>. QED
        BY <1>0, <4>2, <4>3 DEF MarkerOnce
    <3>3. /\ sentinel_received' /\ UNCHANGED pre_sentinel_work_count
          /\ w \notin Forwarders
          /\ Forwarders' = IF pre_sentinel_work_count = 0 THEN Forwarders \cup {w}
                           ELSE Forwarders
      BY <1>0, <2>1 DEF NoteSentinel, ShouldForward, Goto, Forwarders, Types
    <3>4. times = 0 /\ Times(Sentinel, Out') = Times(Sentinel, Out)
      BY <1>0, <2>0, <3>1, <3>2
    <3>5. CASE pre_sentinel_work_count = 0
      <4>1. Cardinality(Forwarders') = Cardinality(Forwarders) + 1
        BY <1>0, <3>3, <3>5, Joins
      <4>. QED
        BY <1>0, <3>3, <3>4, <3>5, <4>1 DEF Forwarded
    <3>6. CASE pre_sentinel_work_count # 0
      BY <3>3, <3>4, <3>6 DEF Forwarded
    <3>. QED
      BY <3>5, <3>6
  <2>2. CASE CompleteFile(w)
    <3>1. ~PutSource(w) /\ ~ForwardSentinel(w)
      BY <2>2 DEF CompleteFile, PutSource, ForwardSentinel
    <3>2. pre_sentinel_work_count >= 1
      <4>1. w \in Counted /\ Counted \subseteq Workers
        BY <1>0, <2>2 DEF CompleteFile, AtWork, Counted
      <4>2. Cardinality(Counted) >= 1 /\ Cardinality(Counted) \in Nat
        BY <4>1, Leaves, FiniteWorkers
      <4>. QED
        BY <1>0, <4>2 DEF Tracked
    <3>3. times = 0
      BY <1>0, <3>2
    <3>4. /\ UNCHANGED sentinel_received
          /\ pre_sentinel_work_count' = pre_sentinel_work_count - 1
          /\ w \notin Forwarders
          /\ Forwarders' = IF LastOfPhase THEN Forwarders \cup {w} ELSE Forwarders
      BY <1>0, <2>2 DEF CompleteFile, Goto, Forwarders, Types
    <3>5. CASE LastOfPhase
      <4>1. sentinel_received' /\ pre_sentinel_work_count' = 0
        BY <1>0, <3>4, <3>5 DEF LastOfPhase
      <4>2. Cardinality(Forwarders') = Cardinality(Forwarders) + 1
        BY <1>0, <3>4, <3>5, Joins
      <4>. QED
        BY <1>0, <2>0, <3>1, <3>3, <4>1, <4>2 DEF Forwarded
    <3>6. CASE ~LastOfPhase
      BY <1>0, <2>0, <3>1, <3>3, <3>4, <3>6 DEF Forwarded
    <3>. QED
      BY <3>5, <3>6
  <2>3. CASE ForwardSentinel(w)
    <3>1. ~PutSource(w) /\ UNCHANGED <<sentinel_received, pre_sentinel_work_count>>
      BY <2>3 DEF ForwardSentinel, PutSource
    <3>2. w \in Forwarders /\ Forwarders' = Forwarders \ {w}
      BY <1>0, <2>3 DEF ForwardSentinel, Goto, Forwarders, Types
    <3>3. /\ Cardinality(Forwarders') = Cardinality(Forwarders) - 1
          /\ Cardinality(Forwarders) >= 1
      BY <1>0, <3>2, Leaves
    <3>4. Times(Sentinel, Out') = Times(Sentinel, Out) + 1
      BY <2>0, <2>3, <3>1
    <3>5. Times(Sentinel, Out') + Cardinality(Forwarders') = times /\ times # 0
      BY <1>0, <3>3, <3>4
    <3>. QED
      BY <1>0, <3>1, <3>5 DEF Forwarded
  <2>4. CASE PutThrows(w)
    <3>1. ~PutSource(w) /\ ~ForwardSentinel(w)
          /\ UNCHANGED <<sentinel_received, pre_sentinel_work_count>>
      <4>1. Len(output) = Capacity /\ Capacity \in Nat
        BY <2>4, CapacityAssumption DEF PutThrows
      <4>2. ~(Len(output) < Capacity)
        BY <4>1
      <4>3. ~PutSource(w) /\ ~ForwardSentinel(w)
        BY <4>2, Zenon DEF PutSource, ForwardSentinel, Put
      <4>4. UNCHANGED <<sentinel_received, pre_sentinel_work_count>>
        BY <2>4 DEF PutThrows
      <4>. QED
        BY <4>3, <4>4
    <3>2. Forwarders' = Forwarders \ {w}
      BY <1>0, <2>4 DEF PutThrows, Leave, Goto, Forwarders, Types
    <3>3. CASE w \in Forwarders
      <4>1. Cardinality(Forwarders') = Cardinality(Forwarders) - 1
        BY <1>0, <3>2, <3>3, Leaves
      <4>2. Cardinality(Forwarders') \in Nat
        BY <1>0, <3>2, FiniteWorkers
      <4>. QED
        BY <1>0, <2>0, <3>1, <4>1, <4>2 DEF Forwarded
    <3>4. CASE w \notin Forwarders
      <4>1. Forwarders' = Forwarders
        BY <3>2, <3>4
      <4>. QED
        BY <1>0, <2>0, <3>1, <4>1 DEF Forwarded
    <3>. QED
      BY <3>3, <3>4
  <2>5. CASE CountFile(w)
    <3>1. ~PutSource(w) /\ ~ForwardSentinel(w)
      BY <2>5 DEF CountFile, PutSource, ForwardSentinel
    <3>2. UNCHANGED <<Forwarders, sentinel_received>>
      BY <1>0, <2>5 DEF CountFile, Goto, Forwarders, Types
    <3>3. sentinel_received => UNCHANGED pre_sentinel_work_count
      BY <1>0, <2>5 DEF CountFile
    <3>. QED
      BY <1>0, <2>0, <3>1, <3>2, <3>3 DEF Forwarded
  <2>6. CASE PutSource(w) \/ SkipFile(w) \/ GetFile(w) \/ Passes(w)
    <3>1. Times(Sentinel, Out') = Times(Sentinel, Out)
      <4>1. PutSource(w) => file[w] # Sentinel
        BY <1>0, FilesAssumption DEF PutSource, AtWork
      <4>2. ~ForwardSentinel(w)
        BY <2>6 DEF PutSource, SkipFile, GetFile, Passes, CreateProducer, GetThrows,
                    ForwardSentinel
      <4>3. CASE PutSource(w)
        BY <1>0, <2>0, <4>1, <4>3 DEF One
      <4>4. CASE ~PutSource(w)
        BY <1>0, <2>0, <4>2, <4>4
      <4>. QED
        BY <4>3, <4>4
    <3>2. UNCHANGED <<sentinel_received, pre_sentinel_work_count>>
      BY <2>6 DEF PutSource, SkipFile, GetFile, Passes, CreateProducer, GetThrows
    <3>3. Forwarders' = Forwarders
      <4>1. CASE PutSource(w) \/ SkipFile(w)
        BY <1>0, <4>1 DEF PutSource, SkipFile, AfterFile, Goto, Forwarders, Types
      <4>2. CASE GetFile(w) \/ Passes(w)
        BY <1>0, <4>2 DEF GetFile, Passes, CreateProducer, GetThrows, Leave, Goto,
                          Forwarders, Types
      <4>. QED
        BY <2>6, <4>1, <4>2
    <3>. QED
      BY <1>0, <3>1, <3>2, <3>3 DEF Forwarded
  <2>. QED
    BY <1>2, <2>1, <2>2, <2>3, <2>4, <2>5, <2>6 DEF Work, Passes
<1>. QED
  BY <1>1, <1>2 DEF Next, Around, Messages

LEMMA InitMarker == Init => Marker
<1>. SUFFICES ASSUME Init
              PROVE  Marker
  OBVIOUS
<1>1. Types /\ AtWork
  BY EmptySeq DEF Init, Types, AtWork, Messages, Places
<1>2. Noting = {} /\ Forwarders = {} /\ Counted = {} /\ Range(sent) = {}
  <2>1. \A w \in Workers : pc[w] = "enqueued"
    BY DEF Init
  <2>2. Noting = {} /\ Forwarders = {} /\ Counted = {}
    BY <2>1 DEF Noting, Forwarders, Counted
  <2>3. sent = <<>> /\ DOMAIN <<>> = {}
    BY DEF Init
  <2>4. Range(sent) = {}
    BY <2>3 DEF Range
  <2>. QED
    BY <2>2, <2>4
<1>3. Cardinality({}) = 0
  BY FS_EmptySet
<1>4. Out = <<>> /\ input = <<>>
  BY DEF Init, Out
<1>. QED
  BY <1>1, <1>2, <1>3, <1>4, TimesEmpty
  DEF Init, Marker, MarkerOnce, Tracked, Forwarded

LEMMA StepMarker == Marker /\ [Next]_vars => Marker'
<1>. SUFFICES ASSUME Marker, [Next]_vars
              PROVE  Marker'
  OBVIOUS
<1>1. Types'
  <2>1. CASE \E m \in Messages : Provide(m)
    BY <2>1, ProvideTypes DEF Marker
  <2>2. CASE Around
    BY <2>2, AroundTypes DEF Marker
  <2>3. CASE \E w \in Workers : Work(w)
    BY <2>3, WorkTypes DEF Marker
  <2>. QED
    BY <2>1, <2>2, <2>3 DEF Next, Around, Messages
<1>. QED
  BY <1>1, AtWorkKept, MarkerOnceKept, TrackedKept, ForwardedKept DEF Marker

THEOREM MarkerInvariant == Spec => []Marker
BY InitMarker, StepMarker, PTL DEF Spec

(* For any number of workers, in any interleaving and however a stop cuts  *)
(* Puts short, the marker is forwarded at most once, and only after every  *)
(* file counted before it has been dealt with (Worker in                   *)
(* chunk_source_loader.cc).                                                *)
THEOREM MarkerForwardedOnceWhenDue == Spec => []ForwardedOnceWhenDue
<1>1. Marker => ForwardedOnceWhenDue
  <2>. SUFFICES ASSUME Marker
                PROVE  ForwardedOnceWhenDue
    OBVIOUS
  <2>1. pre_sentinel_work_count = 0 => Counted = {}
    <3>1. IsFiniteSet(Counted) /\ Cardinality(Counted) \in Nat
      BY FiniteWorkers DEF Counted
    <3>2. pre_sentinel_work_count = 0 => Cardinality(Counted) = 0
      BY <3>1 DEF Marker, Tracked
    <3>. QED
      BY <3>1, <3>2, FS_EmptySet
  <2>2. Times(Sentinel, Out) \in Nat /\ Cardinality(Forwarders) \in Nat
    BY OutTimes, FiniteWorkers DEF Marker, Forwarders
  <2>. QED
    BY <2>1, <2>2 DEF Marker, Forwarded, ForwardedOnceWhenDue
<1>. QED
  BY <1>1, MarkerInvariant, PTL

-----------------------------------------------------------------------------
(* The files.                                                              *)

LEMMA PlaceTypes ==
  Types => \A f : /\ Place(f) \in Nat /\ Times(f, Out) \in Nat
                 /\ Times(f, input) \in Nat /\ Cardinality(Holders(f)) \in Nat
                 /\ Holders(f) \subseteq Workers
<1>1. \A f : Holders(f) \subseteq Workers
  BY DEF Holders
<1>2. \A f : Cardinality(Holders(f)) \in Nat
  BY <1>1, FiniteWorkers
<1>. QED
  BY <1>1, <1>2, OutTimes DEF Place

(* A worker is done with its file.                                         *)
Finishes(w) ==
  pc[w] = "loading" /\ (SkipFile(w) \/ PutSource(w) \/ PutThrows(w))

LEMMA PlaceAfterWork ==
  ASSUME Types, AtWork, NEW w \in Workers, Work(w), NEW f \in Files
  PROVE  Place(f)' = Place(f) - IF Finishes(w) THEN One(f, file[w]) ELSE 0
<1>0. /\ Times(f, input) \in Nat /\ Cardinality(Holders(f)) \in Nat
      /\ Holders(f) \subseteq Workers
  BY PlaceTypes
<1>1. CASE GetFile(w)
  <2>1. /\ input \in Seq(Messages) /\ input # <<>> /\ input' = Tail(input)
        /\ w \notin Holders(f) /\ ~Finishes(w)
    BY <1>1 DEF GetFile, Types, Holders, Finishes
  <2>2. Times(f, input) = Times(f, input') + One(f, Head(input))
    BY <2>1, TimesTail
  <2>3. Holders(f)' = IF Head(input) = f THEN Holders(f) \cup {w} ELSE Holders(f)
    BY <1>1, FilesAssumption DEF GetFile, Goto, Types, Holders
  <2>4. Times(f, input') \in Nat
    BY <2>1, HeadTailProperties, AtFinite
  <2>5. CASE Head(input) = f
    <3>1. Cardinality(Holders(f)') = Cardinality(Holders(f)) + 1
      BY <1>0, <2>1, <2>3, <2>5, Joins
    <3>. QED
      BY <1>0, <2>1, <2>2, <2>4, <2>5, <3>1 DEF Place, One
  <2>6. CASE Head(input) # f
    BY <1>0, <2>1, <2>2, <2>3, <2>4, <2>6 DEF Place, One
  <2>. QED
    BY <2>5, <2>6
<1>2. CASE Finishes(w)
  <2>1. UNCHANGED <<input, file>> /\ pc' \in [Workers -> Places]
        /\ pc'[w] \in {"completing", "getting", "exited"}
        /\ \A v \in Workers \ {w} : pc'[v] = pc[v]
    <3>1. CASE SkipFile(w) \/ PutSource(w)
      BY <3>1 DEF SkipFile, PutSource, AfterFile, Goto, Types, Places
    <3>2. CASE PutThrows(w)
      BY <3>2 DEF PutThrows, Leave, Goto, Types, Places
    <3>. QED
      BY <1>2, <3>1, <3>2 DEF Finishes
  <2>2. Holders(f)' = Holders(f) \ {w}
    BY <2>1 DEF Holders
  <2>3. w \in Holders(f) <=> file[w] = f
    BY <1>2 DEF Finishes, Holders
  <2>4. CASE file[w] = f
    <3>1. Cardinality(Holders(f)') = Cardinality(Holders(f)) - 1
      BY <1>0, <2>2, <2>3, <2>4, Leaves
    <3>2. Times(f, input') = Times(f, input)
      BY <2>1
    <3>. QED
      BY <1>0, <1>2, <2>4, <3>1, <3>2 DEF Place, One
  <2>5. CASE file[w] # f
    <3>1. Holders(f)' = Holders(f)
      BY <2>2, <2>3, <2>5
    <3>2. Times(f, input') = Times(f, input)
      BY <2>1
    <3>. QED
      BY <1>0, <1>2, <2>5, <3>1, <3>2 DEF Place, One
  <2>. QED
    BY <2>4, <2>5
<1>3. CASE ~GetFile(w) /\ ~Finishes(w)
  <2>1. UNCHANGED <<input, file>>
    BY <1>3 DEF Work, CreateProducer, GetThrows, NoteSentinel, CountFile,
                SkipFile, PutSource, CompleteFile, ForwardSentinel, PutThrows
  <2>2. Holders(f)' = Holders(f)
    <3>1. CASE CountFile(w)
      BY <3>1 DEF CountFile, Goto, Types, Holders
    <3>2. CASE ~CountFile(w)
      <4>1. /\ pc[w] \notin {"counting", "loading"}
            /\ pc'[w] \notin {"counting", "loading"}
            /\ \A v \in Workers \ {w} : pc'[v] = pc[v]
        <5>1. CASE CreateProducer(w) \/ NoteSentinel(w) \/ CompleteFile(w)
          BY <5>1 DEF CreateProducer, NoteSentinel, CompleteFile, Goto, Types
        <5>2. CASE GetThrows(w) \/ ForwardSentinel(w)
          BY <5>2 DEF GetThrows, ForwardSentinel, Leave, Goto, Types
        <5>3. CASE SkipFile(w) \/ PutSource(w)
          BY <1>3, <5>3 DEF Finishes, SkipFile, PutSource
        <5>4. CASE PutThrows(w)
          <6>1. pc[w] \in {"forwarding", "handing over"}
            BY <1>3, <5>4 DEF Finishes, PutThrows
          <6>. QED
            BY <5>4, <6>1 DEF PutThrows, Leave, Goto, Types
        <5>. QED
          BY <1>3, <3>2, <5>1, <5>2, <5>3, <5>4 DEF Work
      <4>. QED
        BY <2>1, <4>1 DEF Holders
    <3>. QED
      BY <3>1, <3>2
  <2>. QED
    BY <1>0, <1>3, <2>1, <2>2 DEF Place
<1>. QED
  BY <1>1, <1>2, <1>3

LEMMA PlaceAfterAround ==
  Types /\ Around => /\ Out' = Out /\ Range(sent)' = Range(sent)
                     /\ \A f : Place(f)' = Place(f) /\ Sent(f)' = Sent(f)
<1>. SUFFICES ASSUME Types, Around
              PROVE  /\ Out' = Out /\ Range(sent)' = Range(sent)
                     /\ \A f : Place(f)' = Place(f) /\ Sent(f)' = Sent(f)
  OBVIOUS
<1>1. UNCHANGED <<sent, input, pc, file>>
  BY DEF Around, CloseInput, Deliver, FlushMetrics, Stop, vars, upstream
<1>. QED
  BY <1>1, OutAfterAround DEF Place, Holders, Sent

LEMMA PlaceAfterProvide ==
  ASSUME Types, NEW m \in Messages, Provide(m)
  PROVE  /\ Out' = Out /\ Range(sent)' = Range(sent) \cup {m}
         /\ m \notin Range(sent)
         /\ \A f : /\ Place(f)' = Place(f) + One(f, m)
                   /\ Sent(f)' = Sent(f) + One(f, m)
<1>1. /\ Out' = Out /\ Range(sent') = Range(sent) \cup {m} /\ m \notin Range(sent)
      /\ UNCHANGED <<pc, file>>
  BY OutAfterAround, RangeAppend DEF Provide, Types
<1>2. \A f : Times(f, input') = Times(f, input) + One(f, m)
  BY TimesAppend DEF Provide, Types
<1>3. \A f : Holders(f)' = Holders(f)
  BY <1>1 DEF Holders
<1>4. \A f : Place(f)' = Place(f) + One(f, m)
  BY <1>2, <1>3, PlaceTypes DEF Place, One
<1>5. \A f : Sent(f)' = Sent(f) + One(f, m)
  BY <1>1 DEF Sent, One
<1>. QED
  BY <1>1, <1>4, <1>5

LEMMA PlacedKept == Conserved /\ [Next]_vars => Placed'
<1>. SUFFICES ASSUME Conserved, [Next]_vars, NEW f \in Files
              PROVE  /\ Place(f)' + Times(f, Out') =< Sent(f)'
                     /\ ~stop_requested' /\ f \notin Unsupported =>
                          Place(f)' + Times(f, Out') = Sent(f)'
  BY DEF Placed
<1>0. /\ Types /\ AtWork /\ Place(f) \in Nat /\ Times(f, Out) \in Nat
      /\ Sent(f) \in Nat
      /\ Place(f) + Times(f, Out) =< Sent(f)
      /\ ~stop_requested /\ f \notin Unsupported =>
           Place(f) + Times(f, Out) = Sent(f)
  BY PlaceTypes DEF Conserved, Marker, Placed, Sent
<1>1. ASSUME NEW m \in Messages, Provide(m)
      PROVE  /\ Place(f)' + Times(f, Out') =< Sent(f)'
             /\ ~stop_requested' /\ f \notin Unsupported =>
                  Place(f)' + Times(f, Out') = Sent(f)'
  <2>1. /\ Out' = Out /\ Place(f)' = Place(f) + One(f, m)
        /\ Sent(f)' = Sent(f) + One(f, m)
    BY <1>0, <1>1, PlaceAfterProvide
  <2>2. stop_requested' = stop_requested /\ One(f, m) \in Nat
    BY <1>1 DEF Provide, One
  <2>. QED
    BY <1>0, <2>1, <2>2
<1>2. CASE Around
  <2>1. Out' = Out /\ Place(f)' = Place(f) /\ Sent(f)' = Sent(f)
    BY <1>0, <1>2, PlaceAfterAround
  <2>2. stop_requested => stop_requested'
    BY <1>2 DEF Around, CloseInput, Deliver, FlushMetrics, Stop, vars
  <2>. QED
    BY <1>0, <2>1, <2>2
<1>3. ASSUME NEW w \in Workers, Work(w)
      PROVE  /\ Place(f)' + Times(f, Out') =< Sent(f)'
             /\ ~stop_requested' /\ f \notin Unsupported =>
                  Place(f)' + Times(f, Out') = Sent(f)'
  <2>1. Place(f)' = Place(f) - IF Finishes(w) THEN One(f, file[w]) ELSE 0
    BY <1>0, <1>3, PlaceAfterWork
  <2>2. Times(f, Out') = Times(f, Out) + IF PutSource(w) THEN One(f, file[w]) ELSE 0
    <3>1. One(f, Sentinel) = 0
      BY FilesAssumption DEF One
    <3>. QED
      BY <1>0, <1>3, <3>1, OutAfterWork
  <2>3. UNCHANGED <<sent, stop_requested>>
    BY <1>3 DEF Work, CreateProducer, GetFile, GetThrows, NoteSentinel, CountFile,
                SkipFile, PutSource, CompleteFile, ForwardSentinel, PutThrows,
                upstream
  <2>4. Sent(f)' = Sent(f)
    BY <2>3 DEF Sent
  <2>5. PutSource(w) => Finishes(w)
    BY DEF PutSource, Finishes
  <2>6. Finishes(w) /\ ~PutSource(w) /\ file[w] = f =>
          f \in Unsupported \/ stop_requested
    BY DEF Finishes, SkipFile, PutThrows
  <2>7. One(f, file[w]) = IF file[w] = f THEN 1 ELSE 0
    BY DEF One
  <2>8. CASE PutSource(w)
    BY <1>0, <2>1, <2>2, <2>3, <2>4, <2>5, <2>7, <2>8
  <2>9. CASE ~PutSource(w)
    BY <1>0, <2>1, <2>2, <2>3, <2>4, <2>6, <2>7, <2>9
  <2>. QED
    BY <2>8, <2>9
<1>. QED
  BY <1>1, <1>2, <1>3 DEF Next, Around, Messages

LEMMA SkippedKept == Conserved /\ [Next]_vars => Skipped'
<1>. SUFFICES ASSUME Conserved, [Next]_vars
              PROVE  Skipped'
  OBVIOUS
<1>0. /\ Types /\ AtWork /\ Placed /\ Skipped
      /\ skipped_files_count \in Nat /\ flushed \in Nat
      /\ IsFiniteSet(Passed) /\ Cardinality(Passed) \in Nat
      /\ \A f : Place(f) \in Nat /\ Times(f, Out) \in Nat
  <2>1. Types
    BY DEF Conserved, Marker
  <2>2. Passed \subseteq Range(sent)
    BY DEF Passed
  <2>3. IsFiniteSet(Range(sent))
    BY <2>1, RangeFinite DEF Types
  <2>4. IsFiniteSet(Passed)
    BY <2>2, <2>3, FS_Subset
  <2>. QED
    BY <2>1, <2>4, PlaceTypes, FS_CardinalityType DEF Conserved, Marker, Types
<1>1. ASSUME NEW m \in Messages, Provide(m)
      PROVE  Skipped'
  <2>1. /\ Range(sent)' = Range(sent) \cup {m} /\ m \notin Range(sent)
        /\ \A f : Place(f)' = Place(f) + One(f, m)
    BY <1>0, <1>1, PlaceAfterProvide
  <2>2. Place(m)' # 0 /\ \A f : f # m => Place(f)' = Place(f)
    BY <1>0, <2>1 DEF One
  <2>3. Passed' = Passed
    BY <2>1, <2>2 DEF Passed
  <2>4. UNCHANGED <<skipped_files_count, flushed>>
    BY <1>1 DEF Provide, skips
  <2>. QED
    BY <1>0, <2>3, <2>4 DEF Skipped
<1>2. CASE Around
  <2>1. Passed' = Passed
    BY <1>0, <1>2, PlaceAfterAround DEF Passed
  <2>2. skipped_files_count' + flushed' = skipped_files_count + flushed
    <3>1. CASE FlushMetrics
      BY <1>0, <3>1 DEF FlushMetrics
    <3>2. CASE ~FlushMetrics
      BY <1>2, <3>2 DEF Around, CloseInput, Deliver, Stop, vars, skips
    <3>. QED
      BY <3>1, <3>2
  <2>. QED
    BY <1>0, <2>1, <2>2 DEF Skipped
<1>3. ASSUME NEW w \in Workers, Work(w)
      PROVE  Skipped'
  <2>1. \A f \in Files :
          Place(f)' = Place(f) - IF Finishes(w) THEN One(f, file[w]) ELSE 0
    BY <1>0, <1>3, PlaceAfterWork
  <2>2. Range(sent)' = Range(sent) /\ flushed' = flushed
    BY <1>3 DEF Work, CreateProducer, GetFile, GetThrows, NoteSentinel, CountFile,
                SkipFile, PutSource, CompleteFile, ForwardSentinel, PutThrows,
                upstream, skips
  <2>3. CASE SkipFile(w)
    <3>1. /\ Finishes(w) /\ file[w] \in Unsupported /\ file[w] \in Files
          /\ w \in Holders(file[w])
          /\ skipped_files_count' = skipped_files_count + 1
      BY <2>3, FilesAssumption DEF SkipFile, Finishes, Holders
    <3>2. Place(file[w]) >= 1
      <4>1. Cardinality(Holders(file[w])) >= 1
        BY <1>0, <3>1, PlaceTypes, Leaves
      <4>. QED
        BY <1>0, <4>1, PlaceTypes DEF Place
    <3>3. Place(file[w]) = 1 /\ file[w] \in Range(sent)
      <4>1. Place(file[w]) + Times(file[w], Out) =< Sent(file[w])
        BY <1>0, <3>1 DEF Placed
      <4>. QED
        BY <1>0, <3>2, <4>1 DEF Sent
    <3>4. \A f \in Unsupported : Place(f)' = IF f = file[w] THEN 0 ELSE Place(f)
      BY <1>0, <2>1, <3>1, <3>3, FilesAssumption DEF One
    <3>5. Passed' = Passed \cup {file[w]} /\ file[w] \notin Passed
      BY <2>2, <3>1, <3>3, <3>4 DEF Passed
    <3>6. Cardinality(Passed') = Cardinality(Passed) + 1
      BY <1>0, <3>5, FS_AddElement
    <3>. QED
      BY <1>0, <2>2, <3>1, <3>6 DEF Skipped
  <2>4. CASE ~SkipFile(w)
    <3>1. Finishes(w) => file[w] \notin Unsupported
      BY <2>4 DEF Finishes, PutSource, PutThrows
    <3>2. \A f \in Unsupported : Place(f)' = Place(f)
      BY <1>0, <2>1, <3>1, FilesAssumption DEF One
    <3>3. Passed' = Passed
      BY <2>2, <3>2 DEF Passed
    <3>4. skipped_files_count' = skipped_files_count
      BY <1>3, <2>4 DEF Work, CreateProducer, GetFile, GetThrows, NoteSentinel,
                        CountFile, PutSource, CompleteFile, ForwardSentinel,
                        PutThrows, skips
    <3>. QED
      BY <1>0, <2>2, <3>3, <3>4 DEF Skipped
  <2>. QED
    BY <2>3, <2>4
<1>. QED
  BY <1>1, <1>2, <1>3 DEF Next, Around, Messages

THEOREM ConservedInvariant == Spec => []Conserved
<1>1. Init => Conserved
  <2>. SUFFICES ASSUME Init
                PROVE  Placed /\ Skipped
    BY InitMarker DEF Conserved
  <2>1. \A f : Holders(f) = {}
    BY DEF Init, Holders
  <2>2. Range(sent) = {}
    <3>1. sent = <<>> /\ DOMAIN <<>> = {}
      BY DEF Init
    <3>. QED
      BY <3>1 DEF Range
  <2>3. input = <<>> /\ Out = <<>> /\ skipped_files_count = 0 /\ flushed = 0
    BY DEF Init, Out
  <2>4. \A f : Place(f) = 0 /\ Times(f, Out) = 0 /\ Sent(f) = 0
    BY <2>1, <2>2, <2>3, TimesEmpty, FS_EmptySet DEF Place, Sent
  <2>5. Passed = {} /\ Cardinality({}) = 0
    BY <2>2, FS_EmptySet DEF Passed
  <2>. QED
    BY <2>3, <2>4, <2>5 DEF Placed, Skipped
<1>2. Conserved /\ [Next]_vars => Conserved'
  BY StepMarker, PlacedKept, SkippedKept DEF Conserved
<1>. QED
  BY <1>1, <1>2, PTL DEF Spec

(* For any number of workers and files, in any interleaving: until a stop  *)
(* no file is lost, put twice or left out of the count of the skipped ones *)
(* (Worker and FlushMetrics in chunk_source_loader.cc).                    *)
THEOREM EveryFileConserved == Spec => []FilesConserved
<1>1. Conserved => FilesConserved
  <2>. SUFFICES ASSUME Conserved
                PROVE  FilesConserved
    OBVIOUS
  <2>1. Range(sent) \subseteq Messages
    BY RangeFinite DEF Conserved, Marker, Types
  <2>2. ASSUME ~stop_requested, NEW f \in Range(sent) \ (Unsupported \cup {Sentinel})
        PROVE  Times(f, input) + Cardinality(Holders(f)) + Times(f, Out) = 1
    BY <2>1, <2>2 DEF Conserved, Placed, Place, Sent, Messages
  <2>3. skipped_files_count + flushed =
          Cardinality({f \in Range(sent) \cap Unsupported :
                         Times(f, input) + Cardinality(Holders(f)) = 0})
    BY DEF Conserved, Skipped, Passed, Place
  <2>. QED
    BY <2>2, <2>3 DEF FilesConserved
<1>. QED
  BY <1>1, ConservedInvariant, PTL

-----------------------------------------------------------------------------
(* FilePathProvider: the invariant.                                        *)

(* The places in a sequence of events where x, a name and a version, is    *)
(* named in one of the given ways.                                         *)
Of(kinds, x, s) == {i \in DOMAIN s : s[i].kind \in kinds /\ <<s[i].name, s[i].version>> = x}
Creates(d, s) == Of({"create dir"}, <<d, 0>>, s)
Closes(p, s) == Of({"close", "moved to"}, p, s)

AnyName == DirFiles \cup Directories
AnyPair == AnyName \X Nat
FilePair == DirFiles \X Nat
AnyEvent == [kind : {"close"}, wd : Nat, name : DirFiles, version : Nat] \cup
            [kind : {"moved to"}, wd : Nat, name : AnyName, version : Nat] \cup
            [kind : {"create dir", "delete dir", "delete self"}, wd : Nat,
             name : Directories, version : {0}] \cup
            {Overflow}
AnyFrame == [dir : AllDirectories, phase : {"watch", "list", "reconcile", "subdirs"},
             known : SUBSET DirFiles, batch : SUBSET FilePair, fresh : SUBSET AnyPair,
             subdirs : SUBSET Directories]

ProviderTypes ==
  /\ parent \in Parents
  /\ exists \subseteq AllDirectories /\ Root \in exists
  /\ content \in [DirFiles -> {"none", "open", "closed", "gone"}] /\ changes \in Nat
  /\ version \in [DirFiles -> Nat]
  /\ kernel \in [AllDirectories -> Nat] /\ next_wd \in Nat \ {0}
  /\ events \in Seq(AnyEvent) /\ unhandled \in Seq(AnyEvent)
  /\ watch_descriptors \subseteq (Nat \ {0}) \X AllDirectories
  /\ stack \in Seq(AnyFrame)
  /\ batch \subseteq AnyPair
  /\ status \in {"scanning", "waiting", "handling", "dead", "aborted"}
  /\ scan_complete \in BOOLEAN
  /\ reported \subseteq AnyPair /\ again \subseteq AnyPair
  /\ missed \subseteq Directories /\ removed \subseteq Directories
  /\ lost \subseteq AnyPair /\ initial \subseteq DirFiles /\ overflowed \in BOOLEAN

(* Only the top call is not waiting for another, and the stages of the     *)
(* worker.                                                                 *)
Calls ==
  /\ \A i \in DOMAIN stack :
       /\ i # Len(stack) => stack[i].phase = "subdirs"
       /\ stack[i].phase \in {"watch", "list"} => stack[i].batch = {} /\ stack[i].subdirs = {}
       /\ stack[i].phase # "reconcile" => stack[i].known = {} /\ stack[i].fresh = {}
       /\ stack[i].phase = "reconcile" => Names(stack[i].batch) \subseteq stack[i].known
       /\ \A f \in stack[i].known : DirectoryOf[f] = stack[i].dir
       /\ \A p \in stack[i].batch : DirectoryOf[p[1]] = stack[i].dir
       /\ \A d \in stack[i].subdirs : parent[d] = stack[i].dir
  /\ status = "scanning" =>
       stack # <<>> /\ stack[1].dir = Root /\ unhandled = <<>> /\ batch = {} /\ ~scan_complete
  /\ status = "waiting" => stack = <<>> /\ unhandled = <<>> /\ batch = {}
  /\ status \in {"waiting", "handling"} => scan_complete

Waiting == ToSet(events) \cup ToSet(unhandled)

(* Descriptors belong to one directory, once and for all.                  *)
DescriptorsStand ==
  /\ \A p \in watch_descriptors : p[1] < next_wd
  /\ \A d \in AllDirectories : kernel[d] < next_wd
  /\ \A d \in AllDirectories : \A p \in watch_descriptors : p[1] = kernel[d] => p[2] = d
  /\ \A d, e \in AllDirectories : kernel[d] # 0 /\ kernel[d] = kernel[e] => d = e
  /\ \A e \in Waiting : e.kind \in {"delete dir", "delete self"} => e.name \in removed
  /\ \A e \in Waiting : e.kind = "delete self" =>
       /\ e.wd < next_wd /\ \A d \in AllDirectories : kernel[d] # 0 => kernel[d] # e.wd
       /\ \A p \in watch_descriptors : p[1] = e.wd => p[2] = e.name

(* Without a removal nothing that the worker relies on is missing, except  *)
(* the watch of an overflow.                                               *)
NothingMissing ==
  removed = {} =>
    /\ status # "aborted" /\ (status = "dead" => overflowed)
    /\ \A e \in Waiting : /\ IF e = Overflow THEN overflowed ELSE Watched(e.wd)
                          /\ e.kind = "create dir" => e.name \in exists
    /\ \A d \in AllDirectories : kernel[d] # 0 => Watched(kernel[d])
    /\ \A i \in DOMAIN stack : stack[i].dir \in exists /\ stack[i].subdirs \subseteq exists

Clean(d) == Path(d) \cap (missed \cup removed) = {}
Framed(d) == \E i \in DOMAIN stack : stack[i].dir = d
BeingListed(d) == \E i \in DOMAIN stack : stack[i].dir = d /\ stack[i].phase = "list"
Listed(d) == \E i \in DOMAIN stack : d \in stack[i].subdirs
Awaited(d) == Creates(d, events) # {} \/ Creates(d, unhandled) # {} \/ Listed(d)

(* A directory is awaited, then scanned, then watched.                     *)
Scanned(d) ==
  /\ \A i \in DOMAIN stack : stack[i].dir = d =>
       d \in exists /\ (kernel[d] = 0 <=> stack[i].phase = "watch")
  /\ \A i, j \in DOMAIN stack : stack[i].dir = d /\ stack[j].dir = d => i = j
  /\ kernel[d] # 0 => d \in exists
  /\ Awaited(d) => d \in exists /\ kernel[d] = 0 /\ ~Framed(d)
  /\ \A i, j \in Creates(d, events) : i = j
  /\ \A i, j \in Creates(d, unhandled) : i = j
  /\ Creates(d, unhandled) # {} => Creates(d, events) = {} /\ ~Listed(d)
  /\ Creates(d, events) # {} =>
       \A i \in DOMAIN stack : d \in stack[i].subdirs => stack[i].phase = "reconcile"

(* ... and this after the one that it is in.                               *)
ScannedBelow(d) ==
  /\ kernel[parent[d]] = 0 => Creates(d, events) = {}
  /\ kernel[parent[d]] = 0 \/ BeingListed(parent[d]) =>
       kernel[d] = 0 /\ ~Framed(d) /\ Creates(d, unhandled) = {}
  /\ d \in exists /\ kernel[parent[d]] # 0 /\ ~BeingListed(parent[d]) =>
       Awaited(d) \/ Framed(d) \/ kernel[d] # 0

DirectoriesFound ==
  /\ \A d \in exists \ {Root} : parent[d] \in exists
  /\ \A d \in AllDirectories : Clean(d) => Scanned(d)
  /\ \A d \in Directories : Clean(d) => ScannedBelow(d)
  /\ kernel[Root] # 0 \/ Framed(Root)

InKnown(f) == \E i \in DOMAIN stack : f \in stack[i].known
InBatch(p) == \E i \in DOMAIN stack : p \in stack[i].batch
InFresh(p) == \E i \in DOMAIN stack : p \in stack[i].fresh
Kept(f) == \E i \in DOMAIN stack : f \in Names(stack[i].batch)

(* Where what the kernel has told of is, or what was listed.               *)
Found(p) == Closes(p, unhandled) # {} \/ p \in batch \/ InBatch(p) \/ InFresh(p) \/ p \in reported

(* Each version is in one place at a time, unless it was also listed and   *)
(* its event will be passed over.                                          *)
OneWay(p) ==
  /\ \A i, j \in Closes(p, events) : i = j
  /\ \A i, j \in Closes(p, unhandled) : i = j
  /\ Closes(p, events) # {} /\ Found(p) => InKnown(p[1])
  /\ Closes(p, unhandled) # {} => p \notin batch /\ ~InBatch(p) /\ ~InFresh(p) /\ p \notin reported
  /\ p \in batch => ~InBatch(p) /\ ~InFresh(p) /\ p \notin reported
  /\ InBatch(p) => ~InFresh(p) /\ p \notin reported
  /\ InFresh(p) => p \notin reported
  /\ p \notin again

(* Of a file that was listed nothing is found until its directory is       *)
(* reconciled.                                                             *)
VersionsFor(f) == {f} \X Nat
KnownAlone(f) ==
  InKnown(f) => \A p \in VersionsFor(f) :
    /\ Closes(p, unhandled) = {} /\ p \notin batch /\ ~InFresh(p)
    /\ p \in reported => ~Kept(f)

(* The ways of a file, in a directory that others have left alone.         *)
Current(f) == <<f, version[f]>>
UnderWay(p) == Closes(p, events) # {} \/ Found(p)
Followed(f, d) ==
  /\ content[f] # "none" => d \in exists
  /\ content[f] = "closed" /\ kernel[d] # 0 /\ ~BeingListed(d) =>
       UnderWay(Current(f)) \/ Current(f) \in lost \/ (InKnown(f) /\ Kept(f))
  /\ kernel[d] = 0 => \A p \in VersionsFor(f) : Closes(p, events) = {}
  /\ kernel[d] = 0 \/ BeingListed(d) => \A p \in VersionsFor(f) : ~Found(p)
  /\ \A p \in VersionsFor(f) : OneWay(p) /\ (UnderWay(p) => p[2] =< version[f])
  /\ KnownAlone(f)

FilesFollowed == \A f \in DirFiles : Reachable(f) => Followed(f, DirectoryOf[f])

(* The files there were at the start are in directories that no event      *)
(* tells of, and are found where those are listed.                         *)
InitialFollowed ==
  \A f \in initial :
    /\ content[f] \in {"open", "closed"}
    /\ \A d \in Path(DirectoryOf[f]) \ removed :
         d \in exists /\ Creates(d, events) = {} /\ Creates(d, unhandled) = {}
    /\ Reachable(f) /\ kernel[DirectoryOf[f]] # 0 /\ ~BeingListed(DirectoryOf[f]) =>
         Kept(f) \/ \E p \in reported : p[1] = f

InitialReported ==
  scan_complete => \A f \in initial : Reachable(f) => \E p \in reported : p[1] = f

ProviderInv ==
  /\ ProviderTypes /\ Calls /\ DescriptorsStand /\ NothingMissing /\ DirectoriesFound
  /\ FilesFollowed /\ InitialFollowed /\ InitialReported

-----------------------------------------------------------------------------
(* Sequences of events, and the stack.                                     *)

LEMMA OfTail ==
  ASSUME NEW s \in Seq(AnyEvent), s # <<>>, NEW kinds, NEW x
  PROVE  /\ Tail(s) \in Seq(AnyEvent)
         /\ Of(kinds, x, s) = {} => Of(kinds, x, Tail(s)) = {}
         /\ (\A i, j \in Of(kinds, x, s) : i = j) => \A i, j \in Of(kinds, x, Tail(s)) : i = j
         /\ Head(s).kind \in kinds /\ <<Head(s).name, Head(s).version>> = x
              /\ (\A i, j \in Of(kinds, x, s) : i = j) =>
              Of(kinds, x, Tail(s)) = {}
         /\ ~(Head(s).kind \in kinds /\ <<Head(s).name, Head(s).version>> = x) =>
              (Of(kinds, x, s) # {} => Of(kinds, x, Tail(s)) # {})
         /\ Head(s) = s[1] /\ 1 \in DOMAIN s
<1>1. /\ Tail(s) \in Seq(AnyEvent) /\ Len(Tail(s)) = Len(s) - 1
      /\ \A i \in 1 .. Len(s) - 1 : Tail(s)[i] = s[i + 1]
  BY HeadTailProperties
<1>2. /\ Len(s) \in Nat \ {0} /\ DOMAIN s = 1 .. Len(s) /\ DOMAIN Tail(s) = 1 .. Len(s) - 1
      /\ Head(s) = s[1]
  BY <1>1, LenProperties, HeadTailProperties, EmptySeq
<1>3. \A i \in Of(kinds, x, Tail(s)) : i + 1 \in Of(kinds, x, s) /\ i \in Nat /\ i + 1 # 1
  BY <1>1, <1>2 DEF Of
<1>4. \A i \in Of(kinds, x, s) : i # 1 => i - 1 \in Of(kinds, x, Tail(s))
  BY <1>1, <1>2 DEF Of
<1>5. 1 \in Of(kinds, x, s) <=> Head(s).kind \in kinds /\ <<Head(s).name, Head(s).version>> = x
  BY <1>2 DEF Of
<1>6. (\A i, j \in Of(kinds, x, s) : i = j) => \A i, j \in Of(kinds, x, Tail(s)) : i = j
  <2>. SUFFICES ASSUME \A i, j \in Of(kinds, x, s) : i = j,
                       NEW i \in Of(kinds, x, Tail(s)), NEW j \in Of(kinds, x, Tail(s))
                PROVE  i = j
    OBVIOUS
  <2>1. i + 1 = j + 1 /\ i \in Nat /\ j \in Nat
    BY <1>3
  <2>. QED
    BY <2>1
<1>. QED
  BY <1>1, <1>2, <1>3, <1>4, <1>5, <1>6

LEMMA ToSetOf ==
  ASSUME NEW s \in Seq(AnyEvent), NEW t \in Seq(AnyEvent)
  PROVE  /\ ToSet(s) \subseteq AnyEvent
         /\ ToSet(s \o t) = ToSet(s) \cup ToSet(t)
         /\ ToSet(<<>>) = {}
         /\ s # <<>> => Head(s) \in ToSet(s) /\ ToSet(Tail(s)) \subseteq ToSet(s)
<1>1. Len(s) \in Nat /\ Len(t) \in Nat /\ DOMAIN s = 1 .. Len(s) /\ DOMAIN t = 1 .. Len(t)
  BY LenProperties
<1>2. ToSet(s) \subseteq AnyEvent
  BY <1>1, ElementOfSeq DEF ToSet
<1>3. s \o t \in Seq(AnyEvent) /\ Len(s \o t) = Len(s) + Len(t)
      /\ \A i \in 1 .. Len(s) + Len(t) : (s \o t)[i] = IF i <= Len(s) THEN s[i] ELSE t[i - Len(s)]
  BY ConcatProperties
<1>4. DOMAIN (s \o t) = 1 .. Len(s) + Len(t)
  BY <1>3, LenProperties
<1>5. ToSet(s \o t) \subseteq ToSet(s) \cup ToSet(t)
  <2>1. ASSUME NEW i \in 1 .. Len(s) + Len(t)
        PROVE  (s \o t)[i] \in ToSet(s) \cup ToSet(t)
    <3>1. CASE i <= Len(s)
      BY <1>1, <1>3, <3>1 DEF ToSet
    <3>2. CASE ~(i <= Len(s))
      <4>1. i - Len(s) \in DOMAIN t
        BY <1>1, <3>2
      <4>. QED
        BY <1>3, <3>2, <4>1 DEF ToSet
    <3>. QED
      BY <3>1, <3>2
  <2>. QED
    BY <1>4, <2>1 DEF ToSet
<1>6. ASSUME NEW i \in DOMAIN s
      PROVE  s[i] \in ToSet(s \o t)
  <2>1. i \in 1 .. Len(s) + Len(t) /\ i <= Len(s)
    BY <1>1
  <2>2. (s \o t)[i] = s[i] /\ i \in DOMAIN (s \o t)
    BY <1>3, <1>4, <2>1
  <2>. QED
    BY <2>2 DEF ToSet
<1>7. ASSUME NEW i \in DOMAIN t
      PROVE  t[i] \in ToSet(s \o t)
  <2>1. Len(s) + i \in 1 .. Len(s) + Len(t) /\ ~(Len(s) + i <= Len(s)) /\ (Len(s) + i) - Len(s) = i
    BY <1>1
  <2>2. (s \o t)[Len(s) + i] = t[i] /\ Len(s) + i \in DOMAIN (s \o t)
    BY <1>3, <1>4, <2>1
  <2>. QED
    BY <2>2 DEF ToSet
<1>8. ToSet(<<>>) = {}
  BY DEF ToSet
<1>9. ASSUME s # <<>>
      PROVE  Head(s) \in ToSet(s) /\ ToSet(Tail(s)) \subseteq ToSet(s)
  <2>1. /\ Tail(s) \in Seq(AnyEvent) /\ Len(Tail(s)) = Len(s) - 1
        /\ \A i \in 1 .. Len(s) - 1 : Tail(s)[i] = s[i + 1]
    BY <1>9, HeadTailProperties
  <2>2. /\ Len(s) \in Nat \ {0} /\ DOMAIN Tail(s) = 1 .. Len(s) - 1 /\ Head(s) = s[1]
    BY <1>9, <2>1, LenProperties, HeadTailProperties, EmptySeq
  <2>. QED
    BY <1>1, <2>1, <2>2 DEF ToSet
<1>. QED
  BY <1>2, <1>5, <1>6, <1>7, <1>8, <1>9 DEF ToSet
LEMMA OfNone == ASSUME NEW kinds, NEW x PROVE Of(kinds, x, <<>>) = {}
BY DEF Of

LEMMA Below == ASSUME NEW n \in Nat \ {0}, NEW i \in 1 .. n, i # n PROVE i \in 1 .. n - 1
OBVIOUS

LEMMA TopOf ==
  ASSUME NEW S, NEW s \in Seq(S), s # <<>>, NEW frame \in S
  PROVE  /\ Len(s) \in Nat \ {0} /\ DOMAIN s = 1 .. Len(s) /\ Last(s) = s[Len(s)] /\ Last(s) \in S
         /\ Front(s) \in Seq(S) /\ DOMAIN Front(s) = 1 .. Len(s) - 1 /\ Len(Front(s)) = Len(s) - 1
         /\ \A i \in 1 .. Len(s) - 1 : Front(s)[i] = s[i]
         /\ Append(Front(s), frame) \in Seq(S) /\ Len(Append(Front(s), frame)) = Len(s)
         /\ DOMAIN Append(Front(s), frame) = 1 .. Len(s)
         /\ \A i \in 1 .. Len(s) :
              Append(Front(s), frame)[i] = IF i = Len(s) THEN frame ELSE s[i]
<1>1. Len(s) \in Nat \ {0} /\ DOMAIN s = 1 .. Len(s)
  BY LenProperties, EmptySeq
<1>2. Last(s) = s[Len(s)] /\ Last(s) \in S
  BY <1>1, ElementOfSeq DEF Last
<1>3. /\ Front(s) \in Seq(S) /\ Len(Front(s)) = Len(s) - 1
      /\ \A i \in 1 .. Len(s) - 1 : Front(s)[i] = s[i]
  BY <1>1, SubSeqProperties DEF Front
<1>4. /\ Append(Front(s), frame) \in Seq(S) /\ Len(Append(Front(s), frame)) = Len(Front(s)) + 1
      /\ \A i \in 1 .. Len(Front(s)) : Append(Front(s), frame)[i] = Front(s)[i]
      /\ Append(Front(s), frame)[Len(Front(s)) + 1] = frame
  BY <1>3, AppendProperties
<1>5. Len(Append(Front(s), frame)) = Len(s)
  BY <1>1, <1>3, <1>4
<1>6. DOMAIN Front(s) = 1 .. Len(s) - 1
  BY <1>3, LenProperties
<1>7. DOMAIN Append(Front(s), frame) = 1 .. Len(s)
  BY <1>4, <1>5, LenProperties
<1>8. ASSUME NEW i \in 1 .. Len(s)
      PROVE  Append(Front(s), frame)[i] = IF i = Len(s) THEN frame ELSE s[i]
  <2>1. CASE i = Len(s)
    BY <1>1, <1>3, <1>4, <2>1
  <2>2. CASE i # Len(s)
    <3>1. i \in 1 .. Len(s) - 1
      BY <1>1, <2>2, Below
    <3>2. Front(s)[i] = s[i]
      BY <1>3, <3>1
    <3>3. i \in 1 .. Len(Front(s))
      BY <1>3, <3>1
    <3>. QED
      BY <1>4, <2>2, <3>2, <3>3
  <2>. QED
    BY <2>1, <2>2
<1>. QED
  BY <1>1, <1>2, <1>3, <1>4, <1>5, <1>6, <1>7, <1>8

-----------------------------------------------------------------------------
(* Directories and those that they are in.                                 *)

LEMMA PathOf ==
  ASSUME parent \in Parents, NEW d \in AllDirectories
  PROVE  /\ d \in Path(d) /\ Path(d) \subseteq AllDirectories
         /\ d # Root => /\ d \in Directories /\ parent[d] \in AllDirectories
                        /\ parent[d] \in Path(d) /\ Path(parent[d]) \subseteq Path(d)
         /\ Path(Root) = {Root}
<1>1. parent \in [Directories -> AllDirectories]
  BY ParentsAssumption
<1>2. d \in Path(d) /\ Path(d) \subseteq AllDirectories
  BY DEF Path
<1>3. ASSUME d # Root
      PROVE  /\ d \in Directories /\ parent[d] \in AllDirectories
             /\ parent[d] \in Path(d) /\ Path(parent[d]) \subseteq Path(d)
  BY <1>1, <1>3 DEF Path, AllDirectories
<1>4. Root \in Path(Root)
  BY DEF Path, AllDirectories
<1>5. \A a \in Path(Root) : a \in {Root}
  BY DEF Path, AllDirectories
<1>. QED
  BY <1>2, <1>3, <1>4, <1>5

LEMMA CleanOf ==
  ASSUME ProviderTypes
  PROVE  /\ \A d \in AllDirectories : Clean(d) => d \notin missed /\ d \notin removed
         /\ \A d \in Directories : parent[d] \in AllDirectories
                                   /\ (Clean(d) => Clean(parent[d]))
         /\ Clean(Root) /\ Root \in AllDirectories
         /\ \A f \in DirFiles : Reachable(f) <=> Clean(DirectoryOf[f])
<1>1. parent \in Parents /\ missed \subseteq Directories /\ removed \subseteq Directories
  BY DEF ProviderTypes
<1>2. \A d \in AllDirectories : Clean(d) => d \notin missed /\ d \notin removed
  BY <1>1, PathOf DEF Clean
<1>3. \A d \in Directories : parent[d] \in AllDirectories /\ (Clean(d) => Clean(parent[d]))
  BY <1>1, PathOf, NamesAssumption DEF Clean, AllDirectories
<1>4. Clean(Root) /\ Root \in AllDirectories
  BY <1>1, PathOf, NamesAssumption DEF Clean, AllDirectories
<1>. QED
  BY <1>2, <1>3, <1>4 DEF Reachable, Clean

(* Some of those that have not been dealt with is in one that has been.    *)
LEMMA DealtWith ==
  ASSUME parent \in Parents, NEW P \in SUBSET AllDirectories, Root \notin P, NEW d \in P
  PROVE  \E e \in P : parent[e] \in AllDirectories \ P
<1>1. P \in (SUBSET Directories) \ {{}}
  BY DEF AllDirectories
<1>2. PICK e \in P : parent[e] \notin P
  BY <1>1, ParentsAssumption
<1>3. e \in Directories /\ parent \in [Directories -> AllDirectories]
  BY <1>1, <1>2, ParentsAssumption
<1>. QED
  BY <1>2, <1>3

-----------------------------------------------------------------------------
(* Types.                                                                  *)

LEMMA TopTypes ==
  ASSUME ProviderTypes, stack # <<>>
  PROVE  /\ Len(stack) \in Nat \ {0} /\ DOMAIN stack = 1 .. Len(stack)
         /\ Top = stack[Len(stack)] /\ Top \in AnyFrame /\ Len(stack) \in DOMAIN stack
         /\ Front(stack) \in Seq(AnyFrame) /\ DOMAIN Front(stack) = 1 .. Len(stack) - 1
         /\ Len(Front(stack)) = Len(stack) - 1
         /\ \A i \in 1 .. Len(stack) - 1 : Front(stack)[i] = stack[i]
         /\ \A frame \in AnyFrame :
              /\ WithTop(frame) \in Seq(AnyFrame) /\ Len(WithTop(frame)) = Len(stack)
              /\ DOMAIN WithTop(frame) = 1 .. Len(stack)
              /\ \A i \in 1 .. Len(stack) :
                   WithTop(frame)[i] = IF i = Len(stack) THEN frame ELSE stack[i]
<1>1. stack \in Seq(AnyFrame) /\ Last(stack) = stack[Len(stack)]
  BY DEF ProviderTypes, Last
<1>2. Len(stack) \in 1 .. Len(stack)
  BY <1>1, EmptySeq
<1>3. stack[Len(stack)] \in AnyFrame
  BY <1>1, <1>2, ElementOfSeq
<1>. QED
  BY <1>1, <1>2, <1>3, TopOf DEF Top, WithTop

LEMMA FrameType == ASSUME NEW d \in AllDirectories PROVE Frame(d) \in AnyFrame
BY DEF Frame, AnyFrame

LEMMA OneElement == ASSUME NEW S, NEW e \in S PROVE <<e>> \in Seq(S)
OBVIOUS
(* What an event is, and of what a queue with it consists.                 *)
EventOf(kind, dir, name, number) ==
  [kind |-> kind, wd |-> kernel[dir], name |-> name, version |-> number]
IsOf(e, kind, dir, name) == e.kind = kind /\ e.name = name /\ e.wd = kernel[dir] /\ e.wd # 0

LEMMA EventType ==
  ASSUME ProviderTypes, NEW dir \in AllDirectories, NEW kind, NEW name, NEW number \in Nat,
         \/ kind = "close" /\ name \in DirFiles
         \/ kind = "moved to" /\ name \in AnyName
         \/ kind \in {"create dir", "delete dir", "delete self"} /\ name \in Directories /\ number = 0
  PROVE  EventOf(kind, dir, name, number) \in AnyEvent
<1>1. kernel[dir] \in Nat
  BY DEF ProviderTypes
<1>. QED
  BY <1>1 DEF AnyEvent, EventOf

LEMMA EventRecord ==
  ASSUME NEW e \in AnyEvent, NEW number
  PROVE  /\ e.wd \in Nat /\ e.name \in AnyName \cup {Root} /\ e.version \in Nat
         /\ [e EXCEPT !.version = number].kind = e.kind
         /\ [e EXCEPT !.version = number].wd = e.wd
         /\ [e EXCEPT !.version = number].name = e.name
         /\ e.kind = "overflow" <=> e = Overflow
         /\ e.kind # "overflow" => e.name \in AnyName
         /\ e.kind \in {"create dir", "delete dir", "delete self"} =>
              e.name \in Directories /\ e.version = 0
<1>0. Overflow.kind = "overflow"
  BY DEF Overflow
<1>1. ASSUME NEW kinds, NEW names, NEW numbers,
             e \in [kind : kinds, wd : Nat, name : names, version : numbers]
      PROVE  /\ e.wd \in Nat /\ e.name \in names /\ e.version \in numbers /\ e.kind \in kinds
             /\ [e EXCEPT !.version = number].kind = e.kind
             /\ [e EXCEPT !.version = number].wd = e.wd
             /\ [e EXCEPT !.version = number].name = e.name
  BY <1>1
<1>2. CASE e \in [kind : {"close"}, wd : Nat, name : DirFiles, version : Nat]
  <2>1. /\ e.wd \in Nat /\ e.name \in DirFiles /\ e.version \in Nat /\ e.kind = "close"
        /\ [e EXCEPT !.version = number].kind = e.kind
        /\ [e EXCEPT !.version = number].wd = e.wd
        /\ [e EXCEPT !.version = number].name = e.name
    BY <1>1, <1>2
  <2>. QED
    BY <2>1 DEF AnyName, Overflow
<1>3. CASE e \in [kind : {"moved to"}, wd : Nat, name : AnyName, version : Nat]
  <2>1. /\ e.wd \in Nat /\ e.name \in AnyName /\ e.version \in Nat /\ e.kind = "moved to"
        /\ [e EXCEPT !.version = number].kind = e.kind
        /\ [e EXCEPT !.version = number].wd = e.wd
        /\ [e EXCEPT !.version = number].name = e.name
    BY <1>1, <1>3
  <2>2. e.kind # "overflow" /\ e # Overflow
    BY <1>0, <2>1
  <2>. QED
    BY <2>1, <2>2
<1>4. CASE e \in [kind : {"create dir", "delete dir", "delete self"}, wd : Nat,
                  name : Directories, version : {0}]
  <2>1. /\ e.wd \in Nat /\ e.name \in Directories /\ e.version = 0
        /\ e.kind \in {"create dir", "delete dir", "delete self"}
        /\ [e EXCEPT !.version = number].kind = e.kind
        /\ [e EXCEPT !.version = number].wd = e.wd
        /\ [e EXCEPT !.version = number].name = e.name
    BY <1>1, <1>4
  <2>2. e.kind # "overflow" /\ e # Overflow
    BY <1>0, <2>1
  <2>3. e.name \in AnyName
    BY <2>1 DEF AnyName
  <2>4. e.version = 0 /\ 0 \in Nat
    BY <2>1
  <2>. QED
    BY <2>1, <2>2, <2>3, <2>4
<1>5. CASE e = Overflow
  BY <1>5 DEF Overflow
<1>. QED
  BY <1>2, <1>3, <1>4, <1>5 DEF AnyEvent

LEMMA QueuedIs ==
  ASSUME NEW kind, NEW dir, NEW name, NEW number, NEW q \in Seq(AnyEvent),
         NEW r \in Queued(q, kind, dir, name, number)
  PROVE  \/ r = q
         \/ kernel[dir] # 0 /\ r = Append(q, EventOf(kind, dir, name, number))
         \/ /\ kernel[dir] # 0 /\ q # <<>> /\ Last(q).kind = kind /\ Last(q).name = name
            /\ r = Append(Front(q), EventOf(kind, dir, name, number))
<1>. DEFINE e == EventOf(kind, dir, name, number)
<1>1. CASE kernel[dir] = 0
  BY <1>1 DEF Queued
<1>2. CASE kernel[dir] # 0
  <2>1. \/ r = Append(q, e) \/ r = q
        \/ /\ q # <<>> /\ [Last(q) EXCEPT !.version = number] = e
           /\ r = Append(Front(q), e)
    BY <1>2 DEF Queued, EventOf
  <2>2. ASSUME q # <<>>, [Last(q) EXCEPT !.version = number] = e
        PROVE  Last(q).kind = kind /\ Last(q).name = name
    <3>1. Last(q) \in AnyEvent
      <4>1. Len(q) \in DOMAIN q /\ Last(q) = q[Len(q)]
        BY <2>2, LenProperties, EmptySeq DEF Last
      <4>. QED
        BY <4>1, ElementOfSeq, LenProperties
    <3>2. /\ [Last(q) EXCEPT !.version = number].kind = Last(q).kind
          /\ [Last(q) EXCEPT !.version = number].name = Last(q).name
      BY <3>1, EventRecord
    <3>3. e.kind = kind /\ e.name = name
      BY DEF EventOf
    <3>. QED
      BY <2>2, <3>2, <3>3
  <2>. QED
    BY <1>2, <2>1, <2>2
<1>. QED
  BY <1>1, <1>2

LEMMA AppendOf ==
  ASSUME NEW q \in Seq(AnyEvent), NEW e \in AnyEvent
  PROVE  /\ Append(q, e) \in Seq(AnyEvent) /\ ToSet(Append(q, e)) = ToSet(q) \cup {e}
         /\ Len(q) + 1 \notin DOMAIN q
         /\ \A kinds, x : Of(kinds, x, Append(q, e)) =
              Of(kinds, x, q) \cup {i \in {Len(q) + 1} : e.kind \in kinds /\ <<e.name, e.version>> = x}
<1>. DEFINE r == Append(q, e)
<1>1. /\ r \in Seq(AnyEvent) /\ Len(r) = Len(q) + 1 /\ r[Len(q) + 1] = e
      /\ \A i \in 1 .. Len(q) : r[i] = q[i]
      /\ DOMAIN q = 1 .. Len(q) /\ Len(q) \in Nat
  BY AppendProperties, LenProperties
<1>2. DOMAIN r = 1 .. Len(q) + 1
  BY <1>1, LenProperties
<1>. HIDE DEF r
<1>3. 1 .. Len(q) + 1 = (1 .. Len(q)) \cup {Len(q) + 1}
  BY <1>1
<1>4. ToSet(r) = ToSet(q) \cup {e}
  BY <1>1, <1>2, <1>3 DEF ToSet
<1>5. ASSUME NEW kinds, NEW x
      PROVE  Of(kinds, x, r) =
               Of(kinds, x, q) \cup {i \in {Len(q) + 1} : e.kind \in kinds /\ <<e.name, e.version>> = x}
  BY <1>1, <1>2, <1>3 DEF Of
<1>. QED
  BY <1>1, <1>4, <1>5 DEF r

LEMMA FrontOf ==
  ASSUME NEW q \in Seq(AnyEvent), q # <<>>
  PROVE  /\ Front(q) \in Seq(AnyEvent) /\ Len(Front(q)) + 1 = Len(q) /\ ToSet(Front(q)) \subseteq ToSet(q)
         /\ \A kinds, x : Of(kinds, x, q) = Of(kinds, x, Front(q)) \cup
              {i \in {Len(q)} : Last(q).kind \in kinds /\ <<Last(q).name, Last(q).version>> = x}
<1>1. Overflow \in AnyEvent
  BY DEF AnyEvent
<1>2. /\ Len(q) \in Nat \ {0} /\ DOMAIN q = 1 .. Len(q) /\ Last(q) = q[Len(q)]
      /\ Front(q) \in Seq(AnyEvent) /\ DOMAIN Front(q) = 1 .. Len(q) - 1 /\ Len(Front(q)) = Len(q) - 1
      /\ \A i \in 1 .. Len(q) - 1 : Front(q)[i] = q[i]
  BY <1>1, TopOf
<1>3. 1 .. Len(q) = (1 .. Len(q) - 1) \cup {Len(q)}
  BY <1>2
<1>4. ToSet(Front(q)) \subseteq ToSet(q)
  BY <1>2, <1>3 DEF ToSet
<1>5. ASSUME NEW kinds, NEW x
      PROVE  Of(kinds, x, q) = Of(kinds, x, Front(q)) \cup
               {i \in {Len(q)} : Last(q).kind \in kinds /\ <<Last(q).name, Last(q).version>> = x}
  BY <1>2, <1>3 DEF Of
<1>. QED
  BY <1>2, <1>4, <1>5

(* How a queue may grow by an event.                                       *)
OthersAsWere(q, r, kind, dir, name) ==
  \A kinds, x : kernel[dir] = 0 \/ kind \notin kinds \/ (\A m : x # <<name, m>>) =>
    Of(kinds, x, r) = Of(kinds, x, q)
GrownBy(q, r, kind, dir, name, number) ==
  /\ r \in Seq(AnyEvent)
  /\ \A e \in ToSet(r) : e \in ToSet(q) \/ IsOf(e, kind, dir, name)
  /\ \A kinds, x : ~(kernel[dir] # 0 /\ kind \in kinds /\ <<name, number>> = x) =>
       Of(kinds, x, r) \subseteq Of(kinds, x, q)
  /\ OthersAsWere(q, r, kind, dir, name)
  /\ \A kinds : kind \in kinds /\ Of(kinds, <<name, number>>, q) = {} =>
       /\ \A i, j \in Of(kinds, <<name, number>>, r) : i = j
       /\ r # q => Of(kinds, <<name, number>>, r) # {}

LEMMA QueuedDoes ==
  ASSUME NEW kind, NEW dir, NEW name, NEW number,
         EventOf(kind, dir, name, number) \in AnyEvent, NEW q \in Seq(AnyEvent),
         NEW r \in Queued(q, kind, dir, name, number)
  PROVE  GrownBy(q, r, kind, dir, name, number)
<1>. DEFINE e == EventOf(kind, dir, name, number)
<1>1. e.kind = kind /\ e.name = name /\ e.wd = kernel[dir] /\ e.version = number /\ e \in AnyEvent
  BY DEF EventOf
<1>2. CASE r = q
  BY <1>2 DEF GrownBy, OthersAsWere
<1>3. ASSUME NEW s \in Seq(AnyEvent), r = Append(s, e), kernel[dir] # 0, ToSet(s) \subseteq ToSet(q),
             \A kinds, x : Of(kinds, x, s) \subseteq Of(kinds, x, q),
             \A kinds, x : kind \notin kinds \/ (\A m : x # <<name, m>>) =>
                Of(kinds, x, s) = Of(kinds, x, q)
      PROVE  GrownBy(q, r, kind, dir, name, number)
  <2>. HIDE DEF e
  <2>1. /\ r \in Seq(AnyEvent) /\ ToSet(r) = ToSet(s) \cup {e}
        /\ \A kinds, x : Of(kinds, x, r) =
             Of(kinds, x, s) \cup {i \in {Len(s) + 1} : kind \in kinds /\ <<name, number>> = x}
    BY <1>1, <1>3, AppendOf
  <2>2. \A g \in ToSet(r) : g \in ToSet(q) \/ IsOf(g, kind, dir, name)
    BY <1>1, <1>3, <2>1 DEF IsOf
  <2>3. \A kinds, x : ~(kernel[dir] # 0 /\ kind \in kinds /\ <<name, number>> = x) =>
          Of(kinds, x, r) \subseteq Of(kinds, x, q)
    BY <1>3, <2>1
  <2>4. ASSUME NEW kinds, NEW x, kind \notin kinds \/ (\A m : x # <<name, m>>)
        PROVE  Of(kinds, x, r) = Of(kinds, x, q)
    <3>1. Of(kinds, x, r) =
            Of(kinds, x, s) \cup {i \in {Len(s) + 1} : kind \in kinds /\ <<name, number>> = x}
      BY <2>1
    <3>2. {i \in {Len(s) + 1} : kind \in kinds /\ <<name, number>> = x} = {}
      BY <2>4
    <3>3. Of(kinds, x, s) = Of(kinds, x, q)
      BY <1>3, <2>4
    <3>. QED
      BY <3>1, <3>2, <3>3
  <2>5. ASSUME NEW kinds, kind \in kinds, Of(kinds, <<name, number>>, q) = {}
        PROVE  /\ \A i, j \in Of(kinds, <<name, number>>, r) : i = j
               /\ Of(kinds, <<name, number>>, r) # {}
    <3>1. Of(kinds, <<name, number>>, s) = {}
      BY <1>3, <2>5
    <3>2. Of(kinds, <<name, number>>, r) = {Len(s) + 1}
      BY <2>1, <2>5, <3>1
    <3>. QED
      BY <3>2
  <2>. QED
    BY <1>3, <2>1, <2>2, <2>3, <2>4, <2>5 DEF GrownBy, OthersAsWere
<1>4. CASE kernel[dir] # 0 /\ r = Append(q, e)
  BY <1>3, <1>4
<1>5. CASE /\ kernel[dir] # 0 /\ q # <<>> /\ Last(q).kind = kind /\ Last(q).name = name
           /\ r = Append(Front(q), e)
  <2>1. /\ Front(q) \in Seq(AnyEvent) /\ ToSet(Front(q)) \subseteq ToSet(q)
        /\ \A kinds, x : Of(kinds, x, q) = Of(kinds, x, Front(q)) \cup
             {i \in {Len(q)} : Last(q).kind \in kinds /\ <<Last(q).name, Last(q).version>> = x}
    BY <1>5, FrontOf
  <2>2. \A kinds, x : Of(kinds, x, Front(q)) \subseteq Of(kinds, x, q)
    BY <2>1
  <2>3. ASSUME NEW kinds, NEW x, kind \notin kinds \/ (\A m : x # <<name, m>>)
        PROVE  Of(kinds, x, Front(q)) = Of(kinds, x, q)
    <3>1. Of(kinds, x, q) = Of(kinds, x, Front(q)) \cup
            {i \in {Len(q)} : Last(q).kind \in kinds /\ <<Last(q).name, Last(q).version>> = x}
      BY <2>1
    <3>2. {i \in {Len(q)} : Last(q).kind \in kinds /\ <<Last(q).name, Last(q).version>> = x} = {}
      BY <1>5, <2>3
    <3>. QED
      BY <3>1, <3>2
  <2>. QED
    BY <1>3, <1>5, <2>1, <2>2, <2>3
<1>. QED
  BY <1>2, <1>4, <1>5, QueuedIs

LEMMA OthersOf ==
  ASSUME NEW q, NEW r, NEW kind, NEW dir, NEW name, OthersAsWere(q, r, kind, dir, name),
         NEW kinds, NEW x, kernel[dir] = 0 \/ kind \notin kinds \/ (\A m : x # <<name, m>>)
  PROVE  Of(kinds, x, r) = Of(kinds, x, q)
BY DEF OthersAsWere

LEMMA EventsOf ==
  ASSUME ProviderTypes
  PROVE  /\ DOMAIN events = 1 .. Len(events) /\ Len(events) \in Nat
         /\ DOMAIN unhandled = 1 .. Len(unhandled) /\ Len(unhandled) \in Nat
         /\ \A i \in DOMAIN events : events[i] \in AnyEvent
         /\ \A i \in DOMAIN unhandled : unhandled[i] \in AnyEvent
<1>1. events \in Seq(AnyEvent) /\ unhandled \in Seq(AnyEvent)
  BY DEF ProviderTypes
<1>. QED
  BY <1>1, LenProperties, ElementOfSeq

(* How the kernel's queue grows.                                           *)
LEMMA SentDoes ==
  ASSUME ProviderTypes, NEW kind, NEW dir, NEW name, NEW number,
         EventOf(kind, dir, name, number) \in AnyEvent,
         events' \in Queued(events, kind, dir, name, number)
  PROVE  GrownBy(events, events', kind, dir, name, number)
BY QueuedDoes DEF ProviderTypes

LEMMA OverflowDoes ==
  ASSUME ProviderTypes, QueueOverflows
  PROVE  /\ events' \in Seq(AnyEvent) /\ ToSet(events') = ToSet(events) \cup {Overflow}
         /\ \A kinds, x : "overflow" \notin kinds => Of(kinds, x, events') = Of(kinds, x, events)
<1>1. events \in Seq(AnyEvent) /\ Overflow \in AnyEvent /\ events' = Append(events, Overflow)
  BY DEF ProviderTypes, AnyEvent, QueueOverflows
<1>2. Overflow.kind = "overflow"
  BY DEF Overflow
<1>3. /\ events' \in Seq(AnyEvent) /\ ToSet(events') = ToSet(events) \cup {Overflow}
      /\ \A kinds, x : Of(kinds, x, events') = Of(kinds, x, events) \cup
           {i \in {Len(events) + 1} : Overflow.kind \in kinds /\ <<Overflow.name, Overflow.version>> = x}
  BY <1>1, AppendOf
<1>4. ASSUME NEW kinds, NEW x, "overflow" \notin kinds
      PROVE  Of(kinds, x, events') = Of(kinds, x, events)
  <2>1. Of(kinds, x, events') = Of(kinds, x, events) \cup
          {i \in {Len(events) + 1} : Overflow.kind \in kinds /\ <<Overflow.name, Overflow.version>> = x}
    BY <1>3
  <2>. QED
    BY <1>2, <1>4, <2>1
<1>. QED
  BY <1>3, <1>4

LEMMA RemovalDoes ==
  ASSUME ProviderTypes, NEW d \in Directories, RemoveDirectory(d)
  PROVE  /\ events' \in Seq(AnyEvent) /\ parent[d] \in AllDirectories
         /\ \A e \in ToSet(events') :
              e \in ToSet(events) \/ IsOf(e, "delete self", d, d) \/ IsOf(e, "delete dir", parent[d], d)
         /\ \A kinds, x : "delete dir" \notin kinds /\ "delete self" \notin kinds =>
              Of(kinds, x, events') = Of(kinds, x, events)
<1>1. events \in Seq(AnyEvent) /\ d \in AllDirectories /\ parent[d] \in AllDirectories
  BY ParentsAssumption DEF ProviderTypes, AllDirectories
<1>2. EventOf("delete self", d, d, 0) \in AnyEvent /\ EventOf("delete dir", parent[d], d, 0) \in AnyEvent
  BY <1>1, EventType
<1>3. \/ \E q \in Queued(events, "delete self", d, d, 0) :
           events' \in Queued(q, "delete dir", parent[d], d, 0)
      \/ \E q \in Queued(events, "delete dir", parent[d], d, 0) :
           events' \in Queued(q, "delete self", d, d, 0)
  BY DEF RemoveDirectory
<1>4. ASSUME NEW q, NEW k1 \in {"delete dir", "delete self"}, NEW k2 \in {"delete dir", "delete self"},
             NEW e1, NEW e2, GrownBy(events, q, k1, e1, d, 0), GrownBy(q, events', k2, e2, d, 0)
      PROVE  /\ events' \in Seq(AnyEvent)
             /\ \A e \in ToSet(events') : e \in ToSet(events) \/ IsOf(e, k1, e1, d) \/ IsOf(e, k2, e2, d)
             /\ \A kinds, x : "delete dir" \notin kinds /\ "delete self" \notin kinds =>
                  Of(kinds, x, events') = Of(kinds, x, events)
  <2>1. ASSUME NEW kinds, NEW x, "delete dir" \notin kinds, "delete self" \notin kinds
        PROVE  Of(kinds, x, events') = Of(kinds, x, events)
    <3>0. k1 \notin kinds /\ k2 \notin kinds
      BY <2>1
    <3>a. OthersAsWere(events, q, k1, e1, d) /\ OthersAsWere(q, events', k2, e2, d)
      BY <1>4 DEF GrownBy
    <3>1. Of(kinds, x, q) = Of(kinds, x, events)
      BY <3>0, <3>a DEF OthersAsWere
    <3>2. Of(kinds, x, events') = Of(kinds, x, q)
      BY <3>0, <3>a DEF OthersAsWere
    <3>. QED
      BY <3>1, <3>2
  <2>2. events' \in Seq(AnyEvent) /\ \A e \in ToSet(events') :
          e \in ToSet(events) \/ IsOf(e, k1, e1, d) \/ IsOf(e, k2, e2, d)
    BY <1>4 DEF GrownBy
  <2>. QED
    BY <2>1, <2>2
<1>5. CASE \E q \in Queued(events, "delete self", d, d, 0) :
             events' \in Queued(q, "delete dir", parent[d], d, 0)
  <2>1. PICK q \in Queued(events, "delete self", d, d, 0) :
          events' \in Queued(q, "delete dir", parent[d], d, 0)
    BY <1>5
  <2>2. GrownBy(events, q, "delete self", d, d, 0)
    BY <1>1, <1>2, QueuedDoes
  <2>3. q \in Seq(AnyEvent)
    BY <2>2 DEF GrownBy
  <2>4. GrownBy(q, events', "delete dir", parent[d], d, 0)
    BY <1>2, <2>1, <2>3, QueuedDoes
  <2>. QED
    BY <1>1, <1>4, <2>2, <2>4
<1>6. CASE \E q \in Queued(events, "delete dir", parent[d], d, 0) :
             events' \in Queued(q, "delete self", d, d, 0)
  <2>1. PICK q \in Queued(events, "delete dir", parent[d], d, 0) :
          events' \in Queued(q, "delete self", d, d, 0)
    BY <1>6
  <2>2. GrownBy(events, q, "delete dir", parent[d], d, 0)
    BY <1>1, <1>2, QueuedDoes
  <2>3. q \in Seq(AnyEvent)
    BY <2>2 DEF GrownBy
  <2>4. GrownBy(q, events', "delete self", d, d, 0)
    BY <1>2, <2>1, <2>3, QueuedDoes
  <2>. QED
    BY <1>1, <1>4, <2>2, <2>4
<1>. QED
  BY <1>3, <1>5, <1>6

LEMMA ReportTypes ==
  ASSUME ProviderTypes, NEW pairs \in SUBSET AnyPair, Report(pairs)
  PROVE  reported' \subseteq AnyPair /\ again' \subseteq AnyPair
BY DEF ProviderTypes, Report

LEMMA VersionsType ==
  ASSUME ProviderTypes, NEW names \in SUBSET DirFiles
  PROVE  Versions(names) \subseteq FilePair /\ Names(Versions(names)) = names
<1>1. \A f \in names : f \in DirFiles /\ version[f] \in Nat
  BY DEF ProviderTypes
<1>2. \A f \in names : <<f, version[f]>> \in FilePair /\ <<f, version[f]>>[1] = f
  BY <1>1 DEF FilePair
<1>3. \A f \in names : f \in Names(Versions(names))
  BY <1>2 DEF Versions, Names
<1>4. \A f \in Names(Versions(names)) : f \in names
  BY <1>2 DEF Versions, Names
<1>. QED
  BY <1>2, <1>3, <1>4 DEF Versions

LEMMA PairsOf ==
  FilePair \subseteq AnyPair
BY DEF FilePair, AnyPair, AnyName

LEMMA ClosingPairs ==
  ASSUME ProviderTypes
  PROVE  /\ \A e \in Closings : e \in AnyEvent /\ <<e.name, e.version>> \in AnyPair
         /\ {<<e.name, e.version>> : e \in Closings} \subseteq AnyPair
         /\ \A p : p \in {<<e.name, e.version>> : e \in Closings} <=> Closes(p, events) # {}
<1>1. \A e \in Closings : e \in AnyEvent /\ e.kind # "overflow"
  BY EventsOf DEF Closings, ToSet
<1>2. \A e \in Closings : <<e.name, e.version>> \in AnyPair
  BY <1>1, EventRecord DEF AnyPair
<1>3. \A p : p \in {<<e.name, e.version>> : e \in Closings} <=> Closes(p, events) # {}
  BY DEF Closings, Closes, Of, ToSet
<1>. QED
  BY <1>1, <1>2, <1>3

LEMMA ChangeTypes ==
  ASSUME ProviderTypes, Change,
         exists' \subseteq AllDirectories, Root \in exists',
         content' \in [DirFiles -> {"none", "open", "closed", "gone"}],
         version' \in [DirFiles -> Nat], overflowed' \in BOOLEAN,
         kernel' \in [AllDirectories -> Nat], events' \in Seq(AnyEvent),
         missed' \subseteq Directories, removed' \subseteq Directories,
         lost' \subseteq AnyPair, initial' \subseteq DirFiles
  PROVE  ProviderTypes'
BY DEF ProviderTypes, Change, put

(* What changes there are.                                                 *)
Sends(kind, dir, name, number) ==
  /\ dir \in AllDirectories /\ EventOf(kind, dir, name, number) \in AnyEvent
  /\ GrownBy(events, events', kind, dir, name, number)

LEMMA ChangeDoes ==
  ASSUME ProviderTypes, ProviderNext
  PROVE  Change =>
         \/ \E f \in DirFiles : WriteFile(f) \/ DeleteFile(f)
         \/ QueueOverflows
         \/ \E f \in DirFiles, kind \in {"close", "moved to"}, n \in Nat :
              /\ Completed(f, kind) /\ (content[f] = "open" \/ DirectoryOf[f] \in exists)
              /\ n = version[f] + 1 /\ Sends(kind, DirectoryOf[f], f, n)
         \/ \E d \in Directories : MakeDirectory(d) /\ Sends("create dir", parent[d], d, 0)
         \/ \E d \in Directories : MoveDirectoryIn(d) /\ Sends("moved to", parent[d], d, 0)
         \/ \E d \in Directories : RemoveDirectory(d) /\ parent[d] \in AllDirectories
<1>. SUFFICES ASSUME Change
     PROVE  \/ \E f \in DirFiles : WriteFile(f) \/ DeleteFile(f)
            \/ QueueOverflows
            \/ \E f \in DirFiles, kind \in {"close", "moved to"}, n \in Nat :
                 /\ Completed(f, kind) /\ (content[f] = "open" \/ DirectoryOf[f] \in exists)
                 /\ n = version[f] + 1 /\ Sends(kind, DirectoryOf[f], f, n)
            \/ \E d \in Directories : MakeDirectory(d) /\ Sends("create dir", parent[d], d, 0)
            \/ \E d \in Directories : MoveDirectoryIn(d) /\ Sends("moved to", parent[d], d, 0)
            \/ \E d \in Directories : RemoveDirectory(d) /\ parent[d] \in AllDirectories
  OBVIOUS
<1>1. changes' # changes
  <2>1. changes' = changes + 1 /\ changes \in Nat
    BY DEF Change, ProviderTypes
  <2>. QED
    BY <2>1
<1>2. \/ QueueOverflows
      \/ \E f \in DirFiles : WriteFile(f) \/ CloseFile(f) \/ MoveFileIn(f) \/ DeleteFile(f)
      \/ \E d \in Directories : MakeDirectory(d) \/ MoveDirectoryIn(d) \/ RemoveDirectory(d)
  BY <1>1 DEF ProviderNext, ScanFails, ReconcileFails, EventFails, Abort, Die, AddWatch,
     ListDirectory, Reconcile, Reconciled, EnterSubdirectory, LeaveDirectory, ReadEvents,
     FlushBatch, NoMoreEvents, FileEvent, CreateEvent, DeleteEvent, Handles, tree
<1>3. \A d \in Directories : d \in AllDirectories /\ parent[d] \in AllDirectories
  BY ParentsAssumption DEF ProviderTypes, AllDirectories
<1>4. \A f \in DirFiles : DirectoryOf[f] \in AllDirectories /\ version[f] + 1 \in Nat /\ f \in AnyName
  BY NamesAssumption DEF ProviderTypes, AnyName
<1>5. ASSUME NEW f \in DirFiles, NEW kind \in {"close", "moved to"}, Completed(f, kind)
      PROVE  \E n \in Nat : n = version[f] + 1 /\ Sends(kind, DirectoryOf[f], f, n)
  <2>1. PICK n \in Nat : n = version[f] + 1
    BY <1>4
  <2>2. EventOf(kind, DirectoryOf[f], f, n) \in AnyEvent
    BY <1>4, EventType
  <2>3. events' \in Queued(events, kind, DirectoryOf[f], f, n)
    BY <1>5, <2>1 DEF Completed
  <2>4. GrownBy(events, events', kind, DirectoryOf[f], f, n)
    BY <2>2, <2>3, SentDoes
  <2>. QED
    BY <1>4, <2>1, <2>2, <2>4 DEF Sends
<1>6. ASSUME NEW d \in Directories, MakeDirectory(d)
      PROVE  Sends("create dir", parent[d], d, 0)
  <2>1. EventOf("create dir", parent[d], d, 0) \in AnyEvent
    BY <1>3, EventType
  <2>2. GrownBy(events, events', "create dir", parent[d], d, 0)
    BY <1>6, <2>1, SentDoes DEF MakeDirectory
  <2>. QED
    BY <1>3, <2>1, <2>2 DEF Sends
<1>7. ASSUME NEW d \in Directories, MoveDirectoryIn(d)
      PROVE  Sends("moved to", parent[d], d, 0)
  <2>1. EventOf("moved to", parent[d], d, 0) \in AnyEvent
    BY <1>3, EventType DEF AnyName
  <2>2. GrownBy(events, events', "moved to", parent[d], d, 0)
    BY <1>7, <2>1, SentDoes DEF MoveDirectoryIn
  <2>. QED
    BY <1>3, <2>1, <2>2 DEF Sends
<1>. QED
  BY <1>2, <1>3, <1>5, <1>6, <1>7 DEF CloseFile, MoveFileIn

LEMMA TypesKept ==
  ASSUME ProviderTypes, ProviderNext
  PROVE  ProviderTypes'
<1>0. /\ Root \notin Directories /\ DirectoryOf \in [DirFiles -> AllDirectories]
      /\ Directories \subseteq AllDirectories
  BY NamesAssumption DEF AllDirectories
<1>1. CASE Change
  <2>1. ASSUME NEW f \in DirFiles, WriteFile(f) \/ DeleteFile(f)
        PROVE  ProviderTypes'
    <3>1. /\ UNCHANGED <<exists, kernel, events, missed, removed, version, lost, overflowed>>
          /\ initial' \subseteq initial
      BY <2>1 DEF WriteFile, DeleteFile, ghosts
    <3>2. content' \in [DirFiles -> {"none", "open", "closed", "gone"}]
      BY <2>1 DEF WriteFile, DeleteFile, ProviderTypes
    <3>. QED
      BY <1>1, <3>1, <3>2, ChangeTypes DEF ProviderTypes
  <2>2. CASE QueueOverflows
    <3>1. /\ UNCHANGED <<exists, content, version, initial, removed, kernel, missed, lost>>
          /\ overflowed' = TRUE
      BY <2>2 DEF QueueOverflows, ghosts
    <3>2. events' \in Seq(AnyEvent)
      BY <2>2, OverflowDoes
    <3>. QED
      BY <1>1, <3>1, <3>2, ChangeTypes DEF ProviderTypes
  <2>3. ASSUME NEW f \in DirFiles, NEW kind \in {"close", "moved to"}, NEW n \in Nat,
               Completed(f, kind), n = version[f] + 1, Sends(kind, DirectoryOf[f], f, n)
        PROVE  ProviderTypes'
    <3>1. /\ UNCHANGED <<exists, initial, removed, kernel, overflowed, missed>>
          /\ events' \in Seq(AnyEvent)
      BY <2>3 DEF Completed, Sends, GrownBy
    <3>2. content' \in [DirFiles -> {"none", "open", "closed", "gone"}]
      BY <2>3 DEF Completed, ProviderTypes
    <3>3. version' = [version EXCEPT ![f] = n] /\ version \in [DirFiles -> Nat]
      BY <2>3 DEF Completed, ProviderTypes
    <3>4. version' \in [DirFiles -> Nat]
      BY <3>3
    <3>5. <<f, n>> \in AnyPair
      BY DEF AnyPair, AnyName
    <3>6. lost' = lost \/ lost' = lost \cup {<<f, n>>}
      BY <2>3 DEF Completed
    <3>7. lost' \subseteq AnyPair
      BY <3>5, <3>6 DEF ProviderTypes
    <3>. QED
      BY <1>1, <3>1, <3>2, <3>4, <3>7, ChangeTypes DEF ProviderTypes
  <2>4. ASSUME NEW d \in Directories, \/ MakeDirectory(d) /\ Sends("create dir", parent[d], d, 0)
                                      \/ MoveDirectoryIn(d) /\ Sends("moved to", parent[d], d, 0)
        PROVE  ProviderTypes'
    <3>1. exists' = exists \cup {d} /\ UNCHANGED <<kernel, removed, version, initial, overflowed, lost>>
          /\ (missed' = missed \/ missed' = missed \cup {d})
      BY <2>4 DEF MakeDirectory, MoveDirectoryIn
    <3>2. content' \in [DirFiles -> {"none", "open", "closed", "gone"}]
      BY <2>4 DEF MakeDirectory, MoveDirectoryIn, ProviderTypes
    <3>3. events' \in Seq(AnyEvent)
      BY <2>4 DEF Sends, GrownBy
    <3>. QED
      BY <1>0, <1>1, <3>1, <3>2, <3>3, ChangeTypes DEF ProviderTypes
  <2>5. ASSUME NEW d \in Directories, RemoveDirectory(d)
        PROVE  ProviderTypes'
    <3>1. exists' = exists \ {d} /\ removed' = removed \cup {d}
          /\ UNCHANGED <<content, version, initial, overflowed, missed, lost>>
      BY <2>5 DEF RemoveDirectory, ghosts
    <3>2. kernel' \in [AllDirectories -> Nat]
      BY <2>5 DEF RemoveDirectory, ProviderTypes
    <3>3. events' \in Seq(AnyEvent)
      BY <2>5, RemovalDoes
    <3>. QED
      BY <1>0, <1>1, <3>1, <3>2, <3>3, ChangeTypes DEF ProviderTypes
  <2>. QED
    BY <1>1, <2>1, <2>2, <2>3, <2>4, <2>5, ChangeDoes
<1>5. ASSUME ScanFails \/ ReconcileFails \/ EventFails
      PROVE  ProviderTypes'
  BY <1>5 DEF ScanFails, ReconcileFails, EventFails, Abort, Die, ProviderTypes, tree, inotify, put, ghosts
<1>6. ASSUME AddWatch
      PROVE  ProviderTypes'
  <2>1. stack # <<>> /\ Top.dir \in exists
    BY <1>6 DEF AddWatch, Scanning
  <2>2. Top \in AnyFrame /\ [Top EXCEPT !.phase = "list"] \in AnyFrame /\ Top.dir \in AllDirectories
    BY <2>1, TopTypes DEF AnyFrame
  <2>3. stack' \in Seq(AnyFrame)
    BY <1>6, <2>1, <2>2, TopTypes DEF AddWatch
  <2>. DEFINE wd == IF kernel[Top.dir] = 0 THEN next_wd ELSE kernel[Top.dir]
  <2>4. wd \in Nat \ {0} /\ next_wd + 1 \in Nat \ {0}
    BY <2>2 DEF ProviderTypes
  <2>5. kernel' \in [AllDirectories -> Nat] /\ next_wd' \in Nat \ {0}
        /\ watch_descriptors' \subseteq (Nat \ {0}) \X AllDirectories
    BY <1>6, <2>2, <2>4 DEF AddWatch, ProviderTypes
  <2>. QED
    BY <1>6, <2>3, <2>5 DEF AddWatch, ProviderTypes, tree, put, ghosts
<1>7. ASSUME ListDirectory
      PROVE  ProviderTypes'
  <2>1. stack # <<>> /\ Top.dir \in exists
    BY <1>7 DEF ListDirectory, Scanning
  <2>2. Top \in AnyFrame /\ Top.dir \in AllDirectories
    BY <2>1, TopTypes DEF AnyFrame
  <2>3. FilesIn(Top.dir) \subseteq DirFiles /\ SubdirectoriesOf(Top.dir) \subseteq Directories
    BY DEF FilesIn, SubdirectoriesOf, ProviderTypes, AllDirectories
  <2>4. PICK full \in SUBSET FilesIn(Top.dir) :
          /\ stack' = WithTop([Top EXCEPT !.phase = "reconcile", !.known = FilesIn(Top.dir),
                                          !.batch = Versions(FilesIn(Top.dir) \ full),
                                          !.subdirs = SubdirectoriesOf(Top.dir)])
          /\ Report(Versions(full))
    BY <1>7 DEF ListDirectory
  <2>5. Versions(FilesIn(Top.dir) \ full) \subseteq FilePair /\ Versions(full) \subseteq AnyPair
    BY <2>3, VersionsType, PairsOf
  <2>6. [Top EXCEPT !.phase = "reconcile", !.known = FilesIn(Top.dir),
                    !.batch = Versions(FilesIn(Top.dir) \ full),
                    !.subdirs = SubdirectoriesOf(Top.dir)] \in AnyFrame
    BY <2>2, <2>3, <2>5 DEF AnyFrame
  <2>7. stack' \in Seq(AnyFrame)
    BY <2>1, <2>4, <2>6, TopTypes
  <2>8. reported' \subseteq AnyPair /\ again' \subseteq AnyPair
    BY <2>4, <2>5, ReportTypes
  <2>. QED
    BY <1>7, <2>7, <2>8 DEF ListDirectory, ProviderTypes, tree, inotify, ghosts
<1>8. ASSUME Reconcile
      PROVE  ProviderTypes'
  <2>1. stack # <<>>
    BY <1>8 DEF Reconcile, Scanning
  <2>2. Top \in AnyFrame
    BY <2>1, TopTypes
  <2>. DEFINE pairs == {<<e.name, e.version>> : e \in Closings}
  <2>3. pairs \subseteq AnyPair /\ New(pairs) \subseteq AnyPair
    BY ClosingPairs DEF New
  <2>4. [Top EXCEPT !.fresh = @ \cup New(pairs)] \in AnyFrame
    BY <2>2, <2>3 DEF AnyFrame
  <2>5. stack' \in Seq(AnyFrame)
    BY <1>8, <2>1, <2>4, TopTypes DEF Reconcile
  <2>6. {e.name : e \in {x \in ToSet(events) : x.kind = "create dir"}} \subseteq Directories
    <3>1. \A e \in ToSet(events) : e \in AnyEvent
      BY EventsOf DEF ToSet
    <3>. QED
      BY <3>1, EventRecord
  <2>7. missed' \subseteq Directories /\ events' \in Seq(AnyEvent)
    BY <1>8, <2>6, EmptySeq DEF Reconcile, ProviderTypes
  <2>8. lost' \subseteq AnyPair
    BY <1>8, <2>3 DEF Reconcile, ProviderTypes
  <2>. QED
    BY <1>8, <2>5, <2>7, <2>8 DEF Reconcile, ProviderTypes, tree, put
<1>9. ASSUME Reconciled
      PROVE  ProviderTypes'
  <2>1. stack # <<>>
    BY <1>9 DEF Reconciled, Scanning
  <2>2. Top \in AnyFrame
    BY <2>1, TopTypes
  <2>3. Names(Top.batch) \subseteq DirFiles
    BY <2>2 DEF AnyFrame, FilePair, Names
  <2>4. Versions(Names(Top.batch)) \subseteq FilePair
    BY <2>3, VersionsType
  <2>5. [Top EXCEPT !.phase = "subdirs", !.known = {}, !.fresh = {},
                    !.batch = Versions(Names(@))] \in AnyFrame
    BY <2>2, <2>4 DEF AnyFrame
  <2>6. stack' \in Seq(AnyFrame)
    BY <1>9, <2>1, <2>5, TopTypes DEF Reconciled
  <2>7. Top.fresh \subseteq AnyPair
    BY <2>2 DEF AnyFrame
  <2>8. reported' \subseteq AnyPair /\ again' \subseteq AnyPair
    BY <1>9, <2>7, ReportTypes DEF Reconciled
  <2>. QED
    BY <1>9, <2>6, <2>8 DEF Reconciled, ProviderTypes, tree, inotify, ghosts
<1>10. ASSUME EnterSubdirectory
       PROVE  ProviderTypes'
  <2>1. stack # <<>>
    BY <1>10 DEF EnterSubdirectory, Scanning
  <2>2. PICK d \in Top.subdirs :
          stack' = Append(WithTop([Top EXCEPT !.subdirs = @ \ {d}]), Frame(d))
    BY <1>10 DEF EnterSubdirectory
  <2>3. Top \in AnyFrame /\ d \in Directories
    BY <2>1, TopTypes DEF AnyFrame
  <2>4. [Top EXCEPT !.subdirs = @ \ {d}] \in AnyFrame
    BY <2>3 DEF AnyFrame
  <2>5. WithTop([Top EXCEPT !.subdirs = @ \ {d}]) \in Seq(AnyFrame)
    BY <2>1, <2>4, TopTypes
  <2>6. stack' \in Seq(AnyFrame)
    BY <1>0, <2>2, <2>3, <2>5, FrameType, AppendProperties
  <2>. QED
    BY <1>10, <2>6 DEF EnterSubdirectory, ProviderTypes, tree, inotify, put, ghosts
<1>11. ASSUME LeaveDirectory
       PROVE  ProviderTypes'
  <2>1. stack # <<>>
    BY <1>11 DEF LeaveDirectory, Scanning
  <2>2. stack' \in Seq(AnyFrame)
    BY <1>11, <2>1, TopTypes DEF LeaveDirectory
  <2>3. Top.batch \subseteq AnyPair
    BY <2>1, TopTypes, PairsOf DEF AnyFrame
  <2>4. reported' \subseteq AnyPair /\ again' \subseteq AnyPair
    BY <1>11, <2>3, ReportTypes DEF LeaveDirectory
  <2>. QED
    BY <1>11, <2>2, <2>4 DEF LeaveDirectory, ProviderTypes, tree, inotify, ghosts
<1>12. ASSUME ReadEvents
       PROVE  ProviderTypes'
  BY <1>12, EmptySeq DEF ReadEvents, ProviderTypes, tree, put, ghosts
<1>13. ASSUME FlushBatch \/ NoMoreEvents
       PROVE  ProviderTypes'
  <2>1. batch \in SUBSET AnyPair
    BY DEF ProviderTypes
  <2>2. reported' \subseteq AnyPair /\ again' \subseteq AnyPair
    BY <1>13, <2>1, ReportTypes DEF FlushBatch, NoMoreEvents
  <2>. QED
    BY <1>13, <2>2 DEF FlushBatch, NoMoreEvents, ProviderTypes, tree, inotify, ghosts
<1>14. ASSUME FileEvent \/ CreateEvent \/ DeleteEvent
       PROVE  ProviderTypes'
  <2>1. unhandled # <<>> /\ unhandled' = Tail(unhandled)
        /\ UNCHANGED <<tree, next_wd, events, overflowed, status, put, ghosts>>
    BY <1>14 DEF FileEvent, CreateEvent, DeleteEvent, Handles
  <2>2. unhandled' \in Seq(AnyEvent) /\ Head(unhandled) \in AnyEvent
    BY <2>1, HeadTailProperties DEF ProviderTypes
  <2>3. CASE FileEvent
    <3>1. /\ Head(unhandled).kind \in {"close", "moved to"}
          /\ batch' = batch \cup {<<Head(unhandled).name, Head(unhandled).version>>}
          /\ UNCHANGED <<kernel, watch_descriptors, stack>>
      BY <2>3 DEF FileEvent, Handles
    <3>2. <<Head(unhandled).name, Head(unhandled).version>> \in AnyPair
      BY <2>2, <3>1, EventRecord DEF AnyPair
    <3>. QED
      BY <2>1, <2>2, <3>1, <3>2 DEF ProviderTypes, tree, put, ghosts
  <2>4. CASE CreateEvent
    <3>1. Head(unhandled).name \in AllDirectories
      BY <1>0, <2>2, <2>4, EventRecord DEF CreateEvent, Handles
    <3>2. stack' \in Seq(AnyFrame)
      BY <2>4, <3>1, FrameType, OneElement DEF CreateEvent
    <3>. QED
      BY <2>1, <2>2, <2>4, <3>2 DEF CreateEvent, ProviderTypes, tree, put, ghosts
  <2>5. CASE DeleteEvent
    <3>1. kernel' \in [AllDirectories -> Nat] /\ watch_descriptors' \subseteq watch_descriptors
      BY <2>5 DEF DeleteEvent, ProviderTypes
    <3>. QED
      BY <2>1, <2>2, <2>5, <3>1 DEF DeleteEvent, ProviderTypes, tree, put, ghosts
  <2>. QED
    BY <1>14, <2>3, <2>4, <2>5
<1>. QED
  BY <1>1, <1>5, <1>6, <1>7, <1>8, <1>9, <1>10, <1>11, <1>12, <1>13, <1>14
     DEF ProviderNext, QueueOverflows, WriteFile, CloseFile, MoveFileIn, Completed, DeleteFile,
         MakeDirectory, MoveDirectoryIn, RemoveDirectory

-----------------------------------------------------------------------------
(* What the steps of ScanDirectoryWithWatch do to the stack.               *)

OnlyTop(fields) ==
  /\ stack # <<>> /\ Len(stack) \in Nat \ {0} /\ DOMAIN stack = 1 .. Len(stack)
  /\ Top = stack[Len(stack)] /\ Len(stack) \in DOMAIN stack
  /\ Len(stack') = Len(stack) /\ DOMAIN stack' = DOMAIN stack
  /\ \A i \in DOMAIN stack : i # Len(stack) => stack'[i] = stack[i]
  /\ \A field \in {"dir", "phase", "known", "batch", "fresh", "subdirs"} \ fields :
       stack'[Len(stack)][field] = stack[Len(stack)][field]

LEMMA AddWatchDoes ==
  ASSUME ProviderTypes, AddWatch
  PROVE  /\ OnlyTop({"phase"}) /\ Top.phase = "watch" /\ Top.dir \in exists
         /\ stack'[Len(stack)].phase = "list"
<1>1. stack # <<>> /\ Top.dir \in exists /\ Top.phase = "watch"
  BY DEF AddWatch, Scanning
<1>2. Top \in AnyFrame /\ [Top EXCEPT !.phase = "list"] \in AnyFrame
  BY <1>1, TopTypes DEF AnyFrame
<1>3. stack' = WithTop([Top EXCEPT !.phase = "list"])
  BY DEF AddWatch
<1>4. /\ Len(stack) \in Nat \ {0} /\ DOMAIN stack = 1 .. Len(stack)
      /\ Top = stack[Len(stack)] /\ Len(stack) \in DOMAIN stack
      /\ Len(stack') = Len(stack) /\ DOMAIN stack' = DOMAIN stack
      /\ \A i \in DOMAIN stack : i # Len(stack) => stack'[i] = stack[i]
      /\ stack'[Len(stack)] = [Top EXCEPT !.phase = "list"]
  BY <1>1, <1>2, <1>3, TopTypes
<1>. QED
  BY <1>1, <1>2, <1>4 DEF OnlyTop, AnyFrame

LEMMA ListDirectoryDoes ==
  ASSUME ProviderTypes, ListDirectory
  PROVE  /\ OnlyTop({"phase", "known", "batch", "subdirs"}) /\ Top.phase = "list" /\ Top.dir \in exists
         /\ stack'[Len(stack)].phase = "reconcile"
         /\ stack'[Len(stack)].known = FilesIn(Top.dir)
         /\ stack'[Len(stack)].subdirs = SubdirectoriesOf(Top.dir)
         /\ \E full \in SUBSET FilesIn(Top.dir) :
              /\ stack'[Len(stack)].batch = Versions(FilesIn(Top.dir) \ full)
              /\ Report(Versions(full))
<1>1. stack # <<>> /\ Top.dir \in exists /\ Top.phase = "list"
  BY DEF ListDirectory, Scanning
<1>2. FilesIn(Top.dir) \subseteq DirFiles /\ SubdirectoriesOf(Top.dir) \subseteq Directories
  BY DEF FilesIn, SubdirectoriesOf, ProviderTypes, AllDirectories
<1>3. PICK full \in SUBSET FilesIn(Top.dir) :
        /\ stack' = WithTop([Top EXCEPT !.phase = "reconcile", !.known = FilesIn(Top.dir),
                                        !.batch = Versions(FilesIn(Top.dir) \ full),
                                        !.subdirs = SubdirectoriesOf(Top.dir)])
        /\ Report(Versions(full))
  BY DEF ListDirectory
<1>. DEFINE frame == [Top EXCEPT !.phase = "reconcile", !.known = FilesIn(Top.dir),
                                 !.batch = Versions(FilesIn(Top.dir) \ full),
                                 !.subdirs = SubdirectoriesOf(Top.dir)]
<1>4. Versions(FilesIn(Top.dir) \ full) \subseteq FilePair
  BY <1>2, VersionsType
<1>5. Top \in AnyFrame /\ frame \in AnyFrame
  BY <1>1, <1>2, <1>4, TopTypes DEF AnyFrame
<1>6. /\ Len(stack) \in Nat \ {0} /\ DOMAIN stack = 1 .. Len(stack)
      /\ Top = stack[Len(stack)] /\ Len(stack) \in DOMAIN stack
      /\ Len(stack') = Len(stack) /\ DOMAIN stack' = DOMAIN stack
      /\ \A i \in DOMAIN stack : i # Len(stack) => stack'[i] = stack[i]
      /\ stack'[Len(stack)] = frame
  BY <1>1, <1>3, <1>5, TopTypes
<1>. QED
  BY <1>1, <1>3, <1>5, <1>6 DEF OnlyTop, AnyFrame

(* The versions that events tell of.                                       *)
Closed == {<<e.name, e.version>> : e \in Closings}

LEMMA ReconcileDoes ==
  ASSUME ProviderTypes, Reconcile
  PROVE  /\ OnlyTop({"fresh"}) /\ Top.phase = "reconcile"
         /\ stack'[Len(stack)].fresh = Top.fresh \cup New(Closed)
         /\ lost' = lost \cup {p \in Closed : p[1] \in Top.known \ Names(Top.batch)}
<1>. DEFINE frame == [Top EXCEPT !.fresh = @ \cup New(Closed)]
<1>1. stack # <<>> /\ Top.phase = "reconcile"
  BY DEF Reconcile, Scanning
<1>2. New(Closed) \subseteq AnyPair
  BY ClosingPairs DEF New, Closed
<1>3. Top \in AnyFrame /\ frame \in AnyFrame
  BY <1>1, <1>2, TopTypes DEF AnyFrame
<1>4. stack' = WithTop(frame) /\ lost' = lost \cup {p \in Closed : p[1] \in Top.known \ Names(Top.batch)}
  BY DEF Reconcile, Closed
<1>5. /\ Len(stack) \in Nat \ {0} /\ DOMAIN stack = 1 .. Len(stack)
      /\ Top = stack[Len(stack)] /\ Len(stack) \in DOMAIN stack
      /\ Len(stack') = Len(stack) /\ DOMAIN stack' = DOMAIN stack
      /\ \A i \in DOMAIN stack : i # Len(stack) => stack'[i] = stack[i]
      /\ stack'[Len(stack)] = frame
  BY <1>1, <1>3, <1>4, TopTypes
<1>. QED
  BY <1>1, <1>3, <1>4, <1>5 DEF OnlyTop, AnyFrame

LEMMA ReconciledDoes ==
  ASSUME ProviderTypes, Reconciled
  PROVE  /\ OnlyTop({"phase", "known", "batch", "fresh"}) /\ Top.phase = "reconcile"
         /\ stack'[Len(stack)].phase = "subdirs"
         /\ stack'[Len(stack)].known = {} /\ stack'[Len(stack)].fresh = {}
         /\ stack'[Len(stack)].batch = Versions(Names(Top.batch))
         /\ Names(Top.batch) \subseteq DirFiles
<1>. DEFINE frame == [Top EXCEPT !.phase = "subdirs", !.known = {}, !.fresh = {},
                                 !.batch = Versions(Names(@))]
<1>1. stack # <<>> /\ Top.phase = "reconcile"
  BY DEF Reconciled, Scanning
<1>2. Top \in AnyFrame
  BY <1>1, TopTypes
<1>3. Names(Top.batch) \subseteq DirFiles
  BY <1>2 DEF AnyFrame, FilePair, Names
<1>4. Versions(Names(Top.batch)) \subseteq FilePair
  BY <1>3, VersionsType
<1>5. frame \in AnyFrame
  BY <1>2, <1>4 DEF AnyFrame
<1>6. stack' = WithTop(frame)
  BY DEF Reconciled
<1>7. /\ Len(stack) \in Nat \ {0} /\ DOMAIN stack = 1 .. Len(stack)
      /\ Top = stack[Len(stack)] /\ Len(stack) \in DOMAIN stack
      /\ Len(stack') = Len(stack) /\ DOMAIN stack' = DOMAIN stack
      /\ \A i \in DOMAIN stack : i # Len(stack) => stack'[i] = stack[i]
      /\ stack'[Len(stack)] = frame
  BY <1>1, <1>5, <1>6, TopTypes
<1>. QED
  BY <1>1, <1>2, <1>3, <1>7 DEF OnlyTop, AnyFrame

(* EnterSubdirectory for d.                                                *)
Entered(d) ==
  /\ stack # <<>> /\ Len(stack) \in Nat \ {0} /\ DOMAIN stack = 1 .. Len(stack)
  /\ Top = stack[Len(stack)] /\ Len(stack) \in DOMAIN stack /\ Top.phase = "subdirs"
  /\ Len(stack') = Len(stack) + 1 /\ DOMAIN stack' = 1 .. Len(stack) + 1
  /\ \A i \in DOMAIN stack : i # Len(stack) => stack'[i] = stack[i]
  /\ stack'[Len(stack)].subdirs = Top.subdirs \ {d}
  /\ \A field \in {"dir", "phase", "known", "batch", "fresh"} :
       stack'[Len(stack)][field] = stack[Len(stack)][field]
  /\ stack'[Len(stack) + 1].dir = d /\ stack'[Len(stack) + 1].phase = "watch"
  /\ \A field \in {"known", "batch", "fresh", "subdirs"} : stack'[Len(stack) + 1][field] = {}

LEMMA EnterSubdirectoryDoes ==
  ASSUME ProviderTypes, EnterSubdirectory
  PROVE  \E d \in Top.subdirs : d \in Directories /\ Entered(d)
<1>1. stack # <<>> /\ Top.phase = "subdirs"
  BY DEF EnterSubdirectory, Scanning
<1>2. PICK d \in Top.subdirs :
        stack' = Append(WithTop([Top EXCEPT !.subdirs = @ \ {d}]), Frame(d))
  BY DEF EnterSubdirectory
<1>. DEFINE frame == [Top EXCEPT !.subdirs = @ \ {d}]
<1>3. Top \in AnyFrame /\ d \in Directories
  BY <1>1, TopTypes DEF AnyFrame
<1>4. frame \in AnyFrame /\ Frame(d) \in AnyFrame
  BY <1>3, FrameType DEF AnyFrame, AllDirectories
<1>5. /\ Len(stack) \in Nat \ {0} /\ DOMAIN stack = 1 .. Len(stack)
      /\ Top = stack[Len(stack)] /\ Len(stack) \in DOMAIN stack
      /\ WithTop(frame) \in Seq(AnyFrame)
      /\ Len(WithTop(frame)) = Len(stack) /\ DOMAIN WithTop(frame) = DOMAIN stack
      /\ \A i \in DOMAIN stack : i # Len(stack) => WithTop(frame)[i] = stack[i]
      /\ WithTop(frame)[Len(stack)] = frame
  BY <1>1, <1>4, TopTypes
<1>6. /\ Len(stack') = Len(stack) + 1 /\ stack' \in Seq(AnyFrame)
      /\ \A i \in 1 .. Len(stack) : stack'[i] = WithTop(frame)[i]
      /\ stack'[Len(stack) + 1] = Frame(d)
  <2>1. PICK rest \in Seq(AnyFrame) : rest = WithTop(frame)
    BY <1>5
  <2>2. stack' = Append(rest, Frame(d)) /\ Len(rest) = Len(stack)
    BY <1>2, <1>5, <2>1
  <2>3. /\ Append(rest, Frame(d)) \in Seq(AnyFrame) /\ Len(Append(rest, Frame(d))) = Len(rest) + 1
        /\ \A i \in 1 .. Len(rest) : Append(rest, Frame(d))[i] = rest[i]
        /\ Append(rest, Frame(d))[Len(rest) + 1] = Frame(d)
    BY <1>4, AppendProperties
  <2>. QED
    BY <2>1, <2>2, <2>3
<1>7. DOMAIN stack' = 1 .. Len(stack) + 1
  BY <1>6, LenProperties
<1>8. \A i \in DOMAIN stack : i # Len(stack) => stack'[i] = stack[i]
  BY <1>5, <1>6
<1>9. stack'[Len(stack)] = frame
  BY <1>5, <1>6
<1>10. /\ stack'[Len(stack)].subdirs = Top.subdirs \ {d}
       /\ \A field \in {"dir", "phase", "known", "batch", "fresh"} :
            stack'[Len(stack)][field] = stack[Len(stack)][field]
  BY <1>3, <1>5, <1>9 DEF AnyFrame
<1>11. /\ stack'[Len(stack) + 1].dir = d /\ stack'[Len(stack) + 1].phase = "watch"
       /\ \A field \in {"known", "batch", "fresh", "subdirs"} : stack'[Len(stack) + 1][field] = {}
  BY <1>6 DEF Frame
<1>. QED
  BY <1>1, <1>3, <1>5, <1>6, <1>7, <1>8, <1>10, <1>11 DEF Entered

LEMMA LeaveDirectoryDoes ==
  ASSUME ProviderTypes, LeaveDirectory
  PROVE  /\ stack # <<>> /\ Len(stack) \in Nat \ {0} /\ DOMAIN stack = 1 .. Len(stack)
         /\ Top = stack[Len(stack)] /\ Len(stack) \in DOMAIN stack
         /\ Top.phase = "subdirs" /\ Top.subdirs = {}
         /\ Len(stack') = Len(stack) - 1 /\ DOMAIN stack' = 1 .. Len(stack) - 1
         /\ DOMAIN stack' = DOMAIN stack \ {Len(stack)}
         /\ \A i \in DOMAIN stack' : stack'[i] = stack[i]
<1>1. stack # <<>> /\ Top.phase = "subdirs" /\ Top.subdirs = {} /\ stack' = Front(stack)
  BY DEF LeaveDirectory, Scanning
<1>2. /\ Len(stack) \in Nat \ {0} /\ DOMAIN stack = 1 .. Len(stack)
      /\ Top = stack[Len(stack)] /\ Len(stack) \in DOMAIN stack
      /\ Len(stack') = Len(stack) - 1 /\ DOMAIN stack' = 1 .. Len(stack) - 1
      /\ \A i \in DOMAIN stack' : stack'[i] = stack[i]
  BY <1>1, TopTypes
<1>3. DOMAIN stack' = DOMAIN stack \ {Len(stack)}
  BY <1>2
<1>. QED
  BY <1>1, <1>2, <1>3

-----------------------------------------------------------------------------
(* The calls.                                                              *)

CallOK(i) ==
  /\ i # Len(stack) => stack[i].phase = "subdirs"
  /\ stack[i].phase \in {"watch", "list"} => stack[i].batch = {} /\ stack[i].subdirs = {}
  /\ stack[i].phase # "reconcile" => stack[i].known = {} /\ stack[i].fresh = {}
  /\ stack[i].phase = "reconcile" => Names(stack[i].batch) \subseteq stack[i].known
  /\ \A f \in stack[i].known : DirectoryOf[f] = stack[i].dir
  /\ \A p \in stack[i].batch : DirectoryOf[p[1]] = stack[i].dir
  /\ \A d \in stack[i].subdirs : parent[d] = stack[i].dir

LEMMA VersionsOf ==
  ASSUME ProviderTypes, NEW names \in SUBSET DirFiles
  PROVE  /\ \A p \in Versions(names) : p[1] \in names /\ p = <<p[1], version[p[1]]>>
         /\ Names(Versions(names)) = names
         /\ \A f \in names : <<f, version[f]>> \in Versions(names)
<1>1. \A p \in Versions(names) : p[1] \in names /\ p = <<p[1], version[p[1]]>>
  BY DEF Versions
<1>2. Names(Versions(names)) = names
  BY VersionsType
<1>3. \A f \in names : <<f, version[f]>> \in Versions(names)
  BY DEF Versions
<1>. QED
  BY <1>1, <1>2, <1>3

LEMMA CallsKept ==
  ASSUME ProviderTypes, Calls, ProviderNext
  PROVE  Calls'
<1>0. \A i \in DOMAIN stack : CallOK(i)
  BY DEF Calls, CallOK
<1>. DEFINE Stages ==
       /\ status = "scanning" =>
            stack # <<>> /\ stack[1].dir = Root /\ unhandled = <<>> /\ batch = {} /\ ~scan_complete
       /\ status = "waiting" => stack = <<>> /\ unhandled = <<>> /\ batch = {}
       /\ status \in {"waiting", "handling"} => scan_complete
<1>1. Stages
  BY DEF Calls
<1>2. ASSUME \A i \in DOMAIN stack' : CallOK(i)', Stages'
      PROVE  Calls'
  BY <1>2 DEF Calls, CallOK, Names
<1>. HIDE DEF Stages
<1>3. ASSUME UNCHANGED <<stack, parent>>
      PROVE  \A i \in DOMAIN stack' : CallOK(i)'
  BY <1>0, <1>3 DEF CallOK, Names
<1>4. ASSUME Change
      PROVE  Calls'
  <2>1. Stages'
    BY <1>1, <1>4 DEF Change, put, Stages
  <2>. QED
    BY <1>2, <1>3, <1>4, <2>1 DEF Change
<1>5. CASE \/ QueueOverflows
           \/ \E f \in DirFiles : WriteFile(f) \/ CloseFile(f) \/ MoveFileIn(f) \/ DeleteFile(f)
  BY <1>4, <1>5 DEF QueueOverflows, WriteFile, CloseFile, MoveFileIn, Completed, DeleteFile
<1>6. CASE \E d \in Directories : MakeDirectory(d) \/ MoveDirectoryIn(d) \/ RemoveDirectory(d)
  BY <1>4, <1>6 DEF MakeDirectory, MoveDirectoryIn, RemoveDirectory
<1>7. CASE ScanFails \/ ReconcileFails \/ EventFails
  <2>1. UNCHANGED <<stack, parent>> /\ status' \in {"dead", "aborted"}
    BY <1>7 DEF ScanFails, ReconcileFails, EventFails, Abort, Die, tree
  <2>. QED
    BY <1>2, <1>3, <2>1 DEF Stages
<1>8. CASE AddWatch
  <2>1. OnlyTop({"phase"}) /\ Top.phase = "watch" /\ stack'[Len(stack)].phase = "list"
    BY <1>8, AddWatchDoes
  <2>2. UNCHANGED <<parent, unhandled, batch, status, scan_complete>>
    BY <1>8 DEF AddWatch, tree, put
  <2>3. \A i \in DOMAIN stack' : CallOK(i)'
    BY <1>0, <2>1, <2>2 DEF CallOK, OnlyTop, Names
  <2>4. Stages'
    BY <1>1, <2>1, <2>2 DEF Stages, OnlyTop
  <2>. QED
    BY <1>2, <2>3, <2>4
<1>9. CASE ListDirectory
  <2>1. /\ OnlyTop({"phase", "known", "batch", "subdirs"}) /\ Top.phase = "list"
        /\ stack'[Len(stack)].phase = "reconcile" /\ stack'[Len(stack)].known = FilesIn(Top.dir)
        /\ stack'[Len(stack)].subdirs = SubdirectoriesOf(Top.dir)
        /\ \E full \in SUBSET FilesIn(Top.dir) :
             stack'[Len(stack)].batch = Versions(FilesIn(Top.dir) \ full)
    BY <1>9, ListDirectoryDoes
  <2>2. UNCHANGED <<parent, unhandled, batch, status, scan_complete>>
    BY <1>9 DEF ListDirectory, tree
  <2>3. PICK names \in SUBSET FilesIn(Top.dir) : stack'[Len(stack)].batch = Versions(names)
    BY <2>1
  <2>4. /\ \A p \in Versions(names) : p[1] \in names
        /\ Names(Versions(names)) = names /\ names \subseteq FilesIn(Top.dir)
        /\ \A f \in names : DirectoryOf[f] = Top.dir
    BY VersionsOf DEF FilesIn
  <2>5. \A i \in DOMAIN stack' : CallOK(i)'
    <3>1. ASSUME NEW i \in DOMAIN stack, i # Len(stack)
          PROVE  CallOK(i)'
      BY <1>0, <2>1, <2>2, <3>1 DEF CallOK, OnlyTop, Names
    <3>2. Names(stack'[Len(stack)].batch) \subseteq FilesIn(Top.dir)
      BY <2>3, <2>4
    <3>3. CallOK(Len(stack))'
      <4>1. /\ stack'[Len(stack)].dir = Top.dir /\ Len(stack') = Len(stack)
            /\ stack'[Len(stack)].fresh = {}
        BY <1>0, <2>1 DEF OnlyTop, CallOK
      <4>2. Names(stack[Len(stack)].batch)' \subseteq FilesIn(Top.dir)
        BY <3>2, <4>1 DEF Names
      <4>3. \A f \in FilesIn(Top.dir) : DirectoryOf[f] = Top.dir
        BY DEF FilesIn
      <4>4. \A p \in stack'[Len(stack)].batch : DirectoryOf[p[1]] = Top.dir
        BY <2>3, <2>4
      <4>5. \A d \in SubdirectoriesOf(Top.dir) : parent'[d] = Top.dir
        BY <2>2 DEF SubdirectoriesOf
      <4>. QED
        BY <2>1, <4>1, <4>2, <4>3, <4>4, <4>5 DEF CallOK
    <3>. QED
      BY <2>1, <3>1, <3>3 DEF OnlyTop
  <2>6. Stages'
    BY <1>1, <2>1, <2>2 DEF Stages, OnlyTop
  <2>. QED
    BY <1>2, <2>5, <2>6
<1>10. CASE Reconcile
  <2>1. OnlyTop({"fresh"}) /\ Top.phase = "reconcile"
    BY <1>10, ReconcileDoes
  <2>2. UNCHANGED <<parent, unhandled, batch, status, scan_complete>>
    BY <1>10 DEF Reconcile, tree, put
  <2>3. \A i \in DOMAIN stack' : CallOK(i)'
    BY <1>0, <2>1, <2>2 DEF CallOK, OnlyTop, Names
  <2>4. Stages'
    BY <1>1, <2>1, <2>2 DEF Stages, OnlyTop
  <2>. QED
    BY <1>2, <2>3, <2>4
<1>11. CASE Reconciled
  <2>1. /\ OnlyTop({"phase", "known", "batch", "fresh"}) /\ Top.phase = "reconcile"
        /\ stack'[Len(stack)].phase = "subdirs"
        /\ stack'[Len(stack)].known = {} /\ stack'[Len(stack)].fresh = {}
        /\ stack'[Len(stack)].batch = Versions(Names(Top.batch)) /\ Names(Top.batch) \subseteq DirFiles
    BY <1>11, ReconciledDoes
  <2>2. UNCHANGED <<parent, unhandled, batch, status, scan_complete>>
    BY <1>11 DEF Reconciled, tree
  <2>3. \A p \in Versions(Names(Top.batch)) : p[1] \in Names(Top.batch)
    BY <2>1, VersionsOf
  <2>4. \A p \in Versions(Names(Top.batch)) : DirectoryOf[p[1]] = Top.dir
    BY <1>0, <2>1, <2>3 DEF OnlyTop, CallOK, Names
  <2>5. ASSUME NEW i \in DOMAIN stack, i # Len(stack)
        PROVE  CallOK(i)'
    BY <1>0, <2>1, <2>2, <2>5 DEF CallOK, OnlyTop, Names
  <2>6. CallOK(Len(stack))'
    BY <1>0, <2>1, <2>2, <2>4 DEF CallOK, OnlyTop, Names
  <2>7. \A i \in DOMAIN stack' : CallOK(i)'
    BY <2>1, <2>5, <2>6 DEF OnlyTop
  <2>8. Stages'
    BY <1>1, <2>1, <2>2 DEF Stages, OnlyTop
  <2>. QED
    BY <1>2, <2>7, <2>8
<1>12. CASE EnterSubdirectory
  <2>1. PICK d \in Top.subdirs : d \in Directories /\ Entered(d)
    BY <1>12, EnterSubdirectoryDoes
  <2>2. UNCHANGED <<parent, unhandled, batch, status, scan_complete>>
    BY <1>12 DEF EnterSubdirectory, tree, put
  <2>3. ASSUME NEW i \in DOMAIN stack'
        PROVE  CallOK(i)'
    <3>1. CASE i = Len(stack) + 1
      BY <2>1, <3>1 DEF CallOK, Entered, Names
    <3>2. CASE i = Len(stack)
      BY <1>0, <2>1, <2>2, <3>2 DEF CallOK, Entered, Names
    <3>3. CASE i # Len(stack) /\ i # Len(stack) + 1
      <4>1. i \in DOMAIN stack /\ stack'[i] = stack[i]
        BY <2>1, <3>3 DEF Entered
      <4>. QED
        BY <1>0, <2>2, <3>3, <4>1 DEF CallOK, Names
    <3>. QED
      BY <3>1, <3>2, <3>3
  <2>4. Stages'
    BY <1>1, <2>1, <2>2 DEF Stages, Entered
  <2>. QED
    BY <1>2, <2>3, <2>4
<1>13. CASE LeaveDirectory
  <2>1. /\ stack # <<>> /\ Len(stack) \in Nat \ {0} /\ DOMAIN stack = 1 .. Len(stack)
        /\ Len(stack') = Len(stack) - 1 /\ DOMAIN stack' = 1 .. Len(stack) - 1
        /\ DOMAIN stack' = DOMAIN stack \ {Len(stack)}
        /\ \A i \in DOMAIN stack' : stack'[i] = stack[i]
    BY <1>13, LeaveDirectoryDoes
  <2>2. UNCHANGED <<parent, unhandled, batch>>
    BY <1>13 DEF LeaveDirectory, tree
  <2>3. \A i \in DOMAIN stack' : CallOK(i)'
    BY <1>0, <2>1, <2>2 DEF CallOK, Names
  <2>4. stack' \in Seq(AnyFrame)
    BY <1>13, TypesKept DEF ProviderTypes
  <2>5. CASE status = "scanning" /\ Len(stack) = 1
    <3>1. status' = "waiting" /\ scan_complete'
      BY <1>13, <2>5 DEF LeaveDirectory
    <3>2. stack' = <<>>
      BY <2>1, <2>4, <2>5, EmptySeq
    <3>. QED
      BY <1>1, <1>2, <2>2, <2>3, <2>5, <3>1, <3>2 DEF Stages
  <2>6. CASE ~(status = "scanning" /\ Len(stack) = 1)
    <3>1. UNCHANGED <<status, scan_complete>>
      BY <1>13, <2>6 DEF LeaveDirectory, ProviderTypes
    <3>2. status = "scanning" => 1 \in DOMAIN stack' /\ stack' # <<>>
      BY <2>1, <2>6
    <3>3. status # "waiting"
      BY <1>1, <2>1 DEF Stages
    <3>4. Stages'
      BY <1>1, <2>1, <2>2, <3>1, <3>2, <3>3 DEF Stages
    <3>. QED
      BY <1>2, <2>3, <3>4
  <2>. QED
    BY <2>5, <2>6
<1>14. CASE ReadEvents
  BY <1>1, <1>2, <1>3, <1>14 DEF ReadEvents, Stages, tree, put
<1>15. CASE FlushBatch \/ NoMoreEvents
  BY <1>1, <1>2, <1>3, <1>15 DEF FlushBatch, NoMoreEvents, Stages, tree
<1>16. CASE FileEvent \/ DeleteEvent
  <2>1. UNCHANGED <<stack, parent, status, scan_complete>> /\ status = "handling"
    BY <1>16 DEF FileEvent, DeleteEvent, Handles, tree, put
  <2>. QED
    BY <1>1, <1>2, <1>3, <2>1 DEF Stages
<1>17. CASE CreateEvent
  <2>1. UNCHANGED <<parent, status, scan_complete>> /\ status = "handling"
        /\ stack' = <<Frame(Head(unhandled).name)>>
    BY <1>17 DEF CreateEvent, Handles, tree, put
  <2>2. DOMAIN stack' = {1} /\ Len(stack') = 1 /\ stack'[1] = Frame(Head(unhandled).name)
    BY <2>1
  <2>3. \A i \in DOMAIN stack' : CallOK(i)'
    BY <2>2 DEF CallOK, Frame, Names
  <2>. QED
    BY <1>1, <1>2, <2>1, <2>3 DEF Stages
<1>. QED
  BY <1>5, <1>6, <1>7, <1>8, <1>9, <1>10, <1>11, <1>12, <1>13, <1>14, <1>15, <1>16, <1>17
     DEF ProviderNext

-----------------------------------------------------------------------------
(* Descriptors.                                                            *)

LEMMA WaitingKept ==
  ASSUME ProviderTypes, ProviderNext, UNCHANGED changes
  PROVE  Waiting' \subseteq Waiting
<1>1. events \in Seq(AnyEvent) /\ unhandled \in Seq(AnyEvent) /\ ToSet(<<>>) = {}
  BY EmptySeq, ToSetOf DEF ProviderTypes
<1>2. ASSUME UNCHANGED <<events, unhandled>>
      PROVE  Waiting' \subseteq Waiting
  BY <1>2 DEF Waiting
<1>3. CASE \/ ScanFails \/ ReconcileFails \/ EventFails \/ AddWatch \/ ListDirectory \/ Reconciled
           \/ EnterSubdirectory \/ LeaveDirectory \/ FlushBatch \/ NoMoreEvents
  BY <1>2, <1>3 DEF ScanFails, ReconcileFails, EventFails, Abort, Die, AddWatch, ListDirectory,
     Reconciled, EnterSubdirectory, LeaveDirectory, FlushBatch, NoMoreEvents, inotify
<1>4. CASE Reconcile
  BY <1>1, <1>4 DEF Reconcile, Waiting
<1>5. CASE ReadEvents
  BY <1>1, <1>5 DEF ReadEvents, Waiting
<1>6. CASE FileEvent \/ CreateEvent \/ DeleteEvent
  <2>1. unhandled # <<>> /\ unhandled' = Tail(unhandled) /\ events' = events
    BY <1>6 DEF FileEvent, CreateEvent, DeleteEvent, Handles
  <2>2. ToSet(Tail(unhandled)) \subseteq ToSet(unhandled)
    BY <1>1, <2>1, ToSetOf
  <2>. QED
    BY <2>1, <2>2 DEF Waiting
<1>7. ~Change
  <2>. SUFFICES ASSUME Change PROVE FALSE
    OBVIOUS
  <2>1. changes' = changes + 1 /\ changes \in Nat
    BY DEF Change, ProviderTypes
  <2>. QED
    BY <2>1
<1>. QED
  BY <1>3, <1>4, <1>5, <1>6, <1>7 DEF ProviderNext, QueueOverflows, WriteFile, CloseFile,
     MoveFileIn, Completed, DeleteFile, MakeDirectory, MoveDirectoryIn, RemoveDirectory

LEMMA DescriptorsSame ==
  ASSUME ProviderTypes, DescriptorsStand, UNCHANGED <<kernel, next_wd, watch_descriptors>>,
         removed \subseteq removed',
         \A e \in Waiting' : e \notin Waiting => e.kind \notin {"delete dir", "delete self"}
  PROVE  DescriptorsStand'
BY DEF DescriptorsStand

LEMMA DescriptorsKept ==
  ASSUME ProviderTypes, DescriptorsStand, ProviderNext
  PROVE  DescriptorsStand'
<1>a. \A p \in watch_descriptors : p[1] < next_wd
  BY DEF DescriptorsStand
<1>b. \A d \in AllDirectories : kernel[d] < next_wd
  BY DEF DescriptorsStand
<1>c. \A d \in AllDirectories : \A p \in watch_descriptors : p[1] = kernel[d] => p[2] = d
  BY DEF DescriptorsStand
<1>d. \A d, e \in AllDirectories : kernel[d] # 0 /\ kernel[d] = kernel[e] => d = e
  BY DEF DescriptorsStand
<1>e. \A e \in Waiting : e.kind = "delete self" =>
        /\ e.wd < next_wd /\ \A d \in AllDirectories : kernel[d] # 0 => kernel[d] # e.wd
        /\ \A p \in watch_descriptors : p[1] = e.wd => p[2] = e.name
  BY DEF DescriptorsStand
<1>f. /\ next_wd \in Nat \ {0} /\ \A e \in AllDirectories : kernel[e] \in Nat
      /\ watch_descriptors \subseteq (Nat \ {0}) \X AllDirectories
      /\ \A p \in watch_descriptors : p[1] \in Nat \ {0}
  BY DEF ProviderTypes
<1>1. CASE Change
  <2>0. UNCHANGED <<next_wd, watch_descriptors, unhandled>>
    BY <1>1 DEF Change
  <2>1. ASSUME NEW f \in DirFiles, WriteFile(f) \/ DeleteFile(f)
        PROVE  DescriptorsStand'
    BY <2>0, <2>1, DescriptorsSame DEF WriteFile, DeleteFile, Waiting
  <2>2. CASE QueueOverflows
    <3>1. ToSet(events') = ToSet(events) \cup {Overflow}
      BY <2>2, OverflowDoes
    <3>2. Overflow.kind \notin {"delete dir", "delete self"}
      BY DEF Overflow
    <3>3. \A e \in Waiting' : e \in Waiting \/ e = Overflow
      BY <2>0, <3>1 DEF Waiting
    <3>4. UNCHANGED <<kernel, removed>>
      BY <2>2 DEF QueueOverflows
    <3>. QED
      BY <2>0, <3>2, <3>3, <3>4, DescriptorsSame
  <2>3. ASSUME NEW kind \in {"close", "moved to", "create dir"}, NEW dir, NEW name, NEW number,
               Sends(kind, dir, name, number), UNCHANGED <<kernel, removed>>
        PROVE  DescriptorsStand'
    <3>1. \A e \in ToSet(events') : e \in ToSet(events) \/ IsOf(e, kind, dir, name)
      BY <2>3 DEF Sends, GrownBy
    <3>2. \A e \in Waiting' : e \in Waiting \/ e.kind = kind
      BY <2>0, <3>1 DEF Waiting, IsOf
    <3>. QED
      BY <2>0, <2>3, <3>2, DescriptorsSame
  <2>4. ASSUME NEW f \in DirFiles, NEW kind \in {"close", "moved to"}, NEW n \in Nat,
               Completed(f, kind), Sends(kind, DirectoryOf[f], f, n)
        PROVE  DescriptorsStand'
    BY <2>3, <2>4 DEF Completed
  <2>5. ASSUME NEW d \in Directories, \/ MakeDirectory(d) /\ Sends("create dir", parent[d], d, 0)
                                      \/ MoveDirectoryIn(d) /\ Sends("moved to", parent[d], d, 0)
        PROVE  DescriptorsStand'
    BY <2>3, <2>5 DEF MakeDirectory, MoveDirectoryIn
  <2>6. ASSUME NEW d \in Directories, RemoveDirectory(d)
        PROVE  DescriptorsStand'
    <3>1. \A e \in ToSet(events') :
            e \in ToSet(events) \/ IsOf(e, "delete self", d, d) \/ IsOf(e, "delete dir", parent[d], d)
      BY <2>6, RemovalDoes
    <3>3. \A e \in Waiting' :
            e \in Waiting \/ IsOf(e, "delete self", d, d) \/ IsOf(e, "delete dir", parent[d], d)
      BY <2>0, <3>1 DEF Waiting
    <3>6. removed' = removed \cup {d} /\ d \in AllDirectories
          /\ \A e \in AllDirectories : kernel'[e] = IF e = d THEN 0 ELSE kernel[e]
      BY <2>6 DEF RemoveDirectory, ProviderTypes, AllDirectories
    <3>8. \A e \in AllDirectories : kernel'[e] < next_wd
      BY <1>b, <1>f, <3>6
    <3>10. \A e \in AllDirectories : \A p \in watch_descriptors : p[1] = kernel'[e] => p[2] = e
      BY <1>c, <1>f, <3>6
    <3>11. \A e, g \in AllDirectories : kernel'[e] # 0 /\ kernel'[e] = kernel'[g] => e = g
      BY <1>d, <3>6
    <3>12. \A e \in Waiting' : e.kind \in {"delete dir", "delete self"} => e.name \in removed'
      BY <3>3, <3>6 DEF DescriptorsStand, IsOf
    <3>13. ASSUME NEW e \in Waiting', e.kind = "delete self"
           PROVE  /\ e.wd < next_wd /\ \A g \in AllDirectories : kernel'[g] # 0 => kernel'[g] # e.wd
                  /\ \A p \in watch_descriptors : p[1] = e.wd => p[2] = e.name
      <4>1. e \in Waiting \/ IsOf(e, "delete self", d, d)
        BY <3>3, <3>13 DEF IsOf
      <4>2. CASE e \in Waiting
        <5>1. /\ e.wd < next_wd /\ \A g \in AllDirectories : kernel[g] # 0 => kernel[g] # e.wd
              /\ \A p \in watch_descriptors : p[1] = e.wd => p[2] = e.name
          BY <1>e, <3>13, <4>2
        <5>. QED
          BY <3>6, <5>1
      <4>3. CASE IsOf(e, "delete self", d, d)
        <5>1. e.name = d /\ e.wd = kernel[d] /\ e.wd # 0
          BY <4>3 DEF IsOf
        <5>2. \A g \in AllDirectories : kernel'[g] # 0 => kernel'[g] # e.wd
          BY <1>d, <3>6, <5>1
        <5>3. \A p \in watch_descriptors : p[1] = e.wd => p[2] = e.name
          BY <1>c, <3>6, <5>1
        <5>4. e.wd < next_wd
          BY <1>b, <3>6, <5>1
        <5>. QED
          BY <5>2, <5>3, <5>4
      <4>. QED
        BY <4>1, <4>2, <4>3
    <3>. QED
      BY <2>0, <3>8, <3>10, <3>11, <3>12, <3>13 DEF DescriptorsStand
  <2>. QED
    BY <1>1, <2>1, <2>2, <2>4, <2>5, <2>6, ChangeDoes
<1>2. ASSUME UNCHANGED <<changes, removed, kernel, next_wd, watch_descriptors>>
      PROVE  DescriptorsStand'
  BY <1>2, WaitingKept, DescriptorsSame
<1>3. CASE AddWatch
  <2>. DEFINE d == Top.dir
              wd == IF kernel[d] = 0 THEN next_wd ELSE kernel[d]
  <2>1. /\ d \in AllDirectories /\ kernel' = [kernel EXCEPT ![d] = wd]
        /\ next_wd' = IF kernel[d] = 0 THEN next_wd + 1 ELSE next_wd
        /\ watch_descriptors' = {p \in watch_descriptors : p[1] # wd} \cup {<<wd, d>>}
        /\ UNCHANGED <<changes, removed>>
    BY <1>3 DEF AddWatch, tree, ProviderTypes
  <2>3. \A e \in AllDirectories : kernel'[e] = IF e = d THEN wd ELSE kernel[e]
    BY <2>1 DEF ProviderTypes
  <2>4. Waiting' \subseteq Waiting
    BY <2>1, WaitingKept
  <2>. HIDE DEF d
  <2>5. wd # 0 /\ wd \in Nat /\ wd < next_wd' /\ next_wd <= next_wd' /\ next_wd' \in Nat
    BY <1>b, <1>f, <2>1
  <2>6. \A e \in AllDirectories \ {d} : kernel[e] # wd
    BY <1>b, <1>d, <1>f, <2>1
  <2>7. \A p \in watch_descriptors : p[1] = wd => p[2] = d
    BY <1>a, <1>c, <1>f, <2>1
  <2>8. \A p \in watch_descriptors' : p[1] < next_wd'
    BY <1>a, <1>f, <2>1, <2>5
  <2>9. \A e \in AllDirectories : kernel'[e] < next_wd'
    BY <1>b, <1>f, <2>3, <2>5
  <2>10. \A e \in AllDirectories : \A p \in watch_descriptors' : p[1] = kernel'[e] => p[2] = e
    <3>. SUFFICES ASSUME NEW e \in AllDirectories, NEW p \in watch_descriptors', p[1] = kernel'[e]
                  PROVE  p[2] = e
      OBVIOUS
    <3>1. CASE p = <<wd, d>>
      BY <2>3, <2>6, <3>1
    <3>2. CASE p \in watch_descriptors /\ p[1] # wd
      BY <1>c, <2>3, <3>2
    <3>. QED
      BY <2>1, <3>1, <3>2
  <2>11. \A e, g \in AllDirectories : kernel'[e] # 0 /\ kernel'[e] = kernel'[g] => e = g
    <3>. HIDE DEF wd
    <3>. QED
      BY <1>d, <2>3, <2>6
  <2>12. ASSUME NEW e \in Waiting', e.kind = "delete self"
         PROVE  /\ e.wd < next_wd' /\ \A g \in AllDirectories : kernel'[g] # 0 => kernel'[g] # e.wd
                /\ \A p \in watch_descriptors' : p[1] = e.wd => p[2] = e.name
    <3>1. /\ e.wd < next_wd /\ \A g \in AllDirectories : kernel[g] # 0 => kernel[g] # e.wd
          /\ \A p \in watch_descriptors : p[1] = e.wd => p[2] = e.name
      BY <1>e, <2>4, <2>12
    <3>2. wd # e.wd
      BY <1>f, <2>1, <3>1
    <3>3. e \in AnyEvent
      BY EventsOf, <2>4 DEF Waiting, ToSet
    <3>4. e.wd \in Nat
      BY <3>3, EventRecord
    <3>5. e.wd < next_wd'
      BY <1>f, <2>5, <3>1, <3>4
    <3>. HIDE DEF wd
    <3>. QED
      BY <2>1, <2>3, <3>1, <3>2, <3>5
  <2>13. \A e \in Waiting' : e.kind \in {"delete dir", "delete self"} => e.name \in removed'
    BY <2>1, <2>4 DEF DescriptorsStand
  <2>. QED
    BY <2>8, <2>9, <2>10, <2>11, <2>12, <2>13 DEF DescriptorsStand
<1>4. CASE DeleteEvent
  <2>1. /\ watch_descriptors' \subseteq watch_descriptors /\ UNCHANGED <<changes, removed, next_wd>>
        /\ \A d \in AllDirectories : kernel'[d] = 0 \/ kernel'[d] = kernel[d]
    BY <1>4 DEF DeleteEvent, Handles, tree
  <2>2. Waiting' \subseteq Waiting
    BY <2>1, WaitingKept
  <2>4. \A d \in AllDirectories : kernel'[d] < next_wd
    BY <1>b, <1>f, <2>1
  <2>5. \A d \in AllDirectories : \A p \in watch_descriptors' : p[1] = kernel'[d] => p[2] = d
    BY <1>c, <1>f, <2>1
  <2>6. \A d, e \in AllDirectories : kernel'[d] # 0 /\ kernel'[d] = kernel'[e] => d = e
    BY <1>d, <2>1
  <2>7. \A e \in Waiting' : e.kind = "delete self" =>
          /\ e.wd < next_wd' /\ \A d \in AllDirectories : kernel'[d] # 0 => kernel'[d] # e.wd
          /\ \A p \in watch_descriptors' : p[1] = e.wd => p[2] = e.name
    BY <1>e, <2>1, <2>2
  <2>. QED
    BY <2>1, <2>2, <2>4, <2>5, <2>6, <2>7 DEF DescriptorsStand
<1>5. CASE \/ ScanFails \/ ReconcileFails \/ EventFails \/ ListDirectory \/ Reconcile \/ Reconciled
           \/ EnterSubdirectory \/ LeaveDirectory
           \/ ReadEvents \/ FlushBatch \/ NoMoreEvents \/ FileEvent \/ CreateEvent
  BY <1>2, <1>5 DEF ScanFails, ReconcileFails, EventFails, Abort, Die, ListDirectory, Reconcile,
     Reconciled, EnterSubdirectory, LeaveDirectory, ReadEvents, FlushBatch, NoMoreEvents, FileEvent,
     CreateEvent, Handles, inotify, tree
<1>. QED
  BY <1>1, <1>3, <1>4, <1>5 DEF ProviderNext, QueueOverflows, WriteFile, CloseFile,
     MoveFileIn, Completed, DeleteFile, MakeDirectory, MoveDirectoryIn, RemoveDirectory

(* Nothing that an event needs is missing.                                 *)
Sees(e) == /\ IF e = Overflow THEN overflowed ELSE Watched(e.wd)
           /\ e.kind = "create dir" => e.name \in exists

LEMMA MissingSame ==
  ASSUME ProviderTypes, NothingMissing, removed' = removed, exists \subseteq exists',
         removed = {} => status' = status, overflowed => overflowed',
         UNCHANGED <<kernel, watch_descriptors, stack>>,
         removed = {} => \A e \in Waiting' : e \notin Waiting => Sees(e)'
  PROVE  NothingMissing'
BY DEF NothingMissing, Watched, Sees

LEMMA OverflowIs == Overflow.kind = "overflow" /\ Overflow.wd = 0
BY DEF Overflow

LEMMA MissingKept ==
  ASSUME ProviderTypes, Calls, DescriptorsStand, NothingMissing, ProviderNext
  PROVE  NothingMissing'
<1>0. SUFFICES ASSUME removed' = {}
               PROVE  NothingMissing'
  BY DEF NothingMissing
<1>b. Change => removed \subseteq removed' /\ (overflowed => overflowed')
  BY ChangeDoes DEF WriteFile, DeleteFile, QueueOverflows, Completed, MakeDirectory,
     MoveDirectoryIn, RemoveDirectory
<1>c. ~Change => UNCHANGED <<removed, overflowed>>
  BY DEF ProviderNext, ScanFails, ReconcileFails, EventFails, Abort, Die, AddWatch,
     ListDirectory, Reconcile, Reconciled, EnterSubdirectory, LeaveDirectory, ReadEvents,
     FlushBatch, NoMoreEvents, FileEvent, CreateEvent, DeleteEvent, Handles, tree, inotify,
     QueueOverflows, WriteFile, CloseFile, MoveFileIn, Completed, DeleteFile, MakeDirectory,
     MoveDirectoryIn, RemoveDirectory
<1>1. removed = {} /\ (overflowed => overflowed')
  <2>1. removed \subseteq removed' /\ (overflowed => overflowed')
    BY <1>b, <1>c
  <2>. QED
    BY <1>0, <2>1
<1>2. /\ status # "aborted" /\ (status = "dead" => overflowed)
      /\ \A e \in Waiting : Sees(e)
      /\ \A d \in AllDirectories : kernel[d] # 0 => Watched(kernel[d])
      /\ \A i \in DOMAIN stack : stack[i].dir \in exists /\ stack[i].subdirs \subseteq exists
  BY <1>1 DEF NothingMissing, Sees
<1>a. \A e \in Waiting : e \in AnyEvent
  BY EventsOf DEF Waiting, ToSet
<1>3. CASE Change
  <2>0. UNCHANGED <<watch_descriptors, unhandled, stack, status>>
    BY <1>3 DEF Change
  <2>1. ASSUME NEW f \in DirFiles, WriteFile(f) \/ DeleteFile(f)
        PROVE  NothingMissing'
    BY <1>0, <1>1, <2>0, <2>1, MissingSame DEF WriteFile, DeleteFile, Waiting
  <2>2. CASE QueueOverflows
    <3>1. UNCHANGED <<kernel, exists>> /\ overflowed' = TRUE
      BY <2>2 DEF QueueOverflows
    <3>2. ToSet(events') = ToSet(events) \cup {Overflow}
      BY <2>2, OverflowDoes
    <3>3. \A e \in Waiting' : e \in Waiting \/ e = Overflow
      BY <2>0, <3>2 DEF Waiting
    <3>4. Sees(Overflow)'
      BY <3>1, OverflowIs DEF Sees
    <3>5. \A e : e = Overflow => Sees(e)'
      BY <3>4, OverflowIs DEF Sees
    <3>. QED
      BY <1>0, <1>1, <2>0, <3>1, <3>3, <3>5, MissingSame
  <2>3. ASSUME NEW kind \in {"close", "moved to", "create dir"}, NEW dir, NEW name, NEW number,
               Sends(kind, dir, name, number), UNCHANGED kernel, exists \subseteq exists',
               kind = "create dir" => name \in exists'
        PROVE  NothingMissing'
    <3>1. /\ \A e \in ToSet(events') : e \in ToSet(events) \/ IsOf(e, kind, dir, name)
          /\ dir \in AllDirectories
      BY <2>3 DEF Sends, GrownBy
    <3>2. \A e \in Waiting' : e \in Waiting \/ IsOf(e, kind, dir, name)
      BY <2>0, <3>1 DEF Waiting
    <3>3. kernel[dir] # 0 => Watched(kernel[dir])'
      BY <1>2, <2>0, <2>3, <3>1 DEF Watched
    <3>4. ASSUME NEW e, IsOf(e, kind, dir, name)
          PROVE  Sees(e)'
      <4>1. e # Overflow
        BY <3>4, OverflowIs DEF IsOf
      <4>2. Watched(e.wd)'
        BY <2>3, <3>3, <3>4 DEF IsOf, Watched
      <4>3. e.kind = "create dir" => e.name \in exists'
        BY <2>3, <3>4 DEF IsOf
      <4>. QED
        BY <4>1, <4>2, <4>3 DEF Sees, Watched
    <3>. QED
      BY <1>0, <1>1, <2>0, <2>3, <3>2, <3>4, MissingSame
  <2>4. ASSUME NEW f \in DirFiles, NEW kind \in {"close", "moved to"}, NEW n \in Nat,
               Completed(f, kind), Sends(kind, DirectoryOf[f], f, n)
        PROVE  NothingMissing'
    BY <2>3, <2>4 DEF Completed
  <2>6. ASSUME NEW d \in Directories, \/ MakeDirectory(d) /\ Sends("create dir", parent[d], d, 0)
                                      \/ MoveDirectoryIn(d) /\ Sends("moved to", parent[d], d, 0)
        PROVE  NothingMissing'
    BY <2>3, <2>6 DEF MakeDirectory, MoveDirectoryIn
  <2>5. ASSUME NEW d \in Directories, RemoveDirectory(d)
        PROVE  FALSE
    BY <1>0, <2>5 DEF RemoveDirectory
  <2>. QED
    BY <1>3, <2>1, <2>2, <2>4, <2>5, <2>6, ChangeDoes
<1>4. CASE ScanFails
  <2>1. stack # <<>> /\ Top.dir \notin exists
    BY <1>4 DEF ScanFails, Scanning
  <2>2. Top = stack[Len(stack)] /\ Len(stack) \in DOMAIN stack
    BY <2>1, TopTypes
  <2>. QED
    BY <1>2, <2>1, <2>2
<1>5. CASE ReconcileFails
  <2>1. PICK e \in Closings : ~Watched(e.wd)
    BY <1>5 DEF ReconcileFails
  <2>2. e \in Waiting /\ e # Overflow
    BY <2>1, OverflowIs DEF Closings, Waiting
  <2>. QED
    BY <1>2, <2>1, <2>2 DEF Sees
<1>6. ASSUME unhandled # <<>>
      PROVE  Head(unhandled) \in Waiting
  BY <1>6, ToSetOf DEF Waiting, ProviderTypes
<1>7. CASE EventFails
  <2>1. unhandled # <<>> /\ ~Watched(Head(unhandled).wd) /\ status' = "dead"
        /\ UNCHANGED <<changes, watch_descriptors, kernel, exists, stack, overflowed>>
    BY <1>7 DEF EventFails, Die, tree
  <2>2. overflowed
    <3>1. PICK e \in Waiting : e = Head(unhandled)
      BY <1>6, <2>1
    <3>. QED
      BY <1>2, <2>1, <3>1 DEF Sees
  <2>3. Waiting' \subseteq Waiting
    BY <2>1, WaitingKept
  <2>. QED
    BY <1>2, <2>1, <2>2, <2>3 DEF NothingMissing, Watched, Sees
<1>8. CASE DeleteEvent
  <2>1. unhandled # <<>> /\ Head(unhandled).kind \in {"delete dir", "delete self"}
    BY <1>8 DEF DeleteEvent, Handles
  <2>2. Head(unhandled).name \in removed
    BY <1>6, <2>1 DEF DescriptorsStand
  <2>. QED
    BY <1>1, <2>2
<1>9. CASE ReadEvents \/ FlushBatch \/ NoMoreEvents \/ FileEvent
  <2>1. /\ UNCHANGED <<changes, kernel, watch_descriptors, stack, exists, overflowed>>
        /\ status' \notin {"dead", "aborted"}
    BY <1>2, <1>9 DEF ReadEvents, FlushBatch, NoMoreEvents, FileEvent, Handles, tree, inotify
  <2>2. Waiting' \subseteq Waiting
    BY <2>1, WaitingKept
  <2>. QED
    BY <1>2, <2>1, <2>2 DEF NothingMissing, Watched, Sees
<1>10. ASSUME UNCHANGED <<changes, watch_descriptors, kernel, exists, overflowed>>,
              status' \notin {"dead", "aborted"},
              \A i \in DOMAIN stack' : stack'[i].dir \in exists /\ stack'[i].subdirs \subseteq exists
       PROVE  NothingMissing'
  <2>1. Waiting' \subseteq Waiting
    BY <1>10, WaitingKept
  <2>. QED
    BY <1>2, <1>10, <2>1 DEF NothingMissing, Watched, Sees
<1>11. CASE AddWatch
  <2>1. OnlyTop({"phase"})
    BY <1>11, AddWatchDoes
  <2>2. \A i \in DOMAIN stack' : stack'[i].dir \in exists /\ stack'[i].subdirs \subseteq exists
    BY <1>2, <2>1 DEF OnlyTop
  <2>. DEFINE d == Top.dir
              wd == IF kernel[d] = 0 THEN next_wd ELSE kernel[d]
  <2>3. /\ d \in AllDirectories /\ kernel' = [kernel EXCEPT ![d] = wd]
        /\ watch_descriptors' = {p \in watch_descriptors : p[1] # wd} \cup {<<wd, d>>}
        /\ UNCHANGED <<changes, removed, exists, status, overflowed>>
    BY <1>11 DEF AddWatch, tree, ProviderTypes
  <2>4. \A e \in AllDirectories : kernel'[e] = IF e = d THEN wd ELSE kernel[e]
    BY <2>3 DEF ProviderTypes
  <2>5. Waiting' \subseteq Waiting
    BY <2>3, WaitingKept
  <2>. HIDE DEF d, wd
  <2>6. ASSUME NEW w, Watched(w) \/ w = wd
        PROVE  Watched(w)'
    <3>1. CASE w = wd
      <4>1. <<wd, d>> \in watch_descriptors' /\ <<wd, d>>[1] = wd
        BY <2>3
      <4>. QED
        BY <3>1, <4>1 DEF Watched
    <3>2. CASE w # wd
      BY <2>3, <2>6, <3>2 DEF Watched
    <3>. QED
      BY <3>1, <3>2
  <2>7. \A e \in Waiting' : Sees(e)'
    <3>. SUFFICES ASSUME NEW e \in Waiting' PROVE Sees(e)'
      OBVIOUS
    <3>1. Sees(e)
      BY <1>2, <2>5
    <3>2. Watched(e.wd) => Watched(e.wd)'
      BY <2>6
    <3>. QED
      BY <2>3, <3>1, <3>2 DEF Sees, Watched
  <2>8. \A w : Watched(w) \/ w = wd => \E p \in watch_descriptors' : p[1] = w
    BY <2>6 DEF Watched
  <2>9. \A e \in AllDirectories : kernel'[e] # 0 => Watched(kernel[e])'
    BY <1>2, <2>4, <2>8 DEF Watched
  <2>. QED
    BY <1>2, <2>2, <2>3, <2>7, <2>9 DEF NothingMissing, Sees, Watched
<1>12. CASE ListDirectory
  <2>1. /\ OnlyTop({"phase", "known", "batch", "subdirs"})
        /\ stack'[Len(stack)].subdirs = SubdirectoriesOf(Top.dir)
    BY <1>12, ListDirectoryDoes
  <2>2. \A i \in DOMAIN stack' : stack'[i].dir \in exists /\ stack'[i].subdirs \subseteq exists
    BY <1>2, <2>1 DEF OnlyTop, SubdirectoriesOf
  <2>. QED
    BY <1>2, <1>10, <1>12, <2>2 DEF ListDirectory, Scanning, tree, inotify
<1>13. CASE Reconcile
  <2>1. OnlyTop({"fresh"})
    BY <1>13, ReconcileDoes
  <2>2. \A i \in DOMAIN stack' : stack'[i].dir \in exists /\ stack'[i].subdirs \subseteq exists
    BY <1>2, <2>1 DEF OnlyTop
  <2>. QED
    BY <1>2, <1>10, <1>13, <2>2 DEF Reconcile, Scanning, tree
<1>14. CASE Reconciled
  <2>1. OnlyTop({"phase", "known", "batch", "fresh"})
    BY <1>14, ReconciledDoes
  <2>2. \A i \in DOMAIN stack' : stack'[i].dir \in exists /\ stack'[i].subdirs \subseteq exists
    BY <1>2, <2>1 DEF OnlyTop
  <2>. QED
    BY <1>2, <1>10, <1>14, <2>2 DEF Reconciled, Scanning, tree, inotify
<1>15. CASE EnterSubdirectory
  <2>1. PICK d \in Top.subdirs : d \in Directories /\ Entered(d)
    BY <1>15, EnterSubdirectoryDoes
  <2>2. ASSUME NEW i \in DOMAIN stack'
        PROVE  stack'[i].dir \in exists /\ stack'[i].subdirs \subseteq exists
    <3>1. CASE i = Len(stack) + 1
      BY <1>2, <2>1, <3>1 DEF Entered
    <3>2. CASE i = Len(stack)
      BY <1>2, <2>1, <3>2 DEF Entered
    <3>3. CASE i # Len(stack) /\ i # Len(stack) + 1
      <4>1. i \in DOMAIN stack /\ stack'[i] = stack[i]
        BY <2>1, <3>3 DEF Entered
      <4>. QED
        BY <1>2, <4>1
    <3>. QED
      BY <3>1, <3>2, <3>3
  <2>. QED
    BY <1>2, <1>10, <1>15, <2>2 DEF EnterSubdirectory, Scanning, tree, inotify
<1>16. CASE LeaveDirectory
  <2>1. DOMAIN stack' \subseteq DOMAIN stack /\ \A i \in DOMAIN stack' : stack'[i] = stack[i]
    BY <1>16, LeaveDirectoryDoes
  <2>. QED
    BY <1>2, <1>10, <1>16, <2>1 DEF LeaveDirectory, Scanning, tree, inotify
<1>17. CASE CreateEvent
  <2>1. /\ Head(unhandled).kind = "create dir" /\ unhandled # <<>>
        /\ stack' = <<Frame(Head(unhandled).name)>>
        /\ UNCHANGED <<changes, watch_descriptors, kernel, exists, overflowed>>
        /\ status' = "handling"
    BY <1>17 DEF CreateEvent, Handles, tree
  <2>2. Head(unhandled).name \in exists
    <3>1. PICK e \in Waiting : e = Head(unhandled)
      BY <1>6, <2>1
    <3>. QED
      BY <1>2, <2>1, <3>1 DEF Sees
  <2>3. DOMAIN stack' = {1} /\ Len(stack') = 1 /\ stack'[1] = Frame(Head(unhandled).name)
    <3>1. stack' = <<Frame(Head(unhandled).name)>>
      BY <2>1
    <3>. QED
      BY <3>1
  <2>4. \A i \in DOMAIN stack' : stack'[i].dir \in exists /\ stack'[i].subdirs \subseteq exists
    BY <2>2, <2>3 DEF Frame
  <2>. QED
    BY <1>2, <1>10, <2>1, <2>4
<1>. QED
  BY <1>3, <1>4, <1>5, <1>7, <1>8, <1>9, <1>11, <1>12, <1>13, <1>14, <1>15, <1>16, <1>17
     DEF ProviderNext, QueueOverflows, WriteFile, CloseFile, MoveFileIn, Completed, DeleteFile,
         MakeDirectory, MoveDirectoryIn, RemoveDirectory

-----------------------------------------------------------------------------
(* Which directories others have left alone, and what events there are.    *)

Grows ==
  /\ parent' = parent /\ missed \subseteq missed' /\ removed \subseteq removed'
  /\ missed' \subseteq Directories /\ removed' \subseteq Directories

LEMMA GrowsAlways == ASSUME ProviderTypes, ProviderNext PROVE Grows
<1>1. missed' \subseteq Directories /\ removed' \subseteq Directories
  BY TypesKept DEF ProviderTypes
<1>2. parent' = parent /\ missed \subseteq missed' /\ removed \subseteq removed'
  BY DEF ProviderNext, ScanFails, ReconcileFails, EventFails, Abort, Die, AddWatch,
     ListDirectory, Reconcile, Reconciled, EnterSubdirectory, LeaveDirectory, ReadEvents,
     FlushBatch, NoMoreEvents, FileEvent, CreateEvent, DeleteEvent, Handles, tree, ghosts, Change,
     QueueOverflows, WriteFile, CloseFile, MoveFileIn, Completed, DeleteFile, MakeDirectory,
     MoveDirectoryIn, RemoveDirectory
<1>. QED
  BY <1>1, <1>2 DEF Grows

LEMMA CleanNext ==
  ASSUME ProviderTypes, Grows
  PROVE  /\ \A d \in AllDirectories : Clean(d)' => Clean(d) /\ d \notin missed' /\ d \notin removed'
         /\ \A d \in Directories : /\ d \in AllDirectories /\ parent[d] \in AllDirectories
                                   /\ \A e : e = parent[d] /\ Clean(d)' => Clean(e)'
         /\ Clean(Root)' /\ Root \in AllDirectories /\ Clean(Root)
         /\ \A f \in DirFiles : Reachable(f)' <=> Clean(DirectoryOf[f])'
<1>1. \A d : Path(d)' = Path(d)
  BY DEF Path, Grows
<1>2. \A d : Clean(d)' <=> Path(d) \cap (missed' \cup removed') = {}
  BY <1>1 DEF Clean
<1>3. parent \in Parents
  BY DEF ProviderTypes
<1>4. \A d \in AllDirectories : Clean(d)' => Clean(d) /\ d \notin missed' /\ d \notin removed'
  BY <1>2, <1>3, PathOf DEF Clean, Grows
<1>5. ASSUME NEW d \in Directories
      PROVE  /\ d \in AllDirectories /\ parent[d] \in AllDirectories
             /\ \A e : e = parent[d] /\ Clean(d)' => Clean(e)'
  <2>1. d \in AllDirectories /\ d # Root
    BY NamesAssumption DEF AllDirectories
  <2>2. parent[d] \in AllDirectories /\ Path(parent[d]) \subseteq Path(d)
    BY <1>3, <2>1, PathOf
  <2>. QED
    BY <1>2, <2>1, <2>2
<1>6. Clean(Root)' /\ Root \in AllDirectories /\ Clean(Root)
  <2>1. Root \in AllDirectories /\ Path(Root) = {Root}
    BY <1>3, PathOf DEF AllDirectories
  <2>. QED
    BY <1>2, <2>1, NamesAssumption DEF Grows, Clean
<1>7. \A f \in DirFiles : Reachable(f)' <=> Clean(DirectoryOf[f])'
  BY DEF Reachable, Clean
<1>. QED
  BY <1>4, <1>5, <1>6, <1>7

(* Once the first event is taken from the unhandled.                          *)
Heads(kinds, x) == Head(unhandled).kind \in kinds /\ <<Head(unhandled).name, Head(unhandled).version>> = x
Shrunk(kinds, x) ==
  /\ Of(kinds, x, unhandled) = {} => Of(kinds, x, unhandled') = {}
  /\ (\A i, j \in Of(kinds, x, unhandled) : i = j) => \A i, j \in Of(kinds, x, unhandled') : i = j
  /\ Heads(kinds, x) =>
       /\ Of(kinds, x, unhandled) # {}
       /\ (\A i, j \in Of(kinds, x, unhandled) : i = j) => Of(kinds, x, unhandled') = {}
  /\ ~Heads(kinds, x) => (Of(kinds, x, unhandled) # {} => Of(kinds, x, unhandled') # {})

LEMMA EventTaken ==
  ASSUME ProviderTypes, unhandled # <<>>, unhandled' = Tail(unhandled), NEW kinds, NEW x
  PROVE  Shrunk(kinds, x)
<1>1. unhandled \in Seq(AnyEvent)
  BY DEF ProviderTypes
<1>2. /\ Of(kinds, x, unhandled) = {} => Of(kinds, x, Tail(unhandled)) = {}
      /\ (\A i, j \in Of(kinds, x, unhandled) : i = j) => \A i, j \in Of(kinds, x, Tail(unhandled)) : i = j
      /\ Heads(kinds, x) /\ (\A i, j \in Of(kinds, x, unhandled) : i = j) => Of(kinds, x, Tail(unhandled)) = {}
      /\ ~Heads(kinds, x) => (Of(kinds, x, unhandled) # {} => Of(kinds, x, Tail(unhandled)) # {})
      /\ Head(unhandled) = unhandled[1] /\ 1 \in DOMAIN unhandled
  BY <1>1, OfTail DEF Heads
<1>3. Heads(kinds, x) => 1 \in Of(kinds, x, unhandled)
  BY <1>2 DEF Of, Heads
<1>. QED
  BY <1>2, <1>3 DEF Shrunk

LEMMA DeleteSpares ==
  ASSUME ProviderTypes, DescriptorsStand, DeleteEvent, NEW d \in AllDirectories, Clean(d)
  PROVE  kernel'[d] = kernel[d]
<1>. DEFINE base == IF Head(unhandled).kind = "delete dir" THEN Head(unhandled).name
                    ELSE DirOf(Head(unhandled).wd)
            gone == {p \in watch_descriptors : p[2] \in Within(base)}
<1>1. /\ unhandled # <<>> /\ Head(unhandled).kind \in {"delete dir", "delete self"}
      /\ Watched(Head(unhandled).wd)
      /\ kernel' = [e \in AllDirectories |-> IF <<kernel[e], e>> \in gone THEN 0 ELSE kernel[e]]
  BY DEF DeleteEvent, Handles
<1>2. Head(unhandled) \in Waiting
  BY <1>1, ToSetOf DEF Waiting, ProviderTypes
<1>3. Head(unhandled).name \in removed
  BY <1>1, <1>2 DEF DescriptorsStand
<1>4. base = Head(unhandled).name
  <2>1. CASE Head(unhandled).kind = "delete dir"
    BY <2>1
  <2>2. CASE Head(unhandled).kind = "delete self"
    <3>1. \A p \in watch_descriptors : p[1] = Head(unhandled).wd => p[2] = Head(unhandled).name
      BY <1>2, <2>2 DEF DescriptorsStand
    <3>2. \E p \in watch_descriptors : p[1] = Head(unhandled).wd
      BY <1>1 DEF Watched
    <3>3. DirOf(Head(unhandled).wd) = Head(unhandled).name
      BY <3>1, <3>2 DEF DirOf
    <3>. QED
      BY <2>2, <3>3
  <2>. QED
    BY <1>1, <2>1, <2>2
<1>. HIDE DEF base
<1>5. d \notin Within(base)
  BY <1>3, <1>4 DEF Within, Clean
<1>6. <<kernel[d], d>> \notin gone
  BY <1>5
<1>. QED
  BY <1>1, <1>6

-----------------------------------------------------------------------------
(* Directories are found.                                                  *)

Alike(before, after) ==
  /\ before = {} <=> after = {}
  /\ (\A i, j \in before : i = j) => \A i, j \in after : i = j

(* Nothing happens to d, and nothing to the calls.                         *)
SameOf(d) ==
  /\ kernel'[d] = kernel[d] /\ (d \in exists' <=> d \in exists)
  /\ Alike(Creates(d, events), Creates(d, events)')
  /\ Alike(Creates(d, unhandled), Creates(d, unhandled)')

LEMMA ScannedSame ==
  ASSUME NEW d, stack' = stack, SameOf(d), Scanned(d)
  PROVE  Scanned(d)'
<1>1. Framed(d)' = Framed(d) /\ Listed(d)' = Listed(d)
  BY DEF Framed, Listed
<1>2. Awaited(d)' <=> Awaited(d)
  BY <1>1 DEF SameOf, Awaited, Alike
<1>. QED
  BY <1>1, <1>2 DEF Scanned, SameOf, Alike

LEMMA BelowSame ==
  ASSUME NEW d, UNCHANGED <<stack, parent>>, SameOf(d), kernel'[parent[d]] = kernel[parent[d]],
         ScannedBelow(d)
  PROVE  ScannedBelow(d)'
<1>1. Framed(d)' = Framed(d) /\ Listed(d)' = Listed(d) /\ BeingListed(parent[d])' = BeingListed(parent[d])
  BY DEF Framed, Listed, BeingListed
<1>2. Awaited(d)' <=> Awaited(d)
  BY <1>1 DEF SameOf, Awaited, Alike
<1>. QED
  BY <1>1, <1>2 DEF ScannedBelow, SameOf, Alike

LEMMA FoundSame ==
  ASSUME ProviderTypes, Grows, DirectoriesFound, stack' = stack,
         \A d \in exists' \ {Root} : parent[d] \in exists',
         \A d \in AllDirectories : Clean(d)' => SameOf(d)
  PROVE  DirectoriesFound'
<1>1. /\ \A d \in AllDirectories : Clean(d) => Scanned(d)
      /\ \A d \in Directories : Clean(d) => ScannedBelow(d)
      /\ kernel[Root] # 0 \/ Framed(Root)
  BY DEF DirectoriesFound
<1>2. /\ \A d \in AllDirectories : Clean(d)' => Clean(d)
      /\ \A d \in Directories : /\ d \in AllDirectories /\ parent[d] \in AllDirectories
                                /\ \A e : e = parent[d] /\ Clean(d)' => Clean(e)'
      /\ Clean(Root)' /\ Root \in AllDirectories
  BY CleanNext
<1>3. \A d \in AllDirectories : Clean(d)' => Scanned(d)'
  BY <1>1, <1>2, ScannedSame
<1>4. ASSUME NEW d \in Directories, Clean(d)'
      PROVE  ScannedBelow(d)'
  <2>1. PICK e \in AllDirectories : e = parent[d] /\ Clean(e)' /\ d \in AllDirectories
    BY <1>2, <1>4
  <2>2. kernel'[parent[d]] = kernel[parent[d]] /\ SameOf(d)
    BY <1>4, <2>1 DEF SameOf
  <2>. QED
    BY <1>1, <1>2, <1>4, <2>1, <2>2, BelowSame DEF Grows
<1>5. (kernel[Root] # 0 \/ Framed(Root))'
  BY <1>1, <1>2 DEF SameOf, Framed
<1>6. \A d \in exists' \ {Root} : parent'[d] \in exists'
  BY DEF Grows
<1>. QED
  BY <1>3, <1>4, <1>5, <1>6 DEF DirectoriesFound

LEMMA AlikeSame == ASSUME NEW S PROVE Alike(S, S)
BY DEF Alike

LEMMA CreatesTaken ==
  ASSUME ProviderTypes, unhandled # <<>>, unhandled' = Tail(unhandled), NEW d,
         ~(Head(unhandled).kind = "create dir" /\ Head(unhandled).name = d)
  PROVE  Alike(Creates(d, unhandled), Creates(d, unhandled)')
<1>1. Shrunk({"create dir"}, <<d, 0>>)
  BY EventTaken
<1>. QED
  BY <1>1 DEF Shrunk, Heads, Alike, Creates

(* By the changes that others make to the tree.                            *)
LEMMA FoundByOthers ==
  ASSUME ProviderTypes, Grows, DirectoriesFound, ProviderNext, Change
  PROVE  DirectoriesFound'
<1>1. /\ UNCHANGED <<stack, unhandled, parent>>
      /\ \A d \in exists \ {Root} : parent[d] \in exists
  BY DEF Change, DirectoriesFound
<1>2. \A d : Alike(Creates(d, unhandled), Creates(d, unhandled)')
  BY <1>1, AlikeSame DEF Creates, Of
<1>3. ASSUME NEW f \in DirFiles, WriteFile(f) \/ DeleteFile(f)
      PROVE  DirectoriesFound'
  <2>1. UNCHANGED <<kernel, exists, events>>
    BY <1>3 DEF WriteFile, DeleteFile
  <2>2. \A d : SameOf(d)
    BY <1>2, <2>1, AlikeSame DEF SameOf, Creates, Of
  <2>. QED
    BY <1>1, <2>1, <2>2, FoundSame
<1>a. ASSUME NEW kind, NEW dir, NEW name, OthersAsWere(events, events', kind, dir, name), NEW e,
             kind # "create dir" \/ e # name \/ kernel[dir] = 0
      PROVE  Creates(e, events)' = Creates(e, events)
  <2>2. kernel[dir] = 0 \/ kind \notin {"create dir"} \/ \A m : <<e, 0>> # <<name, m>>
    BY <1>a
  <2>3. Of({"create dir"}, <<e, 0>>, events') = Of({"create dir"}, <<e, 0>>, events)
    BY <1>a, <2>2 DEF OthersAsWere
  <2>. QED
    BY <2>3 DEF Creates, Of
<1>4. CASE QueueOverflows
  <2>1. UNCHANGED <<kernel, exists>>
    BY <1>4 DEF QueueOverflows
  <2>2. \A x : Of({"create dir"}, x, events') = Of({"create dir"}, x, events)
    BY <1>4, OverflowDoes
  <2>3. \A d : Creates(d, events)' = Creates(d, events)
    BY <2>2 DEF Creates, Of
  <2>4. \A d : SameOf(d)
    BY <1>2, <2>1, <2>3, AlikeSame DEF SameOf
  <2>. QED
    BY <1>1, <2>1, <2>4, FoundSame
<1>8. ASSUME NEW f \in DirFiles, NEW kind \in {"close", "moved to"}, NEW n \in Nat,
             Completed(f, kind), Sends(kind, DirectoryOf[f], f, n)
      PROVE  DirectoriesFound'
  <2>1. UNCHANGED <<kernel, exists>>
    BY <1>8 DEF Completed
  <2>2. OthersAsWere(events, events', kind, DirectoryOf[f], f)
    BY <1>8 DEF Sends, GrownBy
  <2>3. \A d : Creates(d, events)' = Creates(d, events)
    BY <1>a, <2>2
  <2>4. \A d : SameOf(d)
    BY <1>2, <2>1, <2>3, AlikeSame DEF SameOf
  <2>. QED
    BY <1>1, <2>1, <2>4, FoundSame
<1>5. ASSUME NEW d \in Directories, MoveDirectoryIn(d), Sends("moved to", parent[d], d, 0)
      PROVE  DirectoriesFound'
  <2>1. /\ kernel' = kernel /\ exists' = exists \cup {d} /\ parent[d] \in exists
        /\ missed' = missed \cup {d}
    BY <1>5 DEF MoveDirectoryIn
  <2>2. PICK kind, dir : kind # "create dir" /\ OthersAsWere(events, events', kind, dir, d)
    BY <1>5 DEF Sends, GrownBy
  <2>3. \A e : Creates(e, events)' = Creates(e, events)
    BY <1>a, <2>2
  <2>4. \A e \in AllDirectories : Clean(e)' => e # d
    BY <2>1, CleanNext
  <2>5. \A e \in AllDirectories : Clean(e)' => SameOf(e)
    BY <1>2, <2>1, <2>3, <2>4, AlikeSame DEF SameOf
  <2>6. \A e \in exists' \ {Root} : parent[e] \in exists'
    BY <1>1, <2>1
  <2>. QED
    BY <1>1, <2>5, <2>6, FoundSame
<1>6. ASSUME NEW d \in Directories, RemoveDirectory(d)
      PROVE  DirectoriesFound'
  <2>1. /\ kernel' = [kernel EXCEPT ![d] = 0] /\ exists' = exists \ {d}
        /\ removed' = removed \cup {d} /\ SubdirectoriesOf(d) = {}
    BY <1>6 DEF RemoveDirectory
  <2>2. \A x : Of({"create dir"}, x, events') = Of({"create dir"}, x, events)
    BY <1>6, RemovalDoes
  <2>3. \A e : Creates(e, events)' = Creates(e, events)
    BY <2>2 DEF Creates, Of
  <2>4. \A e \in AllDirectories : Clean(e)' => e # d
    BY <2>1, CleanNext
  <2>5. \A e \in AllDirectories : Clean(e)' => SameOf(e)
    BY <1>2, <2>1, <2>3, <2>4, AlikeSame DEF SameOf, ProviderTypes
  <2>6. \A e \in exists' \ {Root} : parent[e] \in exists'
    BY <1>1, <2>1 DEF SubdirectoriesOf
  <2>. QED
    BY <1>1, <2>5, <2>6, FoundSame
<1>7. ASSUME NEW d \in Directories, MakeDirectory(d), Sends("create dir", parent[d], d, 0)
      PROVE  DirectoriesFound'
  <2>1. /\ kernel' = kernel /\ exists' = exists \cup {d} /\ parent[d] \in exists /\ d \notin exists
        /\ kernel[parent[d]] # 0 /\ events' = events => d \in missed'
    BY <1>7 DEF MakeDirectory, Dropped
  <2>2. GrownBy(events, events', "create dir", parent[d], d, 0)
    BY <1>7 DEF Sends
  <2>a. PICK kind, dir : dir = parent[d] /\ OthersAsWere(events, events', kind, dir, d)
    BY <2>2 DEF GrownBy
  <2>3. ASSUME NEW e, e # d \/ kernel[parent[d]] = 0
        PROVE  Creates(e, events)' = Creates(e, events)
    <3>1. kernel[dir] = 0 \/ kind \notin {"create dir"} \/ \A m : <<e, 0>> # <<d, m>>
      BY <2>3, <2>a
    <3>2. Of({"create dir"}, <<e, 0>>, events') = Of({"create dir"}, <<e, 0>>, events)
      BY <2>a, <3>1 DEF OthersAsWere
    <3>. QED
      BY <3>2 DEF Creates, Of
  <2>b. Creates(d, events) = {} =>
          /\ \A i, j \in Creates(d, events)' : i = j
          /\ events' # events => Creates(d, events)' # {}
    <3>1. "create dir" \in {"create dir"}
      OBVIOUS
    <3>2. Of({"create dir"}, <<d, 0>>, events) = {} =>
            /\ \A i, j \in Of({"create dir"}, <<d, 0>>, events') : i = j
            /\ events' # events => Of({"create dir"}, <<d, 0>>, events') # {}
      BY <2>2, <3>1 DEF GrownBy
    <3>. QED
      BY <3>2 DEF Creates, Of
  <2>4. \A e : e # d => SameOf(e)
    BY <1>2, <2>1, <2>3, AlikeSame DEF SameOf
  <2>5. d \in AllDirectories
    BY DEF AllDirectories
  <2>6. ASSUME Clean(d)'
        PROVE  Scanned(d)' /\ ScannedBelow(d)'
    <3>1. Scanned(d) /\ ScannedBelow(d)
      BY <2>5, <2>6, CleanNext DEF DirectoriesFound
    <3>2. ~Framed(d) /\ kernel[d] = 0 /\ ~Awaited(d)
      BY <2>1, <3>1 DEF Scanned, Framed
    <3>3. Creates(d, events) = {} /\ Creates(d, unhandled)' = {} /\ ~Listed(d)' /\ ~Framed(d)'
      BY <1>1, <1>2, <3>2 DEF Awaited, Listed, Framed, Alike
    <3>4. \A i, j \in Creates(d, events)' : i = j
      BY <2>b, <3>3
    <3>5. Scanned(d)'
      BY <1>1, <2>1, <3>2, <3>3, <3>4 DEF Scanned, Framed, Listed
    <3>6. kernel[parent[d]] = 0 => Creates(d, events)' = {}
      BY <2>3, <3>3
    <3>7. kernel[parent[d]] # 0 => Creates(d, events)' # {}
      BY <2>1, <2>5, <2>6, <2>b, <3>3, CleanNext
    <3>. QED
      BY <1>1, <2>1, <3>2, <3>3, <3>5, <3>6, <3>7 DEF ScannedBelow, Awaited
  <2>7. /\ \A e \in AllDirectories : Clean(e)' => Clean(e)
        /\ \A e \in Directories : e \in AllDirectories
    BY CleanNext DEF AllDirectories
  <2>8. \A e \in AllDirectories : Clean(e)' => Scanned(e)'
    BY <1>1, <2>4, <2>6, <2>7, ScannedSame DEF DirectoriesFound
  <2>9. \A e \in Directories : Clean(e)' => ScannedBelow(e)'
    BY <1>1, <2>1, <2>4, <2>6, <2>7, BelowSame DEF DirectoriesFound
  <2>10. (kernel[Root] # 0 \/ Framed(Root))'
    BY <1>1, <2>1 DEF DirectoriesFound, Framed
  <2>11. \A e \in exists' \ {Root} : parent'[e] \in exists'
    BY <1>1, <2>1
  <2>. QED
    BY <2>8, <2>9, <2>10, <2>11 DEF DirectoriesFound
<1>. QED
  BY <1>3, <1>4, <1>5, <1>6, <1>7, <1>8, ChangeDoes

(* Every clean directory, and the one it is in.                            *)
FoundAll ==
  /\ \A d \in exists \ {Root} : parent[d] \in exists
  /\ \A d \in AllDirectories : Clean(d)' => Clean(d) /\ Scanned(d)
  /\ \A d \in Directories : Clean(d)' => ScannedBelow(d) /\ d \in AllDirectories /\ d # Root
  /\ \A d \in Directories : \A e : e = parent[d] /\ Clean(d)' =>
       e \in AllDirectories /\ Clean(e)' /\ Scanned(e)
  /\ kernel[Root] # 0 \/ Framed(Root)
  /\ Root \in AllDirectories /\ Clean(Root)' /\ Scanned(Root)

LEMMA FoundOfAll ==
  ASSUME ProviderTypes, Grows, DirectoriesFound
  PROVE  FoundAll
<1>1. /\ \A d \in exists \ {Root} : parent[d] \in exists
      /\ \A d \in AllDirectories : Clean(d) => Scanned(d)
      /\ \A d \in Directories : Clean(d) => ScannedBelow(d)
      /\ kernel[Root] # 0 \/ Framed(Root)
  BY DEF DirectoriesFound
<1>2. /\ \A d \in AllDirectories : Clean(d)' => Clean(d)
      /\ \A d \in Directories : /\ d \in AllDirectories /\ parent[d] \in AllDirectories
                                /\ \A e : e = parent[d] /\ Clean(d)' => Clean(e)'
      /\ Clean(Root)' /\ Clean(Root) /\ Root \in AllDirectories
  BY CleanNext
<1>3. \A d \in Directories : d # Root
  BY NamesAssumption
<1>. QED
  BY <1>1, <1>2, <1>3 DEF FoundAll

LEMMA FoundNext ==
  ASSUME FoundAll, Grows, exists' = exists,
         \A d \in AllDirectories : Clean(d)' => Scanned(d)',
         \A d \in Directories : Clean(d)' => ScannedBelow(d)',
         (kernel[Root] # 0 \/ Framed(Root))'
  PROVE  DirectoriesFound'
BY DEF FoundAll, Grows, DirectoriesFound

LEMMA FoundByAddWatch ==
  ASSUME ProviderTypes, Calls, Grows, FoundAll, AddWatch
  PROVE  DirectoriesFound'
<1>. DEFINE t == Top.dir
            wd == IF kernel[t] = 0 THEN next_wd ELSE kernel[t]
<1>1. /\ OnlyTop({"phase"}) /\ Top.phase = "watch" /\ t \in exists
      /\ stack'[Len(stack)].phase = "list"
  BY AddWatchDoes
<1>2. /\ kernel' = [kernel EXCEPT ![t] = wd]
      /\ UNCHANGED <<exists, parent, events, unhandled>>
  BY DEF AddWatch, tree
<1>3. \A d \in AllDirectories : kernel'[d] = IF d = t THEN wd ELSE kernel[d]
  BY <1>2 DEF ProviderTypes
<1>4. t \in AllDirectories /\ wd # 0 /\ (kernel[t] # 0 => wd = kernel[t])
  BY <1>1 DEF ProviderTypes
<1>. HIDE DEF wd
<1>5. Framed(t) /\ \E i \in DOMAIN stack : stack[i].dir = t /\ stack[i].phase = "watch"
  BY <1>1 DEF Framed, OnlyTop
<1>6. /\ \A d : Framed(d)' <=> Framed(d)
      /\ \A d : Listed(d)' <=> Listed(d)
      /\ \A d : d # t => (BeingListed(d)' <=> BeingListed(d))
  BY <1>1 DEF Framed, Listed, BeingListed, OnlyTop
<1>7. \A d : /\ Creates(d, events)' = Creates(d, events) /\ Creates(d, unhandled)' = Creates(d, unhandled)
             /\ (Awaited(d)' <=> Awaited(d))
  BY <1>2, <1>6 DEF Creates, Of, Awaited
<1>8. ASSUME NEW d \in AllDirectories, Clean(d)'
      PROVE  Scanned(d)'
  <2>1. Scanned(d)
    BY <1>8 DEF FoundAll
  <2>2. /\ \A i \in DOMAIN stack' : stack'[i].dir = d =>
             d \in exists' /\ (kernel'[d] = 0 <=> stack'[i].phase = "watch")
        /\ \A i, j \in DOMAIN stack' : stack'[i].dir = d /\ stack'[j].dir = d => i = j
    BY <1>1, <1>2, <1>3, <1>4, <2>1 DEF Scanned, OnlyTop
  <2>3. kernel'[d] # 0 => d \in exists'
    BY <1>1, <1>2, <1>3, <2>1 DEF Scanned
  <2>4. Awaited(d)' => d \in exists' /\ kernel'[d] = 0 /\ ~Framed(d)'
    BY <1>2, <1>3, <1>5, <1>6, <1>7, <2>1 DEF Scanned
  <2>5. Creates(d, events)' # {} =>
          \A i \in DOMAIN stack' : d \in stack'[i].subdirs => stack'[i].phase = "reconcile"
    BY <1>1, <1>7, <2>1 DEF Scanned, OnlyTop
  <2>. QED
    BY <1>6, <1>7, <2>1, <2>2, <2>3, <2>4, <2>5 DEF Scanned
<1>9. ASSUME NEW d \in Directories, Clean(d)'
      PROVE  ScannedBelow(d)'
  <2>1. ScannedBelow(d) /\ d \in AllDirectories
    BY <1>9 DEF FoundAll
  <2>2. PICK e \in AllDirectories : e = parent[d] /\ Scanned(e)
    BY <1>9 DEF FoundAll
  <2>3. e = t => kernel[e] = 0
    BY <1>5, <2>2 DEF Scanned
  <2>4. kernel[e] = 0 => d # t
    BY <1>5, <2>1, <2>2 DEF ScannedBelow
  <2>5. BeingListed(e) => d # t
    BY <1>5, <2>1, <2>2 DEF ScannedBelow
  <2>6. e = t => BeingListed(e)'
    BY <1>1 DEF BeingListed, OnlyTop
  <2>7. e = parent'[d]
    BY <1>2, <2>2
  <2>8. kernel'[e] = 0 => Creates(d, events)' = {}
    BY <1>3, <1>4, <1>7, <2>1, <2>2 DEF ScannedBelow
  <2>9. kernel'[e] = 0 \/ BeingListed(e)' =>
          kernel'[d] = 0 /\ ~Framed(d)' /\ Creates(d, unhandled)' = {}
    BY <1>3, <1>4, <1>6, <1>7, <2>1, <2>2, <2>3, <2>4, <2>5 DEF ScannedBelow
  <2>10. d \in exists' /\ kernel'[e] # 0 /\ ~BeingListed(e)' => Awaited(d)' \/ Framed(d)' \/ kernel'[d] # 0
    BY <1>2, <1>3, <1>4, <1>6, <1>7, <2>1, <2>2, <2>6 DEF ScannedBelow
  <2>. QED
    BY <2>7, <2>8, <2>9, <2>10 DEF ScannedBelow
<1>10. (kernel[Root] # 0 \/ Framed(Root))'
  BY <1>3, <1>4, <1>6 DEF FoundAll
<1>. QED
  BY <1>2, <1>8, <1>9, <1>10, FoundNext

LEMMA FoundByListDirectory ==
  ASSUME ProviderTypes, Calls, Grows, FoundAll, ListDirectory
  PROVE  DirectoriesFound'
<1>. DEFINE t == Top.dir
<1>1. /\ OnlyTop({"phase", "known", "batch", "subdirs"}) /\ Top.phase = "list" /\ t \in exists
      /\ stack'[Len(stack)].phase = "reconcile"
      /\ stack'[Len(stack)].subdirs = SubdirectoriesOf(t)
  BY ListDirectoryDoes
<1>2. UNCHANGED <<kernel, exists, parent, events, unhandled>> /\ t \in AllDirectories
  BY <1>1 DEF ListDirectory, tree, inotify, ProviderTypes
<1>3. Top.subdirs = {} /\ Top = stack[Len(stack)] /\ Len(stack) \in DOMAIN stack
  BY <1>1 DEF Calls, OnlyTop
<1>4. Framed(t) /\ BeingListed(t)
  BY <1>1, <1>3 DEF Framed, BeingListed
<1>5. /\ \A d : Framed(d)' <=> Framed(d)
      /\ \A d : Listed(d)' <=> Listed(d) \/ d \in SubdirectoriesOf(t)
      /\ \A d : BeingListed(d)' => BeingListed(d)
      /\ \A d : d # t => (BeingListed(d)' <=> BeingListed(d))
  <2>1. \A d : Framed(d)' <=> Framed(d)
    BY <1>1 DEF Framed, OnlyTop
  <2>2. \A d : Listed(d)' <=> Listed(d) \/ d \in SubdirectoriesOf(t)
    BY <1>1, <1>3 DEF Listed, OnlyTop
  <2>3. \A d : BeingListed(d)' => BeingListed(d)
    BY <1>1 DEF BeingListed, OnlyTop
  <2>4. \A d : d # t => (BeingListed(d)' <=> BeingListed(d))
    BY <1>1 DEF BeingListed, OnlyTop
  <2>. QED
    BY <2>1, <2>2, <2>3, <2>4
<1>6. \A d : Creates(d, events)' = Creates(d, events) /\ Creates(d, unhandled)' = Creates(d, unhandled)
  BY <1>2 DEF Creates, Of
<1>7. ASSUME NEW d \in AllDirectories, d \in SubdirectoriesOf(t), Clean(d)'
      PROVE  d \in exists /\ kernel[d] = 0 /\ ~Framed(d) /\ Creates(d, unhandled) = {}
  <2>1. d \in Directories /\ parent[d] = t /\ d \in exists
    BY <1>7 DEF SubdirectoriesOf, AllDirectories
  <2>2. ScannedBelow(d)
    BY <1>7, <2>1 DEF FoundAll
  <2>. QED
    BY <1>4, <2>1, <2>2 DEF ScannedBelow
<1>8. ASSUME NEW d \in AllDirectories, Clean(d)'
      PROVE  Scanned(d)'
  <2>1. Scanned(d)
    BY <1>8 DEF FoundAll
  <2>2. /\ \A i \in DOMAIN stack' : stack'[i].dir = d =>
             d \in exists' /\ (kernel'[d] = 0 <=> stack'[i].phase = "watch")
        /\ \A i, j \in DOMAIN stack' : stack'[i].dir = d /\ stack'[j].dir = d => i = j
    BY <1>1, <1>2, <2>1 DEF Scanned, OnlyTop
  <2>3. kernel'[d] # 0 => d \in exists'
    BY <1>2, <2>1 DEF Scanned
  <2>4. Awaited(d)' => d \in exists' /\ kernel'[d] = 0 /\ ~Framed(d)'
    BY <1>2, <1>5, <1>6, <1>7, <1>8, <2>1 DEF Scanned, Awaited
  <2>5. Creates(d, events)' # {} =>
          \A i \in DOMAIN stack' : d \in stack'[i].subdirs => stack'[i].phase = "reconcile"
    BY <1>1, <1>6, <2>1 DEF Scanned, OnlyTop
  <2>6. Creates(d, unhandled)' # {} => Creates(d, events)' = {} /\ ~Listed(d)'
    BY <1>5, <1>6, <1>7, <1>8, <2>1 DEF Scanned
  <2>. QED
    BY <1>6, <2>1, <2>2, <2>3, <2>4, <2>5, <2>6 DEF Scanned
<1>9. ASSUME NEW d \in Directories, Clean(d)'
      PROVE  ScannedBelow(d)'
  <2>1. ScannedBelow(d) /\ d \in AllDirectories /\ d # Root
    BY <1>9 DEF FoundAll
  <2>2. PICK e : e = parent[d]
    OBVIOUS
  <2>3. d \in exists /\ e = t => d \in SubdirectoriesOf(t)
    BY <2>1, <2>2 DEF SubdirectoriesOf
  <2>4. kernel'[e] = 0 => Creates(d, events)' = {}
    BY <1>2, <1>6, <2>1, <2>2 DEF ScannedBelow
  <2>5. kernel'[e] = 0 \/ BeingListed(e)' =>
          kernel'[d] = 0 /\ ~Framed(d)' /\ Creates(d, unhandled)' = {}
    BY <1>2, <1>5, <1>6, <2>1, <2>2 DEF ScannedBelow
  <2>6. d \in exists' /\ kernel'[e] # 0 /\ ~BeingListed(e)' => Awaited(d)' \/ Framed(d)' \/ kernel'[d] # 0
    BY <1>2, <1>5, <1>6, <2>1, <2>2, <2>3 DEF ScannedBelow, Awaited
  <2>. QED
    BY <1>2, <2>2, <2>4, <2>5, <2>6 DEF ScannedBelow
<1>10. (kernel[Root] # 0 \/ Framed(Root))'
  BY <1>2, <1>5 DEF FoundAll
<1>. QED
  BY <1>2, <1>8, <1>9, <1>10, FoundNext

(* While new items are looked for, and after that.                         *)
LEMMA FoundByReconcile ==
  ASSUME ProviderTypes, Calls, Grows, FoundAll, Reconcile \/ Reconciled
  PROVE  DirectoriesFound'
<1>1. /\ OnlyTop({"phase", "known", "batch", "fresh"}) /\ Top.phase = "reconcile"
      /\ stack'[Len(stack)].phase \in {"reconcile", "subdirs"}
  <2>1. CASE Reconcile
    <3>1. OnlyTop({"fresh"}) /\ Top.phase = "reconcile"
      BY <2>1, ReconcileDoes
    <3>. QED
      BY <3>1 DEF OnlyTop
  <2>2. CASE Reconciled
    BY <2>2, ReconciledDoes
  <2>. QED
    BY <2>1, <2>2
<1>2. UNCHANGED <<kernel, exists, parent, unhandled>> /\ events' = <<>>
  BY DEF Reconcile, Reconciled, tree, inotify
<1>3. Top = stack[Len(stack)] /\ Len(stack) \in DOMAIN stack
  BY <1>1 DEF OnlyTop
<1>4. /\ \A d : Framed(d)' <=> Framed(d)
      /\ \A d : Listed(d)' <=> Listed(d)
      /\ \A d : BeingListed(d)' <=> BeingListed(d)
  BY <1>1 DEF Framed, Listed, BeingListed, OnlyTop
<1>5. \A d : Creates(d, events)' = {} /\ Creates(d, unhandled)' = Creates(d, unhandled)
  BY <1>2 DEF Creates, Of
<1>6. ASSUME NEW d \in AllDirectories, Clean(d)', Creates(d, events) # {}
      PROVE  Listed(d)
  <2>1. Reconcile
    BY <1>6, OfNone DEF Creates, Reconciled
  <2>2. PICK i \in DOMAIN events : events[i].kind = "create dir" /\ events[i].name = d
    BY <1>6 DEF Creates, Of
  <2>3. events[i] \in ToSet(events)
    BY DEF ToSet
  <2>4. d \in {e.name : e \in {x \in ToSet(events) : x.kind = "create dir"}}
    BY <2>2, <2>3
  <2>5. d \notin missed'
    BY <1>6, CleanNext
  <2>. QED
    BY <2>1, <2>4, <2>5 DEF Reconcile, Listed
<1>7. ASSUME NEW d \in AllDirectories, Clean(d)'
      PROVE  Scanned(d)'
  <2>1. Scanned(d)
    BY <1>7 DEF FoundAll
  <2>2. /\ \A i \in DOMAIN stack' : stack'[i].dir = d =>
             d \in exists' /\ (kernel'[d] = 0 <=> stack'[i].phase = "watch")
        /\ \A i, j \in DOMAIN stack' : stack'[i].dir = d /\ stack'[j].dir = d => i = j
    BY <1>1, <1>2, <2>1 DEF Scanned, OnlyTop
  <2>. QED
    BY <1>2, <1>4, <1>5, <2>1, <2>2 DEF Scanned, Awaited
<1>8. ASSUME NEW d \in Directories, Clean(d)'
      PROVE  ScannedBelow(d)'
  <2>1. ScannedBelow(d) /\ d \in AllDirectories
    BY <1>8 DEF FoundAll
  <2>2. Awaited(d)' <=> Awaited(d)
    BY <1>4, <1>5, <1>6, <1>8, <2>1 DEF Awaited
  <2>. QED
    BY <1>2, <1>4, <1>5, <2>1, <2>2 DEF ScannedBelow
<1>9. (kernel[Root] # 0 \/ Framed(Root))'
  BY <1>2, <1>4 DEF FoundAll
<1>. QED
  BY <1>2, <1>7, <1>8, <1>9, FoundNext

LEMMA FoundByEnterSubdirectory ==
  ASSUME ProviderTypes, Calls, Grows, FoundAll, EnterSubdirectory
  PROVE  DirectoriesFound'
<1>1. PICK x \in Top.subdirs : x \in Directories /\ Entered(x)
  BY EnterSubdirectoryDoes
<1>2. UNCHANGED <<kernel, exists, parent, events, unhandled>>
  BY DEF EnterSubdirectory, tree, inotify
<1>3. /\ Top = stack[Len(stack)] /\ Len(stack) \in DOMAIN stack /\ Top.phase = "subdirs"
      /\ parent[x] = Top.dir
  BY <1>1 DEF Calls, Entered
<1>4. /\ Len(stack) \in Nat /\ DOMAIN stack = 1 .. Len(stack)
      /\ DOMAIN stack' = DOMAIN stack \cup {Len(stack) + 1} /\ Len(stack) + 1 \notin DOMAIN stack
  BY <1>1 DEF Entered
<1>5. \A i \in DOMAIN stack : /\ stack'[i].dir = stack[i].dir /\ stack'[i].phase = stack[i].phase
                              /\ stack'[i].subdirs \subseteq stack[i].subdirs
                              /\ stack[i].subdirs \subseteq stack'[i].subdirs \cup {x}
  BY <1>1, <1>3 DEF Entered
<1>6. /\ stack'[Len(stack) + 1].dir = x /\ stack'[Len(stack) + 1].phase = "watch"
      /\ stack'[Len(stack) + 1].subdirs = {} /\ x \notin stack'[Len(stack)].subdirs
  BY <1>1 DEF Entered
<1>7. /\ \A d : Framed(d)' <=> Framed(d) \/ d = x
      /\ \A d : d # x => (Listed(d)' <=> Listed(d))
      /\ \A d : BeingListed(d)' <=> BeingListed(d)
  <2>1. \A d : Framed(d)' <=> Framed(d) \/ d = x
    BY <1>4, <1>5, <1>6 DEF Framed
  <2>2. \A d : d # x => (Listed(d)' <=> Listed(d))
    BY <1>4, <1>5, <1>6 DEF Listed
  <2>3. \A d : BeingListed(d)' <=> BeingListed(d)
    BY <1>4, <1>5, <1>6 DEF BeingListed
  <2>. QED
    BY <2>1, <2>2, <2>3
<1>8. \A d : Creates(d, events)' = Creates(d, events) /\ Creates(d, unhandled)' = Creates(d, unhandled)
  BY <1>2 DEF Creates, Of
<1>9. ASSUME Clean(x)'
      PROVE  /\ x \in exists /\ kernel[x] = 0 /\ ~Framed(x) /\ ~Listed(x)'
             /\ Creates(x, events) = {} /\ Creates(x, unhandled) = {}
             /\ kernel[parent[x]] # 0 /\ ~BeingListed(parent[x])
  <2>1. Scanned(x) /\ ScannedBelow(x) /\ x \in AllDirectories
    BY <1>1, <1>9 DEF FoundAll
  <2>2. Scanned(parent[x])
    BY <1>1, <1>9 DEF FoundAll
  <2>3. Listed(x)
    BY <1>1, <1>3 DEF Listed
  <2>4. x \in exists /\ kernel[x] = 0 /\ ~Framed(x) /\ Creates(x, unhandled) = {} /\ Creates(x, events) = {}
    BY <1>1, <1>3, <2>1, <2>3 DEF Scanned, Awaited
  <2>5. \A i \in DOMAIN stack : stack[i].dir = parent[x] => i = Len(stack)
    BY <1>3, <2>2 DEF Scanned
  <2>6. kernel[parent[x]] # 0 /\ ~BeingListed(parent[x])
    BY <1>3, <2>2, <2>5 DEF Scanned, BeingListed
  <2>7. \A i \in DOMAIN stack : x \in stack[i].subdirs => i = Len(stack)
    BY <2>5 DEF Calls
  <2>8. ~Listed(x)'
    BY <1>4, <1>5, <1>6, <2>7 DEF Listed
  <2>. QED
    BY <2>4, <2>6, <2>8
<1>10. ASSUME NEW d \in AllDirectories, Clean(d)'
       PROVE  Scanned(d)'
  <2>1. Scanned(d)
    BY <1>10 DEF FoundAll
  <2>2. CASE d = x
    <3>1. ~Awaited(d)'
      BY <1>8, <1>9, <1>10, <2>2 DEF Awaited
    <3>2. \A i \in DOMAIN stack' : stack'[i].dir = d => i = Len(stack) + 1
      BY <1>4, <1>5, <1>9, <1>10, <2>2 DEF Framed
    <3>3. \A i \in DOMAIN stack' : d \notin stack'[i].subdirs
      BY <1>9, <1>10, <2>2 DEF Listed
    <3>. QED
      BY <1>2, <1>6, <1>8, <1>9, <1>10, <2>1, <2>2, <3>1, <3>2, <3>3 DEF Scanned
  <2>3. CASE d # x
    <3>1. Awaited(d)' <=> Awaited(d)
      BY <1>7, <1>8, <2>3 DEF Awaited
    <3>2. \A i \in DOMAIN stack' : stack'[i].dir = d => i \in DOMAIN stack
      BY <1>4, <1>6, <2>3
    <3>3. \A i \in DOMAIN stack' : d \in stack'[i].subdirs => i \in DOMAIN stack
      BY <1>4, <1>6
    <3>. QED
      BY <1>2, <1>5, <1>7, <1>8, <2>1, <2>3, <3>1, <3>2, <3>3 DEF Scanned
  <2>. QED
    BY <2>2, <2>3
<1>11. ASSUME NEW d \in Directories, Clean(d)'
       PROVE  ScannedBelow(d)'
  <2>1. ScannedBelow(d)
    BY <1>11 DEF FoundAll
  <2>2. CASE d = x
    BY <1>2, <1>7, <1>8, <1>9, <1>11, <2>2 DEF ScannedBelow
  <2>3. CASE d # x
    <3>1. Awaited(d)' <=> Awaited(d)
      BY <1>7, <1>8, <2>3 DEF Awaited
    <3>. QED
      BY <1>2, <1>7, <1>8, <2>1, <2>3, <3>1 DEF ScannedBelow
  <2>. QED
    BY <2>2, <2>3
<1>12. (kernel[Root] # 0 \/ Framed(Root))'
  BY <1>2, <1>7 DEF FoundAll
<1>. QED
  BY <1>2, <1>10, <1>11, <1>12, FoundNext

LEMMA FoundByLeaveDirectory ==
  ASSUME ProviderTypes, Calls, Grows, FoundAll, LeaveDirectory
  PROVE  DirectoriesFound'
<1>1. /\ Top = stack[Len(stack)] /\ Len(stack) \in DOMAIN stack
      /\ Top.phase = "subdirs" /\ Top.subdirs = {}
      /\ DOMAIN stack' = DOMAIN stack \ {Len(stack)}
      /\ \A i \in DOMAIN stack' : stack'[i] = stack[i]
  BY LeaveDirectoryDoes
<1>2. UNCHANGED <<kernel, exists, parent, events, unhandled>>
  BY DEF LeaveDirectory, tree, inotify
<1>3. /\ \A d : Framed(d)' => Framed(d)
      /\ \A d : d # Top.dir => (Framed(d)' <=> Framed(d))
      /\ \A d : Listed(d)' <=> Listed(d)
      /\ \A d : BeingListed(d)' <=> BeingListed(d)
  BY <1>1 DEF Framed, Listed, BeingListed
<1>4. \A d : /\ Creates(d, events)' = Creates(d, events) /\ Creates(d, unhandled)' = Creates(d, unhandled)
             /\ (Awaited(d)' <=> Awaited(d))
  BY <1>2, <1>3 DEF Creates, Of, Awaited
<1>5. ASSUME NEW d, Scanned(d), Framed(d), ~Framed(d)'
      PROVE  kernel[d] # 0
  BY <1>1, <1>3, <1>5 DEF Scanned
<1>6. ASSUME NEW d \in AllDirectories, Clean(d)'
      PROVE  Scanned(d)'
  <2>1. Scanned(d)
    BY <1>6 DEF FoundAll
  <2>. QED
    BY <1>1, <1>2, <1>3, <1>4, <2>1 DEF Scanned
<1>7. ASSUME NEW d \in Directories, Clean(d)'
      PROVE  ScannedBelow(d)'
  <2>1. ScannedBelow(d) /\ Scanned(d)
    BY <1>7 DEF FoundAll
  <2>. QED
    BY <1>2, <1>3, <1>4, <1>5, <2>1 DEF ScannedBelow
<1>8. (kernel[Root] # 0 \/ Framed(Root))'
  <2>1. Scanned(Root) /\ (kernel[Root] # 0 \/ Framed(Root))
    BY DEF FoundAll
  <2>. QED
    BY <1>2, <1>5, <2>1
<1>. QED
  BY <1>2, <1>6, <1>7, <1>8, FoundNext

(* Between scans there are no calls.                                       *)
LEMMA NoCalls ==
  ASSUME stack = <<>>
  PROVE  /\ DOMAIN stack = {} /\ \A d : ~Framed(d) /\ ~Listed(d) /\ ~BeingListed(d)
         /\ \A f : ~InKnown(f) /\ ~Kept(f) /\ \A p : ~InBatch(p) /\ ~InFresh(p)
<1>1. DOMAIN stack = {}
  OBVIOUS
<1>. QED
  BY <1>1 DEF Framed, Listed, BeingListed, InKnown, Kept, InBatch, InFresh

LEMMA FoundByReadEvents ==
  ASSUME ProviderTypes, Calls, Grows, FoundAll, ReadEvents
  PROVE  DirectoriesFound'
<1>1. stack = <<>> /\ unhandled' = events /\ events' = <<>> /\ UNCHANGED <<stack, kernel, exists, parent>>
  BY DEF ReadEvents, tree
<1>2. /\ DOMAIN stack = {} /\ DOMAIN stack' = {}
      /\ \A d : /\ ~Framed(d) /\ ~Listed(d) /\ ~BeingListed(d)
                /\ ~Framed(d)' /\ ~Listed(d)' /\ ~BeingListed(d)'
  BY <1>1, NoCalls DEF Framed, Listed, BeingListed
<1>3. \A d : Creates(d, events)' = {} /\ Creates(d, unhandled)' = Creates(d, events)
  BY <1>1 DEF Creates, Of
<1>4. \A d : Awaited(d)' => Awaited(d)
  BY <1>2, <1>3 DEF Awaited
<1>5. unhandled = <<>>
  BY DEF ReadEvents
<1>6. \A d : Creates(d, unhandled) = {}
  BY <1>5 DEF Creates, Of
<1>7. ASSUME NEW d \in AllDirectories, Clean(d)'
      PROVE  Scanned(d)'
  <2>1. Scanned(d)
    BY <1>7 DEF FoundAll
  <2>. QED
    BY <1>1, <1>2, <1>3, <1>4, <2>1 DEF Scanned
<1>8. ASSUME NEW d \in Directories, Clean(d)'
      PROVE  ScannedBelow(d)'
  <2>1. ScannedBelow(d)
    BY <1>8 DEF FoundAll
  <2>. QED
    BY <1>1, <1>2, <1>3, <1>6, <2>1 DEF ScannedBelow, Awaited
<1>9. (kernel[Root] # 0 \/ Framed(Root))'
  BY <1>1, <1>2 DEF FoundAll
<1>. QED
  BY <1>1, <1>7, <1>8, <1>9, FoundNext

LEMMA FoundByCreateEvent ==
  ASSUME ProviderTypes, Calls, Grows, FoundAll, CreateEvent
  PROVE  DirectoriesFound'
<1>1. /\ stack = <<>> /\ unhandled # <<>> /\ unhandled' = Tail(unhandled)
      /\ Head(unhandled).kind = "create dir" /\ stack' = <<Frame(Head(unhandled).name)>>
      /\ UNCHANGED <<events, kernel, exists, parent>>
  BY DEF CreateEvent, Handles, tree
<1>2. PICK x : x = Head(unhandled).name
  OBVIOUS
<1>3. DOMAIN stack' = {1} /\ stack'[1] = Frame(x)
  <2>1. stack' = <<Frame(x)>>
    BY <1>1, <1>2
  <2>. QED
    BY <2>1
<1>4. stack'[1].dir = x /\ stack'[1].phase = "watch" /\ stack'[1].subdirs = {}
  BY <1>3 DEF Frame
<1>5. /\ \A d : ~Framed(d) /\ ~Listed(d) /\ ~BeingListed(d)
      /\ \A d : (Framed(d)' <=> d = x) /\ ~Listed(d)' /\ ~BeingListed(d)'
  BY <1>1, <1>3, <1>4, NoCalls DEF Framed, Listed, BeingListed
<1>6. \A d : Creates(d, events)' = Creates(d, events)
  BY <1>1 DEF Creates, Of
<1>7. \A d : d # x => Alike(Creates(d, unhandled), Creates(d, unhandled)')
  BY <1>1, <1>2, CreatesTaken
<1>8. /\ Creates(x, unhandled) # {}
      /\ (\A i, j \in Creates(x, unhandled) : i = j) => Creates(x, unhandled)' = {}
  <2>1. Shrunk({"create dir"}, <<x, 0>>)
    BY <1>1, EventTaken
  <2>2. Head(unhandled) \in AnyEvent
    BY <1>1, HeadTailProperties DEF ProviderTypes
  <2>3. Head(unhandled).version = 0
    BY <1>1, <2>2, EventRecord
  <2>4. Heads({"create dir"}, <<x, 0>>)
    BY <1>1, <1>2, <2>3 DEF Heads
  <2>. QED
    BY <2>1, <2>4 DEF Shrunk, Creates
<1>9. ASSUME NEW d \in AllDirectories, Clean(d)'
      PROVE  Scanned(d)'
  <2>1. Scanned(d)
    BY <1>9 DEF FoundAll
  <2>2. CASE d = x
    <3>1. /\ d \in exists /\ kernel[d] = 0 /\ Creates(d, events) = {}
          /\ \A i, j \in Creates(d, unhandled) : i = j
      BY <1>8, <2>1, <2>2 DEF Scanned, Awaited
    <3>2. Creates(d, unhandled)' = {} /\ Creates(d, events)' = {}
      BY <1>6, <1>8, <2>2, <3>1
    <3>3. ~Awaited(d)'
      BY <1>5, <3>2 DEF Awaited
    <3>. QED
      BY <1>1, <1>3, <1>4, <3>1, <3>2, <3>3 DEF Scanned
  <2>3. CASE d # x
    <3>1. Awaited(d)' <=> Awaited(d)
      BY <1>5, <1>6, <1>7, <2>3 DEF Awaited, Alike
    <3>2. \A i \in DOMAIN stack' : stack'[i].dir # d /\ d \notin stack'[i].subdirs
      BY <1>3, <1>4, <2>3
    <3>. QED
      BY <1>1, <1>5, <1>6, <1>7, <2>1, <2>3, <3>1, <3>2 DEF Scanned, Alike
  <2>. QED
    BY <2>2, <2>3
<1>10. ASSUME NEW d \in Directories, Clean(d)'
       PROVE  ScannedBelow(d)'
  <2>1. ScannedBelow(d) /\ Scanned(d)
    BY <1>10 DEF FoundAll
  <2>2. CASE d = x
    BY <1>1, <1>5, <1>6, <1>8, <2>1, <2>2 DEF ScannedBelow
  <2>3. CASE d # x
    <3>1. Awaited(d)' <=> Awaited(d)
      BY <1>5, <1>6, <1>7, <2>3 DEF Awaited, Alike
    <3>2. /\ Creates(d, events)' = Creates(d, events)
          /\ Creates(d, unhandled) = {} => Creates(d, unhandled)' = {}
      BY <1>6, <1>7, <2>3 DEF Alike
    <3>3. ~Framed(d) /\ ~Framed(d)' /\ ~BeingListed(parent[d])
      BY <1>5, <2>3
    <3>4. ~BeingListed(parent[d])'
      BY <1>5
    <3>. QED
      BY <1>1, <2>1, <3>1, <3>2, <3>3, <3>4 DEF ScannedBelow
  <2>. QED
    BY <2>2, <2>3
<1>11. (kernel[Root] # 0 \/ Framed(Root))'
  BY <1>1, <1>5 DEF FoundAll
<1>. QED
  BY <1>1, <1>9, <1>10, <1>11, FoundNext

LEMMA DirectoriesKept ==
  ASSUME ProviderTypes, Calls, DescriptorsStand, DirectoriesFound, ProviderNext
  PROVE  DirectoriesFound'
<1>1. Grows /\ FoundAll
  BY GrowsAlways, FoundOfAll
<1>2. \A d \in exists \ {Root} : parent[d] \in exists
  BY DEF DirectoriesFound
<1>3. CASE Change
  BY <1>1, <1>3, FoundByOthers
<1>4. CASE ScanFails \/ ReconcileFails \/ EventFails \/ FlushBatch \/ NoMoreEvents
  <2>1. UNCHANGED <<stack, kernel, exists, events, unhandled>>
    BY <1>4 DEF ScanFails, ReconcileFails, EventFails, Abort, Die, FlushBatch,
       NoMoreEvents, tree, inotify
  <2>2. \A d : SameOf(d)
    BY <2>1, AlikeSame DEF SameOf, Creates, Of
  <2>. QED
    BY <1>1, <1>2, <2>1, <2>2, FoundSame
<1>5. CASE FileEvent \/ DeleteEvent
  <2>1. /\ UNCHANGED <<stack, exists, events>> /\ unhandled # <<>> /\ unhandled' = Tail(unhandled)
        /\ Head(unhandled).kind # "create dir"
    BY <1>5 DEF FileEvent, DeleteEvent, Handles, tree
  <2>2. \A d : Alike(Creates(d, unhandled), Creates(d, unhandled)')
    BY <2>1, CreatesTaken
  <2>3. ASSUME NEW d \in AllDirectories, Clean(d)
        PROVE  kernel'[d] = kernel[d]
    BY <1>5, <2>3, DeleteSpares DEF FileEvent
  <2>4. \A d \in AllDirectories : Clean(d)' => SameOf(d)
    BY <1>1, <2>1, <2>2, <2>3, AlikeSame DEF SameOf, Creates, Of, FoundAll
  <2>. QED
    BY <1>1, <1>2, <2>1, <2>4, FoundSame
<1>. QED
  BY <1>1, <1>3, <1>4, <1>5, FoundByAddWatch, FoundByListDirectory, FoundByReconcile,
     FoundByEnterSubdirectory, FoundByLeaveDirectory, FoundByReadEvents, FoundByCreateEvent
     DEF ProviderNext, QueueOverflows, WriteFile, CloseFile, MoveFileIn, Completed, DeleteFile,
         MakeDirectory, MoveDirectoryIn, RemoveDirectory

-----------------------------------------------------------------------------
(* Files are followed.                                                     *)

(* Nothing happens to a version of a file.                                 *)
SamePair(p) ==
  /\ Alike(Closes(p, events), Closes(p, events)')
  /\ Alike(Closes(p, unhandled), Closes(p, unhandled)')
  /\ (p \in batch' <=> p \in batch) /\ (p \in reported' <=> p \in reported)
  /\ (InBatch(p)' <=> InBatch(p)) /\ (InFresh(p)' <=> InFresh(p))
  /\ (p \in again' => p \in again) /\ (p \in lost => p \in lost')

(* Nothing happens to any of f, which is in d.                             *)
SameFor(f, d) ==
  /\ content'[f] = content[f] /\ version'[f] = version[f]
  /\ kernel'[d] = kernel[d] /\ (d \in exists => d \in exists')
  /\ (InKnown(f)' <=> InKnown(f)) /\ (Kept(f)' <=> Kept(f)) /\ (BeingListed(d)' <=> BeingListed(d))
  /\ \A p \in VersionsFor(f) : SamePair(p)

LEMMA PairSame ==
  ASSUME NEW p, SamePair(p)
  PROVE  /\ Found(p)' <=> Found(p)
         /\ UnderWay(p)' <=> UnderWay(p)
         /\ Closes(p, events)' = {} <=> Closes(p, events) = {}
         /\ Closes(p, unhandled)' = {} <=> Closes(p, unhandled) = {}
BY DEF SamePair, Found, UnderWay, Alike

LEMMA OneWaySame ==
  ASSUME NEW p, OneWay(p), SamePair(p), InKnown(p[1])' <=> InKnown(p[1])
  PROVE  OneWay(p)'
<1>1. /\ Found(p)' <=> Found(p)
      /\ Closes(p, events)' = {} <=> Closes(p, events) = {}
      /\ Closes(p, unhandled)' = {} <=> Closes(p, unhandled) = {}
  BY PairSame
<1>. QED
  BY <1>1 DEF OneWay, SamePair, Alike

LEMMA CurrentOf ==
  ASSUME ProviderTypes, NEW f \in DirFiles
  PROVE  Current(f) \in VersionsFor(f) /\ Current(f)[2] = version[f] /\ version[f] \in Nat
<1>1. version[f] \in Nat
  BY DEF ProviderTypes
<1>. QED
  BY <1>1 DEF Current, VersionsFor

LEMMA VersionFor ==
  ASSUME NEW f, NEW p \in VersionsFor(f)
  PROVE  p[1] = f /\ p[2] \in Nat /\ p = <<f, p[2]>>
BY DEF VersionsFor

LEMMA FollowedSame ==
  ASSUME ProviderTypes, NEW f \in DirFiles, NEW d, Followed(f, d), SameFor(f, d)
  PROVE  Followed(f, d)'
<1>1. \A p \in VersionsFor(f) :
        /\ SamePair(p) /\ OneWay(p)
        /\ Found(p)' <=> Found(p)
        /\ UnderWay(p)' <=> UnderWay(p)
        /\ Closes(p, events)' = {} <=> Closes(p, events) = {}
        /\ Closes(p, unhandled)' = {} <=> Closes(p, unhandled) = {}
  BY PairSame DEF SameFor, Followed
<1>2. \A p \in VersionsFor(f) : OneWay(p)'
  <2>. SUFFICES ASSUME NEW p \in VersionsFor(f) PROVE OneWay(p)'
    OBVIOUS
  <2>1. p[1] = f
    BY VersionFor
  <2>2. InKnown(p[1])' <=> InKnown(p[1])
    BY <2>1 DEF SameFor, InKnown
  <2>. QED
    BY <1>1, <2>2, OneWaySame
<1>3. Current(f)' = Current(f) /\ Current(f) \in VersionsFor(f)
  BY CurrentOf DEF Current, SameFor
<1>4. (UnderWay(Current(f)) \/ Current(f) \in lost)' <=> UnderWay(Current(f)) \/ Current(f) \in lost'
  BY <1>1, <1>3 DEF UnderWay, Found, InBatch, InFresh, Closes, Of
<1>5. content'[f] = "closed" /\ kernel'[d] # 0 /\ ~BeingListed(d)' =>
        UnderWay(Current(f))' \/ Current(f)' \in lost' \/ (InKnown(f)' /\ Kept(f)')
  BY <1>1, <1>3, <1>4 DEF SameFor, SamePair, Followed
<1>6. KnownAlone(f)'
  BY <1>1 DEF SameFor, SamePair, Followed, KnownAlone
<1>7. content'[f] # "none" => d \in exists'
  BY DEF SameFor, Followed
<1>8. kernel'[d] = 0 => \A p \in VersionsFor(f) : Closes(p, events)' = {}
  BY <1>1 DEF SameFor, Followed
<1>9. kernel'[d] = 0 \/ BeingListed(d)' => \A p \in VersionsFor(f) : ~Found(p)'
  BY <1>1 DEF SameFor, Followed
<1>10. \A p \in VersionsFor(f) : UnderWay(p)' => p[2] =< version'[f]
  BY <1>1 DEF SameFor, Followed
<1>. QED
  BY <1>2, <1>5, <1>6, <1>7, <1>8, <1>9, <1>10 DEF Followed

(* The files to follow after a step were followed before.                  *)
FollowedAll ==
  \A f \in DirFiles : Reachable(f)' =>
    /\ Followed(f, DirectoryOf[f]) /\ DirectoryOf[f] \in AllDirectories
    /\ Clean(DirectoryOf[f]) /\ Scanned(DirectoryOf[f])
    /\ DirectoryOf[f] \notin missed' /\ DirectoryOf[f] \notin removed'

LEMMA FollowedOfAll ==
  ASSUME ProviderTypes, Grows, DirectoriesFound, FilesFollowed
  PROVE  FollowedAll
<1>. SUFFICES ASSUME NEW f \in DirFiles, Reachable(f)'
              PROVE  /\ Followed(f, DirectoryOf[f]) /\ DirectoryOf[f] \in AllDirectories
                     /\ Clean(DirectoryOf[f]) /\ Scanned(DirectoryOf[f])
                     /\ DirectoryOf[f] \notin missed' /\ DirectoryOf[f] \notin removed'
  BY DEF FollowedAll
<1>1. PICK d \in AllDirectories : d = DirectoryOf[f]
  BY NamesAssumption
<1>2. Clean(d)'
  BY <1>1 DEF Reachable, Clean
<1>3. Clean(d) /\ d \notin missed' /\ d \notin removed' /\ Scanned(d)
  BY <1>2, CleanNext DEF DirectoriesFound
<1>4. Reachable(f)
  BY <1>1, <1>3 DEF Reachable, Clean
<1>. QED
  BY <1>1, <1>3, <1>4 DEF FilesFollowed

LEMMA FollowedNext ==
  ASSUME \A f \in DirFiles : \A d \in AllDirectories :
           Reachable(f)' /\ d = DirectoryOf[f] => Followed(f, d)'
  PROVE  FilesFollowed'
<1>. SUFFICES ASSUME NEW f \in DirFiles, Reachable(f)'
              PROVE  Followed(f, DirectoryOf[f])'
  BY DEF FilesFollowed
<1>1. PICK d \in AllDirectories : d = DirectoryOf[f]
  BY NamesAssumption
<1>2. Followed(f, d)'
  BY <1>1
<1>. QED
  BY <1>1, <1>2 DEF Followed, BeingListed

LEMMA SameFollowed ==
  ASSUME ProviderTypes, FollowedAll,
         \A f \in DirFiles : \A d \in AllDirectories :
           Reachable(f)' /\ d = DirectoryOf[f] => SameFor(f, d)
  PROVE  FilesFollowed'
<1>1. ASSUME NEW f \in DirFiles, NEW d \in AllDirectories, Reachable(f)', d = DirectoryOf[f]
      PROVE  Followed(f, d)'
  <2>1. Followed(f, d) /\ SameFor(f, d)
    BY <1>1 DEF FollowedAll
  <2>. QED
    BY <2>1, FollowedSame
<1>. QED
  BY <1>1, FollowedNext

LEMMA ClosesTaken ==
  ASSUME ProviderTypes, unhandled # <<>>, unhandled' = Tail(unhandled), NEW p,
         ~Heads({"close", "moved to"}, p)
  PROVE  Alike(Closes(p, unhandled), Closes(p, unhandled)')
<1>1. Shrunk({"close", "moved to"}, p)
  BY EventTaken
<1>. QED
  BY <1>1 DEF Shrunk, Alike, Closes

(* Nothing happens to the calls, nor to what they have found.              *)
LEMMA CallsSame ==
  ASSUME stack' = stack
  PROVE  /\ \A f : (InKnown(f)' <=> InKnown(f)) /\ (Kept(f)' <=> Kept(f))
         /\ \A p : (InBatch(p)' <=> InBatch(p)) /\ (InFresh(p)' <=> InFresh(p))
         /\ \A d : BeingListed(d)' <=> BeingListed(d)
BY DEF InKnown, Kept, Names, InBatch, InFresh, BeingListed

LEMMA SameByOthers ==
  ASSUME Change, NEW p, lost \subseteq lost', Alike(Closes(p, events), Closes(p, events)')
  PROVE  SamePair(p)
<1>1. UNCHANGED <<stack, unhandled, batch, reported, again>>
  BY DEF Change, put
<1>2. Closes(p, unhandled)' = Closes(p, unhandled)
  BY <1>1 DEF Closes, Of
<1>. QED
  BY <1>1, <1>2, CallsSame, AlikeSame DEF SamePair

LEMMA Later ==
  ASSUME NEW v \in Nat, NEW n \in Nat, n = v + 1
  PROVE  ~(n =< v) /\ n =< n /\ \A m \in Nat : m =< v => m =< n
OBVIOUS

(* A file that is completed is on its way, unless the kernel drops that.   *)
LEMMA FollowedByCompleted ==
  ASSUME ProviderTypes, FollowedAll, NEW g \in DirFiles, NEW kind \in {"close", "moved to"},
         NEW n \in Nat, Completed(g, kind), content[g] = "open" \/ DirectoryOf[g] \in exists,
         n = version[g] + 1, Sends(kind, DirectoryOf[g], g, n)
  PROVE  FilesFollowed'
<1>1. /\ Change /\ UNCHANGED <<kernel, exists, stack, unhandled, batch, reported, again>>
      /\ lost \subseteq lost'
  BY DEF Completed, Change, put
<1>2. /\ content' = [content EXCEPT ![g] = "closed"] /\ version' = [version EXCEPT ![g] = n]
      /\ version \in [DirFiles -> Nat] /\ content \in [DirFiles -> {"none", "open", "closed", "gone"}]
  BY DEF Completed, ProviderTypes
<1>3. /\ content'[g] = "closed" /\ version'[g] = n
      /\ \A f \in DirFiles : f # g => content'[f] = content[f] /\ version'[f] = version[f]
  BY <1>2
<1>4. ASSUME NEW f \in DirFiles, NEW d \in AllDirectories, Reachable(f)', d = DirectoryOf[f], f # g
      PROVE  Followed(f, d)'
  <2>1. OthersAsWere(events, events', kind, DirectoryOf[g], g)
    BY DEF Sends, GrownBy
  <2>2. ASSUME NEW p \in VersionsFor(f)
        PROVE  SamePair(p)
    <3>0. p[1] = f
      BY VersionFor
    <3>1. \A m : p # <<g, m>>
      <4>1. ASSUME NEW m, p = <<g, m>> PROVE p[1] = g
        BY <4>1
      <4>. QED
        BY <1>4, <3>0, <4>1
    <3>2. Of({"close", "moved to"}, p, events') = Of({"close", "moved to"}, p, events)
      BY <2>1, <3>1 DEF OthersAsWere
    <3>3. Closes(p, events)' = Closes(p, events)
      BY <3>2 DEF Closes, Of
    <3>. QED
      BY <1>1, <3>3, SameByOthers, AlikeSame
  <2>3. SameFor(f, d)
    BY <1>1, <1>3, <1>4, <2>2, CallsSame DEF SameFor
  <2>4. Followed(f, d)
    BY <1>4 DEF FollowedAll
  <2>. QED
    BY <2>3, <2>4, FollowedSame
<1>5. ASSUME NEW d \in AllDirectories, Reachable(g)', d = DirectoryOf[g]
      PROVE  Followed(g, d)'
  <2>1. Followed(g, d)
    BY <1>5 DEF FollowedAll
  <2>2. PICK x : x = <<g, n>>
    OBVIOUS
  <2>3. x \in VersionsFor(g) /\ x[2] = n /\ Current(g)' = x
    BY <1>3, <2>2 DEF VersionsFor, Current
  <2>4. Closes(x, events) = {} /\ ~Found(x)
    <3>0. version[g] \in Nat
      BY <1>2
    <3>1. ~(n =< version[g])
      BY <3>0, Later
    <3>2. ~UnderWay(x)
      BY <2>1, <2>3, <3>1 DEF Followed
    <3>. QED
      BY <3>2 DEF UnderWay
  <2>5. GrownBy(events, events', kind, d, g, n)
    BY <1>5 DEF Sends
  <2>6. /\ \A i, j \in Closes(x, events)' : i = j
        /\ events' # events => Closes(x, events)' # {}
    <3>1. \A kinds : kind \in kinds /\ Of(kinds, <<g, n>>, events) = {} =>
            /\ \A i, j \in Of(kinds, <<g, n>>, events') : i = j
            /\ events' # events => Of(kinds, <<g, n>>, events') # {}
      BY <2>5 DEF GrownBy
    <3>2. Of({"close", "moved to"}, <<g, n>>, events) = {}
      BY <2>2, <2>4 DEF Closes
    <3>3. /\ \A i, j \in Of({"close", "moved to"}, <<g, n>>, events') : i = j
          /\ events' # events => Of({"close", "moved to"}, <<g, n>>, events') # {}
      BY <3>1, <3>2
    <3>4. Closes(x, events)' = Of({"close", "moved to"}, x, events')
      BY DEF Closes, Of
    <3>. QED
      BY <2>2, <3>3, <3>4
  <2>7. \A p \in VersionsFor(g) :
          p # x \/ kernel[d] = 0 => Closes(p, events)' \subseteq Closes(p, events)
    <3>1. \A kinds, p : ~(kernel[d] # 0 /\ kind \in kinds /\ <<g, n>> = p) =>
            Of(kinds, p, events') \subseteq Of(kinds, p, events)
      BY <2>5 DEF GrownBy
    <3>2. \A p : p # x \/ kernel[d] = 0 =>
            Of({"close", "moved to"}, p, events') \subseteq Of({"close", "moved to"}, p, events)
      BY <2>2, <3>1
    <3>3. \A p : Closes(p, events)' = Of({"close", "moved to"}, p, events')
      BY DEF Closes, Of
    <3>. QED
      BY <3>2, <3>3 DEF Closes
  <2>8. /\ \A p : Found(p)' <=> Found(p)
        /\ \A p : Closes(p, unhandled)' = Closes(p, unhandled)
        /\ InKnown(g)' <=> InKnown(g)
        /\ Kept(g)' <=> Kept(g)
        /\ BeingListed(d)' <=> BeingListed(d)
        /\ \A p : (InBatch(p)' <=> InBatch(p)) /\ (InFresh(p)' <=> InFresh(p))
    <3>1. \A p : Closes(p, unhandled)' = Closes(p, unhandled)
      BY <1>1 DEF Closes, Of
    <3>. QED
      BY <1>1, <3>1, CallsSame DEF Found
  <2>9. ASSUME NEW p \in VersionsFor(g)
        PROVE  OneWay(p)' /\ (UnderWay(p)' => p[2] =< n)
    <3>0. OneWay(p) /\ p[1] = g /\ p[2] \in Nat /\ (UnderWay(p) => p[2] =< version[g])
      BY <2>1, VersionFor DEF Followed
    <3>1. InKnown(p[1])' <=> InKnown(p[1])
      BY <1>1 DEF InKnown
    <3>2. CASE p = x
      <4>1. ~Found(x)' /\ \A i, j \in Closes(x, events)' : i = j
        BY <2>4, <2>6, <2>8
      <4>2. OneWay(p)'
        BY <1>1, <2>8, <3>0, <3>1, <3>2, <4>1 DEF OneWay
      <4>3. n =< n
        <5>1. version[g] \in Nat
          BY <1>2
        <5>. QED
          BY <5>1, Later
      <4>. QED
        BY <2>3, <3>2, <4>2, <4>3
    <3>3. CASE p # x
      <4>1. Closes(p, events)' \subseteq Closes(p, events)
        BY <2>7, <3>3
      <4>2. OneWay(p)'
        BY <1>1, <2>8, <3>0, <3>1, <4>1 DEF OneWay
      <4>3. UnderWay(p)' => UnderWay(p)
        BY <2>8, <4>1 DEF UnderWay
      <4>0. version[g] \in Nat
        BY <1>2
      <4>4. \A m \in Nat : m =< version[g] => m =< n
        BY <4>0, Later
      <4>. QED
        BY <3>0, <4>2, <4>3, <4>4
    <3>. QED
      BY <3>2, <3>3
  <2>10. kernel[d] # 0 => UnderWay(x)' \/ x \in lost'
    <3>1. kernel[d] # 0 /\ events' = events => x \in lost'
      BY <1>5, <2>2 DEF Completed, Dropped
    <3>. QED
      BY <2>6, <3>1 DEF UnderWay
  <2>11. content'[g] # "none" => d \in exists'
    BY <1>1, <1>5, <2>1 DEF Followed
  <2>12. kernel[d] = 0 => \A p \in VersionsFor(g) : Closes(p, events)' = {}
    BY <2>1, <2>7 DEF Followed
  <2>13. kernel[d] = 0 \/ BeingListed(d)' => \A p \in VersionsFor(g) : ~Found(p)'
    BY <2>1, <2>8 DEF Followed
  <2>14. KnownAlone(g)'
    BY <1>1, <2>1, <2>8 DEF Followed, KnownAlone
  <2>15. UnderWay(Current(g))' \/ Current(g)' \in lost' \/ kernel[d] = 0
    BY <2>3, <2>10 DEF UnderWay, Found, InBatch, InFresh, Closes, Of
  <2>. QED
    BY <1>1, <1>3, <2>9, <2>11, <2>12, <2>13, <2>14, <2>15 DEF Followed
<1>. QED
  BY <1>4, <1>5, FollowedNext

LEMMA FollowedByOthers ==
  ASSUME ProviderTypes, FollowedAll, ProviderNext, Change
  PROVE  FilesFollowed'
<1>1. UNCHANGED <<stack, unhandled, batch, reported, again>>
  BY DEF Change, put
<1>2. \A f \in DirFiles : f \notin Directories
  BY NamesAssumption DEF AllDirectories
<1>3. ASSUME lost \subseteq lost',
             \A f \in DirFiles : \A d \in AllDirectories : Reachable(f)' /\ d = DirectoryOf[f] =>
               /\ content'[f] = content[f] /\ version'[f] = version[f]
               /\ kernel'[d] = kernel[d] /\ (d \in exists => d \in exists')
               /\ \A p \in VersionsFor(f) : Closes(p, events)' = Closes(p, events)
      PROVE  FilesFollowed'
  <2>1. ASSUME NEW f \in DirFiles, NEW d \in AllDirectories, Reachable(f)', d = DirectoryOf[f]
        PROVE  SameFor(f, d)
    <3>1. \A p \in VersionsFor(f) : SamePair(p)
      BY <1>3, <2>1, SameByOthers, AlikeSame
    <3>. QED
      BY <1>1, <1>3, <2>1, <3>1, CallsSame DEF SameFor
  <2>. QED
    BY <2>1, SameFollowed
<1>4. ASSUME NEW g \in DirFiles, WriteFile(g) \/ DeleteFile(g)
      PROVE  FilesFollowed'
  <2>1. UNCHANGED <<kernel, exists, events, version, lost>>
    BY <1>4 DEF WriteFile, DeleteFile, ghosts
  <2>2. \A p : Closes(p, events)' = Closes(p, events)
    BY <2>1 DEF Closes, Of
  <2>3. \A p : SamePair(p)
    BY <2>1, <2>2, SameByOthers, AlikeSame
  <2>4. ASSUME NEW f \in DirFiles, NEW d \in AllDirectories, Reachable(f)', d = DirectoryOf[f], f # g
        PROVE  Followed(f, d)'
    <3>1. content'[f] = content[f]
      BY <1>4, <2>4 DEF WriteFile, DeleteFile, ProviderTypes
    <3>2. SameFor(f, d)
      BY <1>1, <2>1, <2>3, <3>1, CallsSame DEF SameFor
    <3>3. Followed(f, d)
      BY <2>4 DEF FollowedAll
    <3>. QED
      BY <3>2, <3>3, FollowedSame
  <2>5. ASSUME NEW d \in AllDirectories, Reachable(g)', d = DirectoryOf[g]
        PROVE  Followed(g, d)'
    <3>1. Followed(g, d)
      BY <2>5 DEF FollowedAll
    <3>2. content'[g] # "closed" /\ d \in exists'
      BY <1>4, <2>1, <2>5, <3>1 DEF WriteFile, DeleteFile, ProviderTypes, Followed
    <3>3. ASSUME NEW p \in VersionsFor(g)
          PROVE  OneWay(p)' /\ (UnderWay(p)' => p[2] =< version'[g])
      <4>1. OneWay(p) /\ (UnderWay(p) => p[2] =< version[g]) /\ p[1] = g
        BY <3>1, VersionFor DEF Followed
      <4>2. InKnown(p[1])' <=> InKnown(p[1])
        BY <1>1 DEF InKnown
      <4>. QED
        BY <2>1, <2>3, <4>1, <4>2, OneWaySame, PairSame
    <3>4. \A p \in VersionsFor(g) : (Found(p)' <=> Found(p)) /\ Closes(p, events)' = Closes(p, events)
      BY <2>2, <2>3, PairSame
    <3>5. KnownAlone(g)'
      BY <1>1, <2>3, <3>1, CallsSame DEF Followed, KnownAlone, SamePair, Alike
    <3>6. BeingListed(d)' <=> BeingListed(d)
      BY <1>1, CallsSame
    <3>. QED
      BY <2>1, <3>1, <3>2, <3>3, <3>4, <3>5, <3>6 DEF Followed
  <2>. QED
    BY <2>4, <2>5, FollowedNext
<1>5. CASE QueueOverflows
  <2>1. \A x : Of({"close", "moved to"}, x, events') = Of({"close", "moved to"}, x, events)
    BY <1>5, OverflowDoes
  <2>2. \A p : Closes(p, events)' = Closes(p, events)
    BY <2>1 DEF Closes, Of
  <2>. QED
    BY <1>3, <1>5, <2>2 DEF QueueOverflows, ghosts
<1>6. ASSUME NEW x \in Directories, MakeDirectory(x), Sends("create dir", parent[x], x, 0)
      PROVE  FilesFollowed'
  <2>1. UNCHANGED <<content, version, kernel, lost>> /\ exists' = exists \cup {x}
    BY <1>6 DEF MakeDirectory
  <2>2. OthersAsWere(events, events', "create dir", parent[x], x)
    BY <1>6 DEF Sends, GrownBy
  <2>3. \A p : Of({"close", "moved to"}, p, events') = Of({"close", "moved to"}, p, events)
    BY <2>2 DEF OthersAsWere
  <2>4. \A p : Closes(p, events)' = Closes(p, events)
    BY <2>3 DEF Closes, Of
  <2>. QED
    BY <1>3, <2>1, <2>4
<1>7. ASSUME NEW x \in Directories, MoveDirectoryIn(x), Sends("moved to", parent[x], x, 0)
      PROVE  FilesFollowed'
  <2>1. /\ UNCHANGED <<kernel, version, lost>> /\ exists' = exists \cup {x} /\ missed' = missed \cup {x}
        /\ \A f \in DirFiles : DirectoryOf[f] # x => content'[f] = content[f]
    BY <1>7 DEF MoveDirectoryIn
  <2>2. PICK kind, dir : OthersAsWere(events, events', kind, dir, x)
    BY <1>7 DEF Sends, GrownBy
  <2>3. ASSUME NEW f \in DirFiles, NEW p \in VersionsFor(f)
        PROVE  Closes(p, events)' = Closes(p, events)
    <3>1. \A m : p # <<x, m>>
      BY <1>2, VersionFor
    <3>2. Of({"close", "moved to"}, p, events') = Of({"close", "moved to"}, p, events)
      BY <2>2, <3>1 DEF OthersAsWere
    <3>. QED
      BY <3>2 DEF Closes, Of
  <2>4. \A f \in DirFiles : Reachable(f)' => DirectoryOf[f] # x
    BY <2>1 DEF FollowedAll
  <2>. QED
    BY <1>3, <2>1, <2>3, <2>4
<1>8. ASSUME NEW x \in Directories, RemoveDirectory(x)
      PROVE  FilesFollowed'
  <2>1. /\ kernel' = [kernel EXCEPT ![x] = 0] /\ exists' = exists \ {x}
        /\ removed' = removed \cup {x} /\ UNCHANGED <<content, version, lost>>
    BY <1>8 DEF RemoveDirectory, ghosts
  <2>2. \A p : Of({"close", "moved to"}, p, events') = Of({"close", "moved to"}, p, events)
    BY <1>8, RemovalDoes
  <2>3. \A p : Closes(p, events)' = Closes(p, events)
    BY <2>2 DEF Closes, Of
  <2>4. \A f \in DirFiles : Reachable(f)' => DirectoryOf[f] # x
    BY <2>1 DEF FollowedAll
  <2>5. \A d \in AllDirectories : d # x => kernel'[d] = kernel[d] /\ (d \in exists => d \in exists')
    BY <2>1 DEF ProviderTypes
  <2>. QED
    BY <1>3, <2>1, <2>3, <2>4, <2>5
<1>9. ASSUME NEW f \in DirFiles, NEW kind \in {"close", "moved to"}, NEW n \in Nat,
             Completed(f, kind), content[f] = "open" \/ DirectoryOf[f] \in exists,
             n = version[f] + 1, Sends(kind, DirectoryOf[f], f, n)
      PROVE  FilesFollowed'
  BY <1>9, FollowedByCompleted
<1>. QED
  BY <1>4, <1>5, <1>6, <1>7, <1>8, <1>9, ChangeDoes

-----------------------------------------------------------------------------
(* Files are followed by the steps of the worker.                          *)

(* Only the top call knows files, or lists.                                *)
LEMMA TopKnown ==
  ASSUME ProviderTypes, Calls, stack # <<>>
  PROVE  /\ \A f : InKnown(f) <=> f \in Top.known
         /\ \A p : InFresh(p) <=> p \in Top.fresh
         /\ \A d : BeingListed(d) => Top.phase = "list"
         /\ Top.phase # "reconcile" => Top.known = {} /\ Top.fresh = {}
         /\ Top.phase \in {"watch", "list"} => Top.batch = {}
         /\ \A f \in Top.known : DirectoryOf[f] = Top.dir
         /\ \A p \in Top.batch : DirectoryOf[p[1]] = Top.dir
         /\ Top.phase = "reconcile" => Names(Top.batch) \subseteq Top.known
<1>1. Top = stack[Len(stack)] /\ Len(stack) \in DOMAIN stack
  BY TopTypes
<1>2. \A i \in DOMAIN stack : i # Len(stack) =>
        stack[i].phase = "subdirs" /\ stack[i].known = {} /\ stack[i].fresh = {}
  BY DEF Calls
<1>3. /\ \A f : InKnown(f) <=> f \in Top.known
      /\ \A p : InFresh(p) <=> p \in Top.fresh
      /\ \A d : BeingListed(d) => Top.phase = "list"
  BY <1>1, <1>2 DEF InKnown, InFresh, BeingListed
<1>. QED
  BY <1>1, <1>3 DEF Calls

LEMMA KeptIs ==
  ASSUME ProviderTypes
  PROVE  \A f : Kept(f) <=> \E p \in VersionsFor(f) : InBatch(p)
<1>1. \A i \in DOMAIN stack : stack[i].batch \subseteq FilePair
  <2>1. \A i \in DOMAIN stack : stack[i] \in AnyFrame
    BY ElementOfSeq, LenProperties DEF ProviderTypes
  <2>. QED
    BY <2>1 DEF AnyFrame
<1>2. \A p \in FilePair : p \in VersionsFor(p[1])
  BY DEF FilePair, VersionsFor
<1>3. \A f : \A p \in VersionsFor(f) : p[1] = f
  BY VersionFor
<1>. QED
  BY <1>1, <1>2, <1>3 DEF Kept, InBatch, Names

(* Of the files of the directory that is scanned only its call has some.   *)
LEMMA OnlyInTop ==
  ASSUME ProviderTypes, Calls, stack # <<>>, NEW f, DirectoryOf[f] = Top.dir, Scanned(Top.dir)
  PROVE  /\ \A i \in DOMAIN stack : i # Len(stack) => f \notin Names(stack[i].batch)
         /\ \A p \in VersionsFor(f) : \A i \in DOMAIN stack : p \in stack[i].batch => i = Len(stack)
         /\ Kept(f) <=> f \in Names(Top.batch)
         /\ \A p \in VersionsFor(f) : InBatch(p) <=> p \in Top.batch
<1>1. Top = stack[Len(stack)] /\ Len(stack) \in DOMAIN stack
  BY TopTypes
<1>2. \A i \in DOMAIN stack : stack[i].dir = Top.dir => i = Len(stack)
  BY <1>1 DEF Scanned
<1>3. \A i \in DOMAIN stack : \A p \in stack[i].batch : p[1] = f => i = Len(stack)
  BY <1>2 DEF Calls
<1>4. \A p \in VersionsFor(f) : p[1] = f
  BY VersionFor
<1>. QED
  BY <1>1, <1>3, <1>4 DEF Names, Kept, InBatch

(* Of the others none comes or goes when that call alone changes.          *)
LEMMA ElsewhereSame ==
  ASSUME ProviderTypes, Calls, Calls',
         NEW fields \in SUBSET {"phase", "known", "batch", "fresh", "subdirs"},
         OnlyTop(fields), NEW f, DirectoryOf[f] # Top.dir
  PROVE  /\ ~InKnown(f) /\ ~InKnown(f)'
         /\ Kept(f)' <=> Kept(f)
         /\ \A p \in VersionsFor(f) : InBatch(p)' <=> InBatch(p)
<1>1. /\ Top = stack[Len(stack)] /\ Len(stack) \in DOMAIN stack /\ DOMAIN stack' = DOMAIN stack
      /\ \A i \in DOMAIN stack : i # Len(stack) => stack'[i] = stack[i]
      /\ stack'[Len(stack)].dir = Top.dir /\ Len(stack') = Len(stack)
  BY DEF OnlyTop
<1>2. \A i \in DOMAIN stack : \A p \in stack[i].batch : p[1] = f => i # Len(stack)
  BY <1>1 DEF Calls
<1>3. \A i \in DOMAIN stack : \A p \in stack'[i].batch : p[1] = f => i # Len(stack)
  BY <1>1 DEF Calls
<1>4. ~InKnown(f) /\ ~InKnown(f)'
  BY <1>1 DEF Calls, InKnown
<1>5. \A p \in VersionsFor(f) : p[1] = f
  BY VersionFor
<1>6. \A p : p[1] = f => (InBatch(p)' <=> InBatch(p))
  BY <1>1, <1>2, <1>3 DEF InBatch
<1>7. Kept(f)' <=> Kept(f)
  BY <1>1, <1>2, <1>3 DEF Kept, Names
<1>. QED
  BY <1>4, <1>5, <1>6, <1>7

LEMMA UpTo == ASSUME NEW n \in Nat PROVE n =< n
OBVIOUS

(* What has to be shown of a file of which something does change.          *)
LEMMA FollowedStill ==
  ASSUME ProviderTypes, NEW f \in DirFiles, NEW d, Followed(f, d),
         UNCHANGED <<content, version, kernel, exists>>, ~BeingListed(d)', KnownAlone(f)',
         \A p \in VersionsFor(f) : OneWay(p)',
         \A p \in VersionsFor(f) : UnderWay(p)' => UnderWay(p) \/ (p = Current(f) /\ kernel[d] # 0),
         NEW x, x = Current(f),
         content[f] = "closed" /\ kernel[d] # 0 =>
           UnderWay(x)' \/ x \in lost' \/ (InKnown(f)' /\ Kept(f)')
  PROVE  Followed(f, d)'
<1>1. x \in VersionsFor(f) /\ x[2] = version[f] /\ version[f] \in Nat /\ x[2] =< version[f]
  BY CurrentOf, UpTo
<1>2. Current(f)' = x
  BY DEF Current
<1>3. kernel[d] = 0 => \A p \in VersionsFor(f) : ~UnderWay(p)
  BY DEF Followed, UnderWay
<1>4. kernel'[d] = 0 => \A p \in VersionsFor(f) : ~UnderWay(p)'
  BY <1>3
<1>5. \A p \in VersionsFor(f) : UnderWay(p)' => p[2] =< version'[f]
  BY <1>1 DEF Followed
<1>6. kernel'[d] = 0 => \A p \in VersionsFor(f) : Closes(p, events)' = {} /\ ~Found(p)'
  BY <1>4 DEF UnderWay
<1>7. content'[f] = "closed" /\ kernel'[d] # 0 =>
        UnderWay(Current(f))' \/ Current(f)' \in lost' \/ (InKnown(f)' /\ Kept(f)')
  BY <1>2 DEF UnderWay, Found, Closes, Of, InBatch, InFresh
<1>8. content'[f] # "none" => d \in exists'
  BY DEF Followed
<1>. QED
  BY <1>5, <1>6, <1>7, <1>8 DEF Followed
LEMMA FollowedByAddWatch ==
  ASSUME ProviderTypes, Calls, Grows, FollowedAll, AddWatch
  PROVE  FilesFollowed'
<1>. DEFINE t == Top.dir
<1>1. /\ OnlyTop({"phase"}) /\ Top.phase = "watch" /\ t \in exists
      /\ stack'[Len(stack)].phase = "list"
  BY AddWatchDoes
<1>2. /\ UNCHANGED <<exists, content, version, events, unhandled, batch, reported, again, lost>>
      /\ \A d \in AllDirectories : d # t => kernel'[d] = kernel[d]
  BY DEF AddWatch, tree, put, ghosts, ProviderTypes
<1>3. /\ \A f : (InKnown(f)' <=> InKnown(f)) /\ (Kept(f)' <=> Kept(f))
      /\ \A p : (InBatch(p)' <=> InBatch(p)) /\ (InFresh(p)' <=> InFresh(p))
      /\ \A d : d # t => (BeingListed(d)' <=> BeingListed(d))
      /\ \A d : d = t => BeingListed(d)'
  <2>1. /\ DOMAIN stack' = DOMAIN stack /\ Len(stack) \in DOMAIN stack
        /\ \A i \in DOMAIN stack :
             /\ stack'[i].known = stack[i].known /\ stack'[i].batch = stack[i].batch
             /\ stack'[i].fresh = stack[i].fresh /\ stack'[i].dir = stack[i].dir
             /\ i # Len(stack) => stack'[i].phase = stack[i].phase
        /\ stack[Len(stack)].dir = t
    BY <1>1 DEF OnlyTop
  <2>2. /\ \A f : (InKnown(f)' <=> InKnown(f)) /\ (Kept(f)' <=> Kept(f))
        /\ \A p : (InBatch(p)' <=> InBatch(p)) /\ (InFresh(p)' <=> InFresh(p))
    BY <2>1 DEF InKnown, Kept, Names, InBatch, InFresh
  <2>3. \A d : d # t => (BeingListed(d)' <=> BeingListed(d))
    BY <2>1 DEF BeingListed
  <2>4. \A d : d = t => BeingListed(d)'
    BY <1>1, <2>1 DEF BeingListed
  <2>. QED
    BY <2>2, <2>3, <2>4
<1>4. \A p : SamePair(p)
  BY <1>2, <1>3, AlikeSame DEF SamePair, Closes, Of
<1>5. ASSUME NEW f \in DirFiles, NEW d \in AllDirectories, Reachable(f)', d = DirectoryOf[f]
      PROVE  Followed(f, d)'
  <2>1. Followed(f, d) /\ Scanned(d)
    BY <1>5 DEF FollowedAll
  <2>2. CASE d # t
    <3>1. SameFor(f, d)
      BY <1>2, <1>3, <1>4, <2>2 DEF SameFor
    <3>. QED
      BY <2>1, <3>1, FollowedSame
  <2>3. CASE d = t
    <3>1. Top = stack[Len(stack)] /\ Len(stack) \in DOMAIN stack
      BY <1>1 DEF OnlyTop
    <3>2. kernel[d] = 0
      BY <1>1, <2>1, <2>3, <3>1 DEF Scanned
    <3>3. \A p \in VersionsFor(f) : Closes(p, events) = {} /\ ~Found(p) /\ ~UnderWay(p)
      BY <2>1, <3>2 DEF Followed, UnderWay
    <3>4. \A p \in VersionsFor(f) : Closes(p, events)' = {} /\ ~Found(p)' /\ ~UnderWay(p)'
      BY <1>4, <3>3, PairSame
    <3>5. ASSUME NEW p \in VersionsFor(f)
          PROVE  OneWay(p)'
      <4>1. InKnown(p[1])' <=> InKnown(p[1])
        BY <1>3, VersionFor
      <4>. QED
        BY <1>4, <2>1, <4>1, OneWaySame DEF Followed
    <3>6. KnownAlone(f)'
      BY <3>4 DEF KnownAlone, Found
    <3>. QED
      BY <1>2, <1>3, <2>1, <2>3, <3>4, <3>5, <3>6 DEF Followed
  <2>. QED
    BY <2>2, <2>3
<1>. QED
  BY <1>5, FollowedNext

LEMMA FollowedByListDirectory ==
  ASSUME ProviderTypes, Calls, Calls', Grows, FollowedAll, ListDirectory
  PROVE  FilesFollowed'
<1>. DEFINE t == Top.dir
<1>1. /\ OnlyTop({"phase", "known", "batch", "subdirs"}) /\ Top.phase = "list" /\ t \in exists
      /\ stack'[Len(stack)].phase = "reconcile"
      /\ stack'[Len(stack)].known = FilesIn(t)
  BY ListDirectoryDoes
<1>2. PICK full \in SUBSET FilesIn(t) :
        /\ stack'[Len(stack)].batch = Versions(FilesIn(t) \ full)
        /\ Report(Versions(full))
  BY ListDirectoryDoes
<1>3. UNCHANGED <<exists, content, version, kernel, events, unhandled, batch, lost>>
  BY DEF ListDirectory, tree, inotify, ghosts
<1>4. /\ Top = stack[Len(stack)] /\ Len(stack) \in DOMAIN stack /\ DOMAIN stack' = DOMAIN stack
      /\ stack # <<>> /\ \A i \in DOMAIN stack : i # Len(stack) => stack'[i] = stack[i]
      /\ stack'[Len(stack)].fresh = Top.fresh /\ stack'[Len(stack)].dir = t
  BY <1>1 DEF OnlyTop
<1>5. /\ \A p : InFresh(p)' <=> InFresh(p)
      /\ \A d : ~BeingListed(d)' /\ (BeingListed(d) => d = t) /\ BeingListed(t)
  <2>1. \A p : InFresh(p)' <=> InFresh(p)
    BY <1>4 DEF InFresh
  <2>2. \A i \in DOMAIN stack : i # Len(stack) => stack[i].phase = "subdirs"
    BY DEF Calls
  <2>. QED
    BY <1>1, <1>4, <2>1, <2>2 DEF BeingListed
<1>6. \A p : Closes(p, events)' = Closes(p, events) /\ Closes(p, unhandled)' = Closes(p, unhandled)
  BY <1>3 DEF Closes, Of
<1>7. /\ FilesIn(t) \subseteq DirFiles /\ \A f \in FilesIn(t) : DirectoryOf[f] = t
      /\ \A f \in DirFiles : DirectoryOf[f] = t /\ content[f] = "closed" => f \in FilesIn(t)
  BY DEF FilesIn
<1>8. /\ \A p \in Versions(full) : p[1] \in full /\ p = Current(p[1])
      /\ \A p \in Versions(FilesIn(t) \ full) : p[1] \in FilesIn(t) \ full /\ p = Current(p[1])
      /\ \A f \in full : Current(f) \in Versions(full)
      /\ \A f \in FilesIn(t) \ full : Current(f) \in Versions(FilesIn(t) \ full)
  <2>1. full \in SUBSET DirFiles /\ FilesIn(t) \ full \in SUBSET DirFiles
    BY <1>7
  <2>. QED
    BY <2>1, VersionsOf DEF Current
<1>9. /\ \A p : p \in reported' <=> p \in reported \/ p \in Versions(full)
      /\ \A p : p \in again' => p \in again \/ (p \in reported /\ p \in Versions(full))
  BY <1>2 DEF Report
<1>10. ASSUME NEW f \in DirFiles, NEW d \in AllDirectories, Reachable(f)', d = DirectoryOf[f]
       PROVE  Followed(f, d)'
  <2>1. Followed(f, d) /\ Scanned(d)
    BY <1>10 DEF FollowedAll
  <2>2. CASE d # t
    <3>1. /\ ~InKnown(f) /\ ~InKnown(f)' /\ (Kept(f)' <=> Kept(f))
          /\ \A p \in VersionsFor(f) : InBatch(p)' <=> InBatch(p)
      BY <1>1, <1>10, <2>2, ElsewhereSame
    <3>2. \A p \in VersionsFor(f) : p \notin Versions(full)
      BY <1>7, <1>8, <1>10, <2>2, VersionFor
    <3>3. \A p \in VersionsFor(f) : SamePair(p)
      BY <1>3, <1>5, <1>6, <1>9, <3>1, <3>2, AlikeSame DEF SamePair
    <3>4. SameFor(f, d)
      BY <1>3, <1>5, <2>2, <3>1, <3>3 DEF SameFor
    <3>. QED
      BY <2>1, <3>4, FollowedSame
  <2>3. CASE d = t
    <3>1. \A p \in VersionsFor(f) : ~Found(p) /\ p[1] = f /\ OneWay(p)
      BY <1>5, <2>1, <2>3, VersionFor DEF Followed
    <3>2. \A i \in DOMAIN stack : i # Len(stack) => f \notin Names(stack[i].batch)
      BY <1>4, <1>10, <2>1, <2>3, OnlyInTop
    <3>3. /\ InKnown(f)' <=> f \in FilesIn(t)
          /\ \A p \in VersionsFor(f) : InBatch(p)' <=> p \in Versions(FilesIn(t) \ full)
          /\ Kept(f)' => f \in FilesIn(t) \ full
      <4>1. \A i \in DOMAIN stack : i # Len(stack) => stack[i].known = {}
        BY DEF Calls
      <4>2. InKnown(f)' <=> f \in FilesIn(t)
        BY <1>1, <1>4, <4>1 DEF InKnown
      <4>3. \A p \in VersionsFor(f) : \A i \in DOMAIN stack : p \in stack[i].batch => i = Len(stack)
        BY <1>4, <1>10, <2>1, <2>3, OnlyInTop
      <4>4. \A p \in VersionsFor(f) : InBatch(p)' <=> p \in Versions(FilesIn(t) \ full)
        BY <1>2, <1>4, <4>3 DEF InBatch
      <4>5. \A g \in Names(Versions(FilesIn(t) \ full)) : g \in FilesIn(t) \ full
        BY <1>8 DEF Names
      <4>6. Kept(f)' => f \in FilesIn(t) \ full
        BY <1>2, <1>4, <3>2, <4>5 DEF Kept, Names
      <4>. QED
        BY <4>2, <4>4, <4>6
    <3>4. ASSUME NEW p \in VersionsFor(f)
          PROVE  /\ Closes(p, unhandled)' = {} /\ p \notin batch' /\ ~InFresh(p)' /\ p \notin again'
                 /\ p \in reported' <=> p \in Versions(full)
                 /\ Found(p)' => p = Current(f) /\ f \in FilesIn(t)
                 /\ OneWay(p)'
      <4>1. ~Found(p) /\ OneWay(p) /\ p[1] = f
        BY <3>1
      <4>2. /\ Closes(p, unhandled)' = {} /\ p \notin batch' /\ ~InFresh(p)'
            /\ p \in reported' <=> p \in Versions(full)
            /\ p \notin again'
        BY <1>3, <1>5, <1>6, <1>9, <4>1 DEF Found, OneWay
      <4>3. Found(p)' => p = Current(f) /\ f \in FilesIn(t)
        BY <1>8, <3>3, <4>1, <4>2 DEF Found
      <4>4. ~(p \in Versions(full) /\ p \in Versions(FilesIn(t) \ full))
        BY <1>8
      <4>5. InKnown(p[1])' <=> InKnown(f)'
        BY <4>1
      <4>6. \A i, j \in Closes(p, events)' : i = j
        BY <1>6, <4>1 DEF OneWay
      <4>. QED
        BY <3>3, <4>2, <4>3, <4>4, <4>5, <4>6 DEF OneWay
    <3>5. KnownAlone(f)'
      <4>1. ASSUME NEW p \in VersionsFor(f), p \in reported'
            PROVE  ~Kept(f)'
        BY <1>8, <3>1, <3>3, <3>4, <4>1
      <4>. QED
        BY <3>4, <4>1 DEF KnownAlone
    <3>6. kernel[d] # 0
      BY <1>1, <1>4, <2>1, <2>3 DEF Scanned
    <3>7. PICK x : x = Current(f)
      OBVIOUS
    <3>8. x \in VersionsFor(f)
      BY <3>7, CurrentOf
    <3>9. content[f] = "closed" => UnderWay(x)'
      <4>1. content[f] = "closed" => x \in Versions(full) \/ x \in Versions(FilesIn(t) \ full)
        BY <1>7, <1>8, <1>10, <2>3, <3>7
      <4>2. content[f] = "closed" => x \in reported' \/ InBatch(x)'
        BY <1>9, <3>3, <3>8, <4>1
      <4>. QED
        BY <4>2 DEF UnderWay, Found
    <3>10. \A p \in VersionsFor(f) : UnderWay(p)' => UnderWay(p) \/ (p = Current(f) /\ kernel[d] # 0)
      BY <1>6, <3>4, <3>6 DEF UnderWay
    <3>11. \A p \in VersionsFor(f) : OneWay(p)'
      BY <3>4
    <3>. QED
      BY <1>3, <1>5, <2>1, <3>5, <3>7, <3>9, <3>10, <3>11, FollowedStill
  <2>. QED
    BY <2>2, <2>3
<1>. QED
  BY <1>10, FollowedNext
(* What the events told of is found, or lost, or is kept for its directory. *)
LEMMA FollowedByReconcile ==
  ASSUME ProviderTypes, Calls, Grows, FollowedAll, Reconcile
  PROVE  FilesFollowed'
<1>1. /\ OnlyTop({"fresh"}) /\ Top.phase = "reconcile"
      /\ stack'[Len(stack)].fresh = Top.fresh \cup New(Closed)
      /\ lost' = lost \cup {p \in Closed : p[1] \in Top.known \ Names(Top.batch)}
  BY ReconcileDoes
<1>2. UNCHANGED <<exists, content, version, kernel, unhandled, batch, reported, again>> /\ events' = <<>>
  BY DEF Reconcile, tree, put
<1>3. /\ Top = stack[Len(stack)] /\ Len(stack) \in DOMAIN stack /\ DOMAIN stack' = DOMAIN stack
      /\ stack # <<>> /\ Len(stack') = Len(stack)
      /\ \A i \in DOMAIN stack :
           /\ stack'[i].known = stack[i].known /\ stack'[i].batch = stack[i].batch
           /\ stack'[i].phase = stack[i].phase /\ stack'[i].dir = stack[i].dir
           /\ i # Len(stack) => stack'[i].fresh = stack[i].fresh
  BY <1>1 DEF OnlyTop
<1>4. /\ \A f : (InKnown(f)' <=> InKnown(f)) /\ (Kept(f)' <=> Kept(f))
      /\ \A p : InBatch(p)' <=> InBatch(p)
      /\ \A d : ~BeingListed(d) /\ ~BeingListed(d)'
  <2>1. \A d : ~BeingListed(d)
    BY <1>1, <1>3, TopKnown
  <2>2. \A d : ~BeingListed(d)'
    BY <1>3, <2>1 DEF BeingListed
  <2>3. /\ \A f : (InKnown(f)' <=> InKnown(f)) /\ (Kept(f)' <=> Kept(f))
        /\ \A p : InBatch(p)' <=> InBatch(p)
    BY <1>3 DEF InKnown, Kept, Names, InBatch
  <2>. QED
    BY <2>1, <2>2, <2>3
<1>5. \A p : Closes(p, events)' = {} /\ Closes(p, unhandled)' = Closes(p, unhandled)
  BY <1>2 DEF Closes, Of
<1>6. \A f : (InKnown(f) <=> f \in Top.known) /\ (f \in Names(Top.batch) => Kept(f))
  BY <1>3, TopKnown DEF Kept
<1>7. \A p : p \in Closed <=> Closes(p, events) # {}
  BY ClosingPairs DEF Closed
<1>8. \A p : InFresh(p)' <=> InFresh(p) \/ (Closes(p, events) # {} /\ ~InKnown(p[1]))
  <2>1. \A p : p \in New(Closed) <=> Closes(p, events) # {} /\ ~InKnown(p[1])
    BY <1>6, <1>7 DEF New
  <2>. QED
    BY <1>1, <1>3, <2>1 DEF InFresh
<1>9. ASSUME NEW f \in DirFiles, NEW d \in AllDirectories, Reachable(f)', d = DirectoryOf[f]
      PROVE  Followed(f, d)'
  <2>1. Followed(f, d)
    BY <1>9 DEF FollowedAll
  <2>2. ASSUME NEW p \in VersionsFor(f)
        PROVE  /\ OneWay(p)' /\ (UnderWay(p)' => UnderWay(p))
               /\ InKnown(f) => (InFresh(p)' <=> InFresh(p))
               /\ UnderWay(p) => UnderWay(p)' \/ p \in lost' \/ (InKnown(f) /\ Kept(f))
    <3>1. OneWay(p) /\ p[1] = f
      BY <2>1, <2>2, VersionFor DEF Followed
    <3>2. Found(p)' <=> Found(p) \/ (Closes(p, events) # {} /\ ~InKnown(f))
      BY <1>2, <1>4, <1>5, <1>8, <3>1 DEF Found
    <3>3. InKnown(f) => (InFresh(p)' <=> InFresh(p))
      BY <1>8, <3>1
    <3>4. Closes(p, events) # {} /\ ~InKnown(f) => ~Found(p)
      BY <3>1 DEF OneWay
    <3>5. OneWay(p)'
      BY <1>2, <1>4, <1>5, <1>8, <3>1, <3>4 DEF OneWay, Found
    <3>6. Closes(p, events) # {} /\ InKnown(f) /\ ~Kept(f) => p \in lost'
      BY <1>1, <1>6, <1>7, <3>1
    <3>. QED
      BY <1>5, <3>2, <3>3, <3>5, <3>6 DEF UnderWay
  <2>3. KnownAlone(f)'
    BY <1>2, <1>4, <1>5, <2>1, <2>2 DEF KnownAlone, Followed
  <2>4. PICK x : x = Current(f)
    OBVIOUS
  <2>5. x \in VersionsFor(f)
    BY <2>4, CurrentOf
  <2>6. lost \subseteq lost'
    BY <1>1
  <2>7. content[f] = "closed" /\ kernel[d] # 0 =>
          UnderWay(x)' \/ x \in lost' \/ (InKnown(f)' /\ Kept(f)')
    <3>1. content[f] = "closed" /\ kernel[d] # 0 =>
            UnderWay(x) \/ x \in lost \/ (InKnown(f) /\ Kept(f))
      BY <1>4, <2>1, <2>4 DEF Followed
    <3>. QED
      BY <1>4, <2>2, <2>5, <2>6, <3>1
  <2>. QED
    BY <1>2, <1>4, <2>1, <2>2, <2>3, <2>4, <2>7, FollowedStill
<1>. QED
  BY <1>9, FollowedNext

LEMMA FollowedByReconciled ==
  ASSUME ProviderTypes, Calls, Calls', Grows, FollowedAll, Reconciled
  PROVE  FilesFollowed'
<1>. DEFINE t == Top.dir
<1>1. /\ OnlyTop({"phase", "known", "batch", "fresh"}) /\ Top.phase = "reconcile"
      /\ stack'[Len(stack)].phase = "subdirs"
      /\ stack'[Len(stack)].known = {} /\ stack'[Len(stack)].fresh = {}
      /\ stack'[Len(stack)].batch = Versions(Names(Top.batch))
      /\ Names(Top.batch) \in SUBSET DirFiles
  BY ReconciledDoes
<1>2. /\ UNCHANGED <<exists, content, version, kernel, events, unhandled, batch, lost>>
      /\ events = <<>> /\ Report(Top.fresh)
  BY DEF Reconciled, tree, inotify, ghosts
<1>3. /\ Top = stack[Len(stack)] /\ Len(stack) \in DOMAIN stack /\ DOMAIN stack' = DOMAIN stack
      /\ stack # <<>> /\ \A i \in DOMAIN stack : i # Len(stack) => stack'[i] = stack[i]
  BY <1>1 DEF OnlyTop
<1>4. /\ \A f : InKnown(f) <=> f \in Top.known
      /\ \A p : InFresh(p) <=> p \in Top.fresh
      /\ Names(Top.batch) \subseteq Top.known
  BY <1>1, <1>3, TopKnown
<1>5. /\ \A i \in DOMAIN stack : i # Len(stack) =>
           stack[i].phase = "subdirs" /\ stack[i].known = {} /\ stack[i].fresh = {}
      /\ \A f : ~InKnown(f)'
      /\ \A p : ~InFresh(p)'
      /\ \A d : ~BeingListed(d)'
  <2>1. \A i \in DOMAIN stack : i # Len(stack) =>
          stack[i].phase = "subdirs" /\ stack[i].known = {} /\ stack[i].fresh = {}
    BY DEF Calls
  <2>. QED
    BY <1>1, <1>3, <2>1 DEF InKnown, InFresh, BeingListed
<1>6. \A p : /\ Closes(p, events)' = {} /\ Closes(p, events) = {}
             /\ Closes(p, unhandled)' = Closes(p, unhandled)
  BY <1>2 DEF Closes, Of
<1>7. /\ \A p : p \in reported' <=> p \in reported \/ InFresh(p)
      /\ \A p : p \in again' => p \in again \/ (p \in reported /\ InFresh(p))
  BY <1>2, <1>4 DEF Report
<1>8. /\ \A p \in Versions(Names(Top.batch)) : p[1] \in Names(Top.batch) /\ p = Current(p[1])
      /\ \A f \in Names(Top.batch) : Current(f) \in Versions(Names(Top.batch))
      /\ Names(Versions(Names(Top.batch))) = Names(Top.batch)
  <2>1. PICK names \in SUBSET DirFiles : names = Names(Top.batch)
    BY <1>1
  <2>2. /\ \A p \in Versions(names) : p[1] \in names /\ p = Current(p[1])
        /\ \A f \in names : Current(f) \in Versions(names)
        /\ Names(Versions(names)) = names
    BY VersionsOf DEF Current
  <2>. QED
    BY <2>1, <2>2
<1>9. ASSUME NEW f \in DirFiles, NEW d \in AllDirectories, Reachable(f)', d = DirectoryOf[f]
      PROVE  Followed(f, d)'
  <2>1. Followed(f, d) /\ Scanned(d)
    BY <1>9 DEF FollowedAll
  <2>2. KnownAlone(f)'
    BY <1>5 DEF KnownAlone
  <2>3. PICK x : x = Current(f)
    OBVIOUS
  <2>4. x \in VersionsFor(f)
    BY <2>3, CurrentOf
  <2>5. \A p \in VersionsFor(f) : OneWay(p) /\ p[1] = f
    BY <2>1, VersionFor DEF Followed
  <2>6. CASE ~Kept(f)
    <3>1. \A p \in VersionsFor(f) : ~InBatch(p)
      BY <2>6, KeptIs
    <3>2. \A p \in VersionsFor(f) : InBatch(p)' <=> InBatch(p)
      <4>1. CASE d # t
        BY <1>1, <1>9, <4>1, ElsewhereSame
      <4>2. CASE d = t
        <5>1. f \notin Names(Top.batch)
          BY <1>3, <2>6 DEF Kept
        <5>2. \A p \in VersionsFor(f) : p \notin Versions(Names(Top.batch))
          BY <1>8, <2>5, <5>1
        <5>3. \A p \in VersionsFor(f) : \A i \in DOMAIN stack : p \in stack[i].batch => i = Len(stack)
          BY <1>3, <1>9, <2>1, <4>2, OnlyInTop
        <5>. QED
          BY <1>1, <1>3, <3>1, <5>2, <5>3 DEF InBatch
      <4>. QED
        BY <4>1, <4>2
    <3>3. ASSUME NEW p \in VersionsFor(f)
          PROVE  OneWay(p)' /\ (UnderWay(p)' <=> UnderWay(p))
      <4>1. OneWay(p) /\ ~InBatch(p) /\ ~InBatch(p)'
        BY <2>5, <3>1, <3>2
      <4>2. Found(p)' <=> Found(p)
        BY <1>2, <1>5, <1>6, <1>7, <4>1 DEF Found
      <4>3. OneWay(p)'
        BY <1>2, <1>5, <1>6, <1>7, <4>1 DEF OneWay
      <4>. QED
        BY <1>6, <4>2, <4>3 DEF UnderWay
    <3>4. content[f] = "closed" /\ kernel[d] # 0 => UnderWay(x)' \/ x \in lost'
      <4>1. \A e : ~BeingListed(e)
        BY <1>1, <1>3, TopKnown
      <4>2. content[f] = "closed" /\ kernel[d] # 0 => UnderWay(x) \/ x \in lost
        BY <2>1, <2>3, <2>6, <4>1 DEF Followed
      <4>. QED
        BY <1>2, <2>4, <3>3, <4>2
    <3>. QED
      BY <1>2, <1>5, <2>1, <2>2, <2>3, <3>3, <3>4, FollowedStill
  <2>7. CASE Kept(f) /\ d # t
    <3>1. /\ ~InKnown(f) /\ \A p \in VersionsFor(f) : InBatch(p)' <=> InBatch(p)
      BY <1>1, <1>9, <2>7, ElsewhereSame
    <3>2. ASSUME NEW p \in VersionsFor(f)
          PROVE  OneWay(p)' /\ (UnderWay(p)' <=> UnderWay(p))
      <4>1. OneWay(p) /\ (InBatch(p)' <=> InBatch(p))
        BY <2>5, <3>1
      <4>2. Found(p)' <=> Found(p)
        BY <1>2, <1>5, <1>6, <1>7, <4>1 DEF Found
      <4>3. OneWay(p)'
        BY <1>2, <1>5, <1>6, <1>7, <4>1 DEF OneWay
      <4>. QED
        BY <1>6, <4>2, <4>3 DEF UnderWay
    <3>3. content[f] = "closed" /\ kernel[d] # 0 => UnderWay(x)' \/ x \in lost'
      <4>1. \A e : ~BeingListed(e)
        BY <1>1, <1>3, TopKnown
      <4>2. content[f] = "closed" /\ kernel[d] # 0 => UnderWay(x) \/ x \in lost
        BY <2>1, <2>3, <3>1, <4>1 DEF Followed
      <4>. QED
        BY <1>2, <2>4, <3>2, <4>2
    <3>. QED
      BY <1>2, <1>5, <2>1, <2>2, <2>3, <3>2, <3>3, FollowedStill
  <2>8. CASE Kept(f) /\ d = t
    <3>1. f \in Names(Top.batch)
      BY <1>3, <1>9, <2>1, <2>8, OnlyInTop
    <3>2. InKnown(f)
      BY <1>4, <3>1
    <3>3. \A p \in VersionsFor(f) :
            Closes(p, unhandled) = {} /\ p \notin batch /\ ~InFresh(p) /\ p \notin reported
      BY <2>1, <2>8, <3>2 DEF Followed, KnownAlone
    <3>4. kernel[d] # 0
      <4>1. \E p \in VersionsFor(f) : Found(p)
        BY <2>8, KeptIs DEF Found
      <4>. QED
        BY <2>1, <4>1 DEF Followed
    <3>5. \A p \in VersionsFor(f) : InBatch(p)' <=> p \in Versions(Names(Top.batch))
      <4>1. \A p \in VersionsFor(f) : \A i \in DOMAIN stack : p \in stack[i].batch => i = Len(stack)
        BY <1>3, <1>9, <2>1, <2>8, OnlyInTop
      <4>. QED
        BY <1>1, <1>3, <4>1 DEF InBatch
    <3>6. ASSUME NEW p \in VersionsFor(f)
          PROVE  OneWay(p)' /\ (UnderWay(p)' => p = Current(f))
      <4>1. /\ Closes(p, unhandled)' = {} /\ p \notin batch' /\ ~InFresh(p)' /\ p \notin reported'
            /\ p \notin again'
        <5>1. p \notin again
          BY <2>5 DEF OneWay
        <5>. QED
          BY <1>2, <1>5, <1>6, <1>7, <3>3, <5>1
      <4>2. InBatch(p)' => p = Current(f)
        BY <1>8, <2>5, <3>5
      <4>. QED
        BY <1>6, <4>1, <4>2 DEF OneWay, UnderWay, Found
    <3>7. InBatch(x)'
      BY <1>8, <2>3, <2>4, <3>1, <3>5
    <3>8. UnderWay(x)'
      BY <3>7 DEF UnderWay, Found
    <3>. QED
      BY <1>2, <1>5, <2>1, <2>2, <2>3, <3>4, <3>6, <3>8, FollowedStill
  <2>. QED
    BY <2>6, <2>7, <2>8
<1>. QED
  BY <1>9, FollowedNext
LEMMA FollowedByEnterSubdirectory ==
  ASSUME ProviderTypes, FollowedAll, EnterSubdirectory
  PROVE  FilesFollowed'
<1>1. PICK x \in Top.subdirs : x \in Directories /\ Entered(x)
  BY EnterSubdirectoryDoes
<1>2. UNCHANGED <<exists, content, version, kernel, events, unhandled, batch, reported, again, lost>>
  BY DEF EnterSubdirectory, tree, inotify, put, ghosts
<1>3. /\ DOMAIN stack' = DOMAIN stack \cup {Len(stack) + 1}
      /\ \A i \in DOMAIN stack :
           /\ stack'[i].known = stack[i].known /\ stack'[i].batch = stack[i].batch
           /\ stack'[i].fresh = stack[i].fresh /\ stack'[i].phase = stack[i].phase
           /\ stack'[i].dir = stack[i].dir
      /\ stack'[Len(stack) + 1].phase = "watch" /\ stack'[Len(stack) + 1].known = {}
      /\ stack'[Len(stack) + 1].batch = {} /\ stack'[Len(stack) + 1].fresh = {}
  BY <1>1 DEF Entered
<1>4. /\ \A f : (InKnown(f)' <=> InKnown(f)) /\ (Kept(f)' <=> Kept(f))
      /\ \A p : (InBatch(p)' <=> InBatch(p)) /\ (InFresh(p)' <=> InFresh(p))
      /\ \A d : BeingListed(d)' <=> BeingListed(d)
  <2>1. \A f : (InKnown(f)' <=> InKnown(f)) /\ (Kept(f)' <=> Kept(f))
    BY <1>3 DEF InKnown, Kept, Names
  <2>2. \A p : (InBatch(p)' <=> InBatch(p)) /\ (InFresh(p)' <=> InFresh(p))
    BY <1>3 DEF InBatch, InFresh
  <2>3. \A d : BeingListed(d)' <=> BeingListed(d)
    BY <1>3 DEF BeingListed
  <2>. QED
    BY <2>1, <2>2, <2>3
<1>5. \A p : SamePair(p)
  BY <1>2, <1>4, AlikeSame DEF SamePair, Closes, Of
<1>6. \A f, d : SameFor(f, d)
  BY <1>2, <1>4, <1>5 DEF SameFor
<1>. QED
  BY <1>6, SameFollowed

(* The batch of a call is put.                                             *)
LEMMA FollowedByLeaveDirectory ==
  ASSUME ProviderTypes, Calls, Grows, FollowedAll, LeaveDirectory
  PROVE  FilesFollowed'
<1>. DEFINE t == Top.dir
<1>1. /\ stack # <<>> /\ Top = stack[Len(stack)] /\ Len(stack) \in DOMAIN stack
      /\ Top.phase = "subdirs"
      /\ DOMAIN stack' = DOMAIN stack \ {Len(stack)}
      /\ \A i \in DOMAIN stack' : stack'[i] = stack[i]
  BY LeaveDirectoryDoes
<1>2. /\ UNCHANGED <<exists, content, version, kernel, events, unhandled, batch, lost>>
      /\ Report(Top.batch)
  BY DEF LeaveDirectory, tree, inotify, ghosts
<1>3. /\ \A f : ~InKnown(f) /\ ~InKnown(f)'
      /\ \A p : ~InFresh(p) /\ ~InFresh(p)'
      /\ \A d : ~BeingListed(d) /\ ~BeingListed(d)'
  <2>1. /\ \A f : ~InKnown(f)
        /\ \A p : ~InFresh(p)
        /\ \A d : ~BeingListed(d)
    BY <1>1, TopKnown
  <2>. QED
    BY <1>1, <2>1 DEF InKnown, InFresh, BeingListed
<1>4. \A p : InBatch(p) <=> InBatch(p)' \/ p \in Top.batch
  BY <1>1 DEF InBatch
<1>5. \A p : Closes(p, events)' = Closes(p, events) /\ Closes(p, unhandled)' = Closes(p, unhandled)
  BY <1>2 DEF Closes, Of
<1>6. /\ \A p : p \in reported' <=> p \in reported \/ p \in Top.batch
      /\ \A p : p \in again' => p \in again \/ (p \in reported /\ p \in Top.batch)
  BY <1>2 DEF Report
<1>7. ASSUME NEW f \in DirFiles, NEW d \in AllDirectories, Reachable(f)', d = DirectoryOf[f]
      PROVE  Followed(f, d)'
  <2>1. Followed(f, d) /\ Scanned(d)
    BY <1>7 DEF FollowedAll
  <2>2. KnownAlone(f)'
    BY <1>3 DEF KnownAlone
  <2>3. PICK x : x = Current(f)
    OBVIOUS
  <2>4. x \in VersionsFor(f)
    BY <2>3, CurrentOf
  <2>5. ASSUME NEW p \in VersionsFor(f), p \in Top.batch
        PROVE  ~InBatch(p)'
    <3>1. d = t
      BY <1>1, <1>7, <2>5, VersionFor, TopKnown
    <3>2. \A i \in DOMAIN stack : p \in stack[i].batch => i = Len(stack)
      BY <1>1, <1>7, <2>1, <3>1, OnlyInTop
    <3>. QED
      BY <1>1, <3>2 DEF InBatch
  <2>6. ASSUME NEW p \in VersionsFor(f)
        PROVE  OneWay(p)' /\ (UnderWay(p)' <=> UnderWay(p))
    <3>1. OneWay(p)
      BY <2>1 DEF Followed
    <3>2. Found(p)' <=> Found(p)
      BY <1>2, <1>3, <1>4, <1>5, <1>6 DEF Found
    <3>3. Closes(p, events)' # {} /\ Found(p)' => InKnown(p[1])'
      BY <1>3, <1>5, <3>1, <3>2 DEF OneWay
    <3>4. /\ \A i, j \in Closes(p, events)' : i = j
          /\ \A i, j \in Closes(p, unhandled)' : i = j
          /\ p \notin again'
      BY <1>4, <1>5, <1>6, <3>1 DEF OneWay
    <3>5. /\ Closes(p, unhandled)' # {} => p \notin batch' /\ ~InBatch(p)' /\ p \notin reported'
          /\ p \in batch' => ~InBatch(p)' /\ p \notin reported'
          /\ InBatch(p)' => p \notin reported'
      BY <1>2, <1>4, <1>5, <1>6, <2>5, <3>1 DEF OneWay
    <3>6. OneWay(p)'
      BY <1>3, <3>3, <3>4, <3>5 DEF OneWay
    <3>. QED
      BY <1>5, <3>2, <3>6 DEF UnderWay
  <2>7. content[f] = "closed" /\ kernel[d] # 0 => UnderWay(x)' \/ x \in lost'
    <3>1. content[f] = "closed" /\ kernel[d] # 0 => UnderWay(x) \/ x \in lost
      BY <1>3, <2>1, <2>3 DEF Followed
    <3>. QED
      BY <1>2, <2>4, <2>6, <3>1
  <2>. QED
    BY <1>2, <1>3, <2>1, <2>2, <2>3, <2>6, <2>7, FollowedStill
<1>. QED
  BY <1>7, FollowedNext

(* Between scans: what is read, and handled, and put.                      *)
LEMMA FollowedByEvents ==
  ASSUME FollowedAll, ProviderTypes, stack = <<>>, stack' = <<>>,
         UNCHANGED <<exists, content, version, kernel, lost>>,
         \A p : OneWay(p) => OneWay(p)' /\ (UnderWay(p)' <=> UnderWay(p))
  PROVE  FilesFollowed'
<1>1. /\ \A d : ~BeingListed(d) /\ ~BeingListed(d)'
      /\ \A f : ~InKnown(f) /\ ~InKnown(f)'
  BY NoCalls DEF BeingListed, InKnown
<1>2. ASSUME NEW f \in DirFiles, NEW d \in AllDirectories, Reachable(f)', d = DirectoryOf[f]
      PROVE  Followed(f, d)'
  <2>1. Followed(f, d)
    BY <1>2 DEF FollowedAll
  <2>2. KnownAlone(f)'
    BY <1>1 DEF KnownAlone
  <2>3. PICK x : x = Current(f)
    OBVIOUS
  <2>4. x \in VersionsFor(f)
    BY <2>3, CurrentOf
  <2>5. \A p \in VersionsFor(f) : OneWay(p)' /\ (UnderWay(p)' <=> UnderWay(p))
    BY <2>1 DEF Followed
  <2>6. content[f] = "closed" /\ kernel[d] # 0 => UnderWay(x) \/ x \in lost
    BY <1>1, <2>1, <2>3 DEF Followed
  <2>. QED
    BY <1>1, <2>1, <2>2, <2>3, <2>4, <2>5, <2>6, FollowedStill
<1>. QED
  BY <1>2, FollowedNext

LEMMA FollowedByReadEvents ==
  ASSUME ProviderTypes, FollowedAll, ReadEvents
  PROVE  FilesFollowed'
<1>1. /\ UNCHANGED <<exists, content, version, kernel, batch, reported, again, lost>>
      /\ stack = <<>> /\ stack' = <<>> /\ unhandled = <<>> /\ unhandled' = events /\ events' = <<>>
  BY DEF ReadEvents, tree, put, ghosts
<1>2. /\ \A f : ~InKnown(f) /\ ~InKnown(f)'
      /\ \A p : ~InBatch(p) /\ ~InBatch(p)' /\ ~InFresh(p) /\ ~InFresh(p)'
  BY <1>1, NoCalls DEF InKnown, InBatch, InFresh
<1>3. \A p : /\ Closes(p, events)' = {} /\ Closes(p, unhandled)' = Closes(p, events)
             /\ Closes(p, unhandled) = {}
  BY <1>1 DEF Closes, Of
<1>4. ASSUME NEW p, OneWay(p)
      PROVE  OneWay(p)' /\ (UnderWay(p)' <=> UnderWay(p))
  <2>1. OneWay(p)'
    BY <1>1, <1>2, <1>3, <1>4 DEF OneWay, Found
  <2>2. UnderWay(p)' <=> UnderWay(p)
    BY <1>1, <1>2, <1>3 DEF UnderWay, Found
  <2>. QED
    BY <2>1, <2>2
<1>. QED
  BY <1>1, <1>4, FollowedByEvents

LEMMA FollowedByFlush ==
  ASSUME ProviderTypes, FollowedAll, FlushBatch \/ NoMoreEvents
  PROVE  FilesFollowed'
<1>1. /\ UNCHANGED <<exists, content, version, kernel, events, unhandled, lost>>
      /\ stack = <<>> /\ stack' = <<>> /\ Report(batch) /\ batch' = {}
  BY DEF FlushBatch, NoMoreEvents, tree, inotify, ghosts
<1>2. /\ \A f : ~InKnown(f) /\ ~InKnown(f)'
      /\ \A p : ~InBatch(p) /\ ~InBatch(p)' /\ ~InFresh(p) /\ ~InFresh(p)'
  BY <1>1, NoCalls DEF InKnown, InBatch, InFresh
<1>3. \A p : Closes(p, events)' = Closes(p, events) /\ Closes(p, unhandled)' = Closes(p, unhandled)
  BY <1>1 DEF Closes, Of
<1>4. /\ \A p : p \in reported' <=> p \in reported \/ p \in batch
      /\ \A p : p \in again' => p \in again \/ (p \in reported /\ p \in batch)
      /\ \A p : p \notin batch'
  BY <1>1 DEF Report
<1>5. ASSUME NEW p, OneWay(p)
      PROVE  OneWay(p)' /\ (UnderWay(p)' <=> UnderWay(p))
  <2>1. OneWay(p)'
    BY <1>2, <1>3, <1>4, <1>5 DEF OneWay, Found
  <2>2. UnderWay(p)' <=> UnderWay(p)
    BY <1>2, <1>3, <1>4 DEF UnderWay, Found
  <2>. QED
    BY <2>1, <2>2
<1>. QED
  BY <1>1, <1>5, FollowedByEvents

LEMMA FollowedByFileEvent ==
  ASSUME ProviderTypes, FollowedAll, FileEvent
  PROVE  FilesFollowed'
<1>1. /\ UNCHANGED <<exists, content, version, kernel, events, reported, again, lost>>
      /\ stack = <<>> /\ stack' = <<>> /\ unhandled # <<>> /\ unhandled' = Tail(unhandled)
      /\ Head(unhandled).kind \in {"close", "moved to"}
      /\ batch' = batch \cup {<<Head(unhandled).name, Head(unhandled).version>>}
  BY DEF FileEvent, Handles, tree, put, ghosts
<1>2. /\ \A f : ~InKnown(f) /\ ~InKnown(f)'
      /\ \A p : ~InBatch(p) /\ ~InBatch(p)' /\ ~InFresh(p) /\ ~InFresh(p)'
  BY <1>1, NoCalls DEF InKnown, InBatch, InFresh
<1>3. \A p : Closes(p, events)' = Closes(p, events)
  BY <1>1 DEF Closes, Of
<1>4. PICK h : h = <<Head(unhandled).name, Head(unhandled).version>>
  OBVIOUS
<1>5. ASSUME NEW p, OneWay(p)
      PROVE  OneWay(p)' /\ (UnderWay(p)' <=> UnderWay(p))
  <2>1. CASE p = h
    <3>1. Shrunk({"close", "moved to"}, p) /\ Heads({"close", "moved to"}, p)
      BY <1>1, <1>4, <2>1, EventTaken DEF Heads
    <3>2. Closes(p, unhandled) # {} /\ Closes(p, unhandled)' = {}
      BY <1>5, <3>1 DEF Shrunk, Closes, OneWay
    <3>3. p \in batch'
      BY <1>1, <1>4, <2>1
    <3>4. OneWay(p)'
      BY <1>1, <1>2, <1>3, <1>5, <3>2, <3>3 DEF OneWay, Found
    <3>. QED
      BY <3>2, <3>3, <3>4 DEF UnderWay, Found
  <2>2. CASE p # h
    <3>1. Alike(Closes(p, unhandled), Closes(p, unhandled)')
      BY <1>1, <1>4, <2>2, ClosesTaken DEF Heads
    <3>2. p \in batch' <=> p \in batch
      BY <1>1, <1>4, <2>2
    <3>3. OneWay(p)'
      BY <1>1, <1>2, <1>3, <1>5, <3>1, <3>2 DEF OneWay, Found, Alike
    <3>. QED
      BY <1>1, <1>2, <1>3, <3>1, <3>2, <3>3 DEF UnderWay, Found, Alike
  <2>. QED
    BY <2>1, <2>2
<1>. QED
  BY <1>1, <1>5, FollowedByEvents

LEMMA FilesKept ==
  ASSUME ProviderTypes, Calls, DescriptorsStand, DirectoriesFound, FilesFollowed, ProviderNext
  PROVE  FilesFollowed'
<1>1. Grows /\ FollowedAll /\ Calls'
  BY GrowsAlways, FollowedOfAll, CallsKept
<1>2. CASE Change
  BY <1>1, <1>2, FollowedByOthers
<1>3. CASE ScanFails \/ ReconcileFails \/ EventFails
  <2>1. UNCHANGED <<exists, content, version, kernel, stack, events, unhandled, batch, reported, again,
                    lost>>
    BY <1>3 DEF ScanFails, ReconcileFails, EventFails, Abort, Die, tree, inotify, put, ghosts
  <2>2. \A p : SamePair(p)
    BY <2>1, CallsSame, AlikeSame DEF SamePair, Closes, Of
  <2>3. \A f, d : SameFor(f, d)
    BY <2>1, <2>2, CallsSame DEF SameFor
  <2>. QED
    BY <1>1, <2>3, SameFollowed
<1>4. CASE CreateEvent \/ DeleteEvent
  <2>1. /\ UNCHANGED <<exists, content, version, events, batch, reported, again, lost>>
        /\ stack = <<>> /\ unhandled # <<>> /\ unhandled' = Tail(unhandled)
        /\ Head(unhandled).kind \in {"create dir", "delete dir", "delete self"}
    BY <1>4 DEF CreateEvent, DeleteEvent, Handles, tree, put, ghosts
  <2>2. \A p : Alike(Closes(p, unhandled), Closes(p, unhandled)')
    BY <2>1, ClosesTaken DEF Heads
  <2>3. /\ \A f : ~InKnown(f)' /\ ~Kept(f)'
        /\ \A p : ~InBatch(p)' /\ ~InFresh(p)'
        /\ \A d : ~BeingListed(d)'
    <3>1. CASE CreateEvent
      <4>0. PICK x : x = Head(unhandled).name
        OBVIOUS
      <4>1. DOMAIN stack' = {1} /\ stack'[1] = Frame(x)
        <5>1. stack' = <<Frame(x)>>
          BY <3>1, <4>0 DEF CreateEvent
        <5>. QED
          BY <5>1
      <4>2. /\ stack'[1].phase = "watch" /\ stack'[1].known = {}
            /\ stack'[1].batch = {} /\ stack'[1].fresh = {}
        BY <4>1 DEF Frame
      <4>. QED
        BY <4>1, <4>2 DEF InKnown, Kept, Names, InBatch, InFresh, BeingListed
    <3>2. CASE DeleteEvent
      <4>1. stack' = <<>>
        BY <2>1, <3>2 DEF DeleteEvent
      <4>. QED
        BY <4>1 DEF InKnown, Kept, InBatch, InFresh, BeingListed
    <3>. QED
      BY <1>4, <3>1, <3>2
  <2>4. \A p : SamePair(p)
    BY <2>1, <2>2, <2>3, NoCalls, AlikeSame DEF SamePair, Closes, Of
  <2>5. ASSUME NEW f \in DirFiles, NEW d \in AllDirectories, Reachable(f)', d = DirectoryOf[f]
        PROVE  SameFor(f, d)
    <3>1. Clean(d)
      BY <1>1, <2>5 DEF FollowedAll
    <3>2. kernel'[d] = kernel[d]
      BY <1>4, <3>1, DeleteSpares DEF CreateEvent
    <3>. QED
      BY <2>1, <2>3, <2>4, <3>2, NoCalls DEF SameFor
  <2>. QED
    BY <1>1, <2>5, SameFollowed
<1>. QED
  BY <1>1, <1>2, <1>3, <1>4, FollowedByAddWatch, FollowedByListDirectory, FollowedByReconcile,
     FollowedByReconciled, FollowedByEnterSubdirectory, FollowedByLeaveDirectory,
     FollowedByReadEvents, FollowedByFlush, FollowedByFileEvent
     DEF ProviderNext, QueueOverflows, WriteFile, CloseFile, MoveFileIn, Completed, DeleteFile,
         MakeDirectory, MoveDirectoryIn, RemoveDirectory
-----------------------------------------------------------------------------
(* The files there were at the start.                                      *)

StillThere(d) == d \in exists /\ Creates(d, events) = {} /\ Creates(d, unhandled) = {}
Taken(f) == Kept(f) \/ \E p \in reported : p[1] = f
Watches(d) == kernel[d] # 0 /\ ~BeingListed(d)

LEMMA InitialOf ==
  ASSUME ProviderTypes, InitialFollowed, NEW f \in initial
  PROVE  /\ f \in DirFiles /\ content[f] \in {"open", "closed"}
         /\ \A d \in Path(DirectoryOf[f]) \ removed : StillThere(d)
         /\ \A d : d = DirectoryOf[f] /\ Reachable(f) /\ Watches(d) => Taken(f)
BY DEF ProviderTypes, InitialFollowed, StillThere, Taken, Watches

LEMMA InitialNext ==
  ASSUME ProviderTypes, InitialFollowed, Grows, initial' \subseteq initial,
         \A f \in initial' : content[f] \in {"open", "closed"} => content'[f] \in {"open", "closed"},
         \A d : d \notin removed' /\ StillThere(d) => StillThere(d)',
         \A f \in initial' : \A d \in AllDirectories :
           d = DirectoryOf[f] /\ Reachable(f)' /\ Watches(d)' => Watches(d) \/ Taken(f)',
         \A f \in initial' : Taken(f) => Taken(f)'
  PROVE  InitialFollowed'
<1>1. \A d : Path(d)' = Path(d)
  BY DEF Path, Grows
<1>2. ASSUME NEW f \in initial'
      PROVE  /\ content'[f] \in {"open", "closed"}
             /\ \A d \in Path(DirectoryOf[f])' \ removed' : StillThere(d)'
             /\ Reachable(f)' /\ Watches(DirectoryOf[f])' => Taken(f)'
  <2>1. PICK d \in AllDirectories : d = DirectoryOf[f]
    BY InitialOf, NamesAssumption
  <2>2. /\ f \in initial /\ content[f] \in {"open", "closed"}
        /\ \A e \in Path(d) \ removed : StillThere(e)
        /\ Reachable(f) /\ Watches(d) => Taken(f)
    BY <2>1, InitialOf
  <2>3. content'[f] \in {"open", "closed"}
    BY <2>2
  <2>4. \A e \in Path(d)' \ removed' : StillThere(e)'
    BY <1>1, <2>2 DEF Grows
  <2>5. Reachable(f)' => Reachable(f)
    BY <1>1 DEF Reachable, Grows
  <2>6. Reachable(f)' /\ Watches(d)' => Taken(f)'
    BY <2>1, <2>2, <2>5
  <2>7. Watches(DirectoryOf[f])' <=> Watches(d)'
    BY <2>1 DEF Watches, BeingListed
  <2>. QED
    BY <2>1, <2>3, <2>4, <2>6, <2>7
<1>. QED
  BY <1>2 DEF InitialFollowed, StillThere, Taken, Watches

LEMMA InitialByOthers ==
  ASSUME ProviderTypes, Grows, InitialFollowed, ProviderNext, Change
  PROVE  InitialFollowed'
<1>1. UNCHANGED <<stack, unhandled, reported>> /\ \A d : Creates(d, unhandled)' = Creates(d, unhandled)
  BY DEF Change, put, Creates, Of
<1>2. \A f : Taken(f)' <=> Taken(f)
  BY <1>1, CallsSame DEF Taken
<1>3. ASSUME initial' \subseteq initial,
             \A f \in initial' : content[f] \in {"open", "closed"} => content'[f] \in {"open", "closed"},
             \A d : d \notin removed' /\ StillThere(d) => d \in exists' /\ Creates(d, events)' = {},
             \A d \in AllDirectories : kernel'[d] # 0 => kernel[d] # 0
      PROVE  InitialFollowed'
  <2>1. \A d \in AllDirectories : Watches(d)' => Watches(d)
    BY <1>1, <1>3, CallsSame DEF Watches
  <2>2. \A d : d \notin removed' /\ StillThere(d) => StillThere(d)'
    BY <1>1, <1>3 DEF StillThere
  <2>. QED
    BY <1>2, <1>3, <2>1, <2>2, InitialNext
<1>4. initial \subseteq DirFiles
  BY DEF ProviderTypes
<1>5. ASSUME NEW g \in DirFiles, WriteFile(g) \/ DeleteFile(g)
      PROVE  InitialFollowed'
  <2>1. UNCHANGED <<exists, events, kernel>> /\ initial' \subseteq initial
    BY <1>5 DEF WriteFile, DeleteFile
  <2>2. \A d : Creates(d, events)' = Creates(d, events)
    BY <2>1 DEF Creates, Of
  <2>3. \A f \in initial' : content[f] \in {"open", "closed"} => content'[f] \in {"open", "closed"}
    BY <1>4, <1>5 DEF WriteFile, DeleteFile, ProviderTypes
  <2>. QED
    BY <1>3, <2>1, <2>2, <2>3 DEF StillThere
<1>6. CASE QueueOverflows
  <2>1. \A x : Of({"create dir"}, x, events') = Of({"create dir"}, x, events)
    BY <1>6, OverflowDoes
  <2>2. \A d : Creates(d, events)' = Creates(d, events)
    BY <2>1 DEF Creates, Of
  <2>. QED
    BY <1>3, <1>6, <2>2 DEF QueueOverflows, StillThere
<1>7. ASSUME NEW g \in DirFiles, NEW kind \in {"close", "moved to"}, NEW n \in Nat,
             Completed(g, kind), Sends(kind, DirectoryOf[g], g, n)
      PROVE  InitialFollowed'
  <2>1. UNCHANGED <<exists, initial, kernel>> /\ content' = [content EXCEPT ![g] = "closed"]
    BY <1>7 DEF Completed
  <2>2. \A f \in DirFiles : content[f] \in {"open", "closed"} => content'[f] \in {"open", "closed"}
    BY <2>1 DEF ProviderTypes
  <2>3. PICK dir : OthersAsWere(events, events', kind, dir, g)
    BY <1>7 DEF Sends, GrownBy
  <2>4. \A x : Of({"create dir"}, x, events') = Of({"create dir"}, x, events)
    BY <2>3 DEF OthersAsWere
  <2>5. \A d : Creates(d, events)' = Creates(d, events)
    BY <2>4 DEF Creates, Of
  <2>. QED
    BY <1>3, <1>4, <2>1, <2>2, <2>5 DEF StillThere
<1>8. ASSUME NEW x \in Directories, MakeDirectory(x), Sends("create dir", parent[x], x, 0)
      PROVE  InitialFollowed'
  <2>1. UNCHANGED <<initial, content, kernel>> /\ exists' = exists \cup {x} /\ x \notin exists
    BY <1>8 DEF MakeDirectory
  <2>2. PICK kind, dir : OthersAsWere(events, events', kind, dir, x)
    BY <1>8 DEF Sends, GrownBy
  <2>3. ASSUME NEW d, d # x
        PROVE  Creates(d, events)' = Creates(d, events)
    <3>1. \A m : <<d, 0>> # <<x, m>>
      BY <2>3
    <3>2. Of({"create dir"}, <<d, 0>>, events') = Of({"create dir"}, <<d, 0>>, events)
      BY <2>2, <3>1 DEF OthersAsWere
    <3>. QED
      BY <3>2 DEF Creates, Of
  <2>. QED
    BY <1>3, <2>1, <2>3 DEF StillThere
<1>9. ASSUME NEW x \in Directories, MoveDirectoryIn(x), Sends("moved to", parent[x], x, 0)
      PROVE  InitialFollowed'
  <2>1. UNCHANGED <<initial, kernel>> /\ exists' = exists \cup {x}
    BY <1>9 DEF MoveDirectoryIn
  <2>2. OthersAsWere(events, events', "moved to", parent[x], x)
    BY <1>9 DEF Sends, GrownBy
  <2>3. \A y : Of({"create dir"}, y, events') = Of({"create dir"}, y, events)
    BY <2>2 DEF OthersAsWere
  <2>4. \A d : Creates(d, events)' = Creates(d, events)
    BY <2>3 DEF Creates, Of
  <2>5. \A f \in DirFiles : content[f] \in {"open", "closed"} => content'[f] \in {"open", "closed"}
    BY <1>9 DEF MoveDirectoryIn
  <2>. QED
    BY <1>3, <1>4, <2>1, <2>4, <2>5 DEF StillThere
<1>10. ASSUME NEW x \in Directories, RemoveDirectory(x)
       PROVE  InitialFollowed'
  <2>1. /\ exists' = exists \ {x} /\ removed' = removed \cup {x} /\ UNCHANGED <<content, initial>>
        /\ kernel' = [kernel EXCEPT ![x] = 0]
    BY <1>10 DEF RemoveDirectory
  <2>2. \A y : Of({"create dir"}, y, events') = Of({"create dir"}, y, events)
    BY <1>10, RemovalDoes
  <2>3. \A d : Creates(d, events)' = Creates(d, events)
    BY <2>2 DEF Creates, Of
  <2>4. \A d \in AllDirectories : kernel'[d] # 0 => kernel[d] # 0
    BY <2>1 DEF ProviderTypes
  <2>. QED
    BY <1>3, <2>1, <2>3, <2>4 DEF StillThere
<1>11. ASSUME NEW f \in DirFiles, NEW kind \in {"close", "moved to"}, NEW n \in Nat,
              Completed(f, kind), Sends(kind, DirectoryOf[f], f, n)
       PROVE  InitialFollowed'
  BY <1>7, <1>11
<1>. QED
  BY <1>5, <1>6, <1>8, <1>9, <1>10, <1>11, ChangeDoes

(* A call for another directory does not come between.                     *)
LEMMA InitialKept ==
  ASSUME ProviderTypes, Calls, InitialFollowed, ProviderNext
  PROVE  InitialFollowed'
<1>1. Grows
  BY GrowsAlways
<1>2. CASE Change
  BY <1>1, <1>2, InitialByOthers
<1>3. ASSUME UNCHANGED <<exists, content, initial>>,
             \A d : StillThere(d) => Creates(d, events)' = {} /\ Creates(d, unhandled)' = {},
             \A f \in initial : \A d \in AllDirectories :
               d = DirectoryOf[f] /\ Reachable(f)' /\ Watches(d)' => Watches(d) \/ Taken(f)',
             \A f \in initial : Taken(f) => Taken(f)'
      PROVE  InitialFollowed'
  <2>1. \A d : StillThere(d) => StillThere(d)'
    BY <1>3 DEF StillThere
  <2>. QED
    BY <1>1, <1>3, <2>1, InitialNext
<1>4. ASSUME UNCHANGED <<events, unhandled>>
      PROVE  \A d : StillThere(d) => Creates(d, events)' = {} /\ Creates(d, unhandled)' = {}
  BY <1>4 DEF StillThere, Creates, Of
<1>5. CASE ScanFails \/ ReconcileFails \/ EventFails
  <2>1. UNCHANGED <<exists, content, initial, kernel, stack, events, unhandled, reported>>
    BY <1>5 DEF ScanFails, ReconcileFails, EventFails, Abort, Die, tree, inotify, put
  <2>2. /\ \A d : Watches(d)' <=> Watches(d)
        /\ \A f : Taken(f)' <=> Taken(f)
    BY <2>1, CallsSame DEF Watches, Taken
  <2>. QED
    BY <1>3, <1>4, <2>1, <2>2
<1>6. CASE AddWatch
  <2>1. /\ OnlyTop({"phase"}) /\ stack'[Len(stack)].phase = "list"
    BY <1>6, AddWatchDoes
  <2>2. /\ UNCHANGED <<exists, content, initial, events, unhandled, reported>>
        /\ \A d \in AllDirectories : d # Top.dir => kernel'[d] = kernel[d]
    BY <1>6 DEF AddWatch, tree, put, ProviderTypes
  <2>3. /\ DOMAIN stack' = DOMAIN stack /\ Len(stack) \in DOMAIN stack
        /\ \A i \in DOMAIN stack : stack'[i].batch = stack[i].batch /\ stack'[i].dir = stack[i].dir
        /\ \A i \in DOMAIN stack : i # Len(stack) => stack'[i].phase = stack[i].phase
        /\ stack[Len(stack)].dir = Top.dir
    BY <2>1 DEF OnlyTop
  <2>4. \A f : Taken(f)' <=> Taken(f)
    BY <2>2, <2>3 DEF Taken, Kept, Names
  <2>5. \A d : d = Top.dir => BeingListed(d)'
    BY <2>1, <2>3 DEF BeingListed
  <2>6. \A d : d # Top.dir => (BeingListed(d)' <=> BeingListed(d))
    BY <2>3 DEF BeingListed
  <2>7. \A d \in AllDirectories : Watches(d)' => Watches(d)
    BY <2>2, <2>5, <2>6 DEF Watches
  <2>. QED
    BY <1>3, <1>4, <2>2, <2>4, <2>7
<1>7. CASE ListDirectory
  <2>1. /\ OnlyTop({"phase", "known", "batch", "subdirs"}) /\ Top.phase = "list"
        /\ stack'[Len(stack)].phase = "reconcile"
    BY <1>7, ListDirectoryDoes
  <2>2. PICK full \in SUBSET FilesIn(Top.dir) :
          /\ stack'[Len(stack)].batch = Versions(FilesIn(Top.dir) \ full)
          /\ Report(Versions(full))
    BY <1>7, ListDirectoryDoes
  <2>3. UNCHANGED <<exists, content, initial, kernel, events, unhandled>>
    BY <1>7 DEF ListDirectory, tree, inotify
  <2>4. /\ DOMAIN stack' = DOMAIN stack /\ Len(stack) \in DOMAIN stack /\ stack # <<>>
        /\ \A i \in DOMAIN stack : i # Len(stack) => stack'[i] = stack[i]
        /\ stack[Len(stack)] = Top
    BY <2>1 DEF OnlyTop
  <2>5. Top.batch = {}
    BY <2>1, <2>4, TopKnown
  <2>6. \A f : Taken(f) => Taken(f)'
    BY <2>2, <2>4, <2>5 DEF Taken, Kept, Names, Report
  <2>7. \A d : BeingListed(d) => BeingListed(d)' \/ d = Top.dir
    BY <2>4 DEF BeingListed
  <2>8. ASSUME NEW f \in initial, DirectoryOf[f] = Top.dir
        PROVE  Taken(f)'
    <3>1. f \in FilesIn(Top.dir) /\ FilesIn(Top.dir) \subseteq DirFiles
      BY <2>8, InitialOf DEF FilesIn
    <3>2. CASE f \in full
      <4>1. <<f, version[f]>> \in reported'
        BY <2>2, <3>1, <3>2 DEF Report, Versions
      <4>. QED
        BY <4>1 DEF Taken
    <3>3. CASE f \notin full
      <4>1. f \in Names(stack'[Len(stack)].batch)
        <5>1. FilesIn(Top.dir) \ full \in SUBSET DirFiles
          BY <3>1
        <5>. QED
          BY <2>2, <3>1, <3>3, <5>1, VersionsOf
      <4>. QED
        BY <2>4, <4>1 DEF Taken, Kept, Names
    <3>. QED
      BY <3>2, <3>3
  <2>9. \A f \in initial : \A d \in AllDirectories :
          d = DirectoryOf[f] /\ Reachable(f)' /\ Watches(d)' => Watches(d) \/ Taken(f)'
    BY <2>3, <2>7, <2>8 DEF Watches
  <2>. QED
    BY <1>3, <1>4, <2>3, <2>6, <2>9
<1>8. CASE Reconcile
  <2>1. OnlyTop({"fresh"})
    BY <1>8, ReconcileDoes
  <2>2. UNCHANGED <<exists, content, initial, kernel, unhandled, reported>> /\ events' = <<>>
    BY <1>8 DEF Reconcile, tree, put
  <2>3. /\ DOMAIN stack' = DOMAIN stack
        /\ \A i \in DOMAIN stack : /\ stack'[i].batch = stack[i].batch
                                   /\ stack'[i].dir = stack[i].dir /\ stack'[i].phase = stack[i].phase
    BY <2>1 DEF OnlyTop
  <2>4. /\ \A f : Taken(f)' <=> Taken(f)
        /\ \A d : Watches(d)' <=> Watches(d)
    BY <2>2, <2>3 DEF Taken, Kept, Names, Watches, BeingListed
  <2>5. \A d : StillThere(d) => Creates(d, events)' = {} /\ Creates(d, unhandled)' = {}
    <3>1. \A d : Creates(d, events)' = {} /\ Creates(d, unhandled)' = Creates(d, unhandled)
      BY <2>2 DEF Creates, Of
    <3>. QED
      BY <3>1 DEF StillThere
  <2>. QED
    BY <1>3, <2>2, <2>4, <2>5
<1>9. CASE Reconciled
  <2>1. /\ OnlyTop({"phase", "known", "batch", "fresh"}) /\ Top.phase = "reconcile"
        /\ stack'[Len(stack)].batch = Versions(Names(Top.batch)) /\ Names(Top.batch) \in SUBSET DirFiles
    BY <1>9, ReconciledDoes
  <2>2. /\ UNCHANGED <<exists, content, initial, kernel, events, unhandled>>
        /\ reported \subseteq reported'
    BY <1>9 DEF Reconciled, tree, inotify, Report
  <2>3. /\ DOMAIN stack' = DOMAIN stack /\ Len(stack) \in DOMAIN stack /\ stack # <<>>
        /\ \A i \in DOMAIN stack : i # Len(stack) => stack'[i] = stack[i]
        /\ stack[Len(stack)] = Top
    BY <2>1 DEF OnlyTop
  <2>4. PICK names \in SUBSET DirFiles : names = Names(Top.batch)
    BY <2>1
  <2>5. Names(stack'[Len(stack)].batch) = Names(stack[Len(stack)].batch)
    BY <2>1, <2>3, <2>4, VersionsOf
  <2>6. \A f : Taken(f) => Taken(f)'
    BY <2>2, <2>3, <2>5 DEF Taken, Kept, Names
  <2>7. \A d : ~BeingListed(d)
    BY <2>1, <2>3, TopKnown
  <2>8. \A d : Watches(d)' => Watches(d)
    BY <2>2, <2>7 DEF Watches
  <2>. QED
    BY <1>3, <1>4, <2>2, <2>6, <2>8
<1>10. CASE EnterSubdirectory
  <2>1. PICK x \in Top.subdirs : x \in Directories /\ Entered(x)
    BY <1>10, EnterSubdirectoryDoes
  <2>2. UNCHANGED <<exists, content, initial, kernel, events, unhandled, reported>>
    BY <1>10 DEF EnterSubdirectory, tree, inotify, put
  <2>3. /\ DOMAIN stack' = DOMAIN stack \cup {Len(stack) + 1} /\ Len(stack) \in DOMAIN stack
        /\ stack # <<>> /\ Top.phase = "subdirs"
        /\ \A i \in DOMAIN stack : stack'[i].batch = stack[i].batch
    BY <2>1 DEF Entered
  <2>4. \A f : Taken(f) => Taken(f)'
    BY <2>2, <2>3 DEF Taken, Kept, Names
  <2>5. \A d : ~BeingListed(d)
    BY <2>3, TopKnown
  <2>6. \A d : Watches(d)' => Watches(d)
    BY <2>2, <2>5 DEF Watches
  <2>. QED
    BY <1>3, <1>4, <2>2, <2>4, <2>6
<1>11. CASE LeaveDirectory
  <2>1. /\ stack # <<>> /\ Top = stack[Len(stack)] /\ Top.phase = "subdirs"
        /\ DOMAIN stack' = DOMAIN stack \ {Len(stack)}
        /\ \A i \in DOMAIN stack' : stack'[i] = stack[i]
    BY <1>11, LeaveDirectoryDoes
  <2>2. /\ UNCHANGED <<exists, content, initial, kernel, events, unhandled>>
        /\ reported' = reported \cup Top.batch
    BY <1>11 DEF LeaveDirectory, tree, inotify, Report
  <2>3. \A f : Taken(f) => Taken(f)'
    BY <2>1, <2>2 DEF Taken, Kept, Names
  <2>4. \A d : ~BeingListed(d)
    BY <2>1, TopKnown
  <2>5. \A d : Watches(d)' => Watches(d)
    BY <2>2, <2>4 DEF Watches
  <2>. QED
    BY <1>3, <1>4, <2>2, <2>3, <2>5
<1>12. CASE ReadEvents \/ FlushBatch \/ NoMoreEvents \/ FileEvent \/ CreateEvent \/ DeleteEvent
  <2>1. UNCHANGED <<exists, content, initial>> /\ stack = <<>> /\ reported \subseteq reported'
    BY <1>12 DEF ReadEvents, FlushBatch, NoMoreEvents, FileEvent, CreateEvent, DeleteEvent,
       Handles, tree, put, Report
  <2>2. \A f : ~Kept(f) /\ \A d : ~BeingListed(d)
    BY <2>1, NoCalls
  <2>3. \A f : Taken(f) => Taken(f)'
    BY <2>1, <2>2 DEF Taken
  <2>4. \A d \in AllDirectories : kernel'[d] # 0 => kernel[d] # 0
    BY <1>12 DEF ReadEvents, FlushBatch, NoMoreEvents, FileEvent, CreateEvent, DeleteEvent,
       inotify, ProviderTypes
  <2>5. \A d \in AllDirectories : Watches(d)' => Watches(d)
    BY <2>2, <2>4 DEF Watches
  <2>6. \A d : StillThere(d) => Creates(d, events)' = {} /\ Creates(d, unhandled)' = {}
    <3>1. CASE ReadEvents
      BY <3>1 DEF ReadEvents, StillThere, Creates, Of
    <3>2. CASE FlushBatch \/ NoMoreEvents
      BY <1>4, <3>2 DEF FlushBatch, NoMoreEvents, inotify
    <3>3. CASE FileEvent \/ CreateEvent \/ DeleteEvent
      <4>1. events' = events /\ unhandled # <<>> /\ unhandled' = Tail(unhandled)
        BY <3>3 DEF FileEvent, CreateEvent, DeleteEvent, Handles
      <4>2. \A d : Shrunk({"create dir"}, <<d, 0>>)
        BY <4>1, EventTaken
      <4>. QED
        BY <4>1, <4>2 DEF Shrunk, StillThere, Creates, Of
    <3>. QED
      BY <1>12, <3>1, <3>2, <3>3
  <2>. QED
    BY <1>3, <2>1, <2>3, <2>5, <2>6
<1>. QED
  BY <1>2, <1>5, <1>6, <1>7, <1>8, <1>9, <1>10, <1>11, <1>12
     DEF ProviderNext, QueueOverflows, WriteFile, CloseFile, MoveFileIn, Completed, DeleteFile,
         MakeDirectory, MoveDirectoryIn, RemoveDirectory
(* When all calls but the one that is listed have returned, a directory    *)
(* that is there, and for which no event is under way, is watched.         *)
LEMMA AllWatched ==
  ASSUME ProviderTypes, DirectoriesFound,
         \A i \in DOMAIN stack : stack[i].phase = "subdirs" /\ stack[i].subdirs = {},
         NEW d \in AllDirectories, Clean(d), \A e \in Path(d) : StillThere(e)
  PROVE  kernel[d] # 0
<1>1. /\ parent \in Parents /\ d \in Path(d) /\ Path(d) \subseteq AllDirectories
  BY PathOf DEF ProviderTypes
<1>2. \A e \in Path(d) : /\ Clean(e) /\ Scanned(e)
                         /\ e # Root => e \in Directories /\ parent[e] \in Path(d) /\ ScannedBelow(e)
  <2>1. ASSUME NEW e \in Path(d)
        PROVE  Path(e) \subseteq Path(d)
    BY <2>1 DEF Path
  <2>2. ASSUME NEW e \in Path(d)
        PROVE  Clean(e) /\ Scanned(e) /\ e \in AllDirectories
    BY <1>1, <2>1, <2>2 DEF Clean, DirectoriesFound
  <2>3. ASSUME NEW e \in Path(d), e # Root
        PROVE  e \in Directories /\ parent[e] \in Path(d) /\ ScannedBelow(e)
    <3>1. e \in Directories /\ parent[e] \in Path(e)
      BY <1>1, <2>2, <2>3, PathOf
    <3>. QED
      BY <2>1, <2>2, <2>3, <3>1 DEF DirectoriesFound
  <2>. QED
    BY <2>2, <2>3
<1>3. \A e : ~Listed(e) /\ ~BeingListed(e)
  BY DEF Listed, BeingListed
<1>4. \A e \in Path(d) : Framed(e) => kernel[e] # 0
  BY <1>2 DEF Framed, Scanned
<1>. DEFINE P == {e \in Path(d) : kernel[e] = 0}
<1>5. Root \notin P
  BY <1>4 DEF DirectoriesFound
<1>6. ASSUME NEW e \in P
      PROVE  parent[e] \in P
  <2>1. e \in Path(d) /\ e # Root /\ kernel[e] = 0
    BY <1>5
  <2>2. parent[e] \in Path(d) /\ ScannedBelow(e) /\ StillThere(e)
    BY <1>2, <2>1
  <2>3. ~Awaited(e) /\ ~Framed(e) /\ e \in exists
    BY <1>3, <1>4, <2>1, <2>2 DEF Awaited, StillThere
  <2>4. kernel[parent[e]] = 0
    BY <1>3, <2>1, <2>2, <2>3 DEF ScannedBelow
  <2>. QED
    BY <2>2, <2>4
<1>. HIDE DEF P
<1>7. ASSUME d \in P
      PROVE  FALSE
  <2>1. P \in SUBSET AllDirectories
    BY <1>1 DEF P
  <2>2. PICK e \in P : parent[e] \in AllDirectories \ P
    BY <1>1, <1>5, <1>7, <2>1, DealtWith
  <2>. QED
    BY <1>6, <2>2
<1>. QED
  BY <1>1, <1>7 DEF P

LEMMA ReportedKept ==
  ASSUME ProviderTypes, Calls, DirectoriesFound, InitialFollowed, InitialReported, ProviderNext
  PROVE  InitialReported'
<1>1. Grows
  BY GrowsAlways
<1>2. initial' \subseteq initial
  BY DEF ProviderNext, ScanFails, ReconcileFails, EventFails, Abort, Die, AddWatch,
     ListDirectory, Reconcile, Reconciled, EnterSubdirectory, LeaveDirectory, ReadEvents,
     FlushBatch, NoMoreEvents, FileEvent, CreateEvent, DeleteEvent, Handles, tree, Change,
     QueueOverflows, WriteFile, CloseFile, MoveFileIn, Completed, DeleteFile, MakeDirectory,
     MoveDirectoryIn, RemoveDirectory
<1>3. reported \subseteq reported'
  BY DEF ProviderNext, ScanFails, ReconcileFails, EventFails, Abort, Die, AddWatch,
     ListDirectory, Reconcile, Reconciled, EnterSubdirectory, LeaveDirectory, ReadEvents,
     FlushBatch, NoMoreEvents, FileEvent, CreateEvent, DeleteEvent, Handles, put, Report, Change,
     QueueOverflows, WriteFile, CloseFile, MoveFileIn, Completed, DeleteFile, MakeDirectory,
     MoveDirectoryIn, RemoveDirectory
<1>4. \A f \in initial : Reachable(f)' => Reachable(f)
  <2>1. \A f : Path(DirectoryOf[f])' = Path(DirectoryOf[f])
    BY <1>1 DEF Path, Grows
  <2>. QED
    BY <1>1, <2>1 DEF Grows, Reachable
<1>5. CASE scan_complete' = scan_complete
  BY <1>2, <1>3, <1>4, <1>5 DEF InitialReported
<1>6. CASE LeaveDirectory /\ status = "scanning" /\ Len(stack) = 1
  <2>1. /\ Top = stack[1] /\ DOMAIN stack = {1} /\ Top.phase = "subdirs" /\ Top.subdirs = {}
        /\ reported' = reported \cup Top.batch
    BY <1>6, LeaveDirectoryDoes DEF LeaveDirectory, Report
  <2>2. ASSUME NEW f \in initial, Reachable(f)
        PROVE  \E p \in reported' : p[1] = f
    <3>1. PICK d \in AllDirectories : d = DirectoryOf[f]
      BY InitialOf, NamesAssumption
    <3>2. Clean(d)
      BY <2>2, <3>1 DEF Reachable, Clean
    <3>3. \A e \in Path(d) : StillThere(e)
      BY <3>1, <3>2, InitialOf DEF Clean
    <3>4. kernel[d] # 0
      BY <2>1, <3>2, <3>3, AllWatched
    <3>5. ~BeingListed(d)
      BY <2>1 DEF BeingListed
    <3>6. Taken(f)
      BY <2>2, <3>1, <3>4, <3>5, InitialOf DEF Watches
    <3>7. Kept(f) => \E p \in Top.batch : p[1] = f
      BY <2>1 DEF Kept, Names
    <3>. QED
      BY <2>1, <3>6, <3>7 DEF Taken
  <2>. QED
    BY <1>2, <1>4, <2>2 DEF InitialReported
<1>7. CASE LeaveDirectory /\ ~(status = "scanning" /\ Len(stack) = 1)
  <2>1. scan_complete' = scan_complete
    BY <1>7 DEF LeaveDirectory, ProviderTypes
  <2>. QED
    BY <1>5, <2>1
<1>. QED
  BY <1>5, <1>6, <1>7
     DEF ProviderNext, ScanFails, ReconcileFails, EventFails, Abort, Die, AddWatch,
         ListDirectory, Reconcile, Reconciled, EnterSubdirectory, ReadEvents, FlushBatch,
         NoMoreEvents, FileEvent, CreateEvent, DeleteEvent, Handles, put, Change, QueueOverflows,
         WriteFile, CloseFile, MoveFileIn, Completed, DeleteFile, MakeDirectory,
         MoveDirectoryIn, RemoveDirectory

-----------------------------------------------------------------------------
(* The invariant holds, and EveryFileReported follows from it.             *)

LEMMA ProviderStarts == ASSUME ProviderInit PROVE ProviderInv
<1>0. /\ Root \notin Directories /\ DirectoryOf \in [DirFiles -> AllDirectories]
      /\ Directories \subseteq AllDirectories /\ Root \in AllDirectories
  BY NamesAssumption DEF AllDirectories
<1>1. /\ parent \in Parents
      /\ \A d \in exists : Path(d) \subseteq exists
      /\ content \in [DirFiles -> {"none", "closed"}]
      /\ \A f \in DirFiles : content[f] # "none" => DirectoryOf[f] \in exists
      /\ initial = {f \in DirFiles : content[f] = "closed"}
      /\ version = [f \in DirFiles |-> 0]
      /\ changes = 0 /\ kernel = [d \in AllDirectories |-> 0] /\ next_wd = 1
      /\ events = <<>> /\ unhandled = <<>> /\ watch_descriptors = {}
      /\ stack = <<Frame(Root)>> /\ status = "scanning" /\ batch = {} /\ scan_complete = FALSE
      /\ reported = {} /\ again = {}
      /\ missed = {} /\ lost = {} /\ overflowed = FALSE /\ removed = {}
  BY DEF ProviderInit
<1>2. exists \subseteq AllDirectories /\ Root \in exists
  BY <1>0 DEF ProviderInit, AllDirectories
<1>3. events \in Seq(AnyEvent) /\ unhandled \in Seq(AnyEvent)
  BY <1>1, EmptySeq
<1>4. stack \in Seq(AnyFrame)
  <2>1. Frame(Root) \in AnyFrame
    BY <1>0, FrameType
  <2>. QED
    BY <1>1, <2>1, OneElement
<1>5. ProviderTypes
  <2>1. content \in [DirFiles -> {"none", "open", "closed", "gone"}]
    BY <1>1
  <2>2. /\ kernel \in [AllDirectories -> Nat] /\ next_wd \in Nat \ {0} /\ changes \in Nat
        /\ version \in [DirFiles -> Nat]
    BY <1>1
  <2>3. initial \subseteq DirFiles
    BY <1>1
  <2>. QED
    BY <1>1, <1>2, <1>3, <1>4, <2>1, <2>2, <2>3 DEF ProviderTypes
<1>6. DOMAIN stack = {1} /\ Len(stack) = 1 /\ stack[1] = Frame(Root)
  BY <1>1
<1>7. /\ stack[1].dir = Root /\ stack[1].phase = "watch" /\ stack[1].known = {}
      /\ stack[1].batch = {} /\ stack[1].fresh = {} /\ stack[1].subdirs = {} /\ stack # <<>>
  BY <1>6 DEF Frame
<1>8. Calls
  BY <1>1, <1>6, <1>7 DEF Calls
<1>9. Waiting = {}
  BY <1>1 DEF Waiting, ToSet
<1>10. DescriptorsStand
  BY <1>1, <1>9 DEF DescriptorsStand
<1>11. NothingMissing
  BY <1>1, <1>2, <1>6, <1>7, <1>9 DEF NothingMissing
<1>12. \A x : /\ Closes(x, events) = {} /\ Closes(x, unhandled) = {}
              /\ Creates(x, events) = {} /\ Creates(x, unhandled) = {}
  BY <1>1 DEF Closes, Creates, Of
<1>13. /\ \A d : (Framed(d) <=> d = Root) /\ ~Listed(d) /\ ~BeingListed(d) /\ ~Awaited(d)
       /\ \A f : ~InKnown(f)
       /\ \A p : ~InBatch(p) /\ ~InFresh(p)
  <2>1. \A d : (Framed(d) <=> d = Root) /\ ~Listed(d) /\ ~BeingListed(d)
    BY <1>6, <1>7 DEF Framed, Listed, BeingListed
  <2>2. \A d : ~Awaited(d)
    BY <1>12, <2>1 DEF Awaited
  <2>3. (\A f : ~InKnown(f)) /\ \A p : ~InBatch(p) /\ ~InFresh(p)
    BY <1>6, <1>7 DEF InKnown, InBatch, InFresh
  <2>. QED
    BY <2>1, <2>2, <2>3
<1>14. \A d \in exists \ {Root} : parent[d] \in exists
  BY <1>1, <1>2, PathOf
<1>15. \A d \in AllDirectories : Scanned(d)
  BY <1>1, <1>2, <1>6, <1>7, <1>12, <1>13 DEF Scanned
<1>16. \A d \in Directories : ScannedBelow(d)
  <2>. SUFFICES ASSUME NEW d \in Directories
                PROVE  ScannedBelow(d)
    OBVIOUS
  <2>1. kernel[d] = 0 /\ kernel[parent[d]] = 0 /\ d # Root
    <3>1. d \in AllDirectories /\ parent[d] \in AllDirectories
      BY <1>0, <1>1, PathOf
    <3>. QED
      BY <1>0, <1>1, <3>1
  <2>. QED
    BY <1>12, <1>13, <2>1 DEF ScannedBelow
<1>17. DirectoriesFound
  BY <1>13, <1>14, <1>15, <1>16 DEF DirectoriesFound
<1>18. ASSUME NEW f \in DirFiles
       PROVE  Followed(f, DirectoryOf[f])
  <2>1. PICK d \in AllDirectories : d = DirectoryOf[f]
    BY <1>0
  <2>2. kernel[d] = 0
    BY <1>1
  <2>3. \A p : OneWay(p) /\ ~Found(p) /\ ~UnderWay(p)
    BY <1>1, <1>12, <1>13 DEF OneWay, Found, UnderWay
  <2>4. KnownAlone(f)
    BY <1>13 DEF KnownAlone
  <2>5. Followed(f, d)
    BY <1>1, <1>12, <2>1, <2>2, <2>3, <2>4 DEF Followed
  <2>. QED
    BY <2>1, <2>5
<1>19. FilesFollowed
  BY <1>18 DEF FilesFollowed
<1>20. InitialFollowed
  <2>. SUFFICES ASSUME NEW f \in initial
                PROVE  /\ content[f] \in {"open", "closed"}
                       /\ \A d \in Path(DirectoryOf[f]) \ removed : StillThere(d)
                       /\ kernel[DirectoryOf[f]] = 0
    BY DEF InitialFollowed, StillThere
  <2>1. f \in DirFiles /\ content[f] = "closed" /\ DirectoryOf[f] \in exists
    BY <1>1
  <2>2. Path(DirectoryOf[f]) \subseteq exists /\ kernel[DirectoryOf[f]] = 0
    BY <1>0, <1>1, <2>1
  <2>. QED
    BY <1>12, <2>1, <2>2 DEF StillThere
<1>21. InitialReported
  BY <1>1 DEF InitialReported
<1>. QED
  BY <1>5, <1>8, <1>10, <1>11, <1>17, <1>19, <1>20, <1>21 DEF ProviderInv

LEMMA ProviderStutters == ASSUME ProviderInv, UNCHANGED providerVars PROVE ProviderInv'
<1>1. UNCHANGED <<parent, exists, content, version, changes, kernel, next_wd, events, overflowed,
                  watch_descriptors, stack, unhandled, batch, status, scan_complete, reported, again,
                  missed, lost, removed, initial>>
  BY DEF providerVars, tree, inotify, put, ghosts
<1>2. ProviderTypes' /\ Calls' /\ DescriptorsStand' /\ NothingMissing'
  BY <1>1 DEF ProviderInv, ProviderTypes, Calls, DescriptorsStand, NothingMissing, Waiting, Watched
<1>3. /\ \A d : /\ Path(d)' = Path(d) /\ Scanned(d)' = Scanned(d)
                /\ ScannedBelow(d)' = ScannedBelow(d) /\ Framed(d)' = Framed(d)
      /\ \A f, d : Followed(f, d)' = Followed(f, d)
  <2>1. \A d : /\ Path(d)' = Path(d) /\ Scanned(d)' = Scanned(d)
               /\ ScannedBelow(d)' = ScannedBelow(d) /\ Framed(d)' = Framed(d)
    BY <1>1 DEF Path, Scanned, ScannedBelow, Framed, Listed, BeingListed, Awaited, Creates, Of
  <2>2. \A f, d : Followed(f, d)' = Followed(f, d)
    BY <1>1 DEF Followed, OneWay, KnownAlone, UnderWay, Found, Current, InKnown, Kept, InBatch, InFresh,
       BeingListed, Closes, Of
  <2>. QED
    BY <2>1, <2>2
<1>4. DirectoriesFound'
  <2>1. \A d : Clean(d)' = Clean(d)
    BY <1>1, <1>3 DEF Clean
  <2>. QED
    BY <1>1, <1>3, <2>1 DEF ProviderInv, DirectoriesFound
<1>5. \A f : Reachable(f)' = Reachable(f)
  BY <1>1, <1>3 DEF Reachable
<1>6. FilesFollowed'
  BY <1>3, <1>5 DEF ProviderInv, FilesFollowed
<1>7. InitialFollowed' /\ InitialReported'
  <2>1. /\ \A f : Kept(f)' = Kept(f)
        /\ \A d : /\ Creates(d, events)' = Creates(d, events) /\ Creates(d, unhandled)' = Creates(d, unhandled)
                  /\ BeingListed(d)' = BeingListed(d)
    BY <1>1 DEF Kept, BeingListed, Creates, Of
  <2>2. InitialFollowed'
    BY <1>1, <1>3, <1>5, <2>1 DEF ProviderInv, InitialFollowed
  <2>3. InitialReported'
    BY <1>1, <1>5 DEF ProviderInv, InitialReported
  <2>. QED
    BY <2>2, <2>3
<1>. QED
  BY <1>2, <1>4, <1>6, <1>7 DEF ProviderInv

LEMMA NothingOverlooked == ASSUME ProviderInv PROVE EveryFileReported
<1>1. /\ ProviderTypes /\ Calls /\ NothingMissing /\ DirectoriesFound
      /\ FilesFollowed /\ InitialReported
  BY DEF ProviderInv
<1>2. ASSUME NEW f \in DirFiles, Reachable(f)
      PROVE  \E d \in AllDirectories : d = DirectoryOf[f] /\ Clean(d) /\ Followed(f, d)
  BY <1>1, <1>2, NamesAssumption DEF Reachable, Clean, FilesFollowed
<1>3. ASSUME Quiet, NEW f \in DirFiles, content[f] = "closed", Reachable(f)
      PROVE  <<f, version[f]>> \in reported \cup lost
  <2>1. PICK d \in AllDirectories : d = DirectoryOf[f] /\ Clean(d) /\ Followed(f, d)
    BY <1>2, <1>3
  <2>2. stack = <<>> /\ unhandled = <<>> /\ batch = {} /\ events = <<>>
    BY <1>1, <1>3 DEF Quiet, Calls
  <2>3. \A x : /\ Closes(x, events) = {} /\ Closes(x, unhandled) = {}
               /\ Creates(x, events) = {} /\ Creates(x, unhandled) = {}
    BY <2>2 DEF Closes, Creates, Of
  <2>4. Path(d) \subseteq exists
    <3>1. /\ d \in exists /\ exists \in SUBSET AllDirectories
          /\ \A e \in exists \ {Root} : parent[e] \in exists
      BY <1>1, <1>3, <2>1 DEF Followed, ProviderTypes, DirectoriesFound
    <3>. QED
      BY <3>1 DEF Path
  <2>5. kernel[d] # 0
    <3>1. \A e \in Path(d) : StillThere(e)
      BY <2>3, <2>4 DEF StillThere
    <3>2. DOMAIN stack = {}
      BY <2>2, NoCalls
    <3>. QED
      BY <1>1, <2>1, <3>1, <3>2, AllWatched
  <2>6. ~BeingListed(d) /\ ~InKnown(f) /\ \A p : ~InBatch(p) /\ ~InFresh(p)
    BY <2>2, NoCalls
  <2>7. UnderWay(Current(f)) \/ Current(f) \in lost
    BY <1>3, <2>1, <2>5, <2>6 DEF Followed
  <2>. QED
    BY <2>2, <2>3, <2>6, <2>7 DEF UnderWay, Found, Current
<1>4. ASSUME NEW f \in DirFiles, Reachable(f), NEW p \in again
      PROVE  p[1] # f
  <2>1. Followed(f, DirectoryOf[f])
    BY <1>2, <1>4
  <2>2. p \in AnyPair
    BY <1>1 DEF ProviderTypes
  <2>3. p[1] = f => p \in VersionsFor(f)
    BY <2>2 DEF AnyPair, VersionsFor
  <2>. QED
    BY <2>1, <2>3 DEF Followed, OneWay
<1>5. ASSUME scan_complete, NEW f \in initial, Reachable(f)
      PROVE  \E n \in 0 .. version[f] : <<f, n>> \in reported
  <2>1. f \in DirFiles /\ version[f] \in Nat
    BY <1>1 DEF ProviderTypes
  <2>2. PICK p \in reported : p[1] = f
    BY <1>1, <1>5 DEF InitialReported
  <2>3. p \in VersionsFor(f)
    BY <1>1, <2>2 DEF ProviderTypes, AnyPair, VersionsFor
  <2>4. Followed(f, DirectoryOf[f])
    BY <1>2, <1>5, <2>1
  <2>5. p[2] =< version[f]
    BY <2>3, <2>4 DEF Followed, UnderWay, Found
  <2>6. p[2] \in 0 .. version[f] /\ <<f, p[2]>> = p
    BY <2>1, <2>3, <2>5, VersionFor
  <2>. QED
    BY <2>6
<1>6. (status = "aborted" => removed # {}) /\ (status = "dead" => removed # {} \/ overflowed)
  BY <1>1 DEF NothingMissing
<1>. QED
  BY <1>3, <1>4, <1>5, <1>6 DEF EveryFileReported

(* EveryFileReported holds of the provider, for every tree and any number  *)
(* of changes.                                                             *)
THEOREM NoFileIsOverlooked == ProviderSpec => []EveryFileReported
<1>1. ASSUME ProviderInv, ProviderNext
      PROVE  ProviderInv'
  BY <1>1, TypesKept, CallsKept, DescriptorsKept, MissingKept, DirectoriesKept, FilesKept,
     InitialKept, ReportedKept DEF ProviderInv
<1>2. ProviderInv /\ [ProviderNext]_providerVars => ProviderInv'
  BY <1>1, ProviderStutters
<1>. QED
  BY <1>2, ProviderStarts, NothingOverlooked, PTL DEF ProviderSpec

=============================================================================
