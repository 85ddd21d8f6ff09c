---------------------------- MODULE ChunkParser ----------------------------
(***************************************************************************)
(* tf/chunkparser.py and tf/shufflebuffer.py: one process names the chunk  *)
(* files in a new random order on every pass, workers read them and send   *)
(* sampled records through a pipe each, and the main process takes from    *)
(* the pipes in turn, mixes the records in a shuffle buffer, converts them *)
(* and packs batches.  With workers = 0 (the validation data) the main     *)
(* process reads the files itself, in order and once.                      *)
(*                                                                         *)
(* A data set says what is in the files; the bytes of a record are reduced *)
(* to how many there are and to what is asserted about them.               *)
(***************************************************************************)
EXTENDS Integers, Sequences, FiniteSets, Bags, SequencesExt

CONSTANTS Files,        \* bound: the chunk files
          DataSets,     \* bound: what they may hold, and the format expected
          Workers,      \* the worker processes, 1..n in the order of the forks
          ShuffleSize, BatchSize,
          Sample,       \* one record in Sample is kept
          DiffFocus,    \* whether the thresholds of diff focus can skip a record
          BlockRecords, \* bound: records read at a time (256)
          QueueMax,     \* bound: maxsize of the file name queue (4096)
          PipeMax,      \* bound: records that fit into a pipe
          MaxDeaths     \* bound: worker processes that are killed

(* missing: the bytes that the last record is short of. *)
FileContents ==
  [version : 3..7, format : Nat, records : Nat, missing : 0..8275, torn : BOOLEAN, sane : BOOLEAN]

(* get_input_mode: the input formats that the program can be told.         *)
InputModes == {1, 2, 3, 4, 5, 132, 133}

ASSUME FilesAssumption == IsFiniteSet(Files) /\ Files # {}
ASSUME DataSetsAssumption ==
  DataSets \subseteq [expected_input_format : InputModes, content : [Files -> FileContents]]
ASSUME SizesAssumption ==
  /\ {ShuffleSize, BatchSize, Sample, BlockRecords, QueueMax, PipeMax} \subseteq Nat \ {0}
  /\ IsFiniteSet(Workers) /\ Workers = 1..Cardinality(Workers)

VARIABLES
  dataset,    \* the one of DataSets the program is run on
  mode,       \* "parse" with workers, "sequential" without
  todo,       \* chunk_reader: the files it has still to name in this pass
  fileq,      \* chunk_filename_queue
  cur,        \* the file each process is reading and the next record, if any
  alive,      \* which workers have not been killed
  pipe,       \* the records on their way to the main process
  readers,    \* self.readers: the read ends v6_gen goes round
  turn,       \* where in that list it is
  buffer,     \* the used part of the shuffle buffer
  batch,      \* the records batch_gen has collected
  status,     \* of the generator: "running", "failed", "exhausted" or "closed"
  held        \* ghost: the bag of the records read and not yet in a batch given out

run == <<dataset, mode>>
names == <<todo, fileq>>
output == <<pipe, readers, turn, buffer, batch, status, held>>
parserVars == <<run, names, cur, alive, output>>

Main == 0
Content == dataset.content
(* The bag of the values of a function or sequence. *)
BagOf(f) == [x \in Range(f) |-> Cardinality({p \in DOMAIN f : f[p] = x})]
None == [file |-> {}, next |-> 0, kept |-> FALSE]
Idle(p) == cur[p] = None

-----------------------------------------------------------------------------
(* Records.  A record is whole, or the last of its file and short.         *)

RecordSize(version) ==
  CASE version = 6 -> 8356 [] version = 5 -> 8308 [] version = 4 -> 8292 [] version = 3 -> 8276

(* Mutant of Padding: the format of a version 3 or 4 record, which         *)
(* version 5 put after the version, is not padded.                         *)
PaddingNoFormat(version) ==
  (IF version = 3 THEN 16 ELSE 0) + (IF version \in {3, 4} THEN 12 ELSE 0)
    + (IF version \in {3, 4, 5} THEN 48 ELSE 0)

Padding(version) ==
  (IF version = 3 THEN 16 ELSE 0) + (IF version \in {3, 4} THEN 12 + 4 ELSE 0)
    + (IF version \in {3, 4, 5} THEN 48 ELSE 0)

Classical == 1

Whole(f, i) == i < Content[f].records \/ Content[f].missing = 0

RawSize(f, i) ==
  RecordSize(Content[f].version) - (IF Whole(f, i) THEN 0 ELSE Content[f].missing)

Record(f, i) ==
  [file |-> f, index |-> i,
   size |-> RawSize(f, i) + Padding(Content[f].version),
   format |-> IF Content[f].version \in {3, 4} THEN Classical ELSE Content[f].format]

(* Of a version 6 record sample_record unpacks fields that end at byte     *)
(* 8352: a record that stops before raises in the worker.                  *)
Peeked(f, i) == Content[f].version # 6 \/ RawSize(f, i) >= 8352

MaySkip(f) == Sample > 1 \/ (DiffFocus /\ Content[f].version = 6)

(* Bytes of float32 planes: 64 squares, or 8 squares for an expanded byte. *)
PlaneBytes == 64 * 4
ByteBytes == 8 * 4

MiddlePlanes(format) ==
  CASE format = 1 -> 5 * PlaneBytes
    [] format = 2 -> 4 * ByteBytes + 2 * (6 * 8 * 4) + 3 * PlaneBytes
    [] format \in {3, 4, 5, 132, 133} ->
         4 * ByteBytes + 2 * (6 * 8 * 4) + 2 * PlaneBytes + 7 * 8 * 4 + ByteBytes
    [] OTHER -> 0

(* convert_v6_to_tuple: unpack raises when the record is not of its size.  *)
Convertible(r) ==
  /\ r.size = 8356
  /\ r.format = dataset.expected_input_format
  /\ 104 * PlaneBytes + MiddlePlanes(r.format) + 3 * PlaneBytes = 112 * PlaneBytes
  /\ Content[r.file].sane

-----------------------------------------------------------------------------
ParserInitIn(m) ==
  /\ dataset \in DataSets
  /\ mode = m
  /\ todo = Files
  /\ fileq = IF mode = "parse" THEN <<>> ELSE SetToSeq(Files)
  /\ cur = [p \in Workers \cup {Main} |-> None]
  /\ alive = [w \in Workers |-> mode = "parse"]
  /\ pipe = [w \in Workers |-> <<>>]
  /\ readers = IF mode = "parse" THEN [w \in Workers |-> w] ELSE <<>>
  /\ turn = 1
  /\ buffer = <<>> /\ batch = <<>>
  /\ status = "running"
  /\ held = EmptyBag

ParserInit == ParserInitIn("parse") \/ ParserInitIn("sequential")

-----------------------------------------------------------------------------
(* The chunk reader: when every file of a pass is named, the next pass     *)
(* starts with all of them.                                                *)

(* Mutant of ChunkReader: the files are named once. *)
ChunkReaderOnce ==
  \E f \in todo :
    /\ mode = "parse" /\ status = "running"
    /\ Len(fileq) < QueueMax
    /\ fileq' = Append(fileq, f)
    /\ todo' = todo \ {f}
    /\ UNCHANGED <<run, cur, alive, output>>

ChunkReader ==
  \E f \in todo :
    /\ mode = "parse" /\ status = "running"
    /\ Len(fileq) < QueueMax
    /\ fileq' = Append(fileq, f)
    /\ todo' = IF todo = {f} THEN Files ELSE todo \ {f}
    /\ UNCHANGED <<run, cur, alive, output>>

-----------------------------------------------------------------------------
(* Reading a file: single_file_gen and sample_record, in a worker or, with *)
(* mode sequential, in the main process.  The file is read by blocks; what *)
(* raises, a torn file or a record too short to peek at, ends it.          *)

OpenFile(p) ==
  /\ Idle(p) /\ fileq # <<>>
  /\ fileq' = Tail(fileq)
  /\ cur' = [cur EXCEPT ![p] = IF Content[Head(fileq)].version \in 3..6
                                 THEN [file |-> Head(fileq), next |-> 1, kept |-> FALSE] ELSE None]
  /\ UNCHANGED <<run, todo, alive, output>>

BlockRaises(f, i) ==
  /\ (i - 1) % BlockRecords = 0
  /\ Content[f].torn
  /\ Content[f].records < i - 1 + BlockRecords

FileEnds(p) ==
  LET f == cur[p].file  i == cur[p].next IN
    i > Content[f].records \/ BlockRaises(f, i) \/ ~Peeked(f, i)

CloseFile(p) ==
  /\ ~Idle(p) /\ FileEnds(p) /\ ~cur[p].kept
  /\ cur' = [cur EXCEPT ![p] = None]
  /\ UNCHANGED <<run, names, alive, output>>

NextRecord(p) == cur' = [cur EXCEPT ![p].next = @ + 1, ![p].kept = FALSE]

Skip(p) ==
  /\ ~Idle(p) /\ ~FileEnds(p) /\ ~cur[p].kept /\ MaySkip(cur[p].file)
  /\ NextRecord(p)
  /\ UNCHANGED <<run, names, alive, output>>

Keep(p) ==
  /\ ~Idle(p) /\ ~FileEnds(p) /\ ~cur[p].kept
  /\ cur' = [cur EXCEPT ![p].kept = TRUE]
  /\ UNCHANGED <<run, names, alive, output>>

(* task: a worker sends the record it keeps down its pipe.                 *)
Send(w) ==
  LET r == Record(cur[w].file, cur[w].next) IN
    /\ cur[w].kept /\ Len(pipe[w]) < PipeMax
    /\ NextRecord(w)
    /\ pipe' = [pipe EXCEPT ![w] = Append(@, r)]
    /\ held' = held (+) SetToBag({r})
    /\ UNCHANGED <<run, names, alive, readers, turn, buffer, batch, status>>

(* The processes are daemons: a failure of the main process ends them.     *)
Works(w) == alive[w] /\ mode = "parse" /\ status = "running"

-----------------------------------------------------------------------------
(* The main process.  batch_gen pulls on v6_gen through tuple_gen, so an   *)
(* assertion that fails in either ends the generator.                      *)

Fail == status' = "failed" /\ UNCHANGED batch

(* tuple_gen and batch_gen on one more record. *)
Convert(r) ==
  IF Convertible(r) THEN batch' = Append(batch, r) /\ UNCHANGED status ELSE Fail

(* Mutant of Inserted: the new record is not stored in the slot of the one *)
(* that leaves it.                                                         *)
InsertedNot(r, i) == buffer

(* insert_or_replace: the new record takes the place of a random one, and  *)
(* that one goes to the end, or out once the buffer is full.               *)
Inserted(r, i) == IF buffer = <<>> THEN <<>> ELSE ReplaceAt(buffer, i, r)
Displaced(r, i) == IF buffer = <<>> THEN r ELSE buffer[i]

InsertOrReplace(r) ==
  IF r.size # 8356
    THEN Fail /\ UNCHANGED buffer
    ELSE \E i \in 1..(IF buffer = <<>> THEN 1 ELSE Len(buffer)) :
           IF Len(buffer) < ShuffleSize
             THEN /\ buffer' = Append(Inserted(r, i), Displaced(r, i))
                  /\ UNCHANGED <<batch, status>>
             ELSE buffer' = Inserted(r, i) /\ Convert(Displaced(r, i))

(* extract, once no reader is left.  A partial last batch is given out.    *)
Drain ==
  IF buffer = <<>>
    THEN /\ status' = IF batch = <<>> THEN "exhausted" ELSE status
         /\ batch' = <<>> /\ held' = EmptyBag /\ UNCHANGED buffer
    ELSE buffer' = Front(buffer) /\ Convert(Last(buffer)) /\ UNCHANGED held

(* The main process never closes its own copies of the write ends, and a   *)
(* worker inherits those of the workers forked before it.                  *)
WriteEndOpen(w) == status # "closed" \/ \E v \in Workers : v >= w /\ alive[v]

NextTurn(n) == IF turn >= n THEN 1 ELSE turn + 1

(* One round of the loop of v6_gen.  A read from an empty pipe waits as    *)
(* long as a write end is open, and only then is the reader removed; the   *)
(* removal moves the rest of the list under the loop, which skips one.     *)
TakeRecord ==
  LET w == readers[turn] IN
    IF pipe[w] # <<>>
      THEN /\ pipe' = [pipe EXCEPT ![w] = Tail(@)]
           /\ InsertOrReplace(Head(pipe[w]))
           /\ turn' = NextTurn(Len(readers))
           /\ UNCHANGED <<readers, held>>
      ELSE /\ ~WriteEndOpen(w)
           /\ readers' = RemoveAt(readers, turn)
           /\ turn' = NextTurn(Len(readers) - 1)
           /\ UNCHANGED <<pipe, buffer, batch, status, held>>

Produce ==
  /\ mode = "parse" /\ status = "running"
  /\ Len(batch) < BatchSize
  /\ IF readers = <<>> THEN Drain /\ UNCHANGED <<pipe, readers, turn>> ELSE TakeRecord
  /\ UNCHANGED <<run, names, cur, alive>>

(* sequential: no shuffle buffer.                                          *)
Running == status = "running" /\ Len(batch) < BatchSize

Sequential ==
  LET r == Record(cur[Main].file, cur[Main].next) IN
    /\ mode = "sequential" /\ Running
    /\ cur[Main].kept
    /\ NextRecord(Main)
    /\ held' = held (+) SetToBag({r})
    /\ Convert(r)
    /\ UNCHANGED <<run, names, alive, pipe, readers, turn, buffer>>

(* A partial last batch is dropped. *)
Exhaust ==
  /\ mode = "sequential" /\ Running
  /\ fileq = <<>> /\ Idle(Main)
  /\ status' = "exhausted" /\ batch' = <<>> /\ held' = EmptyBag
  /\ UNCHANGED <<run, names, cur, alive, pipe, readers, turn, buffer>>

SequentialRead == mode = "sequential" /\ Running /\ (OpenFile(Main) \/ CloseFile(Main) \/ Keep(Main))

(* The consumer asks for the next batch. *)
YieldBatch ==
  /\ status = "running" /\ Len(batch) = BatchSize
  /\ batch' = <<>>
  /\ held' = held (-) BagOf(batch)
  /\ UNCHANGED <<run, names, cur, alive, pipe, readers, turn, buffer, status>>

-----------------------------------------------------------------------------
(* A worker is killed from outside, or all are by shutdown, which closes   *)
(* their pipes and stops the chunk reader as well.                         *)

Kill(w) ==
  /\ Works(w)
  /\ Cardinality({v \in Workers : ~alive[v]}) < MaxDeaths
  /\ alive' = [alive EXCEPT ![w] = FALSE]
  /\ cur' = [cur EXCEPT ![w] = None]
  /\ UNCHANGED <<run, names, output>>

Shutdown ==
  /\ mode = "parse" /\ status = "running"
  /\ status' = "closed"
  /\ alive' = [w \in Workers |-> FALSE]
  /\ cur' = [p \in Workers \cup {Main} |-> None]
  /\ pipe' = [w \in Workers |-> <<>>]
  /\ UNCHANGED <<run, names, readers, turn, buffer, batch, held>>

-----------------------------------------------------------------------------
WorkerStep(w) == Works(w) /\ (OpenFile(w) \/ CloseFile(w) \/ Skip(w) \/ Keep(w) \/ Send(w))

MainStep == Produce \/ YieldBatch \/ SequentialRead \/ Sequential \/ Exhaust

ParserNext ==
  \/ ChunkReader
  \/ \E w \in Workers : WorkerStep(w) \/ Kill(w)
  \/ MainStep
  \/ Shutdown

(* The processes run, and a random draw keeps a record sooner or later.    *)
ParserFairness ==
  /\ WF_parserVars(ChunkReader)
  /\ WF_parserVars(MainStep)
  /\ \A w \in Workers : WF_parserVars(WorkerStep(w)) /\ SF_parserVars(Works(w) /\ Keep(w))

ParserSpec == ParserInit /\ [][ParserNext]_parserVars /\ ParserFairness

-----------------------------------------------------------------------------
Records == [file : Files, index : Nat, size : Nat, format : Nat]

(* What the variables hold. *)
TypeOK ==
  /\ dataset \in DataSets /\ mode \in {"parse", "sequential"}
  /\ todo \subseteq Files /\ todo # {}
  /\ fileq \in Seq(Files)
  /\ cur \in [Workers \cup {Main} -> [file : Files, next : Nat \ {0}, kept : BOOLEAN] \cup {None}]
  /\ alive \in [Workers -> BOOLEAN]
  /\ pipe \in [Workers -> Seq(Records)]
  /\ readers \in Seq(Workers)
  /\ buffer \in Seq(Records) /\ batch \in Seq(Records)
  /\ status \in {"running", "failed", "exhausted", "closed"}

(* Where records are: in the pipe of each worker, in the shuffle buffer    *)
(* (0) and in the batch (-1).                                              *)
Shelves == [k \in Workers \cup {0, -1} |->
              IF k = 0 THEN buffer ELSE IF k = -1 THEN batch ELSE pipe[k]]
Places(shelves) == UNION {{k} \X DOMAIN shelves[k] : k \in DOMAIN shelves}
Contents(shelves) == BagOf([p \in Places(shelves) |-> shelves[p[1]][p[2]]])

(* No record is lost or doubled between the pipes, the shuffle buffer and  *)
(* the batch, whichever order they arrive in: what has been read and not   *)
(* been given out is there exactly as often as it was read.                *)
RecordsConserved ==
  status \in {"running", "exhausted"} =>
    held = Contents(Shelves)

(* The padding and the planes of every version and every input format add  *)
(* up: the generator fails on an assertion only when a file is of another  *)
(* format than expected, holds absurd values, or ends in a part of a       *)
(* record.                                                                 *)
FailsOnlyForBadInput ==
  status = "failed" =>
    \E f \in {g \in Files : Content[g].version \in 3..6} :
      \/ Record(f, 1).format # dataset.expected_input_format
      \/ ~Content[f].sane
      \/ Content[f].missing > 0

(* As long as no worker dies the batches keep coming, whichever worker     *)
(* gets which file: the main process waits for one worker at a time while  *)
(* the others fill their pipes and stop.                                   *)
BatchesKeepComing ==
  [](mode = "parse" /\ status = "running" /\ \A w \in Workers : alive[w])
    => []<><<YieldBatch>>_parserVars
=============================================================================
