# A formal model of the training data pipeline

This directory holds TLA+ modules that model parts of this repository: the C++
data loader under `csrc/`, the Python daemon that drives it, the JAX trainer with
its checkpoints and net files under `src/`, and the TensorFlow trainer under `tf/`.
TLC checks small instances of the modules; TLAPS proves some of the properties for
every value of the constants. `PROJECT.json` maps every definition to the lines it
was written from.

## 1. The system

The daemon (`src/lczero_training/daemon`) trains a chess network for ever: wait
until enough new training games have arrived, train for a fixed number of steps,
save a checkpoint, export a network. The games come from the data loader, a
graph of *stages*, each a thread pool that gets from the bounded queue of the
stage before and puts into its own:

    FilePathProvider -> ChunkSourceLoader -> [ChunkSourceSplitter] ->
    ShufflingChunkPool -> [ChunkRescorer] -> ChunkUnpacker -> [JoinStage] ->
    ShufflingFrameSampler -> TensorGenerator -> DataLoader.GetNext (Python)

with one loop in the graph: the unpacker's second output goes back to the pool,
which caches the positions of a chunk for its next uses.

| component | state it keeps | operations | what is hard | what makes it correct |
|---|---|---|---|---|
| `utils/queue.h` | ring buffer, head/tail/size, producers, closed, three counters | Put, Get, MaybeGet, batches, four waits, Close, producer tokens | one condition variable for every kind of waiter, stop tokens, closing in the middle of a batch | FIFO, nothing lost or doubled except by the overflow rule, no stranded thread |
| `utils/stream_shuffler` | buckets of numbers, two bounds, a size | raise a bound, draw, reset | size kept apart from the buckets, lazy trimming, reuse of room | sampling without replacement from the window |
| `stages/chunk_source_loader` | phase mutex, count of files under way, sentinel seen | get file, make source, forward the sentinel | several workers share the tracking of one marker | every file once; the marker once, after the files before it |
| `stages/shuffling_chunk_pool` | row of sources with per-chunk data, shuffler, anchor and counter | initial load, ingestion, drawing, caching, control requests | eviction while numbers and cache requests are under way | window of the newest chunks, even use, cache in step with use |
| `stages/file_path_provider` | inotify watches | scan, watch, follow directories | files and directories that appear during the scan | every file reported |
| `stages/join_stage`, `chunk_source_splitter`, `chunk_unpacker`, `chunk_rescorer`, `simple_chunk_extractor`, `shuffling_frame_sampler`, `tensor_generator` | worker threads; a reservoir; a batch | get, transform, put | closing, stopping and exceptions in the middle of an item | items conserved, shutdown completes |
| `utils/thread_pool.h` | tasks, threads, stop source | enqueue, three waits, shutdown | waiting conditions and their signals | waits return when their condition holds |
| `utils/metrics` | exponential buckets, pending metrics | record, advance, aggregate | two mutexes, time skips | no metric lost or counted twice |
| `data_loader.cc`, `stage*.cc`, `pybind_module.cc` | registry of stages, metrics thread | start, stop, get, control | stop order, get racing stop | stop returns |
| `daemon/pipeline.py`, `daemon.py` | training state, chunks to wait for, cycle state | wait, train, save, export; start, signal, status | crash between steps, stop while waiting, forced start | no chunk trained on without being waited for, restart resumes |
| `daemon/protocol` | none | serialize, dispatch | several senders | round trip |
| `training/`, `commands/train.py`, `init`, `migrate_checkpoint`, `jax2leela` | a directory of checkpoints: weights, step, optimizer count, averaged weights | init, train, migrate, export | numbers of checkpoints, steps and counts set apart; saves that are silently not made; resuming | every checkpoint is of one training; the next run finds the last |
| `model/`, `convert/` | the parameters of a configuration; a net file | write, read off the configuration, read | two directions of one mapping, optional heads, scaled planes | what is read is what was written |
| `tools/weight_wrappers.py` | layers and cached decoded wrappers | read, write, assign, add and scale, save | a cache beside what it caches | the file holds what the script computed |
| `tf/chunkparser.py`, `shufflebuffer.py` | worker processes, pipes, a queue of names, a buffer | name files, read, shuffle, batch | processes that wait on each other, five formats of records | records conserved; batches keep coming |
| `tf/tfprocess.py`, `net.py`, `train.py`, its tools | weights, averages, checkpoints, nets | train, evaluate, average, save, resume | weights swapped for their average and back, restarts | weights of this run; nets read back |
| `tui/`, `training/eval.py` and others, `csrc/tools` | none, or presentation | | | |

Components interact through queues (almost everywhere), through control requests
(daemon to pool, for the anchor), and through the queue objects' own counters
(metrics thread to stages); the trainers and the tools interact through the files of
a directory. `PROJECT.json` lists every component with its status
and, under `hazards`, the lines where something can go wrong that a test would
hardly reach, with the property that watches it.

## 2. The modules

**`BoundedQueue`** is `Queue<T>`. Each critical section of `mutex_` is one
action, except where it ends in `cond_var_.Wait`: the test of the wait loop
(`FindsNothing`, after which the thread is at `checked` and still holds the
mutex) and the wait (`WaitOnCondVar`) are two, because `StopCallback` signals
without the mutex. The overloads of `Put` differ only in copying or moving and
share their actions; a batch goes through one `entering` state per iteration, as
in the code, where the mutex is released between iterations. The environment,
`Produce` and `Consume`, calls what it likes within `Batches`, `GetSizes` and
`Waits`. **`Channel`** is the promise: a sequence into which a sender's elements
go in order and once while the channel is open, from which a receiver takes the
oldest, and that loses elements only as its overflow rule says. The refinement
mapping `contents` reads the ring from `head`.

**`StreamShuffler`** is the class of that name; an iteration of a loop is a step
and `call` says which loop is under way. A bucket is a set of numbers and its
upper bound: the order of the items in a bucket only decides which number a
uniform index picks. **`WindowSampler`** is the promise: a window and the set of
its numbers not drawn yet. The mapping `fresh` takes the numbers held in buckets
and the numbers that `SetUpperBound` has promised and not stored yet, from the
lower bound on.

**`ShufflingChunkPool`** composes the row of sources, the `WindowSampler` (as
`lower`, `upper`, `fresh`), the position cache and the anchor. Every critical
section of `chunk_sources_mutex_` is one action; the initial fill, which holds
it over all sources, is `FillRow` repeated while control requests wait. A cached
position is named by the use it is meant for, which is what the unpacker's
sequence of positions guarantees of it. The chunks put out, the unpacker and the
two queues back to the pool are the set `requests`, from which requests are taken
in any order. Reading or weighing a chunk may fail (`FailToWeigh`, `FailToLoad`).
`AbortOnUnknownWeight` is the assertion at line 433 failing: the documented
build (`meson setup --buildtype=release`, without `b_ndebug`) keeps assertions,
and a configuration with a cache-hit output and no Hanse sampling is accepted.

**`ChunkSourceLoader`** has one program counter per worker and the queues on
either side as the sequences that `Channel` allows: the input is unbounded, as
long as there are files; the output blocks at `Capacity`. A worker that
forwards the sentinel as the last of its phase does so with `phase_mutex_` held
(`handing over`), as in the code; one that forwards what it just got does not.

**`TrainingPipeline`** is the loop of `daemon/pipeline.py` with the daemon around
it: `pc` says which call of `run` comes next, and each call is an action. Of the
data loader it has what the pipeline can see, over sources of one chunk named by
their keys: the initial load (`IndexSource`, `FinishLoad`, `GiveUp`), ingestion, and
stopping, after which only what the queues still hold (`batches`) can be trained
on. The pool's chunks since the anchor are read at any moment of the load, since
the wait begins as soon as the loader is started. A checkpoint is written in the
background (`saving`, then `Commit`), and the manager waits for the write before
(`CanSave`). `End` is the end of the process, by a crash at any point or by the
exception that a closed and empty queue raises in training. `used`, `due`, `forced`,
`served`, `early` and `overtaken` are kept for the properties only.

**`StageGraph`** composes the stages over channels, between `DataLoader::Start` and
the end of `Stop`. A graph is data: the workers with their stage, kind, input queue
and output queues, as a loader's configuration says; a `feed` stands for the stages
that a graph leaves out. There is one action per kind of stage for what it does with
an item (`Split`, `Extract`, `Rescore`, `Unpack`, `Pass`, `Reserve`, `Sample`,
`Collect`, and for the pool `CollectSource`, `Ingest`, `Draw`, `Cache`), and `Put` and
its failure are common to them. Producers are created one step at a time
(`CreateProducer`), so that a worker may find a queue closed that others have opened
and left; `Leave` closes what the last producer leaves. `Stop` goes through the stages
in the order of the configuration, requests the stop, joins (`Joined`) and closes
(`StageStopped`). The pool's threads wait for its initialization, which gets its
input without a stop token. Only the frames that an unpacker picks are counted;
what the pool draws when is left to `ShufflingChunkPool`, the wake-up that a queue
can lose to `BoundedQueue`.

`WellFormed` says which graphs a loader can have: a queue belongs to one stage
(`SingleOutputStage` owns it, and outputs are looked up by the stage's name), all
workers of a stage run the same function on the same input, except those of a join,
and the `dynamic_cast` in `SetInputs` keeps sources, with the marker among them, from
the stages that take frames. A graph has at most one pool. `Distinct` is about what
is fed: no frame comes twice.

**`FilePathProvider`** is the thread that watches a tree of directories: `stack` has the
nested calls of `ScanDirectoryWithWatch`, each in its phase (watch, list, reconcile,
subdirectories). Others write, rewrite, close, move in and remove files and make, move in
and remove directories at any moment; the kernel's events are for the watches there are.
`version` counts how often a file was closed or moved to its place, and what is put is a
file with its version, so that what is put again can be told from what is put twice. The
kernel's queue may be full at any event (`QueueOverflows`): from then on events may be
dropped until a read makes room, and the one that says so has a descriptor that is never
watched. It may also merge an event with an equal one before it (`Queued`). Batches are
put when they are full, which may be at any file (`flushed` in `ListDirectory`,
`FlushBatch`). `lost` and `missed` keep what the code does not act on.
Directories may be nested in any way that does not go round (`ParentsAssumption`), and
`Path` of one has the directories on the way to it from the root.
**`ExponentialAggregator`** has the buckets of metrics as the digits of the count of
ticks, with records as numbers and merging as concatenation, so that what is missing,
doubled or out of order can be seen.

**`ChunkParser`** is `tf/chunkparser.py` with its processes: `chunk_reader` names
files in passes, workers read records in blocks and send some through a pipe, the main
process takes from one pipe after another, shuffles, converts and batches; with no
workers it reads in sequence. Of a record its version, its input format, and what the
assertions test are kept; its length is counted in bytes, before and after the padding.
**`TfNet`** lists the tensors of a configuration, the field
of a net file each of them has, and the turns and scalings on the way in and out.
**`TfTraining`** extends it by the process that trains: weights are the set of versions
averaged into them, so that the averaged ones that stand in for the trained ones, and
those of another run, can be told apart. It may end anywhere, and the tools
(`make_model`, `model_to_net`, `net_to_model`, `update_steps`) run between.

**`JaxNet`** has the parameters of a model by path and shape, as the constructors under
`model/` make them, the visitor that pairs them with the fields of a net file, and the
three conversions. **`JaxConversion`** is the way of the weights of a model through a
file: `Export` (`jax_to_leela`) writes a net, and `Import` (`_load_lc0_model_state`)
loads it for another model. **`JaxTraining`** extends `JaxNet` by a directory of
checkpoints and the commands that change it: `init`, `train` step by step with its hook,
`migrate` and `jax2leela`. A crash may come between any two steps, also between the
deletion of a checkpoint and the save in its place (`InitDies`, `MigrationDies`). A
state has its step, the optimizer's count, the log of the steps behind its weights with
their rates, and the set of logs averaged. Orbax is external: a save is complete or
absent, none is made at or below the latest step, and restoring needs the same tree.
**`WeightWrappers`** is a script over two nets: stored layers, cached wrappers, and
beside them the values the script meant.

The modules called `MC...` give TLC the sets it needs, and put modules that share no
state into one run: each behaviour is of one of them (`system`). The other modules
take their constants straight from the `.cfg`.

## 3. The runs

| run | what it asks | result |
|---|---|---|
| `queue` | types; no sleeping thread whose condition holds; counters balance; implements `Channel`. Of the provider of files: every version of a file put, once; the worker dies or aborts only after a removal or an overflow | holds, for the provider with the exceptions named in section 5 |
| `queue_stop` | does a delivered stop request always wake its thread? | violated: the signal can fall between test and wait |
| `shuffler` | types and room in buckets; index in bounds; implements `WindowSampler`; loops end | holds |
| `pool` | window, cache, gauge, even use, weights known to requests, bounds only rise | holds |
| `pool_anchor` | does a source with the anchor's key reset the counter, as `docs/loader.md` says? | violated: after the initial load nothing compares keys |
| `loader` | sentinel forwarded once when due and delivered; files conserved; stop ends the workers. Of the metrics: buckets and answers are of their time | holds |
| `loader_sentinel` | does the sentinel come after all files sent before it, as the unit test says? | violated: a file got and not yet counted is overtaken |
| `pipeline` | no network ahead of its chunks; counter and anchor agree, also after a restart; no chunk used twice; exports stay within one step of the checkpoint; a forced start is answered; a stop ends training | holds |
| `pipeline_load` | does a reset of the anchor set it to the latest chunk seen, as `docs/loader.md` says? | violated: not while the initial load is under way |
| `stages` | every frame in one place and none stranded; `Stop` returns and the end of the input gets through | holds |
| `tensorflow` | records conserved; the generator fails for bad input only; batches keep coming; weights and averages of this run; nets read back; runs end on a boundary with a checkpoint and a net | holds |
| `jax` | models survive being written and read; every checkpoint is of one training; a finished run left the latest; a network that was given is trained; saved nets hold what the script computed | holds |

**Bounds.** Queue: two slots, so that the ring wraps, is full and is empty within a few
calls; two producers and one consumer, so that each kind of waiter can coexist with
another of its kind or of the other kind; a single put and a batch of three, larger than
the ring, and gets of one and three. The counters are left out of the state identity
(`VIEW`): no guard reads them, and the property about them compares the two sides of
each step, which TLC evaluates on every step it takes. Shuffler: buckets of three and
bounds to seven give up to three buckets with partial fill, reuse and trimming. Pool:
two chunks, sources of one, two, one and no chunks in any order of arrival, with any
subset in the initial scan; each chunk is used at most twice (`MaxUses`), which lets a
request be overtaken by a use and by an eviction. `UseModulus` is four, so the wrap of
the use count is not reached. The anchor and its counter are outside the `VIEW` of
`pool`, and no property of that run mentions them; `pool_anchor` keeps them. Loader: two
workers are the least that can disagree about the sentinel; one free slot makes every
put able to block. Pipeline: three sources and two chunks per network, so that a wait
can end with one chunk too many, a shortened wait can follow, and a source can be left
out of the initial load by a pool of two; one forced start and one crash, each at any
point. Signals and restarts are not bounded. Provider: a tree of three directories,
nested in both ways, with a file in each, and three changes: enough to make a directory
and write a file into it while another is scanned, to remove one and have another in its
place, to write a listed file again before its directory is reconciled, or to have an
event dropped by a full queue. Metrics: five ticks, up to all of them at once, make
three buckets of which the largest is complete; durations of two and four ticks. Stages:
queues of one element, so that every put can block; eight graphs (`MCStageGraph`) that
between them have every kind of stage, two workers on one output, two outputs of one
worker, a broadcast, an output that drops and one that displaces, the pool with its
cache loop, and pools whose initialization fails. TensorFlow: two files of every version
and format, torn and short ones, in blocks of two, with pipes and a queue of one and
buffers of two; six steps and initializations, enough for two runs, two checkpoints and
an average that is full. JAX: four commands, of five configurations, with crashes at
every step, starting from a net that fits or, under one configuration, from a net of
another size, which every configuration refuses; schedules of every rule, one of which loops, with durations to three, so
that the rates are exact; seven models that are written and eight for which each of
their nets is loaded, with own and shared policy embeddings, one and several heads of
each kind, one and two blocks; all scripts of three operations.

**Deadlock** is checked for the shuffler only. A queue that is closed with every
thread idle, a pool that has been aborted or has used every chunk up to the
bound, and a loader whose workers have left, have really stopped; so has a pipeline
that waits for chunks after its loader was stopped. The changes to a tree, the time,
the commands and the operations of a script are bounded; a generator that has failed
or read everything stops, and so do stages that have been stopped or have nothing to
get.

**Fairness.** The shuffler: `WF(LoopStep)`, a call under way keeps running. The
loader: `WF(Work(w))` for each worker, as each is an operating system thread;
`WF` of the next stage's get, only until a stop, since after a stop the next
stage may have ended. No fairness is assumed of the stage before or of anyone
who stops the loader. The pipeline: `WF(Run)`, its main thread; `WF(Load)`, the
thread of the initial load; `WF(Commit)`, the manager's thread. None of chunks
arriving, of a restart, or of signals. The stages: `WF(Work(w))` for each worker, and
of `StageStopped`, which the thread that called `Stop` does; a stage that the graph
leaves out ends when it is asked to stop, as the others do; whoever reads goes on
until it leaves, which it may at any time. The chunk parser: `WF` of each process, and
`SF` of a worker keeping a record, since each is kept with a probability; none dies.

## 4. The proofs

Each `...Proofs` module holds the theorems of one module, for every value of its
constants; `LoaderProofs` and `TensorflowProofs` those of two each, `JaxProofs` of
three. The assumptions are those that the modules state of their constants: capacities,
bucket and pool sizes are at least one, sets of threads, workers and sources are finite,
the marker values differ from the data.

**`BoundedQueueProofs`**, for any threads, capacity, overflow rule and batches:

* `TypeCorrect`: `Spec => []TypeOK`. `TypeOK` alone is not inductive, for
  `RemoveProducer` could take `producer_count` below zero; with `TokensCounted`
  (the count is the number of live tokens) it is.
* `NoLostWakeup`: `Spec => []NoStrandedWaiter`. The inductive invariant adds
  `MutualExclusion` (at most one thread is at `checked`) and `CheckStillHolds`
  (what that thread found is still so). The argument, `StepWakesOrLeaves`: every
  step either wakes every sleeper or leaves alone all that sleepers test. That is
  why `SignalAll`, not `Signal`, is needed after every change.
* `CountersKeepBalance`: `Spec => CountersBalance`, an action property. `CallsOK`
  says what a thread at each point may be calling, and that a `Put` has one element
  and a batch at least one, so that the single puts that wait are what is counted
  and not stored.
* `RingImplementsChannel`: `Spec => ImplementsChannel`, the whole refinement, since
  `Channel` has no fairness. Beside the invariants above it needs one fact about the
  ring, `RingOK`: `tail` is `size` slots ahead of `head`. `Contents`, `StoreContents`
  and `MoveOutContents` say how the sequence read from `head` on changes when a slot
  is written or the head moves over some, with the remainders that the wrap makes;
  every action then maps to one of the channel or to a stutter.

**`StreamShufflerProofs`**, for any bucket size and bound: `TypeCorrect`,
`SizeIsExact` (the index drawn is always in bounds) and
`ShufflerImplementsSampler` (the refinement, without its liveness). The inductive
invariant `Inv` says that the buckets are lined up (each holds numbers below its
upper bound and not below that of the one before), that an empty row has equal
bounds, and that `stream_size` is the number of items held plus what
`SetUpperBound` has promised.

**`LoaderProofs`**. Of `ChunkSourceLoader`, for any number of workers, files and room
in the output:

* `MarkerForwardedOnceWhenDue`: `Spec => []ForwardedOnceWhenDue`. The invariant
  `Marker` counts where the sentinel can be (`MarkerOnce`: in the input, with the
  worker that got it, or seen), that `pre_sentinel_work_count` covers the files that
  are worked on (`Tracked`: it is above their number after a `Put` that throws,
  never below), and that a sentinel that is on its way was due (`Forwarded`).
* `EveryFileConserved`: `Spec => []FilesConserved`. `Placed` says of each file that
  it has at most one place, a stop or not, and that before a stop it has one;
  `Skipped`, that the skipped ones have been counted, even during a stop.

Of `FilePathProvider`, for any tree of directories, with any files in it and any number
of changes made to it by others at any moment:

* `NoFileIsOverlooked` (`EveryFileReported`), from the inductive invariant
  `ProviderInv`. `DirectoriesFound` says of each directory that it is first awaited (by
  an event or in a listing), then scanned, then watched, and only after the one that it
  is in; `FilesFollowed`, that the version a closed file in a watched directory has now is
  put already, or under way to it, or lost for one of the reasons the property names.
  Both speak of directories on whose path none was missed or removed.
* That none is put twice is `OneWay`: each version is in one place at a time (an event,
  `unhandled`, what a scan found or keeps, the batch, or put), except that a file that was
  listed may have an event besides, which reconciling will pass over. This needs
  `KnownAlone`: of a file that was listed, nothing is anywhere else until its directory
  is reconciled.
* `DescriptorsStand` is what the lookups in `watch_descriptors_` depend on: a descriptor
  belongs to one directory for good, and it is dropped only when that one is gone.
  `NothingMissing` says that without a removal every event but that of an overflow is of
  a known watch and every directory to be scanned is there, so that the worker does not
  abort, and dies only of an overflow.
* The files of the first scan are in directories that no event tells of
  (`InitialFollowed`), and are put before it is declared complete (`InitialReported`),
  also those that are written again while it lasts.
* From the invariant to the property: when nothing is under way, every directory that
  can be reached is watched. Otherwise one of those that are not would be in one that
  is, since `parent` does not go round, and so would be awaited or scanned.

TLC found `ProviderInv` to hold in the run's instance before it was proved.

**`ShufflingChunkPoolProofs`**, for any sources, in any order of arrival and with any
part of them in the initial scan, any pool size and any failures to read:

* `WindowHoldsNewest` (`WindowIsNewestChunks`) and `BoundsNeverFall`
  (`BoundsOnlyRise`), from the inductive invariant `PoolInv`. The window never
  starts before the row because of `Trimmed`: eviction stops at the first source
  that the others do not make up for, and so what remains of a row whose front has
  moved is still as long as the pool (`RowEvict`). The initial fill evicts nothing;
  that its row is trimmed follows from the loop that indexes sources only while
  there are too few chunks, newest first, which `Indexed` carries to the moment when
  the window is opened.
* `WeightKnownWhenAsked` (`RequestsFindWeights`), with `Requested`: the chunk of a
  request is below the end of the row, so that an evicted number never comes back
  with its weight unknown.
* `ChainsServeNextUses` (`CacheServesNextUses`), for every range of the use counts:
  the remainders of `uint16_t` are kept exactly (`InOrder`), so that this holds
  across a wrap-around, which the run does not reach.
* `GaugeOfCachedPositions` (`CachedPositionsExact`): the gauge is a sum of lengths,
  here the cardinality of a set of pairs (`Weight`), which is split when sources
  are evicted and changed at one chunk when a position is put out or added.
* `ChunksUsedEvenly` (`UsedEvenly`), where `MaxUses < UseModulus`: no count wraps
  around. After 65536 uses of a chunk the order of the counts means nothing, so the
  property needs this. `Even` counts a use that is due in this round as if it were
  done; such levels never rise from an older chunk to a newer one, which starts at
  the lowest level there is.

**`TrainingPipelineProofs`**, for any sources, schedule, and number of forced
starts, crashes and restarts:

* `PipelineTypes`, `TrainsOnlyWhatWasWaitedFor` (`NeverAhead`) and
  `ExportsFollowCheckpoints` (`ExportsNotAhead`). `NeverAhead` speaks of what has
  been used; it is inductive together with `Balance`, that the chunks used and those
  still waited for cover one network more, and `WaitOver`, that the counter does not
  fall between the wait and the reset. A forced start breaks `Balance` until the
  reset, and the reset restores it, because what was due then was already covered.
  `ExportsNotAhead` needs `Lag`: how the steps of the state, of what is being written
  and of the checkpoint are apart at each point of the cycle.
* `CounterFollowsAnchor` (`CounterMatchesAnchor`) and `NoChunkUsedTwice`
  (`ChunksUsedOnce`), from the invariant `Accounts`: what the counter is while the
  loader is still indexing, and that every state that is trained, being written or in
  a checkpoint has used at most the sources up to its anchor. Both keep the
  exceptions of the properties, sources out of order and a reset in an initial load.

**`TensorflowProofs`**. Of `TfTraining`, for any configurations, starting steps, limits
and any order of runs, kills and tools:

* `TrainsItsOwn` (`WeightsOfThisRun`), from the inductive invariant `Mine`. Its parts:
  the points to which an evaluation and the writing of a net can go back (`Returns`),
  that the weights of the training are in `model` at some points and in `backup` at
  those where the average stands in for them (`Own`), and that the versions in an
  average are behind the weights, in the process and in the checkpoint that the next
  run resumes (`AveragesBehind`).
* `EndsOnBoundary` (`RunEndsOnBoundary`), with `Boundary` beside `Mine`: the steps made
  and the iterations left add up to a multiple of `total_steps` (`OnTheWay`), and from
  the checkpoint to the next gradient step it holds what is trained, as does the net
  file once it is complete (`Recorded`, `NetWritten`).
* `NetsComeBack` (`NetsReproducible`), from `Kept`: every complete net file is of
  weights that were saved at its step. That each tensor of a configuration reads back
  from its field as itself (`ReadsBack`, `TextReadsBack`) is a hypothesis of the
  theorem: it is a computation on the list of tensors of one configuration, which TLC
  makes for each configuration of its run.

Of `ChunkParser`, for any number of workers, sizes of the buffers and pipes, and any
files, torn and short ones included, from the inductive invariant `ParserInv`:

* `RecordsAreConserved` (`RecordsConserved`). What has been read and not given out is a
  bag, and the pipes, the shuffle buffer and the batch are shelves: an action puts a
  record on one shelf, takes the first of one, exchanges one with the record it displaces
  at random, or clears the batch, and one lemma for each says what this does to the bag.
* `ParserFailsForInput` (`FailsOnlyForBadInput`). Each assertion of the conversion is
  computed: the padding makes a record of every version 8356 bytes long, and the planes
  of each of the seven input formats (`InputModes`, which `get_input_mode` chooses
  from) add up to 112, so that one can only fail on a file that the property lists.
* `ParserTypesOK` (`TypeOK`), from `ParserTypes`; `ReadersStand` adds that the main
  process goes round all the workers, and `NoDetour` that nothing is on a shelf that the
  mode does not use.

**`JaxProofs`**. Of `JaxTraining`, for any configurations, model, schedule, foreign nets
and options, and any order of commands, crashes and edits of the configuration:

* `FinishedIsLatest` (`FinishedRunIsLatest`). The checkpoint manager refuses a save
  that is not above the latest step, silently; the invariant `Behind` says that while
  steps are counted from the checkpoint that was resumed, none is above the state, and
  one at its step is that state, which the hook has saved.
* `TrainsTheNetwork` (`TrainsFromNetwork`): what `init` puts in the directory is what
  the training restores (`LoadedSound`, `LatestIs`).
* `OneRunEach` (`CheckpointsOfOneRun`), from the inductive invariant `Inv`: every
  checkpoint, and the state in training, is `Sound`. One lemma for each thing that
  makes a state shows that it keeps this: a step (`TrainedSound`), averaging
  (`UpdateSwaSound`), each form of `init` (`LoadedSound`, `OverriddenSound`,
  `InitStateSound`), resuming a checkpoint of the older layout (`ResumedSound`), and
  the rules of a migration (`MigrationSound`). A checkpoint of the older layout counts
  no averages, which is what makes it safe to restore one without them. The rates in
  the log are those of `LearningRate`; that these are the rates of the schedule
  written out is a hypothesis, since both are folds over the rules. TLC evaluates it
  for the schedule of the run (`RatesAsWrittenOut`).

Of `WeightWrappers`, for scripts of any length:

* `EverySaveIsMeant` (`SavesAsMeant`), from the inductive invariant `ScriptInv`: what a
  wrapper shows for a layer is what the script gave it (`Meant`), whether it is decoded,
  written and not yet saved, or still stored; and the two encoders of a list are there
  from the front (`Lists`), so that `encoder[-1]` is one of them. The layers that the
  property leaves out are carried along in `excused`. `meant` follows only what the script
  does, never what is stored: a sum is meant for every layer that the script gave both
  sides, whether a protobuf has it or not.

Of `JaxConversion`, for models of any configurations, with any sizes, blocks and heads
(`ModelsAssumption`: the fields of a configuration have the types of its message, and
there is at least one block, and one of each thing whose size it gives):

* `NetsReadBack` (`NetsRoundTrip`). The parameters of a model, the fields of its net and
  the shapes are the rows of one table (`Rows`), with which the constructors
  (`ParamsAreRows`), the visitor on the way out and the visitor on the way in
  (`ImportPairsAre`), which skips what the file has not, are shown to agree. In the table
  no parameter (`OnePath`) and no field (`OneField`) is there twice, so that each value
  comes back from the field it was written to. Of the rows and their sizes the rest is
  computed: which containers a net has (`ContainersOf`), the configuration read off
  the sizes (`ConfigurationReadBack`), that a model of a matching configuration has all
  the rows of the net (`MoreRows`), and that no assertion on the sizes fails but the one
  for a moves left head that is not in the file (`ImportableIs`). `ConversionInv` says that
  the net was written from a model and the weights were loaded from that net.

**`StageGraphProofs`**, for any set of graphs that are well formed and fed distinct
frames (`GraphsAssumption`), with any number of stages, workers and queues:

* `NothingIsLost` (`ItemsConserved`), from the inductive invariant
  `TypeOK /\ Kept /\ Protocol`, one for each half of the property.
* `TypeOK` (`TypesHold`) says, beside the types, which queues can hold the marker, what
  a worker may be about to put where, and that a rescorer never has more than one put
  ahead, which is why clearing the rest when one throws loses nothing.
* `Kept`: the scripts, hands, puts to come, queues, the delivered and the dropped are
  a partition of the frames (`Bag`, `Parted`), and within each of them no frame is
  twice (`Once`), where there is no pool, which hands out its chunks again. Each action
  moves frames from one part to at most two others, and there is one lemma for each way
  of moving. Splitting a source by any hash, putting
  its chunks in any order and emptying a batch are the cases where the parts are cut up
  and put together again (`TakingKept`, `PutParts`, `OneByOne`, `CollectKept`).
* `Protocol`, as long as there is no stop: a worker that has ended has nothing left to
  put (`Idle`), nobody holds a producer for a closed queue, which was closed when a worker
  left or the pool failed (`Closings`), the pool's workers wait for its initialization
  (`PoolWaits`), and the input of a worker that has ended is closed and empty
  (`Drained`). `Drained` is not inductive without `Closings`: what keeps a closed queue
  empty is that whoever could still put into it holds a producer for it. A worker that
  starts and finds its output closed leaves because an equal one ended before it, which
  had the same input; for a join that does not follow, whence the exception.

The assumptions on the constants are that steps, periods and numbers are numbers
(`NumbersAssumption`), that a network has at least one step, and that a part of a
period can be counted (`PeriodsDivideUnit`).

The provers cannot use the library's induction theorems, which take a formula as a
parameter. Where a proof needs induction over numbers or finite sets (`Least`,
`Greatest`), it takes the least counterexample, from the well-foundedness of `<`.

Only model-checked: the metrics (`MetricsOfTheirTime`), whose buckets are folds over the
digits of the count of ticks, so that a proof is an induction over them with powers of
two, of which the provers know nothing; and all liveness (`EveryCallReturns`,
`SentinelArrives`, `WorkersJoin`, `ShutsDown`, `BatchesKeepComing` and those of the
pipeline), which depends on fairness and is out of the provers' reach.

## 5. Observations

Four runs end in a violation of something the repository says of itself; they
are described under `findings`. Also noted while modelling, without a run: the
comment at `stream_shuffler.cc:96` speaks of cleaning up when a bucket holds much
*more* than its range, and the code cleans when it holds at most half of what is
left of it, which callers cannot see. A pipeline whose directory is empty when
it starts waits for ever: the pool gives up (`GiveUp`), no chunk is counted any
more, and only a forced start gets it to the closed queue. A signal that arrives
while the pipeline is being constructed stops nothing, and no later one is heard.
A network may be exported again under the same step after a crash.

Where a property of a passing run has an exception, the exception is what the code
does. They, and what else was noted:

*Stages.* A join worker that starts after another has ended finds the output closed,
and its input is never read. The rescorer counts a cancelled or refused `Put` as a
failed chunk and goes on draining its input after a stop. A stop is noticed only by a
`Put` or `Get` that has to wait: the pool's output workers keep drawing while
somebody reads, and a pool whose output never blocks (`DROP_NEW`, `KEEP_NEWEST`)
cannot be stopped, where `stage.h` says of `Stop` that it joins the background work.
Stages are stopped in the order of the configuration, which nothing validates: a pool
configured before its loader would keep `Stop` waiting for its initialization. When
that fails, the cache-hit output stays open. A splitter that waits for one full output
starves the others.

*File path provider.* The events read while a directory is reconciled are searched for
files only: a directory made meanwhile is never watched. One that is moved in is
reported as a file and not watched. An event of a watch that was removed makes `at()`
throw, and the worker ends without a word, its queue open; with kernels that report the
removal from the parent first, removing a watched directory is enough. One that is gone
before it is watched or listed aborts the process. A file listed while it is written is
reported before it is complete, and again when it is closed, unless that is before the
directory is reconciled. A file that is written again or replaced is put again, each
time. One that was listed and put with a full batch of 10000, and is completed again
before the events are reconciled is not: it counts as known. When the kernel's queue
overflows, events are dropped, and the worker ends without a word when it handles the
event that says so (`at(-1)` at line 336); if that event is read while a directory is
reconciled, it is passed over, and what was dropped is never found. `EveryFileReported`
makes exceptions of these: versions in `lost`, and directories in `missed` or `removed`.
The `Put` of `ProcessWatchEventsForNewItems` has no stop token. `Stop` clears
`watch_descriptors_` while the worker may be using it.

*Metrics.* Ticks that end between the two mutexes of `GetAggregateEndingNow` are in
neither part of its answer. Nothing outside the tests calls the three waits of
`ThreadPool`.

*TensorFlow.* An encoder body read from a net loses the factor 99 of the rule 50 plane
(`tfprocess.py:715`). Text nets of version 2 (`net.py:249`) are refused by `parse_txt`.
A worker that has died is waited for for ever: the handler at `chunkparser.py:526`
cannot run, since the parent keeps the write ends open. The value head `classical`
fails in its first step (`mse_loss` is unbound). Switching averaging off and on again
keeps `swa_count` and loses `swa_weights`; the first averaged net before the first
update holds the initialization. `model_to_net` without a checkpoint writes a random
net. Smolgen with policy encoders, or with a residual body, fails at construction. A
short last record of versions 3 to 5 ends the main process.

*JAX.* Assigning a layer whose writes were not saved (`net.x = a.x + b.x`) stores an
empty one, and `c.weights = a.weights + b.weights` stores those of `a`; what is written
through `encoder[-1]` is lost. In a sum, a difference or a multiple of nets, what a side
has is what its protobuf has: `B.extra.value = 7; A = A + B` drops the 7 when `B` was
read without `extra`, and a layer written on the left is kept as it was stored, if at
all. `docs/weights_tool.md` converts a net to another encoding by assigning it whole,
which encodes nothing anew, and sums nets with `sum()`, for which there is no
`__radd__`. A moves left head that only the target has makes the import assert, where
`leela_to_jax.py:126` lets missing heads stay random. Heads with other names than the
known ones are not exported. `train` exports nets without `training_steps`. A state
initialized at or below the latest step is silently not saved, and one with an older
checkpoint's number deletes that one first; then a training from a network may resume
the old checkpoint. A process that dies after the deletion, in `init` or in a migration
with `--overwrite`, leaves neither of the two. `init` keeps the optimizer's moments of
the checkpoint that it overrides, and does not use its `--seed`. With `export_swa_model`
and no `swa`, the initial weights are exported. A migration to another step number makes
later saves at lower numbers silently skip.

## 6. Plan

The safety properties that could still get a proof are those of the metrics
(`MetricsOfTheirTime`), where a record would be counted in its time for any number of
ticks; it needs the powers and the induction that section 4 speaks of. Modules that
could still be added: the sampling of positions (that consecutive uses of a chunk
continue one sequence), and the growth and the waits of `ThreadPool`.

## 7. Not modelled

What the numerical code computes (forward passes, losses, optimizers, planes of
tensors, tablebase rescoring) is arithmetic on floats, out of reach of a model
checker; the models have which weights, parameters, fields and steps there are, and
not their values. File formats, the terminal interface, evaluation and other tools
that read a checkpoint and print, and the C++ command line programs are sequential and
keep no state that several actors share. Frame contents, wording of log messages and
the metrics' values are abstracted everywhere. Liveness, and what recursive
definitions compute, stay with TLC, since the provers installed have no support for
them.
