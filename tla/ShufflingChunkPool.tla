------------------------- MODULE ShufflingChunkPool -------------------------
(***************************************************************************)
(* Class ShufflingChunkPool of csrc/loader/stages/shuffling_chunk_pool.cc: *)
(* the newest chunk sources, numbered in one row, from which the output    *)
(* workers draw chunks in shuffled order; the position cache that the      *)
(* caching worker fills ahead of the next use of a chunk; and the anchor   *)
(* from which new chunks are counted.                                      *)
(*                                                                         *)
(* Every critical section of chunk_sources_mutex_ is one step.  The        *)
(* shuffler is the WindowSampler that StreamShuffler implements.  What     *)
(* becomes of a chunk that is put out (the unpacker, and the queues to it  *)
(* and back) is the set of cache requests under way.                       *)
(***************************************************************************)
EXTENDS Integers, Sequences, FiniteSets

CONSTANTS Files,        \* the chunk sources: their sort key and chunk count
          PoolSize,     \* chunk_pool_size_
          UseModulus,   \* the range of the uint16_t use counts
          Prefetch,     \* the positions in a cache request
          Anchors,      \* bound: the keys the anchor is set to
          MaxUses       \* bound: how often a chunk is used

ASSUME FilesAssumption == /\ IsFiniteSet(Files)
                          /\ Files \subseteq [key : Nat, count : Nat]
                          /\ \A f, g \in Files : f.key = g.key => f = g
ASSUME PoolAssumption == PoolSize \in Nat \ {0}
ASSUME UseAssumption == UseModulus \in Nat \ {0} /\ MaxUses \in Nat
ASSUME PrefetchAssumption == Prefetch \in Nat
ASSUME AnchorsAssumption == Anchors \subseteq Nat

VARIABLES
  phase,             \* how far initialization is; "aborted": an assertion failed
  scan,              \* the sources of the initial scan not yet indexed
  kept,              \* the sources indexed and not yet in the row
  total_chunks,      \* the chunks of the sources indexed so far
  current_anchor,    \* the anchor as the initialization thread read it
  incoming,          \* the sources that have not arrived yet
  sources,           \* chunk_sources_: key, first chunk and number of chunks
  use_counts,        \* use_counts of every chunk in the row
  weighed,           \* the chunks whose weight is known
  dropped,           \* dropped_chunks: the chunks that could not be read
  cache,             \* the chain of cached positions of every chunk
  cached_positions,  \* cached_positions_
  lower, upper,      \* the window of stream_shuffler_
  fresh,             \* what stream_shuffler_ has left of it
  requests,          \* the cache requests under way
  hanse,             \* hanse_sampling_threshold is positive
  caching,           \* cachehit_output is configured
  anchor,            \* anchor_
  chunks_since_anchor

startup == <<phase, scan, kept, total_chunks, current_anchor>>
window == <<lower, upper, fresh>>
row == <<sources, use_counts, weighed, dropped, cache, cached_positions>>
anchors == <<anchor, chunks_since_anchor>>
config == <<hanse, caching>>
vars == <<startup, incoming, row, window, requests, config, anchors>>

MinOf(a, b) == IF a =< b THEN a ELSE b

-----------------------------------------------------------------------------
(* The row of sources.                                                     *)

EndOf(source) == source.start + source.count
End(row_of) == IF row_of = <<>> THEN 0 ELSE EndOf(row_of[Len(row_of)])
ChunksOf(source) == source.start .. EndOf(source) - 1
Live == UNION {ChunksOf(sources[i]) : i \in DOMAIN sources}

Newest(files) == CHOOSE f \in files : \A g \in files : g.key =< f.key
Oldest(files) == CHOOSE f \in files : \A g \in files : f.key =< g.key

(* Mutant of PushBack: the sources in the row are counted, not the chunks. *)
PushBackAtSize(row_of, f) ==
  Append(row_of, [key |-> f.key, start |-> Len(row_of), count |-> f.count])

PushBack(row_of, f) ==
  Append(row_of, [key |-> f.key, start |-> End(row_of), count |-> f.count])

(* The window of the last PoolSize chunks of a row.                        *)
WindowStart(row_of) ==
  IF End(row_of) > PoolSize THEN End(row_of) - PoolSize ELSE row_of[1].start

(* The per-chunk data of a row: kept for the chunks that stay, as new for  *)
(* the others.                                                             *)
Carry(old, chunks, new) ==
  [c \in chunks |-> IF c \in DOMAIN old THEN old[c] ELSE new]

-----------------------------------------------------------------------------
Init ==
  /\ phase = "scanning"
  /\ scan \in SUBSET Files
  /\ incoming = Files \ scan
  /\ kept = {} /\ total_chunks = 0
  /\ anchor \in Anchors /\ current_anchor = 0
  /\ chunks_since_anchor = 0
  /\ sources = <<>>
  /\ use_counts = <<>> /\ cache = <<>>
  /\ weighed = {} /\ dropped = {}
  /\ cached_positions = 0
  /\ lower = 0 /\ upper = 0 /\ fresh = {}
  /\ requests = {}
  /\ hanse \in BOOLEAN /\ caching \in BOOLEAN

-----------------------------------------------------------------------------
(* The initialization thread.                                              *)

(* The end of the initial scan arrives.                                    *)
StartIndexing ==
  /\ phase = "scanning"
  /\ phase' = "indexing"
  /\ current_anchor' = anchor
  /\ UNCHANGED <<scan, kept, total_chunks, incoming, row, window, requests,
                 config, anchors>>

(* The input queue is closed before that.  The thread gives up.            *)
InputCloses ==
  /\ phase = "scanning"
  /\ phase' = "failed"
  /\ UNCHANGED <<scan, kept, total_chunks, current_anchor, incoming, row,
                 window, requests, config, anchors>>

(* One iteration of the loop over the sources, newest first.               *)
IndexSource ==
  /\ phase = "indexing" /\ scan # {} /\ total_chunks < PoolSize
  /\ LET f == Newest(scan)
     IN /\ scan' = scan \ {f}
        /\ kept' = kept \cup {f}
        /\ total_chunks' = total_chunks + f.count
        /\ chunks_since_anchor' =
             chunks_since_anchor + IF f.key > current_anchor THEN f.count ELSE 0
  /\ UNCHANGED <<phase, current_anchor, incoming, row, window, requests, config,
                 anchor>>

StopIndexing ==
  /\ phase = "indexing" /\ (scan = {} \/ total_chunks >= PoolSize)
  /\ phase' = "filling"
  /\ scan' = {}
  /\ UNCHANGED <<kept, total_chunks, current_anchor, incoming, row, window,
                 requests, config, anchors>>

(* ProcessInputFiles holds the mutex from the first source, the oldest, to *)
(* the bounds of the shuffler.                                             *)
FillRow ==
  /\ phase = "filling" /\ kept # {}
  /\ LET f == Oldest(kept)
     IN /\ sources' = PushBack(sources, f)
        /\ kept' = kept \ {f}
  /\ use_counts' = Carry(use_counts, Live', 0)
  /\ cache' = Carry(cache, Live', <<>>)
  /\ UNCHANGED <<phase, scan, total_chunks, current_anchor, incoming, weighed,
                 dropped, cached_positions, window, requests, config, anchors>>

(* Without a single chunk the thread gives up, and no worker is started.   *)
OpenWindow ==
  /\ phase = "filling" /\ kept = {}
  /\ lower' = IF sources = <<>> THEN lower ELSE WindowStart(sources)
  /\ upper' = End(sources)
  /\ fresh' = lower' .. upper' - 1
  /\ phase' = IF End(sources) > 0 THEN "ready" ELSE "failed"
  /\ UNCHANGED <<scan, kept, total_chunks, current_anchor, incoming, row,
                 requests, config, anchors>>

-----------------------------------------------------------------------------
(* SourceIngestionWorker.                                                  *)

(* Mutant of KeepsFront: a window that is exactly full is not kept.        *)
KeepsFrontOfMore(row_of) ==
  Len(row_of) = 1 \/ End(row_of) - EndOf(row_of[1]) =< PoolSize

(* The front source is needed when the others do not fill the window.      *)
KeepsFront(row_of) ==
  Len(row_of) = 1 \/ End(row_of) - EndOf(row_of[1]) < PoolSize

(* What is left of a row when its front sources are removed until one is   *)
(* needed.                                                                 *)
EvictFrom(row_of) ==
  LET Rest(i) == SubSeq(row_of, i, Len(row_of))
      first == CHOOSE i \in 1 .. Len(row_of) :
                 /\ KeepsFront(Rest(i))
                 /\ \A j \in 1 .. i - 1 : ~KeepsFront(Rest(j))
  IN Rest(first)

(* How many positions the chains of the chunks hold.                       *)
CachedIn(chunks) == Cardinality(UNION {{c} \X DOMAIN cache[c] : c \in chunks})

(* Mutant of CachedInEvicted: the front source's positions are forgotten.  *)
NoneCounted(chunks) == 0

CachedInEvicted(chunks) == CachedIn(chunks)

(* Mutant of FreshAfter: the shuffler is reset instead of extended.        *)
ResetAt(start, end) == start .. end - 1

(* SetUpperBound, then SetLowerBound.                                      *)
FreshAfter(start, end) == {c \in fresh \cup upper .. end - 1 : c >= start}

AddNewChunkSource(f) ==
  LET grown == PushBack(sources, f)
  IN /\ sources' = EvictFrom(grown)
     /\ use_counts' = Carry(use_counts, Live', 0)
     /\ cache' = Carry(cache, Live', <<>>)
     /\ cached_positions' = cached_positions - CachedInEvicted(Live \ Live')
     /\ weighed' = weighed \cap Live' /\ dropped' = dropped \cap Live'
     /\ upper' = End(grown)
     /\ lower' = WindowStart(sources')
     /\ fresh' = FreshAfter(lower', upper')

Ingest(f) ==
  /\ phase = "ready" /\ f \in incoming
  /\ incoming' = incoming \ {f}
  /\ chunks_since_anchor' = chunks_since_anchor + f.count
  /\ AddNewChunkSource(f)
  /\ UNCHANGED <<startup, requests, config, anchor>>

-----------------------------------------------------------------------------
(* OutputWorker: an iteration of the loop in GetNextChunkData.             *)

(* GetChunkInfo: the next number of the shuffler, which starts over with   *)
(* the whole window when it is exhausted.                                  *)
DrawNumber(c) ==
  /\ phase = "ready"
  /\ LET start == IF fresh = {} THEN WindowStart(sources) ELSE lower
         end == IF fresh = {} THEN End(sources) ELSE upper
         left == IF fresh = {} THEN start .. end - 1 ELSE fresh
     IN /\ c \in left
        /\ lower' = start /\ upper' = end
        /\ fresh' = left \ {c}
  /\ UNCHANGED <<startup, incoming, sources, config, anchors>>

SkipDropped(c) ==
  /\ DrawNumber(c)
  /\ c \in dropped
  /\ UNCHANGED <<use_counts, weighed, dropped, cache, cached_positions, requests>>

(* The chunk has to be weighed and cannot be read.                         *)
FailToWeigh(c) ==
  /\ DrawNumber(c)
  /\ hanse /\ c \notin dropped \cup weighed
  /\ dropped' = dropped \cup {c}
  /\ UNCHANGED <<use_counts, weighed, cache, cached_positions, requests>>

(* Hanse sampling rejects the chunk.                                       *)
Reject(c) ==
  /\ DrawNumber(c)
  /\ hanse /\ c \notin dropped
  /\ weighed' = weighed \cup {c}
  /\ UNCHANGED <<use_counts, dropped, cache, cached_positions, requests>>

(* Mutant of Weighing: the weight is used and not kept.                    *)
WeighingInVain(c) == weighed

(* Under Hanse sampling, a chunk is weighed before it is accepted.         *)
Weighing(c) == IF hanse THEN weighed \cup {c} ELSE weighed

NextUse(c) == (use_counts[c] + 1) % UseModulus

Accept(c) ==
  /\ DrawNumber(c)
  /\ c \notin dropped
  /\ use_counts[c] < MaxUses
  /\ use_counts' = [use_counts EXCEPT ![c] = NextUse(c)]

(* A cached position is put out.                                           *)
CacheHit(c) ==
  /\ Accept(c)
  /\ cache[c] # <<>>
  /\ cache' = [cache EXCEPT ![c] = Tail(@)]
  /\ cached_positions' = cached_positions - 1
  /\ weighed' = Weighing(c)
  /\ UNCHANGED <<dropped, requests>>

(* The chunk is put out, and where positions are cached, a request to      *)
(* cache more of them will come of it.                                     *)
CacheMiss(c) ==
  /\ Accept(c)
  /\ cache[c] = <<>>
  /\ weighed' = Weighing(c)
  /\ requests' = IF caching
                 THEN requests \cup {[chunk |-> c, next_use |-> NextUse(c)]}
                 ELSE requests
  /\ UNCHANGED <<dropped, cache, cached_positions>>

(* The chunk cannot be read.  Its use has been counted.                    *)
FailToLoad(c) ==
  /\ Accept(c)
  /\ cache[c] = <<>>
  /\ hanse => c \in weighed
  /\ dropped' = dropped \cup {c}
  /\ UNCHANGED <<weighed, cache, cached_positions, requests>>

-----------------------------------------------------------------------------
(* CachingWorker.                                                          *)

(* Mutant of Matches: a request is served even if it is out of date.       *)
AlwaysMatches(r) == TRUE

Matches(r) == use_counts[r.chunk] = r.next_use

(* The chunk was evicted, or used again, before the request arrived.       *)
IgnoreRequest(r) ==
  /\ phase = "ready" /\ r \in requests
  /\ ~(r.chunk \in Live /\ Matches(r))
  /\ requests' = requests \ {r}
  /\ UNCHANGED <<startup, incoming, row, window, config, anchors>>

(* The weight of a chunk decides how many of its positions are cached.     *)
(* The assertion that it is known fails where Hanse sampling is off, and   *)
(* the documented builds keep assertions.                                  *)
AbortOnUnknownWeight(r) ==
  /\ phase = "ready" /\ r \in requests
  /\ r.chunk \in Live /\ Matches(r)
  /\ r.chunk \notin weighed
  /\ phase' = "aborted"
  /\ UNCHANGED <<scan, kept, total_chunks, current_anchor, incoming, row, window,
                 requests, config, anchors>>

(* A chain is extended to n positions, or to what the request holds; each  *)
(* position is named by the use it is meant for.                           *)
ExtendCache(r, n) ==
  /\ phase = "ready" /\ r \in requests
  /\ r.chunk \in Live /\ Matches(r)
  /\ r.chunk \in weighed
  /\ LET chain == cache[r.chunk]
         added == [k \in 1 .. n - Len(chain) |-> r.next_use + Len(chain) + k - 1]
     IN /\ cache' = [cache EXCEPT ![r.chunk] = chain \o added]
        /\ cached_positions' = cached_positions + Len(added)
  /\ requests' = requests \ {r}
  /\ UNCHANGED <<startup, incoming, sources, use_counts, weighed, dropped,
                 window, config, anchors>>

-----------------------------------------------------------------------------
(* Control requests.  They wait while the mutex is held to fill the row.   *)

ResetAnchor ==
  /\ phase \notin {"filling", "aborted"}
  /\ anchor' = IF sources = <<>> THEN anchor ELSE sources[Len(sources)].key
  /\ chunks_since_anchor' = 0
  /\ UNCHANGED <<startup, incoming, row, window, requests, config>>

SetAnchor(key) ==
  /\ phase # "aborted"
  /\ anchor' = key
  /\ UNCHANGED <<startup, incoming, row, window, requests, config,
                 chunks_since_anchor>>

-----------------------------------------------------------------------------
Draw(c) == \/ SkipDropped(c) \/ FailToWeigh(c) \/ Reject(c)
           \/ CacheHit(c) \/ CacheMiss(c) \/ FailToLoad(c)

Next == \/ StartIndexing \/ InputCloses \/ IndexSource \/ StopIndexing
        \/ FillRow \/ OpenWindow
        \/ \E f \in Files : Ingest(f)
        \/ \E c \in Live : Draw(c)
        \/ \E r \in requests : \/ IgnoreRequest(r) \/ AbortOnUnknownWeight(r)
                               \/ \E n \in 0 .. Prefetch : ExtendCache(r, n)
        \/ ResetAnchor
        \/ \E key \in Anchors : SetAnchor(key)

Spec == Init /\ [][Next]_vars

-----------------------------------------------------------------------------
(* Properties.                                                             *)

(* Whatever sources arrive and leave, the window is made of chunks that    *)
(* are still in the row, so that no number is drawn out of range; it ends  *)
(* with the newest chunk and is as long as configured, or as long as the   *)
(* row; and no source outlives its last chunk in the window.  The sources  *)
(* are numbered without gaps, and the data beside them are of their chunks.*)
WindowIsNewestChunks ==
  phase = "ready" =>
    /\ \A i \in 1 .. Len(sources) - 1 : EndOf(sources[i]) = sources[i + 1].start
    /\ DOMAIN use_counts = Live /\ DOMAIN cache = Live /\ weighed \cup dropped \subseteq Live
    /\ fresh \subseteq lower .. upper - 1
    /\ sources # <<>>
    /\ upper = End(sources)
    /\ upper - lower = MinOf(PoolSize, upper - sources[1].start)
    /\ Len(sources) > 1 => upper - EndOf(sources[1]) < PoolSize

(* However a cache request is overtaken by other uses of its chunk, by the *)
(* eviction of its source or by other requests, the chain of a chunk holds *)
(* the positions for its next uses, in their order: no position is trained *)
(* on twice or skipped because it was cached.                              *)
CacheServesNextUses ==
  \A c \in Live : \A k \in DOMAIN cache[c] :
     cache[c][k] % UseModulus = (use_counts[c] + k - 1) % UseModulus

(* The gauge of cached positions is what the chains hold, through hits,    *)
(* requests and evictions.                                                 *)
CachedPositionsExact == cached_positions = CachedIn(Live)

(* Without Hanse sampling, no chunk of the window is used again while      *)
(* another that has been there as long still waits.                        *)
UsedEvenly ==
  ~hanse => \A c, d \in (lower .. upper - 1) \ dropped :
               c < d => use_counts[d] =< use_counts[c] + 1

(* With Hanse sampling, a cache request that is not out of date finds the  *)
(* weight of its chunk, though its source and everything known of it may   *)
(* have been evicted meanwhile: the assertion in CachingWorker holds.      *)
RequestsFindWeights ==
  hanse => \A r \in requests : r.chunk \in Live /\ Matches(r) => r.chunk \in weighed

(* The pool uses the shuffler as it may be used: neither bound of the      *)
(* window ever moves back, which StreamShuffler asserts.                   *)
BoundsOnlyRise == [][lower' >= lower /\ upper' >= upper]_vars

(* The documented rule for the anchor: a new source with the key of the    *)
(* anchor resets the counter.                                              *)
AnchorResetsCounter ==
  [][\A f \in Files : Ingest(f) /\ f.key = anchor => chunks_since_anchor' = 0]_vars
=============================================================================
