-------------------------- MODULE FilePathProvider --------------------------
(***************************************************************************)
(* Class FilePathProvider of csrc/loader/stages/file_path_provider.cc: one *)
(* thread finds the files of a tree of directories, first by listing them  *)
(* and then from inotify events, while others write into the tree.         *)
(*                                                                         *)
(* Names that start with a dot are left out, and so are stopping and the   *)
(* queue, which is Channel.  A directory is listed in one step, and a read *)
(* takes all the events there are.  Changes of the tree that are left out: *)
(* directories are not renamed, a file has one writer at a time, and it is *)
(* not removed or replaced while it is written.                            *)
(***************************************************************************)
EXTENDS Naturals, Sequences, FiniteSets, SequencesExt

CONSTANTS Root,         \* directory_
          Directories,  \* the others
          DirFiles,     \* the files
          DirectoryOf,  \* the directory each file is in
          Parents,      \* bound: the ways in which Directories may be nested
          MaxChanges    \* bound: the changes made to the tree

AllDirectories == Directories \cup {Root}

(* Names differ, and directories are in one another without going round.   *)
ASSUME NamesAssumption ==
  /\ Root \notin Directories /\ DirFiles \cap AllDirectories = {}
  /\ DirectoryOf \in [DirFiles -> AllDirectories]
ASSUME ParentsAssumption ==
  \A p \in Parents : /\ p \in [Directories -> AllDirectories]
                     /\ \A D \in (SUBSET Directories) \ {{}} : \E d \in D : p[d] \notin D
ASSUME MaxChangesAssumption == MaxChanges \in Nat

VARIABLES
  parent,             \* parent[d]: the directory that d is in
  exists,             \* the directories there are
  content,            \* content[f]: "none", "open" while it is written, "closed", "gone"
  version,            \* version[f]: how often f was written and closed or moved here
  changes,            \* the number of changes so far
  kernel,             \* kernel[d]: the watch descriptor of d, or 0
  next_wd,            \* the descriptor the kernel gives next
  events,             \* the events that have not been read
  watch_descriptors,  \* watch_descriptors_, as <<descriptor, directory>> pairs
  stack,              \* the calls of ScanDirectoryWithWatch
  unhandled,          \* what ProcessInotifyEvents has read and not handled
  batch,              \* what it has not put, as <<name, version>> pairs
  status,             \* what the worker is doing, or what has become of it
  scan_complete,      \* kInitialScanComplete has been put
  reported,           \* what has been put, as <<name, version>> pairs
  again,              \* what has been put more than once
  missed,             \* the directories whose creation was not acted on
  lost,               \* the versions of files whose event was not acted on
  overflowed,         \* the kernel's queue was ever full
  removed,            \* the directories that were ever removed
  initial             \* the files that have been there since the start

tree == <<parent, exists, content, version, changes, removed, initial>>
inotify == <<kernel, next_wd, events, overflowed>>
put == <<scan_complete, reported, again>>
ghosts == <<missed, lost>>
providerVars == <<tree, inotify, watch_descriptors, stack, unhandled, batch, status, put, ghosts>>

(* The directory d, and those that it is in.                               *)
Path(d) == {a \in AllDirectories :
              \A D \in SUBSET AllDirectories :
                d \in D /\ (\A e \in D \ {Root} : parent[e] \in D) => a \in D}
Within(base) == {d \in AllDirectories : base \in Path(d)}
FilesIn(d) == {f \in DirFiles : DirectoryOf[f] = d /\ content[f] \in {"open", "closed"}}
SubdirectoriesOf(d) == {e \in exists \ {Root} : parent[e] = d}

-----------------------------------------------------------------------------
Frame(d) == [dir |-> d, phase |-> "watch", known |-> {}, batch |-> {}, fresh |-> {}, subdirs |-> {}]

ProviderInit ==
  /\ parent \in Parents
  /\ exists \in {D \cup {Root} : D \in SUBSET Directories}
  /\ \A d \in exists : Path(d) \subseteq exists
  /\ content \in [DirFiles -> {"none", "closed"}]
  /\ \A f \in DirFiles : content[f] # "none" => DirectoryOf[f] \in exists
  /\ initial = {f \in DirFiles : content[f] = "closed"}
  /\ version = [f \in DirFiles |-> 0]
  /\ changes = 0
  /\ kernel = [d \in AllDirectories |-> 0] /\ next_wd = 1 /\ events = <<>>
  /\ watch_descriptors = {}
  /\ stack = <<Frame(Root)>> /\ status = "scanning"
  /\ unhandled = <<>> /\ batch = {}
  /\ scan_complete = FALSE /\ reported = {} /\ again = {}
  /\ missed = {} /\ lost = {} /\ overflowed = FALSE /\ removed = {}

-----------------------------------------------------------------------------
(* Others change the tree, and the kernel has an event for the watches it  *)
(* concerns.  A change that is no event to the provider has none here.     *)

(* IN_Q_OVERFLOW, whose descriptor is -1. *)
Overflow == [kind |-> "overflow", wd |-> 0, name |-> Root, version |-> 0]
Full(queue) == Overflow \in ToSet(queue)

(* What an event makes of the queue.  It replaces the last one if that is  *)
(* the same, unless one that is nothing to the provider came between.  Of  *)
(* those after an overflow any may be dropped: there is room again when a  *)
(* part of the queue has been read.                                        *)
Queued(queue, kind, dir, name, number) ==
  LET event == [kind |-> kind, wd |-> kernel[dir], name |-> name, version |-> number]
      same == queue # <<>> /\ [Last(queue) EXCEPT !.version = number] = event
  IN IF kernel[dir] = 0 THEN {queue}
     ELSE {Append(queue, event)} \cup {q \in {Append(Front(queue), event)} : same}
                                \cup {q \in {queue} : Full(q)}
Dropped(dir) == kernel[dir] # 0 /\ events' = events

Change ==
  /\ changes < MaxChanges
  /\ changes' = changes + 1
  /\ UNCHANGED <<parent, next_wd, watch_descriptors, stack, unhandled, batch, status, put>>

(* An event finds the queue full and is dropped.  It may be one that is    *)
(* nothing to the provider; if it is not, that change is the next one.     *)
QueueOverflows ==
  /\ Change
  /\ ~Full(events) /\ \E d \in AllDirectories : kernel[d] # 0
  /\ events' = Append(events, Overflow) /\ overflowed' = TRUE
  /\ UNCHANGED <<exists, content, version, initial, removed, kernel, ghosts>>

WriteFile(f) ==
  /\ Change
  /\ content[f] # "open" /\ DirectoryOf[f] \in exists
  /\ content' = [content EXCEPT ![f] = "open"]
  /\ UNCHANGED <<exists, version, initial, removed, kernel, events, overflowed, ghosts>>

Completed(f, kind) ==
  /\ Change
  /\ content' = [content EXCEPT ![f] = "closed"]
  /\ version' = [version EXCEPT ![f] = @ + 1]
  /\ events' \in Queued(events, kind, DirectoryOf[f], f, version[f] + 1)
  /\ lost' = IF Dropped(DirectoryOf[f]) THEN lost \cup {<<f, version[f] + 1>>} ELSE lost
  /\ UNCHANGED <<exists, initial, removed, kernel, overflowed, missed>>

CloseFile(f) == content[f] = "open" /\ Completed(f, "close")

(* A file is moved here, maybe in place of another.                        *)
MoveFileIn(f) ==
  /\ content[f] # "open" /\ DirectoryOf[f] \in exists
  /\ Completed(f, "moved to")

DeleteFile(f) ==
  /\ Change
  /\ content[f] = "closed"
  /\ content' = [content EXCEPT ![f] = "gone"]
  /\ initial' = initial \ {f}
  /\ UNCHANGED <<exists, version, removed, kernel, events, overflowed, ghosts>>

MakeDirectory(d) ==
  /\ Change
  /\ d \notin exists /\ parent[d] \in exists
  /\ exists' = exists \cup {d}
  /\ events' \in Queued(events, "create dir", parent[d], d, 0)
  /\ missed' = IF Dropped(parent[d]) THEN missed \cup {d} ELSE missed
  /\ UNCHANGED <<content, version, initial, removed, kernel, overflowed, lost>>

(* A directory is moved here from outside, with its files.  Its event is   *)
(* taken for that of a file.                                               *)
MoveDirectoryIn(d) ==
  /\ Change
  /\ d \notin exists /\ parent[d] \in exists
  /\ exists' = exists \cup {d}
  /\ content' = [f \in DirFiles |-> IF DirectoryOf[f] = d /\ content[f] = "none"
                                    THEN "closed" ELSE content[f]]
  /\ events' \in Queued(events, "moved to", parent[d], d, 0)
  /\ missed' = missed \cup {d}
  /\ UNCHANGED <<version, initial, removed, kernel, overflowed, lost>>

(* The order of the two events has not always been the same.               *)
RemoveDirectory(d) ==
  /\ Change
  /\ d \in exists \ {Root} /\ FilesIn(d) = {} /\ SubdirectoriesOf(d) = {}
  /\ exists' = exists \ {d}
  /\ removed' = removed \cup {d}
  /\ kernel' = [kernel EXCEPT ![d] = 0]
  /\ LET Self(queue) == Queued(queue, "delete self", d, d, 0)
         Entry(queue) == Queued(queue, "delete dir", parent[d], d, 0)
     IN events' \in UNION ({Entry(q) : q \in Self(events)} \cup {Self(q) : q \in Entry(events)})
  /\ UNCHANGED <<content, version, initial, overflowed, ghosts>>

-----------------------------------------------------------------------------
(* ScanDirectoryWithWatch.                                                 *)

Top == Last(stack)
WithTop(frame) == Append(Front(stack), frame)
Scanning(at) == status \in {"scanning", "handling"} /\ stack # <<>> /\ Top.phase = at

(* A CHECK fails.                                                          *)
Abort == /\ status' = "aborted"
         /\ UNCHANGED <<tree, inotify, watch_descriptors, stack, unhandled, batch, put, ghosts>>

(* The directory may be gone before it is watched or listed.               *)
ScanFails ==
  /\ Scanning("watch") \/ Scanning("list")
  /\ Top.dir \notin exists
  /\ Abort

Report(pairs) ==
  /\ reported' = reported \cup pairs
  /\ again' = again \cup (reported \cap pairs)

AddWatch ==
  /\ Scanning("watch") /\ Top.dir \in exists
  /\ LET d == Top.dir
         wd == IF kernel[d] = 0 THEN next_wd ELSE kernel[d]
     IN /\ kernel' = [kernel EXCEPT ![d] = wd]
        /\ next_wd' = IF kernel[d] = 0 THEN next_wd + 1 ELSE next_wd
        /\ watch_descriptors' = {p \in watch_descriptors : p[1] # wd} \cup {<<wd, d>>}
  /\ stack' = WithTop([Top EXCEPT !.phase = "list"])
  /\ UNCHANGED <<tree, events, overflowed, unhandled, batch, status, put, ghosts>>

Versions(files) == {<<f, version[f]>> : f \in files}
Names(pairs) == {p[1] : p \in pairs}

(* Of the files, any number may be put at once: those of the full batches. *)
ListDirectory ==
  /\ Scanning("list") /\ Top.dir \in exists
  /\ \E flushed \in SUBSET FilesIn(Top.dir) :
       /\ stack' = WithTop([Top EXCEPT !.phase = "reconcile", !.known = FilesIn(Top.dir),
                                       !.batch = Versions(FilesIn(Top.dir) \ flushed),
                                       !.subdirs = SubdirectoriesOf(Top.dir)])
       /\ Report(Versions(flushed))
  /\ UNCHANGED <<tree, inotify, watch_descriptors, unhandled, batch, status, scan_complete, ghosts>>

Watched(wd) == \E p \in watch_descriptors : p[1] = wd
DirOf(wd) == (CHOOSE p \in watch_descriptors : p[1] = wd)[2]

Closings == {e \in ToSet(events) : e.kind \in {"close", "moved to"}}

(* at() throws, and nobody reports it.                                     *)
Die == /\ status' = "dead"
       /\ UNCHANGED <<tree, kernel, next_wd, overflowed, watch_descriptors, stack, batch, put,
                      ghosts>>

ReconcileFails ==
  /\ Scanning("reconcile")
  /\ \E e \in Closings : ~Watched(e.wd)
  /\ Die
  /\ UNCHANGED <<events, unhandled>>

(* Mutant of New: a file that was listed is not recognized.                *)
AllNew(pairs) == pairs
New(pairs) == {p \in pairs : p[1] \notin Top.known}

(* ProcessWatchEventsForNewItems reads all there is and looks for files:   *)
(* directories that were created meanwhile are passed over, so is a known  *)
(* file that was put and has been written again, and watches of            *)
(* directories that were removed are kept.                                 *)
Reconcile ==
  /\ Scanning("reconcile") /\ events # <<>>
  /\ \A e \in Closings : Watched(e.wd)
  /\ LET pairs == {<<e.name, e.version>> : e \in Closings} IN
     /\ stack' = WithTop([Top EXCEPT !.fresh = @ \cup New(pairs)])
     /\ lost' = lost \cup {p \in pairs : p[1] \in Top.known \ Names(Top.batch)}
  /\ events' = <<>>
  /\ missed' = missed \cup
       {d \in {e.name : e \in {x \in ToSet(events) : x.kind = "create dir"}} :
          ~ \E i \in DOMAIN stack : d \in stack[i].subdirs}
  /\ UNCHANGED <<tree, kernel, next_wd, overflowed, watch_descriptors, unhandled, batch, status,
                 put>>

(* The files that were listed and not put are put as they are by then.     *)
Reconciled ==
  /\ Scanning("reconcile") /\ events = <<>>
  /\ Report(Top.fresh)
  /\ stack' = WithTop([Top EXCEPT !.phase = "subdirs", !.known = {}, !.fresh = {},
                                  !.batch = Versions(Names(@))])
  /\ UNCHANGED <<tree, inotify, watch_descriptors, unhandled, batch, status, scan_complete, ghosts>>

EnterSubdirectory ==
  /\ Scanning("subdirs")
  /\ \E d \in Top.subdirs :
       stack' = Append(WithTop([Top EXCEPT !.subdirs = @ \ {d}]), Frame(d))
  /\ UNCHANGED <<tree, inotify, watch_descriptors, unhandled, batch, status, put, ghosts>>

(* The files that were listed are put after those of the subdirectories;   *)
(* after those of the root, the scan is complete.                          *)
LeaveDirectory ==
  /\ Scanning("subdirs") /\ Top.subdirs = {}
  /\ Report(Top.batch)
  /\ stack' = Front(stack)
  /\ LET done == status = "scanning" /\ Len(stack) = 1
     IN /\ scan_complete' = (scan_complete \/ done)
        /\ status' = IF done THEN "waiting" ELSE status
  /\ UNCHANGED <<tree, inotify, watch_descriptors, unhandled, batch, ghosts>>

-----------------------------------------------------------------------------
(* ProcessInotifyEvents.                                                   *)

ReadEvents ==
  /\ status \in {"waiting", "handling"} /\ stack = <<>> /\ unhandled = <<>> /\ events # <<>>
  /\ unhandled' = events /\ events' = <<>>
  /\ status' = "handling"
  /\ UNCHANGED <<tree, kernel, next_wd, overflowed, watch_descriptors, stack, batch, put, ghosts>>

FlushBatch ==
  /\ status = "handling" /\ stack = <<>> /\ batch # {}
  /\ Report(batch)
  /\ batch' = {}
  /\ UNCHANGED <<tree, inotify, watch_descriptors, stack, unhandled, status, scan_complete, ghosts>>

NoMoreEvents ==
  /\ status = "handling" /\ stack = <<>> /\ unhandled = <<>> /\ events = <<>>
  /\ Report(batch)
  /\ batch' = {} /\ status' = "waiting"
  /\ UNCHANGED <<tree, inotify, watch_descriptors, stack, unhandled, scan_complete, ghosts>>

Handles(kinds) ==
  /\ status = "handling" /\ stack = <<>> /\ unhandled # <<>>
  /\ Head(unhandled).kind \in kinds /\ Watched(Head(unhandled).wd)
  /\ unhandled' = Tail(unhandled)
  /\ UNCHANGED <<tree, next_wd, events, overflowed, status, put, ghosts>>

(* Also for an overflow, which has no watch. *)
EventFails ==
  /\ status = "handling" /\ stack = <<>> /\ unhandled # <<>>
  /\ ~Watched(Head(unhandled).wd)
  /\ Die
  /\ UNCHANGED <<events, unhandled>>

FileEvent ==
  /\ Handles({"close", "moved to"})
  /\ batch' = batch \cup {<<Head(unhandled).name, Head(unhandled).version>>}
  /\ UNCHANGED <<kernel, watch_descriptors, stack>>

CreateEvent ==
  /\ Handles({"create dir"})
  /\ stack' = <<Frame(Head(unhandled).name)>>
  /\ UNCHANGED <<kernel, watch_descriptors, batch>>

(* RemoveWatchRecursive, for what is below and for what is there again.    *)
DeleteEvent ==
  /\ Handles({"delete dir", "delete self"})
  /\ LET base == IF Head(unhandled).kind = "delete dir" THEN Head(unhandled).name
                 ELSE DirOf(Head(unhandled).wd)
         gone == {p \in watch_descriptors : p[2] \in Within(base)}
     IN /\ watch_descriptors' = watch_descriptors \ gone
        /\ kernel' = [d \in AllDirectories |-> IF <<kernel[d], d>> \in gone THEN 0 ELSE kernel[d]]
  /\ UNCHANGED <<stack, batch>>

-----------------------------------------------------------------------------
ProviderNext ==
        \/ QueueOverflows
        \/ \E f \in DirFiles : WriteFile(f) \/ CloseFile(f) \/ MoveFileIn(f) \/ DeleteFile(f)
        \/ \E d \in Directories : MakeDirectory(d) \/ MoveDirectoryIn(d) \/ RemoveDirectory(d)
        \/ ScanFails \/ AddWatch \/ ListDirectory \/ ReconcileFails \/ Reconcile \/ Reconciled
        \/ EnterSubdirectory \/ LeaveDirectory
        \/ ReadEvents \/ FlushBatch \/ NoMoreEvents
        \/ EventFails \/ FileEvent \/ CreateEvent \/ DeleteEvent

ProviderSpec == ProviderInit /\ [][ProviderNext]_providerVars

-----------------------------------------------------------------------------
(* Properties.                                                             *)

Quiet == status = "waiting" /\ events = <<>>
Reachable(f) == Path(DirectoryOf[f]) \cap (missed \cup removed) = {}

(* However writing, closing, moving and creating interleave with watching, *)
(* listing and reading events, no file is overlooked: once the provider    *)
(* has nothing left to read, every file that is closed has been put since  *)
(* it was last closed or moved here, and it has been put only once since.  *)
(* The files that were there from the start have been put before the       *)
(* provider says that the scan is complete.  The exceptions are            *)
(* directories that were passed over, moved in or removed; what the kernel *)
(* dropped because its queue was full; and a file that was put with a full *)
(* batch and completed again before its directory was reconciled.  Only    *)
(* after a removal does a scan abort the process, and only after a removal *)
(* or an overflow does the worker die.                                     *)
EveryFileReported ==
  /\ Quiet => \A f \in DirFiles :
       content[f] = "closed" /\ Reachable(f) => <<f, version[f]>> \in reported \cup lost
  /\ \A p \in again, f \in DirFiles : p[1] = f => ~Reachable(f)
  /\ scan_complete =>
       \A f \in initial : Reachable(f) => \E n \in 0 .. version[f] : <<f, n>> \in reported
  /\ status = "aborted" => removed # {}
  /\ status = "dead" => removed # {} \/ overflowed
=============================================================================
