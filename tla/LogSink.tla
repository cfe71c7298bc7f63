------------------------------ MODULE LogSink -------------------------------
(***************************************************************************)
(* The launcher's log: rotating files that the launcher's thread writes    *)
(* (rotating_file_sink, file_helper) and that a thread of the registry     *)
(* flushes every second (periodic_worker), through failing renames and     *)
(* opens, exit(), a killed process and the next run.                       *)
(*                                                                         *)
(* The sink's lock is the template parameter Mutex: null_mutex in the _st  *)
(* sinks, which the launcher uses, std::mutex in the _mt sinks.            *)
(***************************************************************************)
EXTENDS Naturals, Sequences, FiniteSets

CONSTANTS
  Mutexes,      \* whether the sink locks: FALSE for _st, TRUE for _mt
  MaxFiles,     \* max_files_
  MaxSize,      \* max_size_
  Sizes,        \* the lengths of messages
  MaxMessages,  \* messages of all runs
  MaxRuns       \* runs of the process

ASSUME LogAssumption ==
  /\ Mutexes \subseteq BOOLEAN
  /\ MaxFiles \in Nat /\ MaxSize \in Nat
  /\ Sizes \subseteq Nat \ {0}
  /\ MaxMessages \in Nat /\ MaxRuns \in Nat

VARIABLES
  locks,        \* the sink's lock is a real one
  lock,         \* its owner
  \* the disk and the C library
  files,        \* what the files hold, 0 the one written
  buffer,       \* what fwrite has not passed on to the file
  \* the sink and the launcher's thread
  fd,           \* file_helper::fd_: "null", "open", or "closed" and dangling
  currentSize,  \* current_size_
  main,         \* where the launcher's thread is
  i,            \* the loop variable of rotate_
  failing,      \* a rename has failed
  size,         \* of the message that is logged
  \* the flusher
  active,       \* active_
  flusher,      \* where its thread is
  loaded,       \* the fd_ it is to flush
  \* history
  issued,       \* messages logged so far, which are their numbers
  runs,
  hurt,         \* something has failed, or a process was killed
  misused       \* a closed file was flushed

diskVars == <<files, buffer>>
sinkVars == <<fd, currentSize>>
mainVars == <<main, i, failing, size>>
flusherVars == <<active, flusher, loaded>>
vars == <<locks, lock, diskVars, sinkVars, mainVars, flusherVars, issued, runs, hurt,
          misused>>

Content == [there : BOOLEAN, msgs : Seq(Nat), bytes : Nat]
Empty == [there |-> TRUE, msgs |-> <<>>, bytes |-> 0]
NoFile == [Empty EXCEPT !.there = FALSE]

Joined(a, b) ==
  [there |-> TRUE, msgs |-> a.msgs \o b.msgs, bytes |-> a.bytes + b.bytes]

LogTypeOK ==
  /\ locks \in BOOLEAN /\ lock \in {"none", "main", "flusher"}
  /\ files \in [0..MaxFiles -> Content] /\ buffer \in Content
  /\ fd \in {"null", "open", "closed"} /\ currentSize \in Nat
  /\ main \in {"idle", "close", "clear", "remove", "rename", "reopen", "write",
               "exit", "join", "dead"}
  /\ i \in 0..MaxFiles /\ failing \in BOOLEAN /\ size \in Nat
  /\ active \in BOOLEAN /\ flusher \in {"wait", "lock", "load", "flush", "gone"}
  /\ loaded \in {"null", "open", "closed"}
  /\ issued \in Nat /\ runs \in Nat /\ hurt \in BOOLEAN /\ misused \in BOOLEAN

\* The first run, without files of earlier ones.
LogInit ==
  /\ locks \in Mutexes /\ lock = "none"
  /\ files = [k \in 0..MaxFiles |-> IF k = 0 THEN Empty ELSE NoFile]
  /\ buffer = Empty
  /\ fd = "open" /\ currentSize = 0
  /\ main = "idle" /\ i = 0 /\ failing = FALSE /\ size = 0
  /\ active = TRUE /\ flusher = "wait" /\ loaded = "null"
  /\ issued = 0 /\ runs = 1 /\ hurt = FALSE /\ misused = FALSE

----------------------------------------------------------------------------
(* Logging: logger::sink_it_, base_sink::log, rotating_file_sink::sink_it_. *)

Lock(owner) == lock = "none" /\ lock' = IF locks THEN owner ELSE "none"
Unlock == lock' = "none"

\* Slip: the size counts for the new file before there is one.
LogResetsFirst ==
  /\ main = "idle" /\ issued < MaxMessages
  /\ Lock("main")
  /\ size' \in Sizes
  /\ issued' = issued + 1
  /\ IF currentSize + size' > MaxSize
       THEN main' = "close" /\ currentSize' = size'
       ELSE main' = "write" /\ currentSize' = currentSize + size'
  /\ UNCHANGED <<locks, diskVars, fd, i, failing, flusherVars, runs, hurt, misused>>

\* A message comes: if it does not fit, the files are rotated.
Log ==
  /\ main = "idle" /\ issued < MaxMessages
  /\ Lock("main")
  /\ size' \in Sizes
  /\ issued' = issued + 1
  /\ currentSize' = currentSize + size'
  /\ main' = IF currentSize' > MaxSize THEN "close" ELSE "write"
  /\ UNCHANGED <<locks, diskVars, fd, i, failing, flusherVars, runs, hurt, misused>>

\* file_helper::close: fclose, which passes on what is buffered ...
CloseFile ==
  /\ main = "close"
  /\ main' = "clear"
  /\ IF fd = "null"
       THEN UNCHANGED <<diskVars, fd, loaded, hurt>>
       ELSE /\ fd' = "closed"
            /\ loaded' = IF loaded = "open" THEN "closed" ELSE loaded
            /\ buffer' = Empty
            /\ \/ /\ files' = [files EXCEPT ![0] = Joined(@, buffer)]
                  /\ UNCHANGED hurt
               \/ UNCHANGED files /\ hurt' = TRUE
  /\ UNCHANGED <<locks, lock, currentSize, i, failing, size, active, flusher, issued,
                 runs, misused>>

\* Slip: the loop begins one file too late.
ClearFileShort ==
  /\ main = "clear"
  /\ fd' = "null"
  /\ i' = MaxFiles - 1
  /\ main' = IF MaxFiles > 1 THEN "remove" ELSE "reopen"
  /\ UNCHANGED <<locks, lock, diskVars, currentSize, failing, size, flusherVars, issued,
                 runs, hurt, misused>>

\* ... then fd_ is cleared, and the loop of rotate_ begins with the oldest file.
ClearFile ==
  /\ main = "clear"
  /\ fd' = "null"
  /\ i' = MaxFiles
  /\ main' = IF MaxFiles > 0 THEN "remove" ELSE "reopen"
  /\ UNCHANGED <<locks, lock, diskVars, currentSize, failing, size, flusherVars, issued,
                 runs, hurt, misused>>

NextFile == i' = i - 1 /\ main' = IF i > 1 THEN "remove" ELSE "reopen"

SkipMissing ==
  /\ main = "remove" /\ ~files[i - 1].there
  /\ NextFile
  /\ UNCHANGED <<locks, lock, diskVars, sinkVars, failing, size, flusherVars, issued,
                 runs, hurt, misused>>

\* rename_file_: the target is removed first, or refuses to be, ...
RemoveTarget ==
  /\ main = "remove" /\ files[i - 1].there
  /\ files' \in {files, [files EXCEPT ![i] = NoFile]}
  /\ main' = "rename"
  /\ UNCHANGED <<locks, lock, buffer, sinkVars, i, failing, size, flusherVars, issued,
                 runs, hurt, misused>>

Rename ==
  /\ main = "rename"
  /\ files' = [files EXCEPT ![i] = files[i - 1], ![i - 1] = NoFile]
  /\ NextFile
  /\ UNCHANGED <<locks, lock, buffer, sinkVars, failing, size, flusherVars, issued, runs,
                 hurt, misused>>

\* ... and if the second attempt fails as well, the file is truncated all the same.
RenameFails ==
  /\ main = "rename"
  /\ failing' = TRUE /\ hurt' = TRUE
  /\ main' = "reopen"
  /\ UNCHANGED <<locks, lock, diskVars, sinkVars, i, size, flusherVars, issued, runs,
                 misused>>

\* The call returns or throws: its locals end with it.
Return == main' = "idle" /\ Unlock /\ i' = 0 /\ failing' = FALSE /\ size' = 0

\* Slip: the file is opened without being truncated.
ReopenAppends ==
  /\ main = "reopen"
  /\ files' = [files EXCEPT ![0].there = TRUE]
  /\ fd' = "open"
  /\ IF failing THEN currentSize' = 0 /\ Return
                ELSE currentSize' = size /\ main' = "write"
                     /\ UNCHANGED <<lock, i, failing, size>>
  /\ UNCHANGED <<locks, buffer, flusherVars, issued, runs, hurt, misused>>

\* file_helper::reopen(true): truncated, then opened to append.  After a failed
\* rename the message is given up with an exception, else it is written next.
Reopen ==
  /\ main = "reopen"
  /\ files' = [files EXCEPT ![0] = Empty]
  /\ fd' = "open"
  /\ IF failing THEN currentSize' = 0 /\ Return
                ELSE currentSize' = size /\ main' = "write"
                     /\ UNCHANGED <<lock, i, failing, size>>
  /\ UNCHANGED <<locks, buffer, flusherVars, issued, runs, hurt, misused>>

\* None of the attempts opens the file; one may have truncated it.  The exception
\* ends the call, and the sink goes on without a file.
ReopenFails ==
  /\ main = "reopen"
  /\ files' \in {files, [files EXCEPT ![0] = Empty]}
  /\ Return
  /\ hurt' = TRUE
  /\ UNCHANGED <<locks, buffer, sinkVars, flusherVars, issued, runs, misused>>

\* file_helper::write, into the buffer or, when that is full, to the file.
Write ==
  /\ main = "write"
  /\ LET b == Joined(buffer, [Empty EXCEPT !.msgs = <<issued>>, !.bytes = size])
     IN  \/ buffer' = b /\ UNCHANGED files
         \/ buffer' = Empty /\ files' = [files EXCEPT ![0] = Joined(@, b)]
  /\ Return
  /\ UNCHANGED <<locks, sinkVars, flusherVars, issued, runs, hurt, misused>>

\* The message is lost, and counted.
WriteFails ==
  /\ main = "write"
  /\ Return
  /\ hurt' = TRUE
  /\ UNCHANGED <<locks, diskVars, sinkVars, flusherVars, issued, runs, misused>>

----------------------------------------------------------------------------
(* The flusher: periodic_worker, registry::flush_all, base_sink::flush.    *)

\* Slip: the wait that ends by its timeout ends the thread.
WakeForTheLastTime ==
  /\ flusher = "wait" /\ active
  /\ flusher' = "gone"
  /\ UNCHANGED <<locks, lock, diskVars, sinkVars, mainVars, active, loaded, issued, runs,
                 hurt, misused>>

\* A second has passed.
Wake ==
  /\ flusher = "wait" /\ active
  /\ flusher' = "lock"
  /\ UNCHANGED <<locks, lock, diskVars, sinkVars, mainVars, active, loaded, issued, runs,
                 hurt, misused>>

FlusherStops ==
  /\ flusher = "wait" /\ ~active
  /\ flusher' = "gone"
  /\ UNCHANGED <<locks, lock, diskVars, sinkVars, mainVars, active, loaded, issued, runs,
                 hurt, misused>>

\* Slip: nothing is locked.
LockNothing ==
  /\ flusher = "lock"
  /\ flusher' = "load"
  /\ UNCHANGED <<locks, lock, diskVars, sinkVars, mainVars, active, loaded, issued, runs,
                 hurt, misused>>

LockSink ==
  /\ flusher = "lock"
  /\ Lock("flusher")
  /\ flusher' = "load"
  /\ UNCHANGED <<locks, diskVars, sinkVars, mainVars, active, loaded, issued, runs, hurt,
                 misused>>

\* The argument of fflush is read ...
LoadFile ==
  /\ flusher = "load"
  /\ loaded' = fd
  /\ flusher' = "flush"
  /\ UNCHANGED <<locks, lock, diskVars, sinkVars, mainVars, active, issued, runs, hurt,
                 misused>>

FlushDone ==
  /\ flusher' = "wait" /\ loaded' = "null"
  /\ IF lock = "flusher" THEN Unlock ELSE UNCHANGED lock

\* ... and the call made: for NULL it flushes whatever is open.
FlushFile ==
  /\ flusher = "flush" /\ loaded # "closed"
  /\ IF loaded = "open" \/ fd = "open"
       THEN /\ files' = [files EXCEPT ![0] = Joined(@, buffer)]
            /\ buffer' = Empty
       ELSE UNCHANGED diskVars
  /\ FlushDone
  /\ UNCHANGED <<locks, sinkVars, mainVars, active, issued, runs, hurt, misused>>

\* The process ends and with it what is buffered.
Die ==
  /\ main' = "dead" /\ flusher' = "gone" /\ lock' = "none"
  /\ fd' = "null" /\ currentSize' = 0 /\ buffer' = Empty
  /\ i' = 0 /\ failing' = FALSE /\ size' = 0
  /\ active' = FALSE /\ loaded' = "null"

\* fflush of a FILE that fclose has freed: nothing, a crash, or a flush of the file
\* that has been opened in its place.
FlushClosed ==
  /\ flusher = "flush" /\ loaded = "closed"
  /\ misused' = TRUE
  /\ \/ FlushDone /\ UNCHANGED <<diskVars, sinkVars, mainVars, active, hurt>>
     \/ /\ fd = "open"
        /\ files' = [files EXCEPT ![0] = Joined(@, buffer)] /\ buffer' = Empty
        /\ FlushDone /\ UNCHANGED <<sinkVars, mainVars, active, hurt>>
     \/ Die /\ hurt' = TRUE /\ UNCHANGED files
  /\ UNCHANGED <<locks, issued, runs>>

----------------------------------------------------------------------------
(* The end of the process, and the next one.                               *)

\* stopLauncher: exit().
Exit ==
  /\ main = "idle"
  /\ main' = "exit"
  /\ UNCHANGED <<locks, lock, diskVars, sinkVars, i, failing, size, flusherVars, issued,
                 runs, hurt, misused>>

\* Slip: the flusher is not told.
StopNobody ==
  /\ main = "exit" /\ flusher = "wait"
  /\ main' = "join"
  /\ UNCHANGED <<locks, lock, diskVars, sinkVars, i, failing, size, flusherVars, issued,
                 runs, hurt, misused>>

\* ~periodic_worker: its mutex is free while the flusher waits ...
StopFlusher ==
  /\ main = "exit" /\ flusher = "wait"
  /\ active' = FALSE
  /\ main' = "join"
  /\ UNCHANGED <<locks, lock, diskVars, sinkVars, i, failing, size, flusher, loaded,
                 issued, runs, hurt, misused>>

\* ... and the thread is joined; then exit() passes on what is buffered.
Join ==
  /\ main = "join" /\ flusher = "gone"
  /\ files' = IF fd = "open" THEN [files EXCEPT ![0] = Joined(@, buffer)] ELSE files
  /\ Die
  /\ UNCHANGED <<locks, issued, runs, hurt, misused>>

\* At any time, amid a rotation too.
Kill ==
  /\ main # "dead"
  /\ Die
  /\ hurt' = TRUE
  /\ UNCHANGED <<locks, files, issued, runs, misused>>

\* main: the sink is made, the file opened to append, and the flusher started.
Restart ==
  /\ main = "dead" /\ runs < MaxRuns
  /\ runs' = runs + 1
  /\ files' = [files EXCEPT ![0].there = TRUE]
  /\ fd' = "open" /\ currentSize' = files'[0].bytes
  /\ main' = "idle"
  /\ active' = TRUE /\ flusher' = "wait"
  /\ UNCHANGED <<locks, lock, buffer, i, failing, size, loaded, issued, hurt, misused>>

Over == main = "dead" /\ UNCHANGED vars

----------------------------------------------------------------------------

Rotate == CloseFile \/ ClearFile \/ SkipMissing \/ RemoveTarget \/ Rename \/ Reopen
Fails == RenameFails \/ ReopenFails \/ WriteFails
Works == Rotate \/ Write \/ Fails \/ StopFlusher \/ Join
Flushes == Wake \/ FlusherStops \/ LockSink \/ LoadFile \/ FlushFile \/ FlushClosed

LogNext == Log \/ Works \/ Flushes \/ Exit \/ Kill \/ Restart \/ Over
LogSpec == LogInit /\ [][LogNext]_vars

\* Both threads run, and the second passes; in that second the flusher's mutex is
\* free, so that exit() gets it.
FairLogSpec ==
  LogSpec /\ WF_vars(Works) /\ WF_vars(Flushes) /\ SF_vars(StopFlusher)

----------------------------------------------------------------------------

Alive == main # "dead"
Messages(c) == {c.msgs[k] : k \in 1..Len(c.msgs)}

\* However renames and opens fail, nothing is written without an open file: the
\* size that called for a rotation calls for the next one, until one succeeds.
WritesOpen == main = "write" => fd = "open"

\* A sink that locks is never flushed through a closed file.
LockedFlushIsSafe == locks => ~misused

\* "Warning: Use only if all your loggers are thread safe!" (spdlog.h:83): no file
\* is flushed after it was closed, with the sink that main uses.
FlushesOnlyOpen == ~misused

\* No file exceeds the limit, except for a single message that does.
Within(c) == c.bytes <= MaxSize \/ Len(c.msgs) <= 1
WithinSize ==
  /\ \A k \in 1..MaxFiles : Within(files[k])
  /\ Within(Joined(files[0], buffer))

\* What the file holds, be it in the buffer still.
Held(k) == Messages(files[k]) \cup (IF k = 0 THEN Messages(buffer) ELSE {})
Bytes(k) == files[k].bytes + (IF k = 0 THEN buffer.bytes ELSE 0)

\* A message is in a file, in the call that logs it, or gone.
Kept == UNION {Held(k) : k \in 0..MaxFiles}
InHand == IF Alive /\ main \notin {"idle", "exit", "join"} THEN {issued} ELSE {}
Gone == (1..issued) \ (Kept \cup InHand)

\* There are messages that the file has no room for.
Full(k) == \E s \in Sizes : Bytes(k) + s > MaxSize

\* If nothing failed, what is missing from the files is older than what is there,
\* and was dropped for MaxFiles younger files that are full.
Retention ==
  ~hurt =>
    /\ \A m \in Gone : \A n \in Kept : m < n
    /\ Gone # {} => Cardinality({k \in 0..MaxFiles : Full(k)}) >= MaxFiles

\* What is written does not stay in the buffer, be it that the launcher has nothing
\* to log for a long time.
Flushed == \A m \in 1..MaxMessages : m \in Messages(buffer) ~> m \notin Messages(buffer)

\* exit() gets rid of the flusher, whatever that is doing.
ExitEnds == main = "exit" ~> main = "dead"

----------------------------------------------------------------------------
(* Why they hold: an invariant that is inductive.                          *)

\* Where the launcher's thread is inside of the sink.
Rotating == {"close", "clear", "remove", "rename", "reopen"}
Inside == Rotating \cup {"write"}

Locked ==
  /\ ~locks => lock = "none"
  /\ locks => /\ lock = "main" <=> main \in Inside
              /\ lock = "flusher" <=> flusher \in {"load", "flush"}
              /\ flusher = "flush" => loaded # "closed"
              /\ ~misused

\* A rotation that was called for and has no file yet is called for still.
Opened ==
  /\ fd = "closed" => main = "clear"
  /\ fd = "open" => main \notin {"clear", "remove", "rename", "reopen", "dead"}
  /\ main = "write" => fd = "open"
  /\ Alive /\ (fd # "open" \/ main \in Rotating) => currentSize > MaxSize
  /\ main \in {"remove", "rename"} => i > 0
  /\ fd # "open" => buffer = Empty
  /\ ~Alive => flusher = "gone"

\* No more is written than was counted.
Counted ==
  LET written == files[0].bytes + buffer.bytes
  IN  fd = "open" =>
        IF main = "write"
          THEN /\ written + size <= currentSize
               /\ currentSize <= MaxSize \/ Len(files[0].msgs) + Len(buffer.msgs) = 0
          ELSE written <= currentSize

LogInv == LogTypeOK /\ Locked /\ Opened /\ Counted /\ WithinSize

\* The place that rotate_ is about to fill, or the file that is written.
Spare == IF main \in {"remove", "rename"} THEN i ELSE 0

\* The files from the youngest to the oldest, as long as nothing has failed.
Sorted ==
  /\ \A k, l \in 0..MaxFiles : k < l => \A a \in Held(k), b \in Held(l) : b < a
  /\ \A k \in 0..MaxFiles : Held(k) \subseteq 1..issued /\ Held(k) \cap InHand = {}
  /\ InHand \subseteq 1..issued
  /\ \A m \in Gone : \A n \in Kept : m < n

\* They are numbered without a gap, and none is missing once a message is gone.
Numbered ==
  /\ \A k, l \in 0..MaxFiles :
       k < l /\ k # Spare /\ files[l].there => files[k].there
  /\ Gone # {} => \A k \in 0..MaxFiles : k # Spare => files[k].there
  /\ \A k \in 0..MaxFiles : ~files[k].there => Held(k) = {}
  /\ main \in {"remove", "rename"} /\ i < MaxFiles => ~files[i].there
  /\ main = "rename" => files[i - 1].there
  /\ main = "reopen" /\ MaxFiles > 0 => ~files[0].there
  /\ main \notin {"remove", "rename", "reopen"} => files[0].there

\* A file is left for the next one when it is full only.
Filled ==
  /\ \A k \in 0..MaxFiles : k # Spare /\ files[k].there => Full(k)
  /\ main = "clear" => Full(0)
  /\ main = "close" => size \in Sizes
  /\ fd = "open" =>
       currentSize = Bytes(0) + (IF main \in {"close", "write"} THEN size ELSE 0)

Unhurt ==
  /\ ~failing
  /\ main \in {"idle", "close", "write", "exit", "join"} => fd = "open"
  /\ loaded = "open" => fd = "open"

RetentionInv == ~hurt => Unhurt /\ Sorted /\ Numbered /\ Filled
=============================================================================
