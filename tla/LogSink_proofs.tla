--------------------------- MODULE LogSink_proofs ---------------------------
(***************************************************************************)
(* The log, for every number and size of files and messages: LogInv is     *)
(* inductive, and the sink's promises follow from it.                      *)
(***************************************************************************)
EXTENDS LogSink, FiniteSetTheorems, SequenceTheorems, TLAPS

USE DEF diskVars, sinkVars, mainVars, flusherVars

\* What fwrite has passed on joins what the file holds.
LEMMA JoinedProperties ==
  ASSUME NEW a \in Content, NEW b \in Content
  PROVE  /\ Joined(a, b) \in Content
         /\ Joined(a, b).bytes = a.bytes + b.bytes
         /\ Joined(a, b).msgs = a.msgs \o b.msgs
         /\ Len(Joined(a, b).msgs) = Len(a.msgs) + Len(b.msgs)
         /\ Len(a.msgs) \in Nat /\ Len(b.msgs) \in Nat
         /\ a.bytes \in Nat /\ b.bytes \in Nat
<1>1. /\ a.msgs \in Seq(Nat) /\ b.msgs \in Seq(Nat)
      /\ a.bytes \in Nat /\ b.bytes \in Nat
  BY DEF Content
<1>2. /\ a.msgs \o b.msgs \in Seq(Nat)
      /\ Len(a.msgs \o b.msgs) = Len(a.msgs) + Len(b.msgs)
  BY <1>1, ConcatProperties
<1>3. Len(a.msgs) \in Nat /\ Len(b.msgs) \in Nat
  BY <1>1, LenProperties
<1>4. a.bytes + b.bytes \in Nat
  BY <1>1
<1> QED
  BY <1>1, <1>2, <1>3, <1>4 DEF Joined, Content

LEMMA EmptyProperties ==
  /\ Empty \in Content /\ Empty.bytes = 0 /\ Empty.msgs = <<>> /\ Len(Empty.msgs) = 0
  /\ NoFile \in Content /\ NoFile.bytes = 0 /\ Len(NoFile.msgs) = 0
<1>1. <<>> \in Seq(Nat) /\ Len(<<>>) = 0
  OBVIOUS
<1>2. Empty \in Content /\ Empty.bytes = 0 /\ Empty.msgs = <<>>
  BY <1>1 DEF Empty, Content
<1>3. NoFile \in Content /\ NoFile.bytes = 0 /\ NoFile.msgs = <<>>
  BY <1>2 DEF NoFile, Content
<1> QED
  BY <1>1, <1>2, <1>3

LEMMA Zero == 0 \in 0..MaxFiles /\ MaxFiles \in 0..MaxFiles /\ MaxFiles \in Nat
BY LogAssumption

LEMMA LogTypeKept ==
  ASSUME LogTypeOK, Opened, LogNext
  PROVE  LogTypeOK'
<1> USE Zero, EmptyProperties
<1>0. files[0] \in Content /\ buffer \in Content /\ Joined(files[0], buffer) \in Content
  BY JoinedProperties DEF LogTypeOK
<1>1. [files EXCEPT ![0] = Joined(@, buffer)] \in [0..MaxFiles -> Content]
  BY <1>0 DEF LogTypeOK
<1>2. ASSUME Die, UNCHANGED <<locks, issued, runs>>, hurt' \in BOOLEAN,
             misused' \in BOOLEAN, files' \in [0..MaxFiles -> Content]
      PROVE  LogTypeOK'
  BY <1>2 DEF LogTypeOK, Die
<1>3. CASE Log
  <2>1. size' \in Sizes
    BY <1>3 DEF Log
  <2>2. size' \in Nat
    BY <2>1, LogAssumption
  <2>3. currentSize' \in Nat /\ issued' \in Nat
    BY <1>3, <2>2 DEF Log, LogTypeOK
  <2>4. lock' \in {"none", "main", "flusher"} /\ main' \in {"close", "write"}
    BY <1>3 DEF Log, Lock
  <2> QED
    BY <1>3, <2>2, <2>3, <2>4 DEF Log, LogTypeOK
<1>4. CASE CloseFile
  <2>1. /\ files' \in [0..MaxFiles -> Content] /\ buffer' \in Content
        /\ fd' \in {"null", "open", "closed"} /\ loaded' \in {"null", "open", "closed"}
        /\ hurt' \in BOOLEAN
    BY <1>1, <1>4 DEF CloseFile, LogTypeOK
  <2> QED
    BY <1>4, <2>1 DEF CloseFile, LogTypeOK
<1>5. CASE ClearFile
  BY <1>5 DEF ClearFile, LogTypeOK
<1>6. CASE SkipMissing
  BY <1>6 DEF SkipMissing, LogTypeOK, Opened, NextFile
<1>7. CASE RemoveTarget
  BY <1>7 DEF RemoveTarget, LogTypeOK
<1>8. CASE Rename
  <2>1. i \in 1..MaxFiles /\ i - 1 \in 0..MaxFiles
    BY <1>8 DEF Rename, LogTypeOK, Opened
  <2>2. files' \in [0..MaxFiles -> Content]
    BY <1>8, <2>1 DEF Rename, LogTypeOK
  <2> QED
    BY <1>8, <2>1, <2>2 DEF Rename, LogTypeOK, NextFile
<1>9. CASE RenameFails
  BY <1>9 DEF RenameFails, LogTypeOK
<1>10. CASE Reopen
  <2>1. files' \in [0..MaxFiles -> Content]
    BY <1>10 DEF Reopen, LogTypeOK
  <2> QED
    BY <1>10, <2>1 DEF Reopen, LogTypeOK, Return, Unlock
<1>11. CASE ReopenFails
  BY <1>11 DEF ReopenFails, LogTypeOK, Return, Unlock
<1>12. CASE Write
  <2> DEFINE b == [Empty EXCEPT !.msgs = <<issued>>, !.bytes = size]
  <2>1. b \in Content
    <3>1. <<issued>> \in Seq(Nat) /\ size \in Nat
      BY DEF LogTypeOK
    <3> QED
      BY <3>1 DEF Content
  <2> HIDE DEF b
  <2>2. /\ Joined(buffer, b) \in Content /\ Joined(files[0], Joined(buffer, b)) \in Content
    BY <1>0, <2>1, JoinedProperties
  <2>3. [files EXCEPT ![0] = Joined(@, Joined(buffer, b))] \in [0..MaxFiles -> Content]
    BY <2>2 DEF LogTypeOK
  <2>4. files' \in [0..MaxFiles -> Content] /\ buffer' \in Content
    BY <1>12, <2>2, <2>3 DEF Write, LogTypeOK, b
  <2> QED
    BY <1>12, <2>4 DEF Write, LogTypeOK, Return, Unlock
<1>13. CASE WriteFails
  BY <1>13 DEF WriteFails, LogTypeOK, Return, Unlock
<1>14. CASE Wake \/ FlusherStops \/ LockSink \/ LoadFile
  BY <1>14 DEF Wake, FlusherStops, LockSink, LoadFile, LogTypeOK, Lock
<1>15. CASE FlushFile
  BY <1>1, <1>15 DEF FlushFile, LogTypeOK, FlushDone, Unlock
<1>16. CASE FlushClosed
  <2>1. CASE Die
    BY <1>2, <1>16, <2>1 DEF FlushClosed, LogTypeOK, FlushDone, Die
  <2>2. CASE ~Die
    BY <1>1, <1>16, <2>2 DEF FlushClosed, LogTypeOK, FlushDone, Unlock
  <2> QED
    BY <2>1, <2>2
<1>17. CASE Exit \/ StopFlusher
  <2>1. CASE Exit
    BY <2>1 DEF Exit, LogTypeOK
  <2>2. CASE StopFlusher
    BY <2>2 DEF StopFlusher, LogTypeOK
  <2> QED
    BY <1>17, <2>1, <2>2
<1>18. CASE Join
  <2>1. files' = files \/ files' = [files EXCEPT ![0] = Joined(@, buffer)]
    BY <1>18 DEF Join
  <2>2. files' \in [0..MaxFiles -> Content]
    BY <1>1, <2>1 DEF LogTypeOK
  <2> QED
    BY <1>2, <1>18, <2>2 DEF Join, LogTypeOK
<1>19. CASE Kill
  BY <1>2, <1>19 DEF Kill, LogTypeOK
<1>20. CASE Restart
  <2>1. [files[0] EXCEPT !.there = TRUE] \in Content
    BY <1>0 DEF Content
  <2>2. files' = [files EXCEPT ![0] = [files[0] EXCEPT !.there = TRUE]]
    BY <1>20 DEF Restart, LogTypeOK
  <2>3. files' \in [0..MaxFiles -> Content] /\ files'[0] \in Content
    BY <2>1, <2>2 DEF LogTypeOK
  <2>4. files'[0].bytes \in Nat
    BY <2>3 DEF Content
  <2> QED
    BY <1>20, <2>3, <2>4 DEF Restart, LogTypeOK
<1>21. CASE Over
  BY <1>21 DEF Over, vars, LogTypeOK
<1> QED
  BY <1>3, <1>4, <1>5, <1>6, <1>7, <1>8, <1>9, <1>10, <1>11, <1>12, <1>13, <1>14, <1>15,
     <1>16, <1>17, <1>18, <1>19, <1>20, <1>21
     DEF LogNext, Works, Rotate, Fails, Flushes

LEMMA LockedKept ==
  ASSUME LogTypeOK, Locked, Opened, LogNext
  PROVE  Locked'
<1> USE DEF Locked, Inside, Rotating
<1>1. CASE Log
  BY <1>1 DEF Log, Lock
<1>2. CASE CloseFile
  BY <1>2 DEF CloseFile
<1>3. CASE ClearFile \/ RemoveTarget \/ RenameFails
  BY <1>3 DEF ClearFile, RemoveTarget, RenameFails
<1>4. CASE SkipMissing \/ Rename
  BY <1>4 DEF SkipMissing, Rename, NextFile
<1>5. CASE Reopen \/ ReopenFails \/ Write \/ WriteFails
  BY <1>5 DEF Reopen, ReopenFails, Write, WriteFails, Return, Unlock
<1>6. CASE Wake \/ FlusherStops \/ LockSink
  BY <1>6 DEF Wake, FlusherStops, LockSink, Lock
<1>7. CASE LoadFile
  BY <1>7 DEF LoadFile, Opened
<1>8. CASE FlushFile
  BY <1>8 DEF FlushFile, FlushDone, Unlock, LogTypeOK
<1>9. CASE FlushClosed
  BY <1>9 DEF FlushClosed, FlushDone, Unlock, LogTypeOK, Die
<1>10. CASE Exit \/ StopFlusher
  BY <1>10 DEF Exit, StopFlusher
<1>11. CASE Join \/ Kill
  BY <1>11 DEF Join, Kill, Die
<1>12. CASE Restart
  BY <1>12 DEF Restart, Opened, Alive
<1>13. CASE Over
  BY <1>13 DEF Over, vars
<1> QED
  BY <1>1, <1>2, <1>3, <1>4, <1>5, <1>6, <1>7, <1>8, <1>9, <1>10, <1>11, <1>12, <1>13
     DEF LogNext, Works, Rotate, Fails, Flushes

LEMMA OpenedKept ==
  ASSUME LogTypeOK, Opened, LogNext
  PROVE  Opened'
<1> USE DEF Opened, Alive, Rotating
<1>0. currentSize \in Nat /\ MaxSize \in Nat /\ MaxFiles \in Nat /\ i \in Nat
  BY LogAssumption DEF LogTypeOK
<1>1. CASE Log
  <2>1. /\ size' \in Nat /\ currentSize' = currentSize + size'
        /\ main = "idle" /\ UNCHANGED <<fd, buffer, i, flusher>>
        /\ main' = IF currentSize' > MaxSize THEN "close" ELSE "write"
    <3>1. size' \in Sizes
      BY <1>1 DEF Log
    <3>2. size' \in Nat
      BY <3>1, LogAssumption
    <3> QED
      BY <1>1, <3>2 DEF Log
  <2> DEFINE next == size'
  <2>5. next \in Nat /\ currentSize' = currentSize + next
    BY <2>1
  <2> HIDE DEF next
  <2>6. currentSize > MaxSize => currentSize + next > MaxSize
    BY <1>0, <2>5
  <2>2. currentSize > MaxSize => main' = "close"
    BY <2>1, <2>5, <2>6
  <2>3. main' = "close" => currentSize' > MaxSize
    BY <1>0, <2>1
  <2>4. main' \in {"close", "write"}
    BY <2>1
  <2> QED
    BY <2>1, <2>2, <2>3, <2>4
<1>2. CASE CloseFile
  BY <1>2 DEF CloseFile, LogTypeOK
<1>3. CASE ClearFile \/ RemoveTarget \/ RenameFails
  BY <1>0, <1>3 DEF ClearFile, RemoveTarget, RenameFails
<1>4. CASE SkipMissing \/ Rename
  BY <1>0, <1>4 DEF SkipMissing, Rename, NextFile
<1>5. CASE Reopen \/ ReopenFails \/ Write \/ WriteFails
  BY <1>0, <1>5 DEF Reopen, ReopenFails, Write, WriteFails, Return
<1>6. CASE Wake \/ FlusherStops \/ LockSink \/ LoadFile
  BY <1>6 DEF Wake, FlusherStops, LockSink, LoadFile
<1>7. CASE FlushFile
  BY <1>7 DEF FlushFile, FlushDone
<1>8. CASE FlushClosed
  BY <1>8 DEF FlushClosed, FlushDone, Die
<1>9. CASE Exit \/ StopFlusher
  BY <1>9 DEF Exit, StopFlusher
<1>10. CASE Join \/ Kill
  BY <1>10 DEF Join, Kill, Die
<1>11. CASE Restart
  BY <1>11 DEF Restart
<1>12. CASE Over
  BY <1>12 DEF Over, vars
<1> QED
  BY <1>1, <1>2, <1>3, <1>4, <1>5, <1>6, <1>7, <1>8, <1>9, <1>10, <1>11, <1>12
     DEF LogNext, Works, Rotate, Fails, Flushes

\* What the sink has written to the file that is open.
WrittenBytes == files[0].bytes + buffer.bytes
WrittenCount == Len(files[0].msgs) + Len(buffer.msgs)

\* Counted and WithinSize in terms of these sums.
BackupsWithin == \A k \in 1..MaxFiles : Within(files[k])
SumsWithin == WrittenBytes <= MaxSize \/ WrittenCount <= 1
SumsCounted ==
  fd = "open" =>
    IF main = "write"
      THEN /\ WrittenBytes + size <= currentSize
           /\ currentSize <= MaxSize \/ WrittenCount = 0
      ELSE WrittenBytes <= currentSize

LEMMA SumsSuffice ==
  LogTypeOK =>
    /\ WrittenBytes \in Nat /\ WrittenCount \in Nat
    /\ Counted /\ WithinSize <=> SumsCounted /\ SumsWithin /\ BackupsWithin
<1> SUFFICES ASSUME LogTypeOK
             PROVE  /\ WrittenBytes \in Nat /\ WrittenCount \in Nat
                    /\ Counted /\ WithinSize <=> SumsCounted /\ SumsWithin /\ BackupsWithin
  OBVIOUS
<1>1. files[0] \in Content /\ buffer \in Content
  BY Zero DEF LogTypeOK
<1>2. /\ Joined(files[0], buffer).bytes = WrittenBytes
      /\ Len(Joined(files[0], buffer).msgs) = WrittenCount
  BY <1>1, JoinedProperties DEF WrittenBytes, WrittenCount
<1>3. WrittenBytes \in Nat /\ WrittenCount \in Nat
  BY <1>1, JoinedProperties DEF WrittenBytes, WrittenCount
<1>4. WithinSize <=> SumsWithin /\ BackupsWithin
  BY <1>2 DEF WithinSize, Within, SumsWithin, BackupsWithin
<1>5. Counted <=> SumsCounted
  BY DEF Counted, SumsCounted, WrittenBytes, WrittenCount
<1> QED
  BY <1>3, <1>4, <1>5

SumsNat == WrittenBytes \in Nat /\ WrittenCount \in Nat

LEMMA SumsSufficeNext ==
  LogTypeOK' =>
    /\ WrittenBytes' \in Nat /\ WrittenCount' \in Nat
    /\ Counted' /\ WithinSize' <=> SumsCounted' /\ SumsWithin' /\ BackupsWithin'
<1>1. LogTypeOK => SumsNat
  BY SumsSuffice DEF SumsNat
<1>2. LogTypeOK => (Counted /\ WithinSize <=> SumsCounted /\ SumsWithin /\ BackupsWithin)
  BY SumsSuffice
<1>3. LogTypeOK' => SumsNat'
  BY <1>1, PTL
<1>4. LogTypeOK' =>
        (Counted' /\ WithinSize' <=> SumsCounted' /\ SumsWithin' /\ BackupsWithin')
  BY <1>2, PTL
<1> QED
  BY <1>3, <1>4 DEF SumsNat

\* The buffer is passed on, or lost, or nothing happens to it.
PassedOn == /\ files' = [files EXCEPT ![0] = Joined(files[0], buffer)]
            /\ buffer' = Empty
Lost == UNCHANGED files /\ buffer' = Empty

LEMMA Passed ==
  ASSUME LogTypeOK, PassedOn \/ Lost \/ UNCHANGED diskVars
  PROVE  /\ WrittenBytes' <= WrittenBytes /\ WrittenCount' <= WrittenCount
         /\ \A k \in 1..MaxFiles : files'[k] = files[k]
<1>1. files[0] \in Content /\ buffer \in Content
  BY Zero DEF LogTypeOK
<1>2. /\ Len(files[0].msgs) \in Nat /\ Len(buffer.msgs) \in Nat
      /\ files[0].bytes \in Nat /\ buffer.bytes \in Nat
  BY <1>1, JoinedProperties
<1>3. CASE PassedOn
  <2>1. files'[0] = Joined(files[0], buffer) /\ buffer' = Empty
    BY <1>3, Zero DEF PassedOn, LogTypeOK
  <2>2. \A k \in 1..MaxFiles : files'[k] = files[k]
    BY <1>3, Zero DEF PassedOn, LogTypeOK
  <2>3. /\ files'[0].bytes = files[0].bytes + buffer.bytes
        /\ Len(files'[0].msgs) = Len(files[0].msgs) + Len(buffer.msgs)
    <3>1. /\ Joined(files[0], buffer).bytes = files[0].bytes + buffer.bytes
          /\ Len(Joined(files[0], buffer).msgs) = Len(files[0].msgs) + Len(buffer.msgs)
      BY <1>1, JoinedProperties
    <3> QED
      BY <2>1, <3>1
  <2>4. buffer'.bytes = 0 /\ Len(buffer'.msgs) = 0
    BY <2>1, EmptyProperties
  <2>5. WrittenBytes' <= WrittenBytes
    BY <1>2, <2>3, <2>4 DEF WrittenBytes
  <2>6. WrittenCount' <= WrittenCount
    BY <1>2, <2>3, <2>4 DEF WrittenCount
  <2> QED
    BY <2>2, <2>5, <2>6
<1>4. CASE Lost
  <2>1. buffer'.bytes = 0 /\ Len(buffer'.msgs) = 0 /\ files' = files
    BY <1>4, EmptyProperties DEF Lost
  <2>2. WrittenBytes' <= WrittenBytes
    BY <1>2, <2>1 DEF WrittenBytes
  <2>3. WrittenCount' <= WrittenCount
    <3> DEFINE n == Len(files[0].msgs)
               o == Len(buffer.msgs)
    <3>1. WrittenCount' = n + 0 /\ WrittenCount = n + o
      BY <2>1 DEF WrittenCount
    <3>2. n \in Nat /\ o \in Nat
      BY <1>2
    <3> HIDE DEF n, o
    <3> QED
      BY <3>1, <3>2
  <2> QED
    BY <2>1, <2>2, <2>3
<1>5. CASE UNCHANGED diskVars
  BY <1>2, <1>5 DEF WrittenBytes, WrittenCount
<1> QED
  BY <1>3, <1>4, <1>5

\* The limit, through every step: the size counts at least what is written.
LEMMA SumsKept ==
  ASSUME LogTypeOK, LogTypeOK', Opened, SumsCounted, SumsWithin, BackupsWithin, LogNext
  PROVE  SumsCounted' /\ SumsWithin' /\ BackupsWithin'
<1>0. /\ WrittenBytes \in Nat /\ WrittenCount \in Nat
      /\ currentSize \in Nat /\ MaxSize \in Nat /\ size \in Nat
      /\ files[0] \in Content /\ buffer \in Content
  BY SumsSuffice, LogAssumption, Zero DEF LogTypeOK
<1>1. WrittenBytes' \in Nat /\ WrittenCount' \in Nat
  BY SumsSufficeNext
\* A step that writes nothing keeps within the limit, and the count as well unless
\* it opens a file or gets to where a message is written.
<1>2. ASSUME PassedOn \/ Lost \/ UNCHANGED diskVars
      PROVE  SumsWithin' /\ BackupsWithin'
  <2>1. SumsWithin'
    BY <1>0, <1>1, <1>2, Passed DEF SumsWithin
  <2>2. BackupsWithin'
    BY <1>2, Passed DEF BackupsWithin, Within
  <2> QED
    BY <2>1, <2>2
<1>3. ASSUME PassedOn \/ Lost \/ UNCHANGED diskVars,
             fd' # "open" \/ UNCHANGED <<fd, currentSize, main, size>>
      PROVE  SumsCounted'
  <2>1. CASE fd' # "open"
    BY <2>1 DEF SumsCounted
  <2>2. CASE UNCHANGED <<fd, currentSize, main, size>>
    <3>1. WrittenBytes' <= WrittenBytes /\ WrittenCount' <= WrittenCount
      BY <1>3, Passed
    <3>2. SumsCounted'
      <4>1. fd = "open" /\ main = "write" => WrittenBytes' + size <= currentSize
        <5>1. fd = "open" /\ main = "write" => WrittenBytes + size <= currentSize
          BY DEF SumsCounted
        <5>2. ASSUME fd = "open" /\ main = "write"
              PROVE  WrittenBytes' + size <= currentSize
          <6> DEFINE a == WrittenBytes
                     c == WrittenBytes'
          <6>1. /\ a \in Nat /\ c \in Nat /\ size \in Nat /\ currentSize \in Nat
                /\ c <= a /\ a + size <= currentSize
            BY <1>0, <1>1, <3>1, <5>1, <5>2
          <6> HIDE DEF a, c
          <6>2. c + size <= currentSize
            BY <6>1
          <6> QED
            BY <6>2 DEF c
        <5> QED
          BY <5>2
      <4>2. fd = "open" /\ main = "write" => currentSize <= MaxSize \/ WrittenCount' = 0
        <5>1. fd = "open" /\ main = "write" => currentSize <= MaxSize \/ WrittenCount = 0
          BY DEF SumsCounted
        <5> QED
          BY <1>0, <1>1, <3>1, <5>1
      <4>3. fd = "open" /\ main # "write" => WrittenBytes' <= currentSize
        <5>1. fd = "open" /\ main # "write" => WrittenBytes <= currentSize
          BY DEF SumsCounted
        <5> QED
          BY <1>0, <1>1, <3>1, <5>1
      <4> QED
        BY <2>2, <4>1, <4>2, <4>3 DEF SumsCounted
    <3> QED
      BY <3>2
  <2> QED
    BY <1>3, <2>1, <2>2
<1>4. CASE Log
  <2>1. size' \in Sizes
    BY <1>4 DEF Log
  <2>2. size' \in Nat
    BY <2>1, LogAssumption
  <2>3. /\ UNCHANGED <<files, buffer, fd>> /\ main = "idle"
        /\ currentSize' = currentSize + size'
        /\ main' = IF currentSize' > MaxSize THEN "close" ELSE "write"
    BY <1>4 DEF Log
  <2>4. WrittenBytes' = WrittenBytes
    BY <2>3 DEF WrittenBytes
  <2>5. fd = "open" => WrittenBytes <= currentSize
    BY <2>3 DEF SumsCounted
  <2> DEFINE next == size'
  <2>6. next \in Nat /\ currentSize' = currentSize + next
    BY <2>2, <2>3
  <2> HIDE DEF next
  <2>7. /\ fd = "open" => WrittenBytes' + next <= currentSize'
        /\ fd = "open" => WrittenBytes' <= currentSize'
    BY <1>0, <2>4, <2>5, <2>6
  <2>8. fd = "open" => WrittenBytes' + size' <= currentSize'
    BY <2>7 DEF next
  <2>9. main' = "write" => currentSize' <= MaxSize
    <3>1. currentSize' \in Nat
      BY DEF LogTypeOK
    <3>2. main' = "write" => ~(currentSize' > MaxSize)
      BY <2>3
    <3> QED
      BY <1>0, <3>1, <3>2
  <2>10. SumsCounted'
    BY <2>3, <2>7, <2>8, <2>9 DEF SumsCounted
  <2> QED
    BY <1>2, <2>3, <2>10
<1>5. CASE CloseFile
  <2>1. fd' # "open" /\ (PassedOn \/ Lost \/ UNCHANGED diskVars)
    BY <1>5 DEF CloseFile, PassedOn, Lost
  <2> QED
    BY <1>2, <1>3, <2>1
<1>6. CASE ClearFile
  BY <1>2, <1>3, <1>6 DEF ClearFile
<1>7. CASE SkipMissing
  <2>1. fd' # "open" /\ UNCHANGED diskVars
    BY <1>7 DEF SkipMissing, Opened
  <2> QED
    BY <1>2, <1>3, <2>1
<1>8. CASE RenameFails
  <2>1. fd' # "open" /\ UNCHANGED diskVars
    BY <1>8 DEF RenameFails, Opened
  <2> QED
    BY <1>2, <1>3, <2>1
<1>9. CASE RemoveTarget
  <2>1. i \in 1..MaxFiles /\ fd' # "open"
    BY <1>9 DEF RemoveTarget, Opened, LogTypeOK
  <2>2. buffer' = buffer /\ files' \in {files, [files EXCEPT ![i] = NoFile]}
    BY <1>9 DEF RemoveTarget
  <2>3. files'[0] = files[0]
    BY <2>1, <2>2, Zero DEF LogTypeOK
  <2>4. WrittenBytes' = WrittenBytes /\ WrittenCount' = WrittenCount
    BY <2>2, <2>3 DEF WrittenBytes, WrittenCount
  <2>5. \A k \in 1..MaxFiles : files'[k] = files[k] \/ files'[k] = NoFile
    BY <2>1, <2>2 DEF LogTypeOK
  <2>6. Within(NoFile)
    BY EmptyProperties DEF Within
  <2>7. BackupsWithin'
    <3> SUFFICES ASSUME NEW k \in 1..MaxFiles PROVE Within(files'[k])
      BY DEF BackupsWithin, Within
    <3> QED
      BY <2>5, <2>6 DEF BackupsWithin
  <2> QED
    BY <2>1, <2>4, <2>7 DEF SumsCounted, SumsWithin
<1>10. CASE Rename
  <2>1. i \in 1..MaxFiles /\ i - 1 \in 0..MaxFiles /\ fd' # "open" /\ buffer = Empty
    BY <1>10, Zero DEF Rename, Opened, LogTypeOK
  <2>2. buffer' = buffer /\ files' = [files EXCEPT ![i] = files[i - 1], ![i - 1] = NoFile]
    BY <1>10 DEF Rename
  <2> DEFINE j == i - 1
  <2>3. j \in 0..MaxFiles /\ j # i
    BY <2>1
  <2>4. files' = [[files EXCEPT ![i] = files[j]] EXCEPT ![j] = NoFile]
    BY <2>2
  <2>11. i \in 1..MaxFiles /\ (j # 0 => j \in 1..MaxFiles)
    BY <2>1
  <2> HIDE DEF j
  <2>5. /\ files'[0] = IF j = 0 THEN NoFile ELSE files[0]
        /\ \A k \in 1..MaxFiles :
             files'[k] = IF k = j THEN NoFile ELSE IF k = i THEN files[j] ELSE files[k]
    BY <2>1, <2>3, <2>4, Zero DEF LogTypeOK
  <2>6. files[0].bytes \in Nat /\ Len(files[0].msgs) \in Nat
    BY <1>0, JoinedProperties
  <2>7. WrittenBytes = files[0].bytes /\ WrittenCount = Len(files[0].msgs)
    BY <2>1, <2>6, EmptyProperties DEF WrittenBytes, WrittenCount
  <2>8. Within(files[0]) /\ Within(NoFile)
    BY <2>7, EmptyProperties DEF Within, SumsWithin
  <2>9. Within(files[j])
    BY <2>8, <2>11 DEF BackupsWithin
  <2>10. BackupsWithin'
    <3> SUFFICES ASSUME NEW k \in 1..MaxFiles PROVE Within(files'[k])
      BY DEF BackupsWithin, Within
    <3> QED
      BY <2>5, <2>8, <2>9 DEF BackupsWithin
  <2>12. SumsWithin'
    <3>1. CASE j = 0
      <4>1. Len(files'[0].msgs) = 0 /\ Len(buffer'.msgs) = 0
        BY <2>1, <2>2, <2>5, <3>1, EmptyProperties
      <4> QED
        BY <4>1 DEF SumsWithin, WrittenCount
    <3>2. CASE j # 0
      <4>1. files'[0] = files[0] /\ buffer' = buffer
        BY <2>2, <2>5, <3>2
      <4> QED
        BY <4>1 DEF SumsWithin, WrittenBytes, WrittenCount
    <3> QED
      BY <3>1, <3>2
  <2> QED
    BY <2>1, <2>10, <2>12 DEF SumsCounted
\* The file that is truncated is empty, and so is the buffer.
<1>11. ASSUME main = "reopen", buffer' = buffer, files' = [files EXCEPT ![0] = Empty]
       PROVE  WrittenBytes' = 0 /\ WrittenCount' = 0 /\ SumsWithin' /\ BackupsWithin'
  <2>1. buffer = Empty
    BY <1>11 DEF Opened
  <2>2. files'[0] = Empty /\ \A k \in 1..MaxFiles : files'[k] = files[k]
    BY <1>11, Zero DEF LogTypeOK
  <2>3. /\ files'[0].bytes = 0 /\ Len(files'[0].msgs) = 0
        /\ buffer'.bytes = 0 /\ Len(buffer'.msgs) = 0
    BY <1>11, <2>1, <2>2, EmptyProperties
  <2>4. WrittenBytes' = 0 /\ WrittenCount' = 0
    BY <2>3 DEF WrittenBytes, WrittenCount
  <2>5. BackupsWithin'
    BY <2>2 DEF BackupsWithin, Within
  <2> QED
    BY <2>4, <2>5 DEF SumsWithin
<1>12. CASE Reopen
  <2>1. WrittenBytes' = 0 /\ WrittenCount' = 0 /\ SumsWithin' /\ BackupsWithin'
    BY <1>11, <1>12 DEF Reopen
  <2>2. \/ main' = "idle" /\ currentSize' = 0
        \/ main' = "write" /\ currentSize' = size /\ size' = size
    BY <1>12 DEF Reopen, Return
  <2> QED
    BY <1>0, <2>1, <2>2 DEF SumsCounted
<1>13. CASE ReopenFails
  <2>1. fd' # "open" /\ main = "reopen" /\ buffer' = buffer
    BY <1>13 DEF ReopenFails, Opened
  <2>2. SumsCounted'
    BY <2>1 DEF SumsCounted
  <2>3. CASE files' = files
    BY <1>2, <2>1, <2>2, <2>3
  <2>4. CASE files' = [files EXCEPT ![0] = Empty]
    BY <1>11, <2>1, <2>2, <2>4
  <2> QED
    BY <1>13, <2>3, <2>4 DEF ReopenFails
<1>14. CASE Write
  <2> DEFINE m == [Empty EXCEPT !.msgs = <<issued>>, !.bytes = size]
  <2>1. m \in Content /\ m.bytes = size /\ Len(m.msgs) = 1
    <3>1. <<issued>> \in Seq(Nat) /\ size \in Nat /\ Len(<<issued>>) = 1
      BY DEF LogTypeOK
    <3>2. m.bytes = size /\ m.msgs = <<issued>>
      BY DEF Empty
    <3>3. m \in Content
      BY <3>1 DEF Empty, Content
    <3> HIDE DEF m
    <3> QED
      BY <3>1, <3>2, <3>3
  <2>2. \/ buffer' = Joined(buffer, m) /\ files' = files
        \/ buffer' = Empty /\ files' = [files EXCEPT ![0] = Joined(@, Joined(buffer, m))]
    BY <1>14 DEF Write
  <2>3. /\ main' = "idle" /\ UNCHANGED <<fd, currentSize>> /\ main = "write" /\ fd = "open"
    BY <1>14 DEF Write, Return, Opened
  <2> HIDE DEF m
  <2> DEFINE b == Joined(buffer, m)
  <2>4. /\ b \in Content /\ b.bytes = buffer.bytes + size
        /\ Len(b.msgs) = Len(buffer.msgs) + 1
    <3>1. /\ Joined(buffer, m) \in Content
          /\ Joined(buffer, m).bytes = buffer.bytes + m.bytes
          /\ Len(Joined(buffer, m).msgs) = Len(buffer.msgs) + Len(m.msgs)
      BY <1>0, <2>1, JoinedProperties
    <3> QED
      BY <2>1, <3>1
  <2>5. /\ files[0].bytes \in Nat /\ Len(files[0].msgs) \in Nat
        /\ buffer.bytes \in Nat /\ Len(buffer.msgs) \in Nat
    BY <1>0, JoinedProperties
  <2> HIDE DEF b
  <2>6. /\ WrittenBytes' = WrittenBytes + size /\ WrittenCount' = WrittenCount + 1
        /\ \A k \in 1..MaxFiles : files'[k] = files[k]
    <3>1. CASE buffer' = b /\ files' = files
      <4>1. WrittenBytes' = files[0].bytes + (buffer.bytes + size)
        BY <2>4, <3>1 DEF WrittenBytes
      <4>2. WrittenBytes' = WrittenBytes + size
        BY <1>0, <2>5, <4>1 DEF WrittenBytes
      <4> DEFINE n == Len(files[0].msgs)
                 o == Len(buffer.msgs)
      <4>3. /\ WrittenCount' = n + (o + 1) /\ WrittenCount = n + o
            /\ n \in Nat /\ o \in Nat
        BY <2>4, <2>5, <3>1 DEF WrittenCount
      <4> HIDE DEF n, o
      <4>4. WrittenCount' = WrittenCount + 1
        BY <4>3
      <4> QED
        BY <3>1, <4>2, <4>4
    <3>2. CASE buffer' = Empty /\ files' = [files EXCEPT ![0] = Joined(files[0], b)]
      <4>1. files'[0] = Joined(files[0], b) /\ \A k \in 1..MaxFiles : files'[k] = files[k]
        BY <3>2, Zero DEF LogTypeOK
      <4>2. /\ files'[0].bytes = files[0].bytes + b.bytes
            /\ Len(files'[0].msgs) = Len(files[0].msgs) + Len(b.msgs)
        <5>1. /\ Joined(files[0], b).bytes = files[0].bytes + b.bytes
              /\ Len(Joined(files[0], b).msgs) = Len(files[0].msgs) + Len(b.msgs)
          BY <1>0, <2>4, JoinedProperties
        <5> QED
          BY <4>1, <5>1
      <4>3. buffer'.bytes = 0 /\ Len(buffer'.msgs) = 0
        BY <3>2, EmptyProperties
      <4>4. WrittenBytes' = WrittenBytes + size
        BY <1>0, <2>4, <2>5, <4>2, <4>3 DEF WrittenBytes
      <4> DEFINE n == Len(files[0].msgs)
                 o == Len(buffer.msgs)
      <4>5. /\ WrittenCount' = n + (o + 1) + 0 /\ WrittenCount = n + o
            /\ n \in Nat /\ o \in Nat
        BY <2>4, <2>5, <4>2, <4>3 DEF WrittenCount
      <4> HIDE DEF n, o
      <4>6. WrittenCount' = WrittenCount + 1
        BY <4>5
      <4> QED
        BY <4>1, <4>4, <4>6
    <3> QED
      BY <2>2, <3>1, <3>2 DEF b
  <2>7. /\ WrittenBytes + size <= currentSize
        /\ currentSize <= MaxSize \/ WrittenCount = 0
    BY <2>3 DEF SumsCounted
  <2>8. BackupsWithin'
    BY <2>6 DEF BackupsWithin, Within
  <2>9. SumsWithin'
    BY <1>0, <2>6, <2>7 DEF SumsWithin
  <2>10. SumsCounted'
    BY <1>0, <2>3, <2>6, <2>7 DEF SumsCounted
  <2> QED
    BY <2>8, <2>9, <2>10
<1>15. CASE WriteFails
  <2>1. /\ main' = "idle" /\ UNCHANGED <<fd, currentSize, files, buffer>>
        /\ main = "write"
    BY <1>15 DEF WriteFails, Return
  <2>2. WrittenBytes' = WrittenBytes
    BY <2>1 DEF WrittenBytes
  <2>3. SumsCounted'
    BY <1>0, <2>1, <2>2 DEF SumsCounted
  <2> QED
    BY <1>2, <2>1, <2>3
<1>16. CASE Wake \/ FlusherStops \/ LockSink \/ LoadFile
  <2>1. UNCHANGED <<files, buffer, fd, currentSize, main, size>>
    BY <1>16 DEF Wake, FlusherStops, LockSink, LoadFile
  <2> QED
    BY <1>2, <1>3, <2>1
<1>17. CASE FlushFile
  <2>1. /\ PassedOn \/ UNCHANGED diskVars
        /\ UNCHANGED <<fd, currentSize, main, size>>
    BY <1>17 DEF FlushFile, PassedOn
  <2> QED
    BY <1>2, <1>3, <2>1
<1>18. CASE FlushClosed
  <2>1. \/ PassedOn /\ UNCHANGED <<fd, currentSize, main, size>>
        \/ UNCHANGED <<files, buffer, fd, currentSize, main, size>>
        \/ Lost /\ fd' # "open"
    BY <1>18 DEF FlushClosed, PassedOn, Lost, Die
  <2> QED
    BY <1>2, <1>3, <2>1
<1>19. CASE Exit \/ StopFlusher
  <2>1. /\ UNCHANGED <<files, buffer, fd, currentSize>>
        /\ main # "write" /\ main' # "write"
    BY <1>19 DEF Exit, StopFlusher
  <2>2. WrittenBytes' = WrittenBytes
    BY <2>1 DEF WrittenBytes
  <2>3. SumsCounted'
    BY <2>1, <2>2 DEF SumsCounted
  <2> QED
    BY <1>2, <2>1, <2>3
<1>20. CASE Join \/ Kill
  <2>1. (PassedOn \/ Lost) /\ fd' # "open"
    BY <1>20 DEF Join, Kill, PassedOn, Lost, Die
  <2> QED
    BY <1>2, <1>3, <2>1
<1>21. CASE Restart
  <2> DEFINE c == [files[0] EXCEPT !.there = TRUE]
  <2>1. buffer = Empty /\ buffer' = buffer /\ main' = "idle"
    BY <1>21 DEF Restart, Opened, LogTypeOK, Alive
  <2>2. files' = [files EXCEPT ![0] = c]
    BY <1>21 DEF Restart
  <2>3. files'[0] = c /\ \A k \in 1..MaxFiles : files'[k] = files[k]
    BY <2>2, Zero DEF LogTypeOK
  <2>4. c.bytes = files[0].bytes /\ c.msgs = files[0].msgs
    BY <1>0 DEF Content
  <2>5. currentSize' = files'[0].bytes
    BY <1>21 DEF Restart
  <2> HIDE DEF c
  <2>6. files[0].bytes \in Nat /\ Len(files[0].msgs) \in Nat
    BY <1>0, JoinedProperties
  <2>7. /\ WrittenBytes' = WrittenBytes /\ WrittenCount' = WrittenCount
        /\ WrittenBytes' = currentSize'
    BY <2>1, <2>3, <2>4, <2>5, <2>6, EmptyProperties DEF WrittenBytes, WrittenCount
  <2>8. BackupsWithin'
    BY <2>3 DEF BackupsWithin, Within
  <2>9. SumsCounted' /\ SumsWithin'
    BY <1>0, <2>1, <2>7 DEF SumsCounted, SumsWithin
  <2> QED
    BY <2>8, <2>9
<1>22. CASE Over
  BY <1>2, <1>3, <1>22 DEF Over, vars
<1> QED
  BY <1>4, <1>5, <1>6, <1>7, <1>8, <1>9, <1>10, <1>12, <1>13, <1>14, <1>15, <1>16, <1>17,
     <1>18, <1>19, <1>20, <1>21, <1>22 DEF LogNext, Works, Rotate, Fails, Flushes

----------------------------------------------------------------------------

LEMMA InitLogInv == LogInit => LogInv
<1> SUFFICES ASSUME LogInit PROVE LogInv
  OBVIOUS
<1> USE Zero, EmptyProperties DEF LogInit
<1>1. files[0] = Empty /\ \A k \in 1..MaxFiles : files[k] = NoFile
  OBVIOUS
<1>2. LogTypeOK
  BY LogAssumption DEF LogTypeOK
<1>3. Locked
  BY DEF Locked, Inside, Rotating
<1>4. Opened
  BY DEF Opened, Alive, Rotating
<1>5. WrittenBytes = 0 /\ WrittenCount = 0
  BY <1>1 DEF WrittenBytes, WrittenCount
<1>6. BackupsWithin
  BY <1>1 DEF BackupsWithin, Within
<1>7. SumsCounted /\ SumsWithin
  BY <1>5 DEF SumsCounted, SumsWithin
<1> QED
  BY <1>2, <1>3, <1>4, <1>6, <1>7, SumsSuffice DEF LogInv

LEMMA NextLogInv == LogInv /\ [LogNext]_vars => LogInv'
<1> SUFFICES ASSUME LogInv, [LogNext]_vars PROVE LogInv'
  OBVIOUS
<1>1. CASE LogNext
  <2>1. LogTypeOK'
    BY <1>1, LogTypeKept DEF LogInv
  <2>2. Locked' /\ Opened'
    BY <1>1, LockedKept, OpenedKept DEF LogInv
  <2>3. SumsCounted /\ SumsWithin /\ BackupsWithin
    BY SumsSuffice DEF LogInv
  <2>4. SumsCounted' /\ SumsWithin' /\ BackupsWithin'
    BY <1>1, <2>1, <2>3, SumsKept DEF LogInv
  <2>5. Counted' /\ WithinSize'
    BY <2>1, <2>4, SumsSufficeNext
  <2> QED
    BY <2>1, <2>2, <2>5 DEF LogInv
<1>2. CASE UNCHANGED vars
  <2>1. LogTypeOK' /\ Locked' /\ Opened'
    BY <1>2 DEF vars, LogInv, LogTypeOK, Locked, Opened, Inside, Rotating, Alive
  <2>2. Counted'
    BY <1>2 DEF vars, LogInv, Counted
  <2>3. WithinSize'
    BY <1>2 DEF vars, LogInv, WithinSize, Within, Joined
  <2> QED
    BY <2>1, <2>2, <2>3 DEF LogInv
<1> QED
  BY <1>1, <1>2

\* LogInv holds always, for every number and size of files and messages.
THEOREM LogInvariance == LogSpec => []LogInv
BY InitLogInv, NextLogInv, PTL DEF LogSpec

\* The log's state is well formed: rotate_'s index and the size stay in range.
THEOREM LogTypeCorrect == LogSpec => []LogTypeOK
<1>1. LogInv => LogTypeOK
  BY DEF LogInv
<1> QED
  BY <1>1, LogInvariance, PTL

\* However many renames and opens of rotate_ fail and wherever the process is killed,
\* file_helper::write is called with an open file only.
THEOREM NothingWrittenClosed == LogSpec => []WritesOpen
<1>1. LogInv => WritesOpen
  BY DEF LogInv, Opened, WritesOpen
<1> QED
  BY <1>1, LogInvariance, PTL

\* A sink with a std::mutex is never flushed by the registry's thread through the
\* FILE that rotate_ has closed.
THEOREM LockedFlushSafe == LogSpec => []LockedFlushIsSafe
<1>1. LogInv => LockedFlushIsSafe
  BY DEF LogInv, Locked, LockedFlushIsSafe
<1> QED
  BY <1>1, LogInvariance, PTL

\* max_size_ is kept by each file that holds more than one message, through failed
\* rotations, failed writes and restarts.
THEOREM SizeKept == LogSpec => []WithinSize
<1>1. LogInv => WithinSize
  BY DEF LogInv
<1> QED
  BY <1>1, LogInvariance, PTL

----------------------------------------------------------------------------
(* Retention: which messages the files hold, in which order.               *)

LEMMA MessagesProperties ==
  /\ \A a, b \in Content : Messages(Joined(a, b)) = Messages(a) \cup Messages(b)
  /\ Messages(Empty) = {} /\ Messages(NoFile) = {}
<1>1. ASSUME NEW a \in Content, NEW b \in Content
      PROVE  Messages(Joined(a, b)) = Messages(a) \cup Messages(b)
  <2> DEFINE s == a.msgs
             t == b.msgs
  <2>1. s \in Seq(Nat) /\ t \in Seq(Nat) /\ Joined(a, b).msgs = s \o t
    BY JoinedProperties DEF Content
  <2>2. /\ Messages(a) = {s[k] : k \in 1..Len(s)}
        /\ Messages(b) = {t[k] : k \in 1..Len(t)}
        /\ Messages(Joined(a, b)) = {(s \o t)[k] : k \in 1..Len(s \o t)}
    BY <2>1 DEF Messages
  <2> HIDE DEF s, t
  <2>3. /\ Len(s \o t) = Len(s) + Len(t) /\ Len(s) \in Nat /\ Len(t) \in Nat
        /\ \A k \in 1..(Len(s) + Len(t)) :
             (s \o t)[k] = IF k <= Len(s) THEN s[k] ELSE t[k - Len(s)]
    BY <2>1, ConcatProperties, LenProperties
  <2>4. \A k \in 1..Len(s) : k \in 1..Len(s \o t) /\ (s \o t)[k] = s[k]
    BY <2>3
  <2>5. \A k \in 1..Len(t) :
          k + Len(s) \in 1..Len(s \o t) /\ (s \o t)[k + Len(s)] = t[k]
    BY <2>3
  <2>6. ASSUME NEW k \in 1..Len(s \o t)
        PROVE  \/ k \in 1..Len(s) /\ (s \o t)[k] = s[k]
               \/ k - Len(s) \in 1..Len(t) /\ (s \o t)[k] = t[k - Len(s)]
    BY <2>3
  <2> QED
    BY <2>2, <2>4, <2>5, <2>6
<1>2. Messages(Empty) = {} /\ Messages(NoFile) = {}
  <2>1. 1..Len(Empty.msgs) = {} /\ 1..Len(NoFile.msgs) = {}
    BY EmptyProperties
  <2> QED
    BY <2>1 DEF Messages
<1> QED
  BY <1>1, <1>2

LEMMA KeptMembers == \A m : m \in Kept <=> \E k \in 0..MaxFiles : m \in Held(k)
BY DEF Kept

\* What the files hold, and how much, stays.
SameShelf ==
  \A k \in 0..MaxFiles : /\ Held(k)' = Held(k) /\ Bytes(k)' = Bytes(k)
                         /\ files'[k].there <=> files[k].there

LEMMA ShelfOfSame == ASSUME UNCHANGED diskVars PROVE SameShelf
BY DEF SameShelf, Held, Bytes, Messages

\* The buffer is passed on to a file that is there.
LEMMA ShelfOfPassed ==
  ASSUME LogTypeOK, PassedOn, files[0].there
  PROVE  SameShelf
<1>1. files[0] \in Content /\ buffer \in Content
  BY Zero DEF LogTypeOK
<1>2. /\ files'[0] = Joined(files[0], buffer) /\ buffer' = Empty
      /\ \A k \in 0..MaxFiles : k # 0 => files'[k] = files[k]
  BY Zero DEF PassedOn, LogTypeOK
<1>3. /\ Messages(files[0])' = Messages(Joined(files[0], buffer))
      /\ Messages(buffer)' = Messages(Empty)
  BY <1>2 DEF Messages
<1>4. Held(0)' = Held(0)
  BY <1>1, <1>3, MessagesProperties DEF Held
<1>5. Bytes(0)' = Bytes(0) /\ files'[0].there
  <2>1. files'[0].bytes = files[0].bytes + buffer.bytes /\ buffer'.bytes = 0
    <3>1. Joined(files[0], buffer).bytes = files[0].bytes + buffer.bytes
      BY <1>1, JoinedProperties
    <3> QED
      BY <1>2, <3>1, EmptyProperties
  <2>2. files[0].bytes \in Nat /\ buffer.bytes \in Nat
    BY <1>1, JoinedProperties
  <2>3. files'[0].there
    BY <1>2 DEF Joined
  <2> QED
    BY <2>1, <2>2, <2>3 DEF Bytes
<1>6. ASSUME NEW k \in 0..MaxFiles, k # 0
      PROVE  Held(k)' = Held(k) /\ Bytes(k)' = Bytes(k) /\ (files'[k].there <=> files[k].there)
  <2>1. files'[k] = files[k]
    BY <1>2, <1>6
  <2> QED
    BY <1>6, <2>1 DEF Held, Bytes, Messages
<1> QED
  BY <1>4, <1>5, <1>6 DEF SameShelf

LEMMA BytesNat ==
  ASSUME LogTypeOK, NEW k \in 0..MaxFiles
  PROVE  Bytes(k) \in Nat
<1>1. files[k] \in Content /\ buffer \in Content
  BY DEF LogTypeOK
<1>2. files[k].bytes \in Nat /\ buffer.bytes \in Nat
  BY <1>1 DEF Content
<1> QED
  BY <1>2 DEF Bytes

LEMMA SortedSame ==
  ASSUME Sorted, SameShelf, issued' = issued, InHand' = InHand
  PROVE  Sorted' /\ Gone' = Gone
<1>1. \A k \in 0..MaxFiles : Held(k)' = Held(k)
  BY DEF SameShelf
<1>2. Kept' = Kept
  BY <1>1 DEF Kept
<1>3. Gone' = Gone
  BY <1>2 DEF Gone
<1> QED
  BY <1>1, <1>2, <1>3 DEF Sorted

\* The oldest messages are dropped, and the files moved without being mixed.
LEMMA SortedThins ==
  ASSUME Sorted, issued' = issued, InHand' = InHand,
         \A k \in 0..MaxFiles : Held(k)' \subseteq Kept,
         \A k, l \in 0..MaxFiles :
           k < l => \A a \in Held(k)', b \in Held(l)' : b < a,
         \A m \in Kept : m \in Kept' \/ \A n \in Kept' : m < n
  PROVE  Sorted' /\ \A m \in Gone' : m \in Gone \/ (m \in Kept /\ m \notin Kept')
<1>1. \A m : m \in Kept' <=> \E k \in 0..MaxFiles : m \in Held(k)'
  BY DEF Kept
<1>2. Kept' \subseteq Kept
  BY <1>1
<1>3. Kept \subseteq 1..issued /\ Kept \cap InHand = {}
  BY KeptMembers DEF Sorted
<1>4. \A m \in Gone' : m \in Gone \/ (m \in Kept /\ m \notin Kept')
  BY DEF Gone
<1>5. \A m \in Gone' : \A n \in Kept' : m < n
  BY <1>2, <1>4 DEF Sorted
<1>6. \A k \in 0..MaxFiles : Held(k)' \subseteq 1..issued' /\ Held(k)' \cap InHand' = {}
  BY <1>3
<1>7. InHand' \subseteq 1..issued'
  BY DEF Sorted
<1> QED
  BY <1>4, <1>5, <1>6, <1>7 DEF Sorted

LEMMA InHandIs ==
  ASSUME LogTypeOK
  PROVE  InHand = IF main \in Inside THEN {issued} ELSE {}
BY DEF LogTypeOK, InHand, Inside, Rotating, Alive

LEMMA InHandIsNext ==
  ASSUME LogTypeOK'
  PROVE  InHand' = IF main' \in Inside THEN {issued'} ELSE {}
BY DEF LogTypeOK, InHand, Inside, Rotating, Alive

LEMMA UnhurtKept ==
  ASSUME LogTypeOK, Opened, ~hurt, Unhurt, LogNext, ~hurt'
  PROVE  Unhurt'
<1> USE DEF Unhurt
<1>1. CASE Log
  BY <1>1 DEF Log
<1>2. CASE CloseFile
  BY <1>2 DEF CloseFile
<1>3. CASE ClearFile \/ RemoveTarget
  BY <1>3 DEF ClearFile, RemoveTarget, Opened
<1>4. CASE SkipMissing \/ Rename
  BY <1>4 DEF SkipMissing, Rename, NextFile
<1>5. CASE Reopen
  BY <1>5 DEF Reopen, Return
<1>6. CASE Fails
  BY <1>6 DEF Fails, RenameFails, ReopenFails, WriteFails
<1>7. CASE Write
  BY <1>7 DEF Write, Return
<1>8. CASE Wake \/ FlusherStops \/ LockSink \/ LoadFile
  BY <1>8 DEF Wake, FlusherStops, LockSink, LoadFile
<1>9. CASE FlushFile \/ FlushClosed
  BY <1>9 DEF FlushFile, FlushClosed, FlushDone
<1>10. CASE Exit \/ StopFlusher
  BY <1>10 DEF Exit, StopFlusher
<1>11. CASE Join \/ Kill
  BY <1>11 DEF Join, Kill, Die
<1>12. CASE Restart
  BY <1>12 DEF Restart, Opened, Alive
<1>13. CASE Over
  BY <1>13 DEF Over, vars
<1> QED
  BY <1>1, <1>2, <1>3, <1>4, <1>5, <1>6, <1>7, <1>8, <1>9, <1>10, <1>11, <1>12, <1>13
     DEF LogNext, Works, Rotate, Flushes

\* Nothing happens that a file would show.
LEMMA QuietKeeps ==
  ASSUME LogTypeOK, Opened, Sorted, Numbered, Filled, SameShelf,
         UNCHANGED <<main, i, issued, size, currentSize, fd>>
  PROVE  Sorted' /\ Numbered' /\ Filled'
<1>1. Sorted' /\ Gone' = Gone
  BY SortedSame DEF InHand, Alive
<1>2. /\ Spare' = Spare
      /\ \A k \in 0..MaxFiles : /\ Held(k)' = Held(k) /\ Bytes(k)' = Bytes(k)
                                /\ files'[k].there <=> files[k].there
      /\ 0 \in 0..MaxFiles
  BY Zero DEF Spare, SameShelf
<1>3. \A k \in 0..MaxFiles : Full(k)' <=> Full(k)
  BY <1>2 DEF Full
<1>4. Numbered'
  <2>1. i \in 0..MaxFiles /\ (main \in {"remove", "rename"} => i - 1 \in 0..MaxFiles)
    BY Zero DEF LogTypeOK, Opened
  <2>2. /\ files'[i].there <=> files[i].there
        /\ main = "rename" => (files'[i - 1].there <=> files[i - 1].there)
    BY <1>2, <2>1
  <2>3. /\ \A k, l \in 0..MaxFiles :
             k < l /\ k # Spare' /\ files'[l].there => files'[k].there
        /\ Gone' # {} => \A k \in 0..MaxFiles : k # Spare' => files'[k].there
        /\ \A k \in 0..MaxFiles : ~files'[k].there => Held(k)' = {}
    BY <1>1, <1>2 DEF Numbered
  <2> QED
    BY <1>2, <2>2, <2>3 DEF Numbered
<1>5. Filled'
  BY <1>2, <1>3 DEF Filled
<1> QED
  BY <1>1, <1>4, <1>5

\* Where no rotation is on.
AtRest == {"idle", "exit", "join", "dead"}

LEMMA RestKeeps ==
  ASSUME LogTypeOK, LogTypeOK', Sorted, Numbered, Filled, SameShelf,
         issued' = issued, main \in AtRest, main' \in AtRest,
         fd' = "open" => currentSize' = Bytes(0)'
  PROVE  Sorted' /\ Numbered' /\ Filled'
<1>1. Sorted' /\ Gone' = Gone
  BY SortedSame DEF InHand, AtRest, Alive
<1>2. /\ Spare' = 0 /\ Spare = 0
      /\ \A k \in 0..MaxFiles : /\ Held(k)' = Held(k) /\ Bytes(k)' = Bytes(k)
                                /\ files'[k].there <=> files[k].there
      /\ 0 \in 0..MaxFiles
  BY Zero DEF Spare, SameShelf, AtRest
<1>3. \A k \in 0..MaxFiles : Full(k)' <=> Full(k)
  BY <1>2 DEF Full
<1>4. Numbered'
  BY <1>1, <1>2 DEF Numbered, AtRest
<1>5. Filled'
  <2>1. Bytes(0)' \in Nat
    BY <1>2, BytesNat
  <2> QED
    BY <1>2, <1>3, <2>1 DEF Filled, AtRest
<1> QED
  BY <1>1, <1>4, <1>5

\* A new message is in hand.
LEMMA LogKeeps ==
  ASSUME LogTypeOK, LogTypeOK', Unhurt, Sorted, Numbered, Filled, Log
  PROVE  Sorted' /\ Numbered' /\ Filled'
<1>1. /\ main = "idle" /\ main' \in {"close", "write"} /\ fd = "open" /\ fd' = fd
      /\ issued' = issued + 1 /\ size' \in Sizes /\ currentSize' = currentSize + size'
      /\ UNCHANGED diskVars /\ issued \in Nat
  BY DEF Log, Unhurt, LogTypeOK
<1>2. SameShelf
  BY <1>1, ShelfOfSame
<1>3. /\ Spare' = 0 /\ Spare = 0
      /\ \A k \in 0..MaxFiles : /\ Held(k)' = Held(k) /\ Bytes(k)' = Bytes(k)
                                /\ files'[k].there <=> files[k].there
      /\ 0 \in 0..MaxFiles
  BY <1>1, <1>2, Zero DEF Spare, SameShelf
<1>4. \A k \in 0..MaxFiles : Full(k)' <=> Full(k)
  BY <1>3 DEF Full
<1>5. InHand = {} /\ InHand' = {issued + 1}
  BY <1>1, InHandIs, InHandIsNext DEF Inside, Rotating
<1>6. Kept' = Kept
  BY <1>3 DEF Kept
<1>7. Gone' = Gone
  <2>1. (1..(issued + 1)) \ (Kept \cup {issued + 1}) = (1..issued) \ (Kept \cup {})
    BY <1>1
  <2> QED
    BY <1>1, <1>5, <1>6, <2>1 DEF Gone
<1>8. Sorted'
  <2>1. \A k \in 0..MaxFiles : Held(k)' \subseteq 1..issued' /\ Held(k)' \cap InHand' = {}
    <3> SUFFICES ASSUME NEW k \in 0..MaxFiles, NEW m \in Held(k)'
                 PROVE  m \in 1..issued' /\ m \notin InHand'
      OBVIOUS
    <3>1. m \in 1..issued
      BY <1>3 DEF Sorted
    <3> QED
      BY <1>1, <1>5, <3>1
  <2>2. InHand' \subseteq 1..issued'
    BY <1>1, <1>5
  <2> QED
    BY <1>3, <1>6, <1>7, <2>1, <2>2 DEF Sorted
<1>9. Numbered'
  BY <1>1, <1>3, <1>7 DEF Numbered
<1>10. Filled'
  <2>1. currentSize' = Bytes(0)' + size'
    <3>1. currentSize = Bytes(0) + 0 /\ Bytes(0) \in Nat
      BY <1>1, <1>3, BytesNat DEF Filled
    <3> QED
      BY <1>1, <1>3, <3>1
  <2> QED
    BY <1>1, <1>3, <1>4, <2>1 DEF Filled
<1> QED
  BY <1>8, <1>9, <1>10

\* A file is closed because it is full.
LEMMA CloseFileKeeps ==
  ASSUME LogTypeOK, LogTypeOK', Opened, Unhurt, Sorted, Numbered, Filled,
         CloseFile, ~hurt'
  PROVE  Sorted' /\ Numbered' /\ Filled'
<1>1. /\ main = "close" /\ main' = "clear" /\ fd = "open" /\ fd' = "closed"
      /\ UNCHANGED <<issued, size>> /\ PassedOn /\ files[0].there
  BY DEF CloseFile, Unhurt, PassedOn, Numbered
<1>2. SameShelf
  BY <1>1, ShelfOfPassed
<1>3. /\ Spare' = 0 /\ Spare = 0
      /\ \A k \in 0..MaxFiles : /\ Held(k)' = Held(k) /\ Bytes(k)' = Bytes(k)
                                /\ files'[k].there <=> files[k].there
      /\ 0 \in 0..MaxFiles
  BY <1>1, <1>2, Zero DEF Spare, SameShelf
<1>4. \A k \in 0..MaxFiles : Full(k)' <=> Full(k)
  BY <1>3 DEF Full
<1>5. Sorted' /\ Gone' = Gone
  BY <1>1, <1>2, SortedSame, InHandIs, InHandIsNext DEF Inside, Rotating
<1>6. Numbered'
  BY <1>1, <1>3, <1>5 DEF Numbered
<1>7. Full(0)
  <2>1. size \in Sizes /\ currentSize = Bytes(0) + size /\ currentSize > MaxSize
    BY <1>1 DEF Filled, Opened, Rotating, Alive
  <2> QED
    BY <2>1 DEF Full
<1>8. Filled'
  BY <1>1, <1>3, <1>4, <1>7 DEF Filled
<1> QED
  BY <1>5, <1>6, <1>8

\* rotate_ begins at the oldest place.
LEMMA ClearFileKeeps ==
  ASSUME LogTypeOK, LogTypeOK', Opened, Sorted, Numbered, Filled, ClearFile
  PROVE  Sorted' /\ Numbered' /\ Filled'
<1>1. /\ main = "clear" /\ main' \in {"remove", "reopen"} /\ fd' = "null"
      /\ main' = IF MaxFiles > 0 THEN "remove" ELSE "reopen"
      /\ i' = MaxFiles /\ MaxFiles \in Nat
      /\ UNCHANGED <<issued, size>> /\ UNCHANGED diskVars
  BY Zero DEF ClearFile
<1>2. SameShelf
  BY <1>1, ShelfOfSame
<1>3. /\ Spare' = MaxFiles /\ Spare = 0
      /\ \A k \in 0..MaxFiles : /\ Held(k)' = Held(k) /\ Bytes(k)' = Bytes(k)
                                /\ files'[k].there <=> files[k].there
      /\ 0 \in 0..MaxFiles /\ files[0].there
  BY <1>1, <1>2, Zero DEF Spare, SameShelf, Numbered
<1>4. \A k \in 0..MaxFiles : Full(k)' <=> Full(k)
  BY <1>3 DEF Full
<1>5. Sorted' /\ Gone' = Gone
  BY <1>1, <1>2, SortedSame, InHandIs, InHandIsNext DEF Inside, Rotating
<1>6. Numbered'
  <2>1. ASSUME NEW k \in 0..MaxFiles, NEW l \in 0..MaxFiles, k < l, files'[l].there
        PROVE  files'[k].there
    BY <1>3, <2>1 DEF Numbered
  <2>2. Gone' # {} => \A k \in 0..MaxFiles : files'[k].there
    BY <1>3, <1>5 DEF Numbered
  <2>3. \A k \in 0..MaxFiles : ~files'[k].there => Held(k)' = {}
    BY <1>3 DEF Numbered
  <2> QED
    BY <1>1, <2>1, <2>2, <2>3 DEF Numbered
<1>7. Filled'
  BY <1>1, <1>3, <1>4 DEF Filled
<1> QED
  BY <1>5, <1>6, <1>7

\* The next younger place is empty: so are all the older ones.
LEMMA SkipMissingKeeps ==
  ASSUME LogTypeOK, LogTypeOK', Opened, Sorted, Numbered, Filled, SkipMissing
  PROVE  Sorted' /\ Numbered' /\ Filled'
<1> DEFINE j == i - 1
<1>1. /\ main = "remove" /\ main' \in {"remove", "reopen"} /\ fd # "open" /\ fd' = fd
      /\ ~files[j].there /\ UNCHANGED <<issued, size>> /\ UNCHANGED diskVars
      /\ i \in 1..MaxFiles /\ j \in 0..MaxFiles /\ j < i /\ i' = j
      /\ main' = "reopen" => j = 0
      /\ main' = "remove" => j > 0 /\ j < MaxFiles
  BY Zero DEF SkipMissing, Opened, LogTypeOK, NextFile
<1> HIDE DEF j
<1>2. SameShelf
  BY <1>1, ShelfOfSame
<1>3. /\ Spare' = j /\ Spare = i
      /\ \A k \in 0..MaxFiles : /\ Held(k)' = Held(k) /\ Bytes(k)' = Bytes(k)
                                /\ files'[k].there <=> files[k].there
      /\ 0 \in 0..MaxFiles /\ i \in 0..MaxFiles
  BY <1>1, <1>2, Zero DEF Spare, SameShelf
<1>4. \A k \in 0..MaxFiles : Full(k)' <=> Full(k)
  BY <1>3 DEF Full
<1>5. Sorted' /\ Gone' = Gone
  BY <1>1, <1>2, SortedSame, InHandIs, InHandIsNext DEF Inside, Rotating
<1>6. ASSUME NEW l \in 0..MaxFiles, l > j
      PROVE  ~files[l].there
  BY <1>1, <1>3, <1>6 DEF Numbered
<1>7. Gone = {}
  BY <1>1, <1>3 DEF Numbered
<1>8. Numbered'
  <2>1. ASSUME NEW k \in 0..MaxFiles, NEW l \in 0..MaxFiles, k < l, k # j, files'[l].there
        PROVE  files'[k].there
    <3>1. files[l].there /\ ~(l > j)
      BY <1>3, <1>6, <2>1
    <3>2. k # i
      BY <1>1, <2>1, <3>1
    <3> QED
      BY <1>3, <2>1, <3>1, <3>2 DEF Numbered
  <2>2. \A k \in 0..MaxFiles : ~files'[k].there => Held(k)' = {}
    BY <1>3 DEF Numbered
  <2>3. ~files'[j].there
    BY <1>1, <1>3
  <2> QED
    BY <1>1, <1>3, <1>5, <1>7, <2>1, <2>2, <2>3 DEF Numbered
<1>9. Filled'
  <2>1. ASSUME NEW k \in 0..MaxFiles, k # j, files'[k].there
        PROVE  Full(k)'
    <3>1. files[k].there /\ k # i
      BY <1>1, <1>3, <1>6, <2>1
    <3> QED
      BY <1>3, <1>4, <3>1 DEF Filled
  <2> QED
    BY <1>1, <1>3, <2>1 DEF Filled
<1> QED
  BY <1>5, <1>8, <1>9

\* The message in hand is the youngest.
LEMMA WriteKeeps ==
  ASSUME LogTypeOK, LogTypeOK', Unhurt, Sorted, Numbered, Filled, Write
  PROVE  Sorted' /\ Numbered' /\ Filled'
<1> DEFINE m == [Empty EXCEPT !.msgs = <<issued>>, !.bytes = size]
           b == Joined(buffer, m)
<1>1. /\ main = "write" /\ main' = "idle" /\ fd = "open" /\ files[0].there
      /\ UNCHANGED <<issued, fd, currentSize>> /\ issued \in Nat /\ size \in Nat
  BY DEF Write, Return, Unhurt, Numbered, LogTypeOK
<1>2. m \in Content /\ m.bytes = size /\ m.msgs = <<issued>>
  <2>1. <<issued>> \in Seq(Nat) /\ size \in Nat
    BY DEF LogTypeOK
  <2>2. m.bytes = size /\ m.msgs = <<issued>>
    BY DEF Empty
  <2>3. m \in Content
    BY <2>1 DEF Empty, Content
  <2> HIDE DEF m
  <2> QED
    BY <2>2, <2>3
<1>3. Messages(m) = {issued}
  BY <1>2 DEF Messages
<1>4. \/ buffer' = b /\ files' = files
      \/ buffer' = Empty /\ files' = [files EXCEPT ![0] = Joined(files[0], b)]
  BY DEF Write
<1> HIDE DEF m
<1>5. files[0] \in Content /\ buffer \in Content
  BY Zero DEF LogTypeOK
<1>6. /\ b \in Content /\ b.bytes = buffer.bytes + size
      /\ Messages(b) = Messages(buffer) \cup {issued}
  <2>1. /\ Joined(buffer, m) \in Content
        /\ Joined(buffer, m).bytes = buffer.bytes + m.bytes
    BY <1>2, <1>5, JoinedProperties
  <2>2. Messages(Joined(buffer, m)) = Messages(buffer) \cup Messages(m)
    BY <1>2, <1>5, MessagesProperties
  <2> QED
    BY <1>2, <1>3, <2>1, <2>2
<1> HIDE DEF b
<1>7. /\ \A k \in 0..MaxFiles : k # 0 => files'[k] = files[k]
      /\ files'[0].there
  BY <1>1, <1>4, Zero DEF LogTypeOK, Joined
<1>8. Held(0)' = Held(0) \cup {issued}
  <2>1. CASE buffer' = b /\ files' = files
    <3>1. Messages(files[0])' = Messages(files[0]) /\ Messages(buffer)' = Messages(b)
      BY <2>1 DEF Messages
    <3> QED
      BY <1>6, <3>1 DEF Held
  <2>2. CASE buffer' = Empty /\ files' = [files EXCEPT ![0] = Joined(files[0], b)]
    <3>1. files'[0] = Joined(files[0], b)
      BY <2>2, Zero DEF LogTypeOK
    <3>2. /\ Messages(files[0])' = Messages(Joined(files[0], b))
          /\ Messages(buffer)' = Messages(Empty)
      BY <2>2, <3>1 DEF Messages
    <3>3. /\ Messages(Joined(files[0], b)) = Messages(files[0]) \cup Messages(b)
          /\ Messages(Empty) = {}
      BY <1>5, <1>6, MessagesProperties
    <3> QED
      BY <1>6, <3>2, <3>3 DEF Held
  <2> QED
    BY <1>4, <2>1, <2>2
<1>9. Bytes(0)' = Bytes(0) + size
  <2>0. files[0].bytes \in Nat /\ buffer.bytes \in Nat
    BY <1>5, JoinedProperties
  <2>1. CASE buffer' = b /\ files' = files
    BY <1>1, <1>6, <2>0, <2>1 DEF Bytes
  <2>2. CASE buffer' = Empty /\ files' = [files EXCEPT ![0] = Joined(files[0], b)]
    <3>1. files'[0] = Joined(files[0], b) /\ buffer'.bytes = 0
      BY <2>2, Zero, EmptyProperties DEF LogTypeOK
    <3>2. Joined(files[0], b).bytes = files[0].bytes + b.bytes
      BY <1>5, <1>6, JoinedProperties
    <3>3. files'[0].bytes = files[0].bytes + (buffer.bytes + size)
      BY <1>6, <3>1, <3>2
    <3> QED
      BY <1>1, <2>0, <3>1, <3>3 DEF Bytes
  <2> QED
    BY <1>4, <2>1, <2>2
<1>10. \A k \in 0..MaxFiles :
         k # 0 => /\ Held(k)' = Held(k) /\ Bytes(k)' = Bytes(k)
                  /\ files'[k].there <=> files[k].there
  BY <1>7 DEF Held, Bytes, Messages
<1>11. InHand = {issued} /\ InHand' = {} /\ Spare = 0 /\ Spare' = 0 /\ 0 \in 0..MaxFiles
  BY <1>1, InHandIs, InHandIsNext, Zero DEF Inside, Rotating, Spare
<1>12. \A n : n \in Kept' <=> n \in Kept \/ n = issued
  <2>1. \A n : n \in Kept' <=> \E k \in 0..MaxFiles : n \in Held(k)'
    BY DEF Kept
  <2> QED
    BY <1>8, <1>10, <1>11, <2>1, KeptMembers
<1>13. Gone' = Gone
  BY <1>1, <1>11, <1>12 DEF Gone
<1>14. \A k \in 0..MaxFiles : \A n \in Held(k) : n \in 1..issued /\ n < issued
  <2> SUFFICES ASSUME NEW k \in 0..MaxFiles, NEW n \in Held(k)
               PROVE  n \in 1..issued /\ n < issued
    OBVIOUS
  <2>1. n \in 1..issued /\ n # issued
    BY <1>11 DEF Sorted
  <2> QED
    BY <1>1, <2>1
<1>15. Sorted'
  <2>1. ASSUME NEW k \in 0..MaxFiles, NEW l \in 0..MaxFiles, k < l,
               NEW n \in Held(k)', NEW o \in Held(l)'
        PROVE  o < n
    <3>1. l # 0 /\ o \in Held(l)
      BY <1>10, <1>11, <2>1
    <3>2. CASE n \in Held(k)
      BY <2>1, <3>1, <3>2 DEF Sorted
    <3>3. CASE n \notin Held(k)
      <4>1. n = issued
        BY <1>8, <1>10, <3>3
      <4> QED
        BY <1>14, <3>1, <4>1
    <3> QED
      BY <3>2, <3>3
  <2>2. \A k \in 0..MaxFiles : Held(k)' \subseteq 1..issued' /\ Held(k)' \cap InHand' = {}
    <3> SUFFICES ASSUME NEW k \in 0..MaxFiles, NEW n \in Held(k)'
                 PROVE  n \in 1..issued
      BY <1>1, <1>11
    <3>1. CASE n \in Held(k)
      BY <1>14, <3>1
    <3>2. CASE n \notin Held(k)
      <4>1. n = issued /\ 0 \in 0..MaxFiles
        BY <1>8, <1>10, <3>2, Zero
      <4>2. issued # 0
        BY <1>11 DEF Sorted
      <4> QED
        BY <1>1, <4>1, <4>2
    <3> QED
      BY <3>1, <3>2
  <2>3. \A g \in Gone' : \A n \in Kept' : g < n
    <3> SUFFICES ASSUME NEW g \in Gone, NEW n \in Kept'
                 PROVE  g < n
      BY <1>13
    <3>1. g \in 1..issued /\ g # issued
      BY <1>11 DEF Gone
    <3> QED
      BY <1>1, <1>12, <3>1 DEF Sorted
  <2> QED
    BY <1>11, <2>1, <2>2, <2>3 DEF Sorted
<1>16. Numbered'
  BY <1>1, <1>7, <1>10, <1>11, <1>13 DEF Numbered
<1>17. Filled'
  <2>1. \A k \in 0..MaxFiles : k # 0 => (Full(k)' <=> Full(k))
    BY <1>10 DEF Full
  <2>2. currentSize' = Bytes(0)' + 0
    <3>1. currentSize = Bytes(0) + size /\ Bytes(0) \in Nat
      BY <1>1, <1>11, BytesNat DEF Filled
    <3> QED
      BY <1>1, <1>9, <3>1
  <2> QED
    BY <1>1, <1>10, <1>11, <2>1, <2>2 DEF Filled
<1> QED
  BY <1>15, <1>16, <1>17

\* Without a file that is open, nothing is buffered.
LEMMA ClosedShelf ==
  ASSUME LogTypeOK, buffer = Empty, NEW k \in 0..MaxFiles
  PROVE  Held(k) = Messages(files[k]) /\ Bytes(k) = files[k].bytes
<1>1. files[k].bytes \in Nat /\ Messages(buffer) = {} /\ buffer.bytes = 0
  BY MessagesProperties, EmptyProperties DEF LogTypeOK, Content
<1> QED
  BY <1>1 DEF Held, Bytes

LEMMA ClosedShelfNext ==
  ASSUME LogTypeOK', buffer' = Empty, NEW k \in 0..MaxFiles
  PROVE  Held(k)' = Messages(files'[k]) /\ Bytes(k)' = files'[k].bytes
<1>1. files'[k].bytes \in Nat /\ Messages(buffer') = {} /\ buffer'.bytes = 0
  BY MessagesProperties, EmptyProperties DEF LogTypeOK, Content
<1>2. Held(k)' = Messages(files'[k]) \cup (IF k = 0 THEN Messages(buffer') ELSE {})
  BY DEF Held, Messages
<1> QED
  BY <1>1, <1>2 DEF Bytes

\* The place in turn is emptied, if it is not empty already.
LEMMA RemoveTargetKeeps ==
  ASSUME LogTypeOK, LogTypeOK', Opened, Sorted, Numbered, Filled, RemoveTarget
  PROVE  Sorted' /\ Numbered' /\ Filled'
<1>0. PICK p \in 1..MaxFiles : p = i
  BY DEF RemoveTarget, Opened, LogTypeOK
<1>1. /\ main = "remove" /\ main' = "rename" /\ fd # "open" /\ fd' = fd
      /\ p \in 1..MaxFiles /\ p - 1 \in 0..MaxFiles /\ p - 1 # p /\ i = p /\ i' = p
      /\ files[p - 1].there /\ UNCHANGED <<issued, size>>
      /\ buffer = Empty /\ buffer' = Empty
      /\ files' \in {files, [files EXCEPT ![p] = NoFile]}
  BY <1>0, Zero DEF RemoveTarget, Opened, LogTypeOK
<1>2. p \in 0..MaxFiles /\ Spare = p /\ Spare' = p
  BY <1>1 DEF Spare
<1>3. \A k \in 0..MaxFiles : k # p => files'[k] = files[k]
  BY <1>1 DEF LogTypeOK
<1>4. files'[p] = files[p] \/ files'[p] = NoFile
  BY <1>1, <1>2 DEF LogTypeOK
<1>5. \A k \in 0..MaxFiles :
        k # p => /\ Held(k)' = Held(k) /\ Bytes(k)' = Bytes(k)
                 /\ files'[k].there <=> files[k].there
  BY <1>1, <1>3, ClosedShelf, ClosedShelfNext
<1>6. /\ Held(p)' = Held(p) \/ Held(p)' = {}
      /\ ~files'[p].there => Held(p)' = {}
      /\ files'[p].there => files[p].there
  <2>1. Held(p) = Messages(files[p]) /\ Held(p)' = Messages(files'[p])
    BY <1>1, <1>2, ClosedShelf, ClosedShelfNext
  <2>2. Messages(NoFile) = {} /\ ~NoFile.there
    BY MessagesProperties DEF NoFile, Empty
  <2> QED
    BY <1>2, <1>4, <2>1, <2>2 DEF Numbered
<1>7. Held(p) # {} => p = MaxFiles /\ files[p].there
  <2>1. p < MaxFiles => ~files[p].there
    BY <1>1 DEF Numbered
  <2>2. ~files[p].there => Held(p) = {}
    BY <1>2 DEF Numbered
  <2>3. p < MaxFiles \/ p = MaxFiles
    BY <1>1, Zero
  <2> QED
    BY <2>1, <2>2, <2>3
<1>8. Sorted' /\ \A m \in Gone' : m \in Gone \/ (m \in Kept /\ m \notin Kept')
  <2>1. InHand' = InHand
    BY <1>1, InHandIs, InHandIsNext DEF Inside, Rotating
  <2>2. \A k \in 0..MaxFiles : Held(k)' = Held(k) \/ Held(k)' = {}
    BY <1>5, <1>6
  <2>3. \A k \in 0..MaxFiles : Held(k)' \subseteq Kept
    BY <2>2, KeptMembers
  <2>4. \A k, l \in 0..MaxFiles :
          k < l => \A a \in Held(k)', b \in Held(l)' : b < a
    BY <2>2 DEF Sorted
  <2>5. ASSUME NEW m \in Kept PROVE m \in Kept' \/ \A n \in Kept' : m < n
    <3>1. PICK k \in 0..MaxFiles : m \in Held(k)
      BY KeptMembers
    <3>2. CASE m \in Held(k)'
      BY <3>2 DEF Kept
    <3>3. CASE m \notin Held(k)'
      <4>1. k = p /\ p = MaxFiles /\ Held(p)' = {}
        BY <1>5, <1>6, <1>7, <3>1, <3>3
      <4>2. ASSUME NEW n \in Kept' PROVE m < n
        <5>1. PICK l \in 0..MaxFiles : n \in Held(l)'
          BY DEF Kept
        <5>2. l # p /\ n \in Held(l) /\ l < p
          BY <1>5, <4>1, <5>1
        <5> QED
          BY <1>2, <3>1, <4>1, <5>2 DEF Sorted
      <4> QED
        BY <4>2
    <3> QED
      BY <3>2, <3>3
  <2> QED
    BY <1>1, <2>1, <2>3, <2>4, <2>5, SortedThins
<1>9. Gone' # {} => \A k \in 0..MaxFiles : k # p => files[k].there
  <2> SUFFICES ASSUME NEW m \in Gone', NEW k \in 0..MaxFiles, k # p
               PROVE  files[k].there
    OBVIOUS
  <2>1. CASE m \in Gone
    BY <1>2, <2>1 DEF Numbered
  <2>2. CASE m \notin Gone
    <3>1. m \in Kept /\ m \notin Kept'
      BY <1>8, <2>2
    <3>2. PICK l \in 0..MaxFiles : m \in Held(l)
      BY <3>1, KeptMembers
    <3>3. m \notin Held(l)'
      BY <3>1 DEF Kept
    <3>4. l = p /\ p = MaxFiles /\ files[p].there
      BY <1>5, <1>7, <3>2, <3>3
    <3>5. k < p
      BY <3>4
    <3> QED
      BY <1>2, <3>4, <3>5 DEF Numbered
  <2> QED
    BY <2>1, <2>2
<1>10. Numbered'
  <2>1. ASSUME NEW k \in 0..MaxFiles, NEW l \in 0..MaxFiles, k < l, k # p, files'[l].there
        PROVE  files'[k].there
    <3>1. files[l].there
      BY <1>5, <1>6, <2>1
    <3> QED
      BY <1>2, <1>5, <2>1, <3>1 DEF Numbered
  <2>2. \A k \in 0..MaxFiles : ~files'[k].there => Held(k)' = {}
    BY <1>5, <1>6 DEF Numbered
  <2>3. Gone' # {} => \A k \in 0..MaxFiles : k # p => files'[k].there
    BY <1>5, <1>9
  <2>4. p < MaxFiles => ~files'[p].there
    BY <1>1, <1>6 DEF Numbered
  <2>5. files'[p - 1].there
    BY <1>1, <1>5
  <2> QED
    BY <1>1, <1>2, <2>1, <2>2, <2>3, <2>4, <2>5 DEF Numbered
<1>11. Filled'
  <2>1. \A k \in 0..MaxFiles : k # p => (Full(k)' <=> Full(k))
    BY <1>5 DEF Full
  <2> QED
    BY <1>1, <1>2, <1>5, <2>1 DEF Filled
<1> QED
  BY <1>8, <1>10, <1>11

\* A file takes the place that was emptied, and leaves its own.
LEMMA RenameKeeps ==
  ASSUME LogTypeOK, LogTypeOK', Opened, Sorted, Numbered, Filled, Rename
  PROVE  Sorted' /\ Numbered' /\ Filled'
<1>0. PICK p \in 1..MaxFiles : p = i
  BY DEF Rename, Opened, LogTypeOK
<1> DEFINE q == p - 1
<1>1. /\ main = "rename" /\ main' \in {"remove", "reopen"} /\ fd # "open" /\ fd' = fd
      /\ p \in 1..MaxFiles /\ q \in 0..MaxFiles /\ q < p /\ i = p /\ i' = q
      /\ main' = "reopen" => q = 0
      /\ main' = "remove" => q > 0 /\ q < MaxFiles
      /\ files[q].there /\ UNCHANGED <<issued, size>>
      /\ buffer = Empty /\ buffer' = Empty
      /\ files' = [files EXCEPT ![p] = files[q], ![q] = NoFile]
  BY <1>0, Zero DEF Rename, NextFile, Opened, LogTypeOK, Numbered
<1>2. /\ \A k \in 0..MaxFiles : k < q \/ k = q \/ k = p \/ k > p
      /\ p \in 0..MaxFiles
  BY <1>1
<1> HIDE DEF q
<1>3. Spare = p /\ Spare' = q
  BY <1>1 DEF Spare
<1>4. /\ files'[p] = files[q] /\ files'[q] = NoFile
      /\ \A k \in 0..MaxFiles : k # p /\ k # q => files'[k] = files[k]
  BY <1>1, <1>2 DEF LogTypeOK
<1>5. /\ Held(p)' = Held(q) /\ Bytes(p)' = Bytes(q) /\ files'[p].there
      /\ Held(q)' = {} /\ ~files'[q].there
  <2>1. Messages(NoFile) = {} /\ ~NoFile.there
    BY MessagesProperties DEF NoFile, Empty
  <2> QED
    BY <1>1, <1>2, <1>4, <2>1, ClosedShelf, ClosedShelfNext
<1>6. \A k \in 0..MaxFiles :
        k # p /\ k # q => /\ Held(k)' = Held(k) /\ Bytes(k)' = Bytes(k)
                          /\ files'[k].there <=> files[k].there
  BY <1>1, <1>4, ClosedShelf, ClosedShelfNext
<1>7. Held(p) # {} => p = MaxFiles /\ files[p].there
  <2>1. p < MaxFiles => ~files[p].there
    BY <1>1 DEF Numbered
  <2>2. ~files[p].there => Held(p) = {}
    BY <1>2 DEF Numbered
  <2>3. p < MaxFiles \/ p = MaxFiles
    BY <1>1, Zero
  <2> QED
    BY <2>1, <2>2, <2>3
<1>8. Sorted' /\ \A m \in Gone' : m \in Gone \/ (m \in Kept /\ m \notin Kept')
  <2>1. InHand' = InHand
    BY <1>1, InHandIs, InHandIsNext DEF Inside, Rotating
  <2>2. \A k \in 0..MaxFiles : Held(k)' \subseteq Kept
    BY <1>1, <1>2, <1>5, <1>6, KeptMembers
  <2>3. ASSUME NEW k \in 0..MaxFiles, NEW l \in 0..MaxFiles, k < l,
               NEW a \in Held(k)', NEW b \in Held(l)'
        PROVE  b < a
    <3>1. k # q /\ l # q
      BY <1>5
    <3>2. CASE k = p
      <4>1. a \in Held(q) /\ b \in Held(l) /\ q < l
        BY <1>1, <1>5, <1>6, <2>3, <3>1, <3>2
      <4> QED
        BY <1>1, <4>1 DEF Sorted
    <3>3. CASE k # p /\ l = p
      <4>1. a \in Held(k) /\ b \in Held(q) /\ k < q
        BY <1>2, <1>5, <1>6, <2>3, <3>1, <3>3
      <4> QED
        BY <1>1, <4>1 DEF Sorted
    <3>4. CASE k # p /\ l # p
      BY <1>6, <2>3, <3>1, <3>4 DEF Sorted
    <3> QED
      BY <3>2, <3>3, <3>4
  <2>4. ASSUME NEW m \in Kept PROVE m \in Kept' \/ \A n \in Kept' : m < n
    <3>0. \A n : n \in Kept' <=> \E k \in 0..MaxFiles : n \in Held(k)'
      BY DEF Kept
    <3>1. PICK k \in 0..MaxFiles : m \in Held(k)
      BY KeptMembers
    <3>2. CASE k = q
      BY <1>2, <1>5, <3>0, <3>1, <3>2
    <3>3. CASE k = p
      <4>1. p = MaxFiles
        BY <1>7, <3>1, <3>3
      <4>2. ASSUME NEW n \in Kept' PROVE m < n
        <5>1. PICK l \in 0..MaxFiles : n \in Held(l)'
          BY <3>0
        <5>2. PICK o \in 0..MaxFiles : o < p /\ n \in Held(o)
          <6>1. CASE l = p
            BY <1>1, <1>5, <5>1, <6>1
          <6>2. CASE l # p
            BY <1>5, <1>6, <4>1, <5>1, <6>2
          <6> QED
            BY <6>1, <6>2
        <5> QED
          BY <1>2, <3>1, <3>3, <5>2 DEF Sorted
      <4> QED
        BY <4>2
    <3>4. CASE k # p /\ k # q
      BY <1>6, <3>0, <3>1, <3>4
    <3> QED
      BY <3>2, <3>3, <3>4
  <2> QED
    BY <1>1, <2>1, <2>2, <2>3, <2>4, SortedThins
<1>9. Gone' # {} => \A k \in 0..MaxFiles : k # p => files[k].there
  <2> SUFFICES ASSUME NEW m \in Gone', NEW k \in 0..MaxFiles, k # p
               PROVE  files[k].there
    OBVIOUS
  <2>1. CASE m \in Gone
    BY <1>3, <2>1 DEF Numbered
  <2>2. CASE m \notin Gone
    <3>1. m \in Kept /\ m \notin Kept'
      BY <1>8, <2>2
    <3>2. PICK l \in 0..MaxFiles : m \in Held(l)
      BY <3>1, KeptMembers
    <3>3. \A o \in 0..MaxFiles : m \notin Held(o)'
      BY <3>1 DEF Kept
    <3>4. l = p /\ p = MaxFiles /\ files[p].there
      BY <1>2, <1>5, <1>6, <1>7, <3>2, <3>3
    <3>5. k < p
      BY <3>4
    <3> QED
      BY <1>3, <3>4, <3>5 DEF Numbered
  <2> QED
    BY <2>1, <2>2
<1>10. Numbered'
  <2>1. ASSUME NEW k \in 0..MaxFiles, NEW l \in 0..MaxFiles, k < l, k # q, files'[l].there
        PROVE  files'[k].there
    <3>1. CASE k = p
      BY <1>5, <3>1
    <3>2. CASE k # p
      <4>1. PICK o \in 0..MaxFiles : k < o /\ files[o].there
        <5>1. CASE l = p
          BY <1>1, <1>2, <2>1, <3>2, <5>1
        <5>2. CASE l # p
          BY <1>5, <1>6, <2>1, <5>2
        <5> QED
          BY <5>1, <5>2
      <4> QED
        BY <1>3, <1>6, <2>1, <3>2, <4>1 DEF Numbered
    <3> QED
      BY <3>1, <3>2
  <2>2. \A k \in 0..MaxFiles : ~files'[k].there => Held(k)' = {}
    BY <1>5, <1>6 DEF Numbered
  <2>3. Gone' # {} => \A k \in 0..MaxFiles : k # q => files'[k].there
    BY <1>5, <1>6, <1>9
  <2> QED
    BY <1>1, <1>3, <1>5, <2>1, <2>2, <2>3 DEF Numbered
<1>11. Filled'
  <2>1. ASSUME NEW k \in 0..MaxFiles, k # q, files'[k].there
        PROVE  Full(k)'
    <3>1. CASE k = p
      <4>1. Full(q)
        BY <1>1, <1>3 DEF Filled
      <4> QED
        BY <1>5, <3>1, <4>1 DEF Full
    <3>2. CASE k # p
      <4>1. Full(k)
        BY <1>3, <1>6, <2>1, <3>2 DEF Filled
      <4> QED
        BY <1>6, <2>1, <3>2, <4>1 DEF Full
    <3> QED
      BY <3>1, <3>2
  <2> QED
    BY <1>1, <1>3, <2>1 DEF Filled
<1> QED
  BY <1>8, <1>10, <1>11

\* The file that was renamed is there again; without others it is emptied.
LEMMA ReopenKeeps ==
  ASSUME LogTypeOK, LogTypeOK', Opened, Unhurt, Sorted, Numbered, Filled, Reopen
  PROVE  Sorted' /\ Numbered' /\ Filled'
<1>1. /\ main = "reopen" /\ main' = "write" /\ fd # "open" /\ fd' = "open"
      /\ UNCHANGED <<issued, size>> /\ currentSize' = size /\ size \in Nat
      /\ buffer = Empty /\ buffer' = Empty
      /\ files' = [files EXCEPT ![0] = Empty]
  BY DEF Reopen, Opened, Unhurt, LogTypeOK
<1>2. 0 \in 0..MaxFiles /\ Spare = 0 /\ Spare' = 0 /\ MaxFiles \in Nat
  BY <1>1, Zero DEF Spare
<1>3. /\ Held(0)' = {} /\ Bytes(0)' = 0 /\ files'[0].there
      /\ \A k \in 0..MaxFiles : k # 0 => files'[k] = files[k]
  <2>1. /\ files'[0] = Empty
        /\ \A k \in 0..MaxFiles : k # 0 => files'[k] = files[k]
    BY <1>1, <1>2 DEF LogTypeOK
  <2>2. Messages(Empty) = {} /\ Empty.there /\ Empty.bytes = 0
    BY MessagesProperties DEF Empty
  <2> QED
    BY <1>1, <1>2, <2>1, <2>2, ClosedShelfNext
<1>4. \A k \in 0..MaxFiles :
        k # 0 => /\ Held(k)' = Held(k) /\ Bytes(k)' = Bytes(k)
                 /\ files'[k].there <=> files[k].there
  BY <1>1, <1>3, ClosedShelf, ClosedShelfNext
<1>5. Held(0) # {} => MaxFiles = 0
  BY <1>1, <1>2 DEF Numbered
<1>6. Sorted' /\ \A m \in Gone' : m \in Gone \/ (m \in Kept /\ m \notin Kept')
  <2>1. InHand' = InHand
    BY <1>1, InHandIs, InHandIsNext DEF Inside, Rotating
  <2>2. \A k \in 0..MaxFiles : Held(k)' = Held(k) \/ Held(k)' = {}
    BY <1>3, <1>4
  <2>3. \A k \in 0..MaxFiles : Held(k)' \subseteq Kept
    BY <2>2, KeptMembers
  <2>4. \A k, l \in 0..MaxFiles :
          k < l => \A a \in Held(k)', b \in Held(l)' : b < a
    BY <2>2 DEF Sorted
  <2>5. ASSUME NEW m \in Kept PROVE m \in Kept' \/ \A n \in Kept' : m < n
    <3>0. \A n : n \in Kept' <=> \E k \in 0..MaxFiles : n \in Held(k)'
      BY DEF Kept
    <3>1. PICK k \in 0..MaxFiles : m \in Held(k)
      BY KeptMembers
    <3>2. CASE k = 0
      BY <1>3, <1>5, <3>0, <3>1, <3>2
    <3>3. CASE k # 0
      BY <1>4, <3>0, <3>1, <3>3
    <3> QED
      BY <3>2, <3>3
  <2> QED
    BY <1>1, <2>1, <2>3, <2>4, <2>5, SortedThins
<1>7. Gone' # {} => \A k \in 0..MaxFiles : k # 0 => files[k].there
  <2> SUFFICES ASSUME NEW m \in Gone', NEW k \in 0..MaxFiles, k # 0
               PROVE  files[k].there
    OBVIOUS
  <2>1. m \in Gone
    <3>1. SUFFICES ASSUME m \in Kept, m \notin Kept' PROVE FALSE
      BY <1>6
    <3>2. PICK l \in 0..MaxFiles : m \in Held(l)
      BY <3>1, KeptMembers
    <3>3. m \notin Held(l)'
      BY <3>1 DEF Kept
    <3> QED
      BY <1>2, <1>4, <1>5, <3>2, <3>3
  <2> QED
    BY <1>2, <2>1 DEF Numbered
<1>8. Numbered'
  <2>1. ASSUME NEW k \in 0..MaxFiles, NEW l \in 0..MaxFiles, k < l, k # 0, files'[l].there
        PROVE  files'[k].there
    <3>1. l # 0
      BY <2>1
    <3> QED
      BY <1>2, <1>4, <2>1, <3>1 DEF Numbered
  <2>2. \A k \in 0..MaxFiles : ~files'[k].there => Held(k)' = {}
    BY <1>3, <1>4 DEF Numbered
  <2> QED
    BY <1>1, <1>2, <1>3, <1>4, <1>7, <2>1, <2>2 DEF Numbered
<1>9. Filled'
  <2>1. \A k \in 0..MaxFiles : k # 0 => (Full(k)' <=> Full(k))
    BY <1>4 DEF Full
  <2>2. currentSize' = Bytes(0)' + size'
    BY <1>1, <1>3
  <2> QED
    BY <1>1, <1>2, <1>4, <2>1, <2>2 DEF Filled
<1> QED
  BY <1>6, <1>8, <1>9

LEMMA RestartKeeps ==
  ASSUME LogTypeOK, LogTypeOK', Opened, Sorted, Numbered, Filled, Restart
  PROVE  Sorted' /\ Numbered' /\ Filled'
<1>1. /\ main = "dead" /\ main' = "idle" /\ UNCHANGED <<issued, buffer>>
      /\ files' = [files EXCEPT ![0].there = TRUE] /\ currentSize' = files'[0].bytes
      /\ buffer = Empty /\ files[0].there /\ 0 \in 0..MaxFiles
  BY Zero DEF Restart, Opened, LogTypeOK, Alive, Numbered
<1>2. files' = files
  <2>1. files[0] \in Content
    BY <1>1 DEF LogTypeOK
  <2>2. [files[0] EXCEPT !.there = TRUE] = files[0]
    BY <1>1, <2>1 DEF Content
  <2>3. files' = [files EXCEPT ![0] = [files[0] EXCEPT !.there = TRUE]]
    BY <1>1
  <2> QED
    BY <1>1, <2>2, <2>3 DEF LogTypeOK
<1>3. SameShelf
  BY <1>1, <1>2, ShelfOfSame
<1>4. currentSize' = Bytes(0)'
  BY <1>1, ClosedShelfNext
<1> QED
  BY <1>1, <1>3, <1>4, RestKeeps DEF AtRest

LEMMA NextRetention == LogInv /\ RetentionInv /\ [LogNext]_vars => RetentionInv'
<1> SUFFICES ASSUME LogInv, RetentionInv, [LogNext]_vars, ~hurt' PROVE Unhurt' /\ Sorted' /\ Numbered' /\ Filled'
  BY DEF RetentionInv
<1>1. LogTypeOK /\ Opened /\ LogTypeOK'
  BY NextLogInv DEF LogInv
<1>2. CASE UNCHANGED vars
  <2>1. ~hurt /\ SameShelf /\ UNCHANGED <<main, i, issued, size, currentSize, fd>>
    BY <1>2, ShelfOfSame DEF vars
  <2>2. Unhurt'
    BY <1>2, <2>1 DEF vars, RetentionInv, Unhurt
  <2> QED
    BY <1>1, <2>1, <2>2, QuietKeeps DEF RetentionInv
<1>3. CASE LogNext
  <2>1. ~hurt
    BY <1>3 DEF LogNext, Works, Rotate, Fails, Flushes, Log, CloseFile, ClearFile, SkipMissing,
       RemoveTarget, Rename, RenameFails, Reopen, ReopenFails, Write, WriteFails, Wake,
       FlusherStops, LockSink, LoadFile, FlushFile, FlushClosed, Exit, StopFlusher, Join,
       Kill, Restart, Over, vars
  <2>2. Unhurt /\ Sorted /\ Numbered /\ Filled
    BY <2>1 DEF RetentionInv
  <2>3. Unhurt'
    BY <1>1, <1>3, <2>1, <2>2, UnhurtKept
  <2> SUFFICES Sorted' /\ Numbered' /\ Filled'
    BY <2>3
  <2>4. ASSUME SameShelf, UNCHANGED <<main, i, issued, size, currentSize, fd>>
        PROVE  Sorted' /\ Numbered' /\ Filled'
    BY <1>1, <2>2, <2>4, QuietKeeps
  <2>5. PassedOn /\ fd = "open" => SameShelf
    <3>1. fd = "open" => files[0].there
      BY <1>1, <2>2 DEF Opened, Numbered
    <3> QED
      BY <1>1, <3>1, ShelfOfPassed
  <2>6. CASE Log
    BY <1>1, <2>2, <2>6, LogKeeps
  <2>7. CASE CloseFile
    BY <1>1, <2>2, <2>7, CloseFileKeeps
  <2>8. CASE ClearFile
    BY <1>1, <2>2, <2>8, ClearFileKeeps
  <2>9. CASE SkipMissing
    BY <1>1, <2>2, <2>9, SkipMissingKeeps
  <2>10. CASE RemoveTarget
    BY <1>1, <2>2, <2>10, RemoveTargetKeeps
  <2>11. CASE Rename
    BY <1>1, <2>2, <2>11, RenameKeeps
  <2>12. CASE Reopen
    BY <1>1, <2>2, <2>12, ReopenKeeps
  <2>13. CASE Write
    BY <1>1, <2>2, <2>13, WriteKeeps
  <2>14. CASE Fails \/ Kill
    BY <2>14 DEF Fails, RenameFails, ReopenFails, WriteFails, Kill
  <2>15. CASE Wake \/ FlusherStops \/ LockSink \/ LoadFile
    <3>1. UNCHANGED <<diskVars, main, i, issued, size, currentSize, fd>>
      BY <2>15 DEF Wake, FlusherStops, LockSink, LoadFile
    <3> QED
      BY <2>4, <3>1, ShelfOfSame
  <2>16. CASE FlushFile
    <3>1. /\ UNCHANGED <<main, i, issued, size, currentSize, fd>>
          /\ (PassedOn /\ fd = "open") \/ UNCHANGED diskVars
      BY <2>2, <2>16 DEF FlushFile, PassedOn, Unhurt
    <3> QED
      BY <2>4, <2>5, <3>1, ShelfOfSame
  <2>17. CASE FlushClosed
    <3>1. /\ UNCHANGED <<main, i, issued, size, currentSize, fd>>
          /\ (PassedOn /\ fd = "open") \/ UNCHANGED diskVars
      BY <2>17 DEF FlushClosed, PassedOn
    <3> QED
      BY <2>4, <2>5, <3>1, ShelfOfSame
  <2>18. CASE Exit \/ StopFlusher
    <3>1. /\ UNCHANGED <<diskVars, issued, size, currentSize, fd>>
          /\ main \in {"idle", "exit"} /\ main' \in {"exit", "join"}
      BY <2>18 DEF Exit, StopFlusher
    <3>2. SameShelf /\ main \in AtRest /\ main' \in AtRest /\ 0 \in 0..MaxFiles
      BY <3>1, ShelfOfSame, Zero DEF AtRest
    <3>3. fd = "open" => currentSize = Bytes(0) + 0
      BY <2>2, <3>1 DEF Filled
    <3>4. Bytes(0)' = Bytes(0) /\ Bytes(0) \in Nat
      BY <1>1, <3>2, BytesNat DEF SameShelf
    <3> QED
      BY <1>1, <2>2, <3>1, <3>2, <3>3, <3>4, RestKeeps
  <2>19. CASE Join
    <3>1. main \in AtRest /\ main' \in AtRest /\ fd' # "open" /\ issued' = issued
      BY <2>19 DEF Join, Die, AtRest
    <3>2. SameShelf
      <4>1. fd = "open" /\ PassedOn
        BY <2>2, <2>19 DEF Join, Die, PassedOn, Unhurt
      <4> QED
        BY <2>5, <4>1
    <3> QED
      BY <1>1, <2>2, <3>1, <3>2, RestKeeps
  <2>20. CASE Restart
    BY <1>1, <2>2, <2>20, RestartKeeps
  <2>21. CASE Over
    <3>1. UNCHANGED <<diskVars, main, i, issued, size, currentSize, fd>>
      BY <2>21 DEF Over, vars
    <3> QED
      BY <2>4, <3>1, ShelfOfSame
  <2>22. Sorted' /\ Numbered' /\ Filled'
    BY <1>3, <2>6, <2>7, <2>8, <2>9, <2>10, <2>11, <2>12, <2>13, <2>14, <2>15, <2>16, <2>17,
       <2>18, <2>19, <2>20, <2>21 DEF LogNext, Works, Rotate, Flushes
  <2> QED
    BY <2>22
<1> QED
  BY <1>2, <1>3

LEMMA InitRetention == LogInit => RetentionInv
<1> SUFFICES ASSUME LogInit PROVE Unhurt /\ Sorted /\ Numbered /\ Filled
  BY DEF RetentionInv
<1>1. LogTypeOK
  BY InitLogInv DEF LogInv
<1>2. /\ 0 \in 0..MaxFiles /\ files[0] = Empty /\ buffer = Empty
      /\ \A k \in 0..MaxFiles : k # 0 => files[k] = NoFile
      /\ main = "idle" /\ fd = "open" /\ currentSize = 0 /\ issued = 0
  BY Zero DEF LogInit
<1>3. Empty.there /\ ~NoFile.there /\ Empty.bytes = 0
  BY DEF Empty, NoFile
<1>4. \A k \in 0..MaxFiles : Held(k) = {} /\ (files[k].there <=> k = 0)
  BY <1>1, <1>2, <1>3, ClosedShelf, MessagesProperties
<1>5. Bytes(0) = 0
  BY <1>1, <1>2, <1>3, ClosedShelf
<1>6. InHand = {} /\ Kept = {} /\ Spare = 0
  BY <1>1, <1>2, <1>4, InHandIs DEF Kept, Inside, Rotating, Spare
<1>7. Gone = {}
  <2>1. 1..issued = {}
    BY <1>2
  <2> QED
    BY <2>1 DEF Gone
<1>8. Unhurt
  BY DEF LogInit, Unhurt
<1>9. Sorted
  BY <1>4, <1>6, <1>7 DEF Sorted
<1>10. Numbered
  BY <1>2, <1>4, <1>6, <1>7 DEF Numbered
<1>11. Filled
  BY <1>2, <1>4, <1>5, <1>6 DEF Filled
<1> QED
  BY <1>8, <1>9, <1>10, <1>11

\* All places but the spare one hold full files: MaxFiles of them at least.
LEMMA RetentionFollows == LogTypeOK /\ RetentionInv => Retention
<1> SUFFICES ASSUME LogTypeOK, RetentionInv, ~hurt
             PROVE  /\ \A m \in Gone : \A n \in Kept : m < n
                    /\ Gone # {} => Cardinality({k \in 0..MaxFiles : Full(k)}) >= MaxFiles
  BY DEF Retention
<1>1. Sorted /\ Numbered /\ Filled
  BY DEF RetentionInv
<1>2. ASSUME Gone # {}
      PROVE  Cardinality({k \in 0..MaxFiles : Full(k)}) >= MaxFiles
  <2> DEFINE S == {k \in 0..MaxFiles : Full(k)}
             T == (0..MaxFiles) \ {Spare}
  <2>1. T \subseteq S
    BY <1>1, <1>2 DEF Numbered, Filled
  <2>2. Spare \in 0..MaxFiles
    BY Zero DEF Spare, LogTypeOK
  <2>3. IsFiniteSet(0..MaxFiles) /\ Cardinality(0..MaxFiles) = MaxFiles + 1
    <3>1. 0 \in Int /\ MaxFiles \in Int
      BY Zero
    <3> QED
      BY <3>1, Zero, FS_Interval
  <2>4. IsFiniteSet(T) /\ Cardinality(T) = (MaxFiles + 1) - 1
    BY <2>2, <2>3, FS_RemoveElement
  <2>5. IsFiniteSet(S)
    BY <2>3, FS_Subset
  <2>6. Cardinality(T) <= Cardinality(S)
    BY <2>1, <2>5, FS_Subset
  <2>7. Cardinality(S) \in Nat
    BY <2>5, FS_CardinalityType
  <2> QED
    BY <2>4, <2>6, <2>7, Zero
<1> QED
  BY <1>1, <1>2 DEF Sorted

\* RetentionInv holds always: the files are sorted, numbered and filled.
THEOREM RetentionInvariance == LogSpec => []RetentionInv
BY InitRetention, NextRetention, LogInvariance, PTL DEF LogSpec

\* Rotation drops the oldest messages only, and none before max_files_ files are
\* full, for every number of files and every size of theirs.
THEOREM RetentionKept == LogSpec => []Retention
<1>1. LogInv => LogTypeOK
  BY DEF LogInv
<1> QED
  BY <1>1, LogInvariance, RetentionInvariance, RetentionFollows, PTL
=============================================================================
