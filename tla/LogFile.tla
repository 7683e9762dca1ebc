------------------------------ MODULE LogFile ------------------------------
(* The log file of lib/logger.ts in one process: lines go to a stream that is *)
(* opened, and rotated, while others are logged; flushLogsSync writes what is *)
(* underway at once, since Pi may exit right after.  A line is its number and *)
(* has size 1.                                                                *)
EXTENDS Naturals, SequencesExt

CONSTANTS MAX_LOG_BYTES,     \* at least 1
          LOG_BACKUP_COUNT,  \* at least 1
          MaxLines, MaxFlushes, MaxFaults

VARIABLES
  disk,         \* 0 is the log, i the backup .i; an absent file is empty
  stream,       \* "none", "open", or "ending" before a rotation
  at,           \* the file that the stream's descriptor is on now
  pendingStreamLines,
  flying,       \* how many of these the stream is writing
  landed,       \* they are on the disk, and the callbacks are still to come
  queuedLines, logBytes, logStreamUnavailable,
  ready,        \* logStreamReady: where openLogStream stands, or "none"
  step,         \* the backup that the rotation is at
  timers,       \* timers of scheduleAsyncLogReenable
  logged, flushes, faults,
  \* read by properties only
  retired,      \* lines that rotations removed
  counted,      \* lines whose loss was counted, or reported on the console
  settled,      \* the lines logged before the last flush that found all of them
  early,        \* a flush came while a stream was ending
  raced         \* a flush rotated in the middle of a rotation
files == <<disk, at, retired>>
streaming == <<stream, pendingStreamLines, flying, landed>>
opening == <<ready, step>>
counts == <<logged, flushes, faults>>
vars == <<files, streaming, queuedLines, logBytes, logStreamUnavailable, opening, timers, counts,
          counted, settled, early, raced>>

Backup == 0..LOG_BACKUP_COUNT
Gone == LOG_BACKUP_COUNT + 1     \* where a removed file is

Init ==
  /\ \E before \in {0, MAX_LOG_BYTES} :      \* what an earlier process left
       disk = [i \in Backup |-> IF i = 0 THEN [n \in 1..before |-> 0] ELSE <<>>]
  /\ stream = "none" /\ at = 0 /\ pendingStreamLines = <<>> /\ flying = 0 /\ landed = FALSE
  /\ queuedLines = <<>> /\ logBytes = 0 /\ logStreamUnavailable = FALSE
  /\ ready = "none" /\ step = 0 /\ timers = 0
  /\ logged = 0 /\ flushes = 0 /\ faults = 0
  /\ retired = {} /\ counted = {} /\ settled = 0 /\ early = FALSE /\ raced = FALSE

----------------------------------------------------------------------------
(* the synchronous path *)

RotatedSync(d) == [i \in Backup |-> IF i = 0 THEN <<>> ELSE d[i - 1]]

(* flushQueuedFallback of these lines, on a disk to which `first' was written *)
(* before; it may fail, and then only the console knows                       *)
RotatesSync(d, lines, bytes) ==
  /\ lines # <<>> /\ bytes > 0 /\ bytes + Len(lines) > MAX_LOG_BYTES
  /\ Len(d[0]) >= MAX_LOG_BYTES
Fallback(d, lines, bytes, late) ==
  LET rotates == RotatesSync(d, lines, bytes)
      base == IF rotates THEN RotatedSync(d) ELSE d
      left == IF lines # <<>> /\ bytes > 0 /\ bytes + Len(lines) > MAX_LOG_BYTES THEN 0 ELSE bytes
  IN /\ queuedLines' = <<>>
     /\ retired' = IF rotates THEN retired \cup ToSet(d[LOG_BACKUP_COUNT]) ELSE retired
     /\ at' = IF rotates /\ at < Gone THEN at + 1 ELSE at
     /\ raced' = (raced \/ (rotates /\ ready = "move"))
     /\ \/ /\ disk' = [base EXCEPT ![0] = @ \o lines \o late]
           /\ logBytes' = left + Len(lines) /\ UNCHANGED <<faults, counted>>
        \/ /\ lines # <<>> /\ faults < MaxFaults /\ faults' = faults + 1
           /\ counted' = counted \cup ToSet(lines) /\ disk' = base /\ logBytes' = left

(* nothing is written *)
Quiet == UNCHANGED <<files, faults, counted, raced>>

----------------------------------------------------------------------------
(* startLogStream *)

(* what a stream has accepted it writes at once if it was not writing *)
Accepted(lines) ==
  /\ pendingStreamLines' = pendingStreamLines \o lines
  /\ flying' = IF flying = 0 THEN Len(lines) ELSE flying
  /\ UNCHANGED landed

(* where the synchronous part of startLogStream leaves stream and opening     *)
EndsStream == stream' = "ending" /\ ready' = "ending"
Opens == UNCHANGED stream /\ ready' = "dir"

(* appendToFile *)
Log ==
  /\ logged < MaxLines /\ logged' = logged + 1
  /\ LET line == logged + 1
     IN IF stream = "open" /\ logBytes + 1 < MAX_LOG_BYTES
        THEN /\ Accepted(<<line>>) /\ logBytes' = logBytes + 1 /\ Quiet
             /\ UNCHANGED <<stream, queuedLines, opening>>
        ELSE /\ UNCHANGED <<pendingStreamLines, flying, landed, step>>
             /\ IF logStreamUnavailable
                THEN Fallback(disk, Append(queuedLines, line), logBytes, <<>>)
                     /\ UNCHANGED <<stream, ready>>
                ELSE /\ queuedLines' = Append(queuedLines, line) /\ UNCHANGED logBytes /\ Quiet
                     /\ CASE ready # "none" -> UNCHANGED <<stream, ready>>
                          [] ready = "none" /\ stream = "open" -> EndsStream
                          [] OTHER -> Opens
  /\ UNCHANGED <<logStreamUnavailable, timers, flushes, settled, early>>

----------------------------------------------------------------------------
(* the stream *)

(* a write reaches the file of its descriptor, wherever that is now *)
Land ==
  /\ flying > 0 /\ ~landed /\ landed' = TRUE
  /\ LET lines == SubSeq(pendingStreamLines, 1, flying)
     IN IF at = Gone THEN retired' = retired \cup ToSet(lines) /\ UNCHANGED disk
        ELSE disk' = [disk EXCEPT ![at] = @ \o lines] /\ UNCHANGED retired
  /\ UNCHANGED <<at, stream, pendingStreamLines, flying, queuedLines, logBytes,
                 logStreamUnavailable, opening, timers, counts, counted, settled, early, raced>>

(* the callbacks shift their lines; what was buffered meanwhile is written *)
Callback ==
  /\ landed /\ landed' = FALSE
  /\ pendingStreamLines' = SubSeq(pendingStreamLines, flying + 1, Len(pendingStreamLines))
  /\ flying' = Len(pendingStreamLines')
  /\ UNCHANGED <<files, stream, queuedLines, logBytes, logStreamUnavailable, opening, timers,
                 counts, counted, settled, early, raced>>

(* bug: the lines of a stream that fails are forgotten *)
RecoveredNone(lines) == <<>>
(* recoverLostStreamWrite, one line after the other *)
Recovered(lines) == lines

(* A write fails, and all that were accepted with it: the callbacks recover   *)
(* their lines, or count them.  Next to an open stream no line is queued.     *)
StreamFails ==
  /\ stream # "none" /\ ~landed /\ faults < MaxFaults /\ faults' = faults + 1
  /\ stream' = IF stream = "open" THEN "none" ELSE stream
  /\ pendingStreamLines' = <<>> /\ flying' = 0
  /\ logStreamUnavailable' = (logStreamUnavailable \/ stream = "open")
  /\ \/ disk' = [disk EXCEPT ![0] = @ \o Recovered(pendingStreamLines)] /\ UNCHANGED counted
     \/ counted' = counted \cup ToSet(pendingStreamLines) /\ UNCHANGED disk
  /\ UNCHANGED <<retired, at, landed, queuedLines, logBytes, opening, timers, logged, flushes,
                 settled, early, raced>>

----------------------------------------------------------------------------
(* openLogStream *)

(* finishLogStreamOperation when no stream is there *)
Finish == ready' = "none" /\ step' = 0
Goes(to) == ready' = to /\ Quiet
            /\ UNCHANGED <<stream, pendingStreamLines, flying, landed, queuedLines, logBytes,
                           logStreamUnavailable>>
Kept == UNCHANGED <<timers, logged, flushes, settled, early>>

(* the old stream has ended, all its callbacks came *)
StreamEnded ==
  /\ ready = "ending" /\ pendingStreamLines = <<>>
  /\ stream' = "none" /\ ready' = "forced" /\ Quiet /\ Kept
  /\ UNCHANGED <<pendingStreamLines, flying, landed, queuedLines, logBytes, logStreamUnavailable,
                 step>>

(* without streams the lines go the other way *)
BailsOut ==
  /\ logStreamUnavailable /\ Fallback(disk, queuedLines, logBytes, <<>>) /\ Finish
  /\ UNCHANGED <<streaming, logStreamUnavailable>>

Dir ==
  /\ ready \in {"dir", "forced"} /\ Kept
  /\ \/ BailsOut
     \/ /\ ~logStreamUnavailable /\ Goes(IF ready = "forced" THEN "stat-forced" ELSE "stat")
        /\ UNCHANGED step

Stat ==
  /\ ready \in {"stat", "stat-forced"} /\ Kept
  /\ LET rotates == disk[0] # <<>> /\ (ready = "stat-forced" \/ Len(disk[0]) >= MAX_LOG_BYTES)
     IN Goes(IF rotates THEN "move" ELSE "create") /\ step' = IF rotates THEN LOG_BACKUP_COUNT ELSE 0

(* moveLog: rm and rename, one backup after the other *)
Move ==
  /\ ready = "move" /\ Kept
  /\ disk' = [disk EXCEPT ![step] = disk[step - 1], ![step - 1] = <<>>]
  /\ retired' = retired \cup ToSet(disk[step])
  /\ step' = step - 1 /\ ready' = IF step = 1 THEN "create" ELSE "move"
  /\ UNCHANGED <<at, streaming, queuedLines, logBytes, logStreamUnavailable, faults, counted,
                 raced>>

(* bug: the rest of the queue is dropped *)
RestDropped(lines, n) == <<>>
(* how many of the queued lines the new stream takes, and the rest *)
Taken(lines, bytes) ==
  CHOOSE n \in 0..Len(lines) :
    /\ \A i \in 1..n : bytes + i - 1 = 0 \/ bytes + i <= MAX_LOG_BYTES
    /\ n = Len(lines) \/ (bytes + n > 0 /\ bytes + n + 1 > MAX_LOG_BYTES)
Rest(lines, n) == SubSeq(lines, n + 1, Len(lines))

(* attachLogStream, and finishLogStreamOperation, which may rotate at once    *)
Create ==
  /\ ready = "create" /\ Kept
  /\ \/ BailsOut
     \/ /\ ~logStreamUnavailable
        /\ LET bytes == Len(disk[0])
               n == Taken(queuedLines, bytes)
           IN /\ Accepted(SubSeq(queuedLines, 1, n)) /\ logBytes' = bytes + n
              /\ queuedLines' = Rest(queuedLines, n) /\ at' = 0
        /\ IF logBytes' >= MAX_LOG_BYTES \/ queuedLines' # <<>>
           THEN EndsStream ELSE stream' = "open" /\ ready' = "none"
        /\ UNCHANGED <<step, disk, retired, faults, counted, raced, logStreamUnavailable>>

(* an open or a rotation that fails *)
OpenFails ==
  /\ ready \notin {"none", "ending"} /\ Kept
  /\ logStreamUnavailable' = TRUE /\ Finish
  /\ Fallback(disk, queuedLines, logBytes, <<>>) /\ UNCHANGED streaming

----------------------------------------------------------------------------
(* flushLogsSync *)

(* bug: what an open stream has accepted is left to it *)
AtHandQueued == queuedLines
AtHand == IF stream = "open" THEN pendingStreamLines \o queuedLines ELSE queuedLines

(* What the destroyed stream was writing may still reach the file, before or  *)
(* after the lines do.                                                        *)
Flush ==
  /\ flushes < MaxFlushes /\ flushes' = flushes + 1
  /\ logStreamUnavailable' = TRUE /\ timers' = timers + 1
  /\ LET inAir == IF stream = "open" /\ ~landed THEN SubSeq(pendingStreamLines, 1, flying) ELSE <<>>
         bytes == IF stream # "open" THEN logBytes
                  ELSE IF logBytes > Len(pendingStreamLines)
                       THEN logBytes - Len(pendingStreamLines) ELSE 0
     IN \E before, after \in {<<>>, inAir} :
          Fallback([disk EXCEPT ![0] = @ \o before], AtHand, bytes, after)
  /\ IF stream = "open"
     THEN stream' = "none" /\ pendingStreamLines' = <<>> /\ flying' = 0 /\ landed' = FALSE
     ELSE UNCHANGED streaming
  /\ settled' = IF stream = "ending" THEN settled ELSE logged
  /\ early' = (early \/ stream = "ending")
  /\ UNCHANGED <<opening, logged>>

(* scheduleAsyncLogReenable *)
Reenable ==
  /\ timers > 0 /\ timers' = timers - 1
  /\ logStreamUnavailable' = IF stream # "none" \/ ready # "none" THEN logStreamUnavailable ELSE FALSE
  /\ ready' = IF stream = "none" /\ ready = "none" /\ queuedLines # <<>> THEN "dir" ELSE ready
  /\ UNCHANGED <<files, streaming, queuedLines, logBytes, step, counts, counted, settled, early,
                 raced>>

Next == Log \/ Land \/ Callback \/ StreamFails \/ StreamEnded \/ Dir \/ Stat \/ Move \/ Create
        \/ OpenFails \/ Flush \/ Reenable
Spec == Init /\ [][Next]_vars

----------------------------------------------------------------------------
OnDisk == UNION {ToSet(disk[i]) : i \in Backup}
Safe == OnDisk \cup retired \cup counted
Position == UNION {{f} \X DOMAIN disk[f] : f \in Backup}     \* of a line: its file, and where
Line(p) == disk[p[1]][p[2]]
Before(p, q) == p[1] > q[1] \/ (p[1] = q[1] /\ p[2] < q[2])  \* the last backup comes first

(* No line is lost without a trace: it is in a file, was in one that a        *)
(* rotation removed, waits in the queue or in the stream, or its loss was     *)
(* reported.                                                                  *)
LinesKept == 1..logged \subseteq Safe \cup ToSet(queuedLines) \cup ToSet(pendingStreamLines)

(* "Guarantee that everything logged so far is on disk": the lines before a   *)
(* flush that found no stream ending need no further step of the process.     *)
FlushedIsSafe == 1..settled \subseteq Safe

(* Files hold their lines in the order in which they were logged, whatever    *)
(* rotations and recoveries came, unless a flush overtook an ending stream.   *)
OrderKept ==
  early \/ \A p, q \in Position :
             Before(p, q) /\ Line(p) > Line(q) => \E r \in Position : Before(r, p) /\ Line(r) = Line(q)

(* Rotations remove the oldest lines only, unless a flush rotated meanwhile   *)
(* or overtook an ending stream.                                              *)
OldestRemoved == early \/ raced \/ \A old \in retired, new \in OnDisk : old <= new

(* No line waits for ever: with nothing underway the queue is empty.          *)
NoneStuck == ready = "none" => queuedLines = <<>> /\ stream # "ending"

LogKept == LinesKept /\ FlushedIsSafe /\ OrderKept /\ OldestRemoved /\ NoneStuck
============================================================================
