------------------------------ MODULE Recorder ------------------------------
(***************************************************************************)
(* The market recorder, record_market_forever: one service that is         *)
(* restarted again and again, each time with a session row in              *)
(* market_recording_sessions and a JSONL(.gz) file.                        *)
(*                                                                         *)
(* A written line reaches the file when its buffers spill over or are      *)
(* flushed, so the file may end within a line.  Amounts of data are counted *)
(* in pieces of a line, LineLen to the line, the last of them its newline; *)
(* what compression does to their size is left out.                        *)
(***************************************************************************)
EXTENDS Integers, Sequences

CONSTANTS
  Compress,     \* the values MARKET_RECORDING_COMPRESS may have at a start
  FlushEvery,   \* MARKET_RECORDING_FLUSH_EVERY_EVENTS
  LineLen,
  MaxEvents,    \* bound: events of a session
  MaxSessions,  \* bound
  MaxClock      \* bound: the clock, in seconds

ASSUME RecorderAssumption ==
  /\ Compress \subseteq BOOLEAN
  /\ FlushEvery \in Nat \ {0}
  /\ LineLen \in Nat \ {0, 1}
  /\ MaxEvents \in Nat
  /\ MaxSessions \in Nat
  /\ MaxClock \in Nat

VARIABLES
  sessions,  \* market_recording_sessions, in the order of their start
  files,     \* the recordings, by name
  clock,
  pc,        \* where the running session is
  counted,   \* event_count
  noted,     \* last_update
  bytes,     \* bytes_written
  buffer,    \* what was written and has not reached the file
  status     \* how the session is going to end

vars == <<sessions, files, clock, pc, counted, noted, bytes, buffer, status>>

Seconds == 0..MaxClock
PCs == {"down", "starting", "await", "written", "noting", "noted", "ending",
        "closing", "finishing"}

\* A name: the second in it, and whether it ends in .gz.
Names == [second : Seconds, gz : BOOLEAN]

Session == [status : {"running", "completed", "failed"}, count : Nat, bytes : Nat,
            path : Names]

\* A file: the session that opened it last (0: there is no file), what is in it,
\* whether it was closed and whether it is a gzip stream.
File == [owner : Nat, disk : Nat, closed : BOOLEAN, gz : BOOLEAN]
NoFile == [owner |-> 0, disk |-> 0, closed |-> FALSE, gz |-> FALSE]

Current == Len(sessions)
Path == sessions[Current].path

\* The size of a file: a closed gzip stream ends with a trailer.
Size(f) == f.disk + IF f.gz /\ f.closed THEN 1 ELSE 0

Goto(from, to) == pc = from /\ pc' = to

Init ==
  /\ sessions = <<>>
  /\ files = [name \in Names |-> NoFile]
  /\ clock = 0
  /\ pc = "down"
  /\ counted = 0 /\ noted = 0 /\ bytes = 0 /\ buffer = 0
  /\ status = "completed"

-----------------------------------------------------------------------------
(* The writer *)

\* n pieces of the buffer, which holds b, reach the file.
Spill(n, b) ==
  /\ files' = [files EXCEPT ![Path].disk = @ + n]
  /\ buffer' = b - n

\* bytes_written after a flush; 0 if the file cannot be examined.
Measure == bytes' \in {0, Size(files'[Path])}

Flush == Spill(buffer, buffer) /\ Measure

\* Slip: the file is examined without a flush.
MeasureOnly == UNCHANGED <<files, buffer>> /\ Measure

-----------------------------------------------------------------------------
(* A session *)

\* The row is committed before there is a file; its path names the second and the
\* format.
Start ==
  /\ Goto("down", "starting")
  /\ Current < MaxSessions
  /\ \E gz \in Compress :
       sessions' = Append(sessions, [status |-> "running", count |-> 0, bytes |-> 0,
                                     path |-> [second |-> clock, gz |-> gz]])
  /\ counted' = 0 /\ noted' = 0 /\ bytes' = 0 /\ buffer' = 0
  /\ status' = "completed"
  /\ UNCHANGED <<files, clock>>

\* The file is opened for writing, and emptied if it exists.
Open ==
  /\ Goto("starting", "await")
  /\ files' = [files EXCEPT ![Path] = [owner |-> Current, disk |-> 0, closed |-> FALSE,
                                       gz |-> Path.gz]]
  /\ UNCHANGED <<sessions, clock, counted, noted, bytes, buffer, status>>

\* A payload arrives and is written as a line.
Write ==
  /\ Goto("await", "written")
  /\ counted < MaxEvents
  /\ counted' = counted + 1
  /\ \E n \in 0..(buffer + LineLen) : Spill(n, buffer + LineLen)
  /\ UNCHANGED <<sessions, clock, noted, bytes, status>>

\* Slip: one event too late.
OverDue == counted - noted > FlushEvery
\* The row is to be brought up to date.
Due == counted - noted >= FlushEvery

\* Slip: the row is brought up to date without a flush.
CheckProgressUnflushed ==
  /\ Goto("written", IF Due THEN "noting" ELSE "noted")
  /\ IF Due THEN MeasureOnly ELSE UNCHANGED <<files, buffer, bytes>>
  /\ UNCHANGED <<sessions, clock, counted, noted, status>>

CheckProgress ==
  /\ Goto("written", IF Due THEN "noting" ELSE "noted")
  /\ IF Due THEN Flush ELSE UNCHANGED <<files, buffer, bytes>>
  /\ UNCHANGED <<sessions, clock, counted, noted, status>>

\* Slip: the number of the next event is noted.
NoteProgressAhead ==
  /\ Goto("noting", "noted")
  /\ sessions' = [sessions EXCEPT ![Current].count = counted, ![Current].bytes = bytes]
  /\ noted' = counted + 1
  /\ UNCHANGED <<files, clock, counted, bytes, buffer, status>>

\* update_market_recording_session.
NoteProgress ==
  /\ Goto("noting", "noted")
  /\ sessions' = [sessions EXCEPT ![Current].count = counted, ![Current].bytes = bytes]
  /\ noted' = counted
  /\ UNCHANGED <<files, clock, counted, bytes, buffer, status>>

\* Slip: the heartbeat reports what was written, flushed or not.
BeatUnflushed ==
  /\ pc = "noted"
  /\ pc' \in {"await", "ending"}
  /\ bytes' \in {bytes, files[Path].disk + buffer}
  /\ UNCHANGED <<sessions, files, clock, counted, noted, buffer, status>>

\* A heartbeat, if it is time for one, flushes too; then the session's seconds
\* may be over.
Beat ==
  /\ pc = "noted"
  /\ pc' \in {"await", "ending"}
  /\ Flush \/ UNCHANGED <<files, buffer, bytes>>
  /\ UNCHANGED <<sessions, clock, counted, noted, status>>

\* The server closes the stream.
EndStream ==
  /\ Goto("await", "ending")
  /\ UNCHANGED <<sessions, files, clock, counted, noted, bytes, buffer, status>>

LastFlush ==
  /\ Goto("ending", "closing")
  /\ Flush
  /\ UNCHANGED <<sessions, clock, counted, noted, status>>

\* Ctrl-C cancels the task where it awaits a payload; that is no Exception.
Cancel ==
  /\ Goto("await", "closing")
  /\ UNCHANGED <<sessions, files, clock, counted, noted, bytes, buffer, status>>

\* Something raises: the file cannot be opened, the stream breaks, a write or a
\* flush fails, the database does not answer.
Fail ==
  /\ \/ Goto("starting", "finishing")
     \/ pc \in {"await", "written", "noting", "noted", "ending"} /\ pc' = "closing"
  /\ status' = "failed"
  /\ UNCHANGED <<sessions, files, clock, counted, noted, bytes, buffer>>

\* __exit__ closes the file, which flushes it.
Close ==
  /\ Goto("closing", "finishing")
  /\ files' = [files EXCEPT ![Path].disk = @ + buffer, ![Path].closed = TRUE]
  /\ buffer' = 0
  /\ UNCHANGED <<sessions, clock, counted, noted, bytes, status>>

\* Slip: the failure is swallowed.
CloseFailsQuietly ==
  /\ Goto("closing", "finishing")
  /\ \E n \in 0..buffer : Spill(n, buffer)
  /\ UNCHANGED <<sessions, clock, counted, noted, bytes, status>>

\* The disk is full, say.
CloseFails ==
  /\ Goto("closing", "finishing")
  /\ \E n \in 0..buffer : Spill(n, buffer)
  /\ status' = "failed"
  /\ UNCHANGED <<sessions, clock, counted, noted, bytes>>

\* finish_market_recording_session; without a measure, the size of the file.
Finish ==
  /\ Goto("finishing", "down")
  /\ sessions' = [sessions EXCEPT
                    ![Current].status = status,
                    ![Current].count = counted,
                    ![Current].bytes = IF bytes = 0 THEN Size(files[Path]) ELSE bytes]
  /\ UNCHANGED <<files, clock, counted, noted, bytes, buffer, status>>

\* The database does not answer.
FinishFails ==
  /\ Goto("finishing", "down")
  /\ UNCHANGED <<sessions, files, clock, counted, noted, bytes, buffer, status>>

\* The process is killed, or stopped by a signal it does not handle.
Kill ==
  /\ pc # "down"
  /\ pc' = "down"
  /\ buffer' = 0
  /\ UNCHANGED <<sessions, files, clock, counted, noted, bytes, status>>

Tick ==
  /\ clock < MaxClock
  /\ clock' = clock + 1
  /\ UNCHANGED <<sessions, files, pc, counted, noted, bytes, buffer, status>>

Next ==
  \/ Start \/ Open \/ Write \/ CheckProgress \/ NoteProgress \/ Beat \/ EndStream
  \/ LastFlush \/ Cancel \/ Fail \/ Close \/ CloseFails \/ Finish \/ FinishFails
  \/ Kill \/ Tick

Spec == Init /\ [][Next]_vars

-----------------------------------------------------------------------------
(* The reader, read_market_events *)

\* The lines in a file; the last one may lack its newline.
Lines(f) == (f.disk + 1) \div LineLen

\* A gzip stream that has begun and was not closed lacks its trailer.
CutOff(f) == f.gz /\ ~f.closed

\* The file can be read to its end: the reader raises where a stream is cut off,
\* and at half a line, which is no JSON.
Readable(f) ==
  IF f.gz THEN ~CutOff(f) \/ f.disk = 0 ELSE f.disk % LineLen \in {0, LineLen - 1}

\* The events that the reader has yielded when it ends or raises.  At the end of a
\* file a line needs no newline; where a stream is cut off it does.
Yielded(f) == IF CutOff(f) THEN f.disk \div LineLen ELSE Lines(f)

-----------------------------------------------------------------------------
(* Properties *)

\* The session rows and files are well formed: no amount is negative.
TypeOK ==
  /\ sessions \in Seq(Session)
  /\ files \in [Names -> File]
  /\ clock \in Seconds
  /\ pc \in PCs
  /\ counted \in Nat
  /\ noted \in 0..counted
  /\ bytes \in Nat
  /\ buffer \in Nat
  /\ status \in {"completed", "failed"}

\* The sessions whose file is still theirs: no later one of the same second has
\* emptied it.
Keepers == {s \in DOMAIN sessions : files[sessions[s].path].owner = s}
FileOf(s) == files[sessions[s].path]

\* The event count that the row of a running, killed or completed session shows
\* is backed by lines in its file.
CountBacked ==
  \A s \in Keepers : sessions[s].status # "failed" => sessions[s].count <= Lines(FileOf(s))

\* A recording that is called completed can be replayed to its end and has
\* exactly the events that its row counts, though it was cancelled.
CompletedReplayable ==
  \A s \in Keepers :
    sessions[s].status = "completed" =>
      /\ Readable(FileOf(s))
      /\ FileOf(s).disk = sessions[s].count * LineLen

\* The bytes a row shows are there.
BytesWithinFile == \A s \in Keepers : sessions[s].bytes <= Size(FileOf(s))

\* If the process is killed now, its recording need not be Readable, but the reader
\* yields all but at most the last FlushEvery events before it raises, whether the
\* file is compressed or not.
LossBounded ==
  pc \notin {"down", "starting", "finishing"} =>
    counted - Yielded(FileOf(Current)) <= FlushEvery

\* What the writer's docstring says: a recording is replayable though the process is
\* stopped mid-session.  It does not hold, so no configuration and no theorem claims
\* it.
StoppedReplayable ==
  \A s \in Keepers : sessions[s].status = "running" => Readable(FileOf(s))
=============================================================================
