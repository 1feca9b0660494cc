--------------------------- MODULE RecorderProofs ---------------------------
(***************************************************************************)
(* Theorems about the market recorder, for every line length, interval of  *)
(* flushes and number of sessions, compressed or not.                      *)
(***************************************************************************)
EXTENDS Recorder, TLAPS

OwnFile == files[Path]
Owned == OwnFile.owner = Current

\* No file belongs to a session yet to come.
OwnersKnown == \A name \in Names : files[name].owner <= Current

\* What a row says of a file that is still its own.
RowBacked(row, f) ==
  /\ row.status # "failed" => row.count * LineLen <= f.disk
  /\ row.status = "completed" => f.closed /\ f.disk = row.count * LineLen
  /\ row.bytes <= Size(f)

RowsBacked == \A s \in Keepers : RowBacked(sessions[s], FileOf(s))

\* The running session, from its row to its last line.
Starting == /\ ~Owned
            /\ sessions[Current].count = 0 /\ sessions[Current].bytes = 0
            /\ counted = 0 /\ noted = 0 /\ bytes = 0 /\ buffer = 0
            /\ status = "completed"

Recording == /\ Owned /\ ~OwnFile.closed
             /\ OwnFile.disk + buffer = counted * LineLen
             /\ noted * LineLen <= OwnFile.disk
             /\ counted - noted <= FlushEvery
             /\ bytes <= Size(OwnFile)

Finishing == /\ status = "completed" => /\ Owned /\ OwnFile.closed
                                        /\ OwnFile.disk = counted * LineLen
             /\ Owned => bytes <= Size(OwnFile)

WithFile == {"await", "written", "noting", "noted", "ending", "closing"}

SessionRuns ==
  /\ Current > 0 /\ sessions[Current].status = "running"
  /\ pc = "starting" => Starting
  /\ pc \in WithFile => Recording
  /\ pc \in {"await", "noted"} => counted - noted < FlushEvery
  /\ pc = "noting" => buffer = 0
  /\ pc = "finishing" => Finishing

RecorderInv ==
  /\ TypeOK
  /\ OwnersKnown
  /\ RowsBacked
  /\ pc # "down" => SessionRuns

-----------------------------------------------------------------------------
(* Facts *)

LEMMA LineArithmetic ==
  ASSUME NEW n \in Nat
  PROVE  /\ n * LineLen \in Nat
         /\ (n + 1) * LineLen = n * LineLen + LineLen
  BY RecorderAssumption

\* n whole lines among m pieces are n lines.
LEMMA WholeLines ==
  ASSUME NEW m \in Nat, NEW n \in Nat, n * LineLen <= m
  PROVE  n <= m \div LineLen
<1> DEFINE q == m \div LineLen
           r == m % LineLen
<1>1. LineLen \in Nat /\ LineLen >= 2
  BY RecorderAssumption
<1>2. q \in Int /\ r \in 0..(LineLen - 1) /\ m = LineLen * q + r
  BY <1>1
<1> HIDE DEF q, r
<1> SUFFICES ASSUME q + 1 <= n PROVE FALSE
  BY <1>2 DEF q
<1>3. LineLen * (n - (q + 1)) >= 0
  BY <1>1, <1>2
<1>4. LineLen * (n - (q + 1)) = n * LineLen - LineLen * q - LineLen
  BY <1>1, <1>2
<1> QED
  BY <1>1, <1>2, <1>3, <1>4

\* A file has, and its reader yields, every line that is wholly in it.
LEMMA LinesAtLeast ==
  ASSUME NEW f \in File, NEW n \in Nat, n * LineLen <= f.disk
  PROVE  n <= Lines(f) /\ n <= Yielded(f) /\ Yielded(f) \in Int
<1>1. f.disk \in Nat /\ f.disk + 1 \in Nat /\ n * LineLen \in Nat
  BY LineArithmetic DEF File
<1>2. n <= f.disk \div LineLen
  BY <1>1, WholeLines
<1>3. n <= (f.disk + 1) \div LineLen
  <2>1. n * LineLen <= f.disk + 1
    BY <1>1
  <2> QED
    BY <1>1, <2>1, WholeLines
<1>4. f.disk \div LineLen \in Int /\ (f.disk + 1) \div LineLen \in Int
  BY <1>1, RecorderAssumption
<1> QED
  BY <1>2, <1>3, <1>4 DEF Lines, Yielded

LEMMA OwnTypes ==
  ASSUME TypeOK, Current > 0
  PROVE  /\ Current \in DOMAIN sessions /\ Current \in Nat
         /\ sessions[Current] \in Session
         /\ Path \in Names /\ OwnFile \in File
<1>1. Current \in DOMAIN sessions /\ Current \in Nat /\ sessions[Current] \in Session
  BY DEF TypeOK, Current
<1>2. Path \in Names
  BY <1>1 DEF Path, Session
<1> QED
  BY <1>1, <1>2 DEF TypeOK, OwnFile

\* A session's own file grows, or is closed: the rows stay backed.
LEMMA FileGrows ==
  ASSUME RecorderInv, pc # "down", Owned, UNCHANGED sessions,
         NEW f \in File, files' = [files EXCEPT ![Path] = f],
         f.owner = Current, f.disk >= OwnFile.disk, OwnFile.closed => f.closed,
         f.gz = OwnFile.gz
  PROVE  /\ files' \in [Names -> File] /\ Path' = Path /\ Current' = Current
         /\ OwnFile' = f /\ Owned'
         /\ OwnersKnown' /\ RowsBacked'
<1>1. Current > 0 /\ sessions[Current].status = "running"
  BY DEF RecorderInv, SessionRuns
<1>2. TypeOK /\ Path \in Names /\ OwnFile \in File /\ Current \in Nat
  BY <1>1, OwnTypes DEF RecorderInv
<1>3. files' \in [Names -> File] /\ Path' = Path /\ Current' = Current /\ files'[Path] = f
  BY <1>2 DEF TypeOK, Path, Current
<1>4. OwnFile' = f /\ Owned'
  BY <1>3 DEF OwnFile, Owned
<1>5. OwnersKnown'
  BY <1>2, <1>3 DEF OwnersKnown, RecorderInv, TypeOK
<1>6. RowsBacked'
  <2> SUFFICES ASSUME NEW s \in Keepers' PROVE RowBacked(sessions[s], FileOf(s)')
    BY DEF RowsBacked, RowBacked, FileOf, Size
  <2>1. s \in DOMAIN sessions /\ files'[sessions[s].path].owner = s /\ sessions[s] \in Session
    BY <1>2 DEF Keepers, TypeOK
  <2>2. CASE sessions[s].path = Path
    <3>1. s = Current
      BY <2>1, <2>2, <1>3
    <3>2. s \in Keepers /\ FileOf(s) = OwnFile /\ FileOf(s)' = f
      BY <3>1, <2>1, <2>2, <1>3 DEF Keepers, Owned, OwnFile, FileOf, Path
    <3>3. RowBacked(sessions[s], OwnFile)
      BY <3>2 DEF RecorderInv, RowsBacked
    <3>4. Size(OwnFile) <= Size(f)
      BY <1>2 DEF Size, File
    <3>5. sessions[s].status = "running" /\ sessions[s].count \in Nat /\ sessions[s].bytes \in Nat
      BY <3>1, <1>1, <2>1 DEF Session
    <3>6. Size(f) \in Nat /\ Size(OwnFile) \in Nat /\ sessions[s].count * LineLen \in Nat
      BY <1>2, <3>5, LineArithmetic DEF Size, File
    <3>7. f.disk \in Nat /\ OwnFile.disk \in Nat
      BY <1>2 DEF File
    <3> QED
      BY <3>2, <3>3, <3>4, <3>5, <3>6, <3>7 DEF RowBacked
  <2>3. CASE sessions[s].path # Path
    <3>1. FileOf(s)' = FileOf(s) /\ s \in Keepers
      BY <2>1, <2>3, <1>2, <1>3 DEF Keepers, FileOf, TypeOK, Session
    <3> QED
      BY <3>1 DEF RecorderInv, RowsBacked
  <2> QED
    BY <2>2, <2>3
<1> QED
  BY <1>3, <1>4, <1>5, <1>6

\* The running session's row is rewritten: the rows stay backed if it is.
LEMMA RowRewritten ==
  ASSUME RecorderInv, pc # "down", UNCHANGED files,
         NEW row \in Session, sessions' = [sessions EXCEPT ![Current] = row],
         row.path = Path, Owned => RowBacked(row, OwnFile)
  PROVE  /\ sessions' \in Seq(Session) /\ Path' = Path /\ Current' = Current
         /\ OwnFile' = OwnFile /\ (Owned' <=> Owned)
         /\ sessions'[Current] = row
         /\ OwnersKnown' /\ RowsBacked'
<1>1. Current > 0
  BY DEF RecorderInv, SessionRuns
<1>2. TypeOK /\ Path \in Names /\ Current \in Nat /\ Current \in DOMAIN sessions
  BY <1>1, OwnTypes DEF RecorderInv
<1>3. sessions' \in Seq(Session) /\ Len(sessions') = Len(sessions) /\ sessions'[Current] = row
  BY <1>2 DEF TypeOK
<1>4. Current' = Current /\ Path' = Path
  BY <1>3 DEF Current, Path
<1>5. OwnFile' = OwnFile /\ (Owned' <=> Owned)
  BY <1>4 DEF OwnFile, Owned
<1>6. OwnersKnown'
  BY <1>4 DEF OwnersKnown, RecorderInv
<1>7. RowsBacked'
  <2> SUFFICES ASSUME NEW s \in Keepers' PROVE RowBacked(sessions'[s], FileOf(s)')
    BY DEF RowsBacked, RowBacked, FileOf, Size
  <2>1. s \in DOMAIN sessions
    BY <1>2, <1>3 DEF Keepers, TypeOK
  <2>2. CASE s = Current
    <3>1. FileOf(s)' = OwnFile /\ Owned
      BY <2>2, <1>3 DEF FileOf, OwnFile, Owned, Keepers
    <3> QED
      BY <3>1, <2>2, <1>3
  <2>3. CASE s # Current
    <3>1. sessions'[s] = sessions[s] /\ s \in Keepers /\ FileOf(s)' = FileOf(s)
      BY <2>1, <2>3 DEF Keepers, FileOf
    <3> QED
      BY <3>1 DEF RecorderInv, RowsBacked
  <2> QED
    BY <2>2, <2>3
<1> QED
  BY <1>3, <1>4, <1>5, <1>6, <1>7

\* Neither rows nor files change.
LEMMA NothingStored ==
  ASSUME RecorderInv, UNCHANGED <<sessions, files>>
  PROVE  /\ Current' = Current /\ Path' = Path /\ OwnFile' = OwnFile /\ (Owned' <=> Owned)
         /\ OwnersKnown' /\ RowsBacked'
  BY DEF RecorderInv, Current, Path, OwnFile, Owned, OwnersKnown, RowsBacked, RowBacked,
         Keepers, FileOf, Size

\* The session writes to its file.
LEMMA SpillOwn ==
  ASSUME RecorderInv, pc \in WithFile, UNCHANGED sessions,
         NEW b \in Nat, NEW n \in 0..b, Spill(n, b)
  PROVE  /\ files' \in [Names -> File] /\ Path' = Path /\ Current' = Current
         /\ Owned' /\ ~OwnFile'.closed
         /\ OwnFile'.disk = OwnFile.disk + n
         /\ OwnFile.disk \in Nat
         /\ Size(OwnFile) \in Nat /\ Size(OwnFile)' = Size(OwnFile) + n
         /\ OwnersKnown' /\ RowsBacked'
         /\ buffer' = b - n /\ buffer' \in Nat
<1> DEFINE f == [OwnFile EXCEPT !.disk = @ + n]
<1>1. Recording /\ SessionRuns /\ TypeOK /\ pc # "down"
  BY DEF RecorderInv, WithFile, SessionRuns
<1>2. OwnFile \in File /\ Path \in Names /\ Owned /\ ~OwnFile.closed
  BY <1>1, OwnTypes DEF SessionRuns, Recording
<1>3. /\ f \in File /\ f.owner = Current /\ f.disk >= OwnFile.disk
      /\ f.disk = OwnFile.disk + n /\ f.closed = OwnFile.closed /\ OwnFile.disk \in Nat
      /\ f.gz = OwnFile.gz
  BY <1>2 DEF File, Owned
<1>4. files' = [files EXCEPT ![Path] = f]
  BY DEF Spill, OwnFile
<1>5. /\ files' \in [Names -> File] /\ Path' = Path /\ Current' = Current
      /\ OwnFile' = f /\ Owned' /\ OwnersKnown' /\ RowsBacked'
  <2> HIDE DEF f
  <2> QED
    BY <1>1, <1>2, <1>3, <1>4, FileGrows
<1>6. Size(OwnFile) = OwnFile.disk /\ Size(f) = f.disk
  BY <1>2, <1>3 DEF Size
<1>7. Size(OwnFile)' = Size(f)
  BY <1>5 DEF Size
<1>8. buffer' = b - n /\ buffer' \in Nat
  BY DEF Spill
<1> QED
  BY <1>2, <1>3, <1>5, <1>6, <1>7, <1>8

\* After a flush every line is in the file.
LEMMA FlushOwn ==
  ASSUME RecorderInv, pc \in WithFile, UNCHANGED sessions, Flush
  PROVE  /\ files' \in [Names -> File] /\ Path' = Path /\ Current' = Current
         /\ Owned' /\ ~OwnFile'.closed
         /\ OwnFile'.disk = counted * LineLen
         /\ OwnFile.disk <= OwnFile'.disk /\ OwnFile.disk \in Nat /\ OwnFile'.disk \in Nat
         /\ OwnersKnown' /\ RowsBacked'
         /\ buffer' = 0
         /\ bytes' \in Nat /\ bytes' <= Size(OwnFile)'
<1>1. buffer \in Nat /\ Recording
  BY DEF RecorderInv, TypeOK, SessionRuns, WithFile
<1>2. /\ files' \in [Names -> File] /\ Path' = Path /\ Current' = Current
      /\ Owned' /\ ~OwnFile'.closed
      /\ OwnFile'.disk = OwnFile.disk + buffer
      /\ OwnFile.disk \in Nat
      /\ Size(OwnFile) \in Nat /\ Size(OwnFile)' = Size(OwnFile) + buffer
      /\ OwnersKnown' /\ RowsBacked'
      /\ buffer' = buffer - buffer
  <2>1. buffer \in 0..buffer /\ Spill(buffer, buffer)
    BY <1>1 DEF Flush
  <2> QED
    BY <1>1, <2>1, SpillOwn
<1>3. bytes' \in {0, Size(OwnFile)'}
  <2>1. Size(files'[Path]) = Size(OwnFile)'
    BY <1>2 DEF OwnFile, Size
  <2> QED
    BY <2>1 DEF Flush, Measure
<1>4. bytes' \in Nat /\ bytes' <= Size(OwnFile)'
  BY <1>1, <1>2, <1>3
<1> QED
  BY <1>1, <1>2, <1>4 DEF Recording

-----------------------------------------------------------------------------
(* The invariant: a session begins *)

LEMMA RecorderInit == Init => RecorderInv
<1> SUFFICES ASSUME Init PROVE RecorderInv
  OBVIOUS
<1>1. sessions = <<>> /\ pc = "down" /\ Current = 0 /\ Keepers = {}
  BY DEF Init, Current, Keepers
<1>2. files = [name \in Names |-> NoFile] /\ NoFile \in File
  BY DEF Init, NoFile, File
<1>3. TypeOK
  <2>1. sessions \in Seq(Session)
    BY <1>1
  <2>2. clock \in Seconds
    BY RecorderAssumption DEF Init, Seconds
  <2>3. files \in [Names -> File]
    BY <1>2
  <2> QED
    BY <2>1, <2>2, <2>3 DEF Init, TypeOK, PCs
<1>4. OwnersKnown
  BY <1>1, <1>2 DEF OwnersKnown, NoFile
<1>5. RowsBacked
  BY <1>1 DEF RowsBacked
<1> QED
  BY <1>1, <1>3, <1>4, <1>5 DEF RecorderInv

LEMMA StartInv == ASSUME RecorderInv, Start PROVE RecorderInv'
<1>0. PICK gz \in Compress :
        sessions' = Append(sessions, [status |-> "running", count |-> 0, bytes |-> 0,
                                      path |-> [second |-> clock, gz |-> gz]])
  BY DEF Start
<1> DEFINE row == [status |-> "running", count |-> 0, bytes |-> 0,
                   path |-> [second |-> clock, gz |-> gz]]
<1>1. TypeOK /\ row \in Session /\ Current \in Nat
  <2>1. [second |-> clock, gz |-> gz] \in Names
    BY RecorderAssumption DEF RecorderInv, TypeOK, Names
  <2> QED
    BY <2>1 DEF RecorderInv, TypeOK, Session, Current
<1>2. /\ sessions' \in Seq(Session) /\ Current' = Current + 1 /\ sessions'[Current'] = row
      /\ \A s \in DOMAIN sessions' : s = Current' \/ (s \in DOMAIN sessions /\ sessions'[s] = sessions[s])
      /\ files' = files
  <2>1. sessions' = Append(sessions, row) /\ files' = files
    BY <1>0 DEF Start
  <2> HIDE DEF row
  <2> QED
    BY <1>1, <2>1 DEF TypeOK, Current
<1>3. \A name \in Names : files[name].owner <= Current /\ files[name].owner \in Nat
  BY <1>1 DEF RecorderInv, OwnersKnown, TypeOK, File
<1>4. Path' \in Names
  <2>1. row.path \in Names
    BY <1>1 DEF Session
  <2> QED
    BY <1>2, <2>1 DEF Path
<1>5. ~Owned'
  BY <1>1, <1>2, <1>3, <1>4 DEF Owned, OwnFile
<1>6. OwnersKnown'
  BY <1>1, <1>2, <1>3 DEF OwnersKnown
<1>7. RowsBacked'
  <2> SUFFICES ASSUME NEW s \in Keepers' PROVE RowBacked(sessions'[s], FileOf(s)')
    BY DEF RowsBacked, RowBacked, FileOf, Size
  <2>1. s # Current'
    BY <1>5 DEF Keepers, Owned, OwnFile, Path
  <2>2. s \in Keepers /\ sessions'[s] = sessions[s] /\ FileOf(s)' = FileOf(s)
    BY <1>2, <2>1 DEF Keepers, FileOf
  <2> QED
    BY <2>2 DEF RecorderInv, RowsBacked
<1>8. TypeOK'
  BY <1>1, <1>2 DEF Start, Goto, TypeOK, PCs
<1>9. SessionRuns'
  <2>1. sessions'[Current'].status = "running" /\ Current' > 0
    BY <1>1, <1>2
  <2>2. Starting'
    BY <1>2, <1>5 DEF Start, Starting
  <2>3. pc' = "starting"
    BY DEF Start, Goto
  <2> QED
    BY <2>1, <2>2, <2>3 DEF SessionRuns, WithFile
<1> QED
  BY <1>6, <1>7, <1>8, <1>9 DEF RecorderInv

LEMMA OpenInv == ASSUME RecorderInv, Open PROVE RecorderInv'
<1> DEFINE f == [owner |-> Current, disk |-> 0, closed |-> FALSE, gz |-> Path.gz]
<1>1. SessionRuns /\ Starting /\ TypeOK /\ pc = "starting" /\ pc' = "await"
  BY DEF RecorderInv, Open, Goto, SessionRuns
<1>2. /\ Current \in DOMAIN sessions /\ Current \in Nat /\ sessions[Current] \in Session
      /\ Path \in Names /\ f \in File
      /\ sessions[Current].status = "running" /\ Current > 0
  BY <1>1, OwnTypes DEF SessionRuns, File, Names
<1>3. /\ UNCHANGED <<sessions, clock, counted, noted, bytes, buffer, status>>
      /\ files' = [files EXCEPT ![Path] = f]
  BY DEF Open
<1>4. /\ Current' = Current /\ Path' = Path /\ OwnFile' = f /\ files' \in [Names -> File]
      /\ f.owner = Current /\ f.disk = 0 /\ f.closed = FALSE
  BY <1>1, <1>2, <1>3 DEF Current, Path, OwnFile, TypeOK
<1> HIDE DEF f
<1>5. OwnersKnown'
  BY <1>1, <1>2, <1>3, <1>4 DEF OwnersKnown, RecorderInv, TypeOK
<1>6. Size(f) = 0
  BY <1>4 DEF Size
<1>7. \A s \in Keepers' : s = Current \/ (s \in Keepers /\ FileOf(s)' = FileOf(s))
  BY <1>1, <1>2, <1>3, <1>4 DEF Keepers, FileOf, TypeOK, Session
<1>8. 0 * LineLen = 0
  BY RecorderAssumption
<1>9. RowBacked(sessions[Current], f)
  <2>1. sessions[Current].count = 0 /\ sessions[Current].bytes = 0
    BY <1>1 DEF SessionRuns, Starting
  <2> QED
    BY <2>1, <1>2, <1>4, <1>6, <1>8 DEF RowBacked
<1>10. RowsBacked'
  <2> SUFFICES ASSUME NEW s \in Keepers' PROVE RowBacked(sessions[s], FileOf(s)')
    BY <1>3 DEF RowsBacked, RowBacked, FileOf, Size
  <2>1. CASE s = Current
    BY <2>1, <1>3, <1>4, <1>9 DEF FileOf, OwnFile, Path
  <2>2. CASE s # Current
    BY <2>2, <1>7 DEF RecorderInv, RowsBacked
  <2> QED
    BY <2>1, <2>2
<1>11. TypeOK'
  BY <1>1, <1>3, <1>4 DEF TypeOK, PCs
<1>12. Recording'
  <2>1. Owned' /\ ~OwnFile'.closed /\ Size(OwnFile)' = 0
    BY <1>4, <1>6 DEF Owned, Size
  <2>2. counted' = 0 /\ noted' = 0 /\ bytes' = 0 /\ buffer' = 0
    BY <1>1, <1>3 DEF Starting
  <2> QED
    BY <2>1, <2>2, <1>4, <1>8, RecorderAssumption DEF Recording
<1>13. SessionRuns'
  <2>1. counted' - noted' < FlushEvery
    BY <1>1, <1>3, RecorderAssumption DEF Starting
  <2>2. Current' > 0 /\ sessions'[Current'].status = "running"
    BY <1>2, <1>3, <1>4
  <2> QED
    BY <1>1, <1>12, <2>1, <2>2 DEF SessionRuns
<1> QED
  BY <1>5, <1>10, <1>11, <1>13 DEF RecorderInv

-----------------------------------------------------------------------------
(* ... receives and writes ... *)

LEMMA WriteInv == ASSUME RecorderInv, Write PROVE RecorderInv'
<1>1. /\ SessionRuns /\ Recording /\ TypeOK /\ pc = "await" /\ pc' = "written"
      /\ pc \in WithFile
  BY DEF RecorderInv, Write, Goto, SessionRuns, WithFile
<1>2. UNCHANGED <<sessions, clock, noted, bytes, status>> /\ counted' = counted + 1
  BY DEF Write
<1>3. /\ counted \in Nat /\ noted \in Nat /\ noted <= counted /\ bytes \in Nat
      /\ buffer \in Nat /\ LineLen \in Nat /\ FlushEvery \in Nat
  BY <1>1, RecorderAssumption DEF TypeOK
<1>4. PICK n \in 0..(buffer + LineLen) : Spill(n, buffer + LineLen)
  BY DEF Write
<1>5. /\ files' \in [Names -> File] /\ Path' = Path /\ Current' = Current
      /\ Owned' /\ ~OwnFile'.closed
      /\ OwnFile'.disk = OwnFile.disk + n
      /\ OwnFile.disk \in Nat
      /\ Size(OwnFile) \in Nat /\ Size(OwnFile)' = Size(OwnFile) + n
      /\ OwnersKnown' /\ RowsBacked'
      /\ buffer' = (buffer + LineLen) - n /\ buffer' \in Nat
  <2>1. buffer + LineLen \in Nat
    BY <1>3
  <2> QED
    BY <1>1, <1>2, <1>4, <2>1, SpillOwn
<1>6. TypeOK'
  BY <1>1, <1>2, <1>3, <1>5 DEF TypeOK, PCs
<1>7. counted - noted < FlushEvery
  BY <1>1 DEF SessionRuns
<1>8. Recording'
  <2>1. counted' * LineLen = counted * LineLen + LineLen /\ counted * LineLen \in Nat
    BY <1>2, <1>3, LineArithmetic
  <2>2. noted * LineLen \in Nat
    BY <1>3, LineArithmetic
  <2>3. OwnFile'.disk + buffer' = counted' * LineLen
    BY <1>1, <1>3, <1>5, <2>1 DEF Recording
  <2>4. noted' * LineLen <= OwnFile'.disk
    BY <1>1, <1>2, <1>5, <2>2 DEF Recording
  <2>5. bytes' <= Size(OwnFile)' /\ counted' - noted' <= FlushEvery
    BY <1>1, <1>2, <1>3, <1>5, <1>7 DEF Recording
  <2> QED
    BY <1>5, <2>3, <2>4, <2>5 DEF Recording
<1> QED
  BY <1>1, <1>2, <1>5, <1>6, <1>8 DEF RecorderInv, SessionRuns

\* A step that only counts, measures or goes on.
LEMMA FilesKept ==
  ASSUME RecorderInv, pc # "down", UNCHANGED <<sessions, files, counted, noted, bytes, buffer>>
  PROVE  /\ OwnersKnown' /\ RowsBacked'
         /\ Current' > 0 /\ sessions'[Current'].status = "running"
         /\ Recording <=> Recording'
         /\ (Owned' <=> Owned) /\ OwnFile' = OwnFile /\ Size(OwnFile)' = Size(OwnFile)
<1>1. UNCHANGED <<sessions, files>>
  OBVIOUS
<1>2. Current' = Current /\ Path' = Path /\ OwnFile' = OwnFile /\ (Owned' <=> Owned)
      /\ OwnersKnown' /\ RowsBacked'
  BY <1>1, NothingStored
<1>3. Size(OwnFile)' = Size(OwnFile)
  BY <1>2 DEF Size
<1> QED
  BY <1>2, <1>3 DEF RecorderInv, SessionRuns, Recording

LEMMA CheckProgressInv == ASSUME RecorderInv, CheckProgress PROVE RecorderInv'
<1>1. /\ SessionRuns /\ Recording /\ TypeOK /\ pc = "written" /\ pc \in WithFile
      /\ pc' = IF Due THEN "noting" ELSE "noted"
  BY DEF RecorderInv, CheckProgress, Goto, SessionRuns, WithFile
<1>2. UNCHANGED <<sessions, clock, counted, noted, status>>
  BY DEF CheckProgress
<1>3. /\ counted \in Nat /\ noted \in Nat /\ noted <= counted
      /\ counted - noted <= FlushEvery /\ FlushEvery \in Nat
  BY <1>1, RecorderAssumption DEF TypeOK, Recording
<1>4. CASE Due
  <2>1. Flush
    BY <1>4 DEF CheckProgress
  <2>2. /\ files' \in [Names -> File] /\ Path' = Path /\ Current' = Current
        /\ Owned' /\ ~OwnFile'.closed
        /\ OwnFile'.disk = counted * LineLen
        /\ OwnFile.disk <= OwnFile'.disk /\ OwnFile.disk \in Nat /\ OwnFile'.disk \in Nat
        /\ OwnersKnown' /\ RowsBacked'
        /\ buffer' = 0
        /\ bytes' \in Nat /\ bytes' <= Size(OwnFile)'
    BY <1>1, <1>2, <2>1, FlushOwn
  <2>3. TypeOK'
    BY <1>1, <1>2, <1>4, <2>2 DEF TypeOK, PCs
  <2>4. Recording'
    <3>1. noted * LineLen \in Nat /\ counted * LineLen \in Nat
      BY <1>3, LineArithmetic
    <3> QED
      BY <1>1, <1>2, <1>3, <2>2, <3>1 DEF Recording
  <2> QED
    BY <1>1, <1>2, <1>4, <2>2, <2>3, <2>4 DEF RecorderInv, SessionRuns
<1>5. CASE ~Due
  <2>1. UNCHANGED <<sessions, files, counted, noted, bytes, buffer>> /\ pc' = "noted"
    BY <1>1, <1>2, <1>5 DEF CheckProgress
  <2>2. TypeOK'
    BY <1>1, <1>2, <2>1 DEF TypeOK, PCs
  <2>3. counted' - noted' < FlushEvery
    BY <1>3, <1>5, <2>1 DEF Due
  <2> QED
    BY <1>1, <2>1, <2>2, <2>3, FilesKept DEF RecorderInv, SessionRuns
<1> QED
  BY <1>4, <1>5

LEMMA NoteProgressInv == ASSUME RecorderInv, NoteProgress PROVE RecorderInv'
<1> DEFINE row == [sessions[Current] EXCEPT !.count = counted, !.bytes = bytes]
<1>1. /\ SessionRuns /\ Recording /\ TypeOK /\ pc = "noting" /\ pc' = "noted"
      /\ pc \in WithFile /\ buffer = 0
  BY DEF RecorderInv, NoteProgress, Goto, SessionRuns, WithFile
<1>2. /\ Current \in DOMAIN sessions /\ Current > 0 /\ sessions[Current] \in Session
      /\ OwnFile \in File /\ sessions[Current].status = "running"
      /\ counted \in Nat /\ bytes \in Nat
  BY <1>1, OwnTypes DEF SessionRuns, TypeOK
<1>3. /\ row \in Session /\ row.path = Path /\ row.status = "running"
      /\ row.count = counted /\ row.bytes = bytes
  BY <1>2 DEF Session, Path
<1>4. sessions' = [sessions EXCEPT ![Current] = row]
  BY DEF NoteProgress
<1> HIDE DEF row
<1>5. UNCHANGED <<files, clock, counted, bytes, buffer, status>> /\ noted' = counted
  BY DEF NoteProgress
<1>6. OwnFile.disk = counted * LineLen /\ counted * LineLen \in Nat
  <2>1. OwnFile.disk \in Nat
    BY <1>2 DEF File
  <2> QED
    BY <1>1, <1>2, <2>1, LineArithmetic DEF Recording
<1>7. RowBacked(row, OwnFile)
  BY <1>1, <1>3, <1>6 DEF RowBacked, Recording
<1>8. /\ sessions' \in Seq(Session) /\ Path' = Path /\ Current' = Current
      /\ OwnFile' = OwnFile /\ (Owned' <=> Owned)
      /\ sessions'[Current] = row
      /\ OwnersKnown' /\ RowsBacked'
  BY <1>1, <1>3, <1>4, <1>5, <1>7, RowRewritten
<1>9. TypeOK'
  BY <1>1, <1>2, <1>5, <1>8 DEF TypeOK, PCs
<1>10. counted' - noted' < FlushEvery
  BY <1>2, <1>5, RecorderAssumption
<1>11. Recording'
  <2>1. Size(OwnFile)' = Size(OwnFile)
    BY <1>8 DEF Size
  <2>2. noted' * LineLen <= OwnFile'.disk /\ OwnFile'.disk + buffer' = counted' * LineLen
    BY <1>1, <1>5, <1>6, <1>8
  <2>3. counted' - noted' <= FlushEvery
    BY <1>2, <1>10, <1>5, RecorderAssumption
  <2> QED
    BY <1>1, <1>5, <1>8, <2>1, <2>2, <2>3 DEF Recording
<1>12. Current' > 0 /\ sessions'[Current'].status = "running"
  BY <1>2, <1>3, <1>8
<1> QED
  BY <1>1, <1>8, <1>9, <1>10, <1>11, <1>12 DEF RecorderInv, SessionRuns

\* A flush within or at the end of the stream.
LEMMA FlushedInv ==
  ASSUME RecorderInv, pc \in {"noted", "ending"}, Flush,
         UNCHANGED <<sessions, clock, counted, noted, status>>,
         pc' \in {"await", "ending", "closing"}, pc = "noted" \/ pc' = "closing"
  PROVE  RecorderInv'
<1>1. SessionRuns /\ Recording /\ TypeOK /\ pc \in WithFile
  BY DEF RecorderInv, SessionRuns, WithFile
<1>2. /\ files' \in [Names -> File] /\ Path' = Path /\ Current' = Current
      /\ Owned' /\ ~OwnFile'.closed
      /\ OwnFile'.disk = counted * LineLen
      /\ OwnFile.disk <= OwnFile'.disk /\ OwnFile.disk \in Nat /\ OwnFile'.disk \in Nat
      /\ OwnersKnown' /\ RowsBacked'
      /\ buffer' = 0
      /\ bytes' \in Nat /\ bytes' <= Size(OwnFile)'
  BY <1>1, FlushOwn
<1>3. TypeOK'
  BY <1>1, <1>2 DEF TypeOK, PCs
<1>4. Recording'
  <2>1. noted \in Nat /\ counted \in Nat
    BY <1>1 DEF TypeOK
  <2>2. noted * LineLen \in Nat /\ counted * LineLen \in Nat
    BY <2>1, LineArithmetic
  <2> QED
    BY <1>1, <1>2, <2>2 DEF Recording
<1> QED
  BY <1>1, <1>2, <1>3, <1>4 DEF RecorderInv, SessionRuns

LEMMA BeatInv == ASSUME RecorderInv, Beat PROVE RecorderInv'
<1>1. CASE Flush
  BY <1>1, FlushedInv DEF Beat
<1>2. CASE UNCHANGED <<files, buffer, bytes>>
  <2>1. UNCHANGED <<sessions, files, counted, noted, bytes, buffer>> /\ pc = "noted"
    BY <1>2 DEF Beat
  <2>2. TypeOK' /\ SessionRuns /\ Recording /\ counted - noted < FlushEvery
    BY <1>2 DEF Beat, RecorderInv, TypeOK, PCs, SessionRuns, WithFile
  <2> QED
    BY <2>1, <2>2, FilesKept DEF Beat, RecorderInv, SessionRuns
<1> QED
  BY <1>1, <1>2 DEF Beat

LEMMA LastFlushInv == ASSUME RecorderInv, LastFlush PROVE RecorderInv'
  BY FlushedInv DEF LastFlush, Goto

-----------------------------------------------------------------------------
(* ... and ends *)

LEMMA StopInv == ASSUME RecorderInv, EndStream \/ Cancel PROVE RecorderInv'
<1>1. /\ UNCHANGED <<sessions, files, clock, counted, noted, bytes, buffer, status>>
      /\ pc = "await" /\ pc' \in {"ending", "closing"}
  BY DEF EndStream, Cancel, Goto
<1>2. TypeOK' /\ SessionRuns /\ Recording
  BY <1>1 DEF RecorderInv, TypeOK, PCs, SessionRuns, WithFile
<1> QED
  BY <1>1, <1>2, FilesKept DEF RecorderInv, SessionRuns

LEMMA FailInv == ASSUME RecorderInv, Fail PROVE RecorderInv'
<1>1. UNCHANGED <<sessions, files, clock, counted, noted, bytes, buffer>> /\ status' = "failed"
  BY DEF Fail
<1>2. TypeOK' /\ SessionRuns /\ pc # "down"
  BY <1>1 DEF Fail, Goto, RecorderInv, TypeOK, PCs
<1>3. /\ OwnersKnown' /\ RowsBacked'
      /\ Current' > 0 /\ sessions'[Current'].status = "running"
      /\ Recording <=> Recording'
      /\ Owned' <=> Owned
  BY <1>1, <1>2, FilesKept
<1>4. CASE pc = "starting" /\ pc' = "finishing"
  <2>1. Finishing'
    BY <1>1, <1>2, <1>3, <1>4 DEF SessionRuns, Starting, Finishing
  <2> QED
    BY <1>2, <1>3, <1>4, <2>1 DEF RecorderInv, SessionRuns, WithFile
<1>5. CASE pc \in {"await", "written", "noting", "noted", "ending"} /\ pc' = "closing"
  <2>1. Recording'
    BY <1>2, <1>3, <1>5 DEF SessionRuns, WithFile
  <2> QED
    BY <1>2, <1>3, <1>5, <2>1 DEF RecorderInv, SessionRuns, WithFile
<1> QED
  BY <1>4, <1>5 DEF Fail, Goto

LEMMA CloseInv == ASSUME RecorderInv, Close PROVE RecorderInv'
<1> DEFINE g == [OwnFile EXCEPT !.disk = @ + buffer]
           f == [g EXCEPT !.closed = TRUE]
<1>1. SessionRuns /\ Recording /\ TypeOK /\ pc = "closing" /\ pc' = "finishing"
  BY DEF RecorderInv, Close, Goto, SessionRuns, WithFile
<1>2. /\ OwnFile \in File /\ OwnFile.disk \in Nat /\ buffer \in Nat /\ Owned
      /\ sessions[Current].status = "running" /\ Current > 0
  BY <1>1, OwnTypes DEF SessionRuns, Recording, TypeOK, File
<1>3. /\ f \in File /\ f.owner = Current /\ f.disk = OwnFile.disk + buffer
      /\ f.disk >= OwnFile.disk /\ f.closed /\ f.gz = OwnFile.gz
  <2>1. /\ g \in File /\ g.owner = Current /\ g.disk = OwnFile.disk + buffer
        /\ g.gz = OwnFile.gz
    BY <1>2 DEF File, Owned
  <2> HIDE DEF g
  <2>2. /\ f.owner = Current /\ f.disk = OwnFile.disk + buffer /\ f.closed
        /\ f.gz = OwnFile.gz
    BY <2>1 DEF File
  <2>3. f \in File
    <3>1. TRUE \in BOOLEAN
      OBVIOUS
    <3> QED
      BY <2>1, <3>1, Zenon DEF File
  <2> QED
    BY <1>2, <2>2, <2>3
<1>4. UNCHANGED <<sessions, clock, counted, noted, bytes, status>> /\ buffer' = 0
  BY DEF Close
<1>5. files' = [files EXCEPT ![Path] = f]
  BY DEF Close, OwnFile
<1> HIDE DEF f
<1>6. /\ files' \in [Names -> File] /\ Path' = Path /\ Current' = Current
      /\ OwnFile' = f /\ Owned'
      /\ OwnersKnown' /\ RowsBacked'
  BY <1>1, <1>2, <1>3, <1>4, <1>5, FileGrows
<1>7. TypeOK'
  BY <1>1, <1>4, <1>6 DEF TypeOK, PCs
<1>8. Size(OwnFile) = OwnFile.disk /\ Size(OwnFile)' \in {f.disk, f.disk + 1}
  <2>1. Size(OwnFile)' = Size(f) /\ ~OwnFile.closed
    BY <1>1, <1>6 DEF Size, Recording
  <2>2. f.disk \in Nat
    BY <1>3 DEF File
  <2> QED
    BY <1>2, <2>1, <2>2 DEF Size
<1>9. bytes' <= Size(OwnFile)'
  <2>1. bytes <= OwnFile.disk /\ bytes \in Nat
    BY <1>1, <1>8 DEF Recording, TypeOK
  <2> QED
    BY <1>2, <1>3, <1>4, <1>8, <2>1
<1>10. Finishing'
  BY <1>1, <1>3, <1>4, <1>6, <1>9 DEF Finishing, Recording
<1> QED
  BY <1>1, <1>2, <1>4, <1>6, <1>7, <1>10 DEF RecorderInv, SessionRuns, WithFile

LEMMA CloseFailsInv == ASSUME RecorderInv, CloseFails PROVE RecorderInv'
<1>1. /\ SessionRuns /\ Recording /\ TypeOK /\ pc = "closing" /\ pc' = "finishing"
      /\ pc \in WithFile
  BY DEF RecorderInv, CloseFails, Goto, SessionRuns, WithFile
<1>2. UNCHANGED <<sessions, clock, counted, noted, bytes>> /\ status' = "failed"
  BY DEF CloseFails
<1>3. buffer \in Nat /\ bytes \in Nat
  BY <1>1 DEF TypeOK
<1>4. PICK n \in 0..buffer : Spill(n, buffer)
  BY DEF CloseFails
<1>5. /\ files' \in [Names -> File] /\ Path' = Path /\ Current' = Current
      /\ Owned'
      /\ Size(OwnFile) \in Nat /\ Size(OwnFile)' = Size(OwnFile) + n
      /\ OwnersKnown' /\ RowsBacked'
      /\ buffer' \in Nat
  BY <1>1, <1>2, <1>3, <1>4, SpillOwn
<1>6. TypeOK'
  BY <1>1, <1>2, <1>5 DEF TypeOK, PCs
<1>7. Finishing'
  BY <1>1, <1>2, <1>3, <1>5 DEF Finishing, Recording
<1> QED
  BY <1>1, <1>2, <1>5, <1>6, <1>7 DEF RecorderInv, SessionRuns, WithFile

LEMMA FinishInv == ASSUME RecorderInv, Finish PROVE RecorderInv'
<1> DEFINE size == IF bytes = 0 THEN Size(OwnFile) ELSE bytes
           row == [sessions[Current] EXCEPT !.status = status, !.count = counted, !.bytes = size]
<1>1. SessionRuns /\ Finishing /\ TypeOK /\ pc = "finishing" /\ pc' = "down"
  BY DEF RecorderInv, Finish, Goto, SessionRuns
<1>2. /\ Current \in DOMAIN sessions /\ Current > 0 /\ sessions[Current] \in Session
      /\ OwnFile \in File /\ counted \in Nat /\ bytes \in Nat
      /\ status \in {"completed", "failed"}
  BY <1>1, OwnTypes DEF SessionRuns, TypeOK
<1>3. Size(OwnFile) \in Nat /\ size \in Nat
  BY <1>2 DEF Size, File
<1>4. Owned => size <= Size(OwnFile)
  BY <1>1, <1>3 DEF Finishing
<1>5. sessions' = [sessions EXCEPT ![Current] = row]
  BY DEF Finish, OwnFile
<1> HIDE DEF size
<1>6. /\ row \in Session /\ row.path = Path /\ row.status = status
      /\ row.count = counted /\ row.bytes = size
  BY <1>2, <1>3 DEF Session, Path
<1> HIDE DEF row
<1>7. UNCHANGED <<files, clock, counted, noted, bytes, buffer, status>>
  BY DEF Finish
<1>8. counted * LineLen \in Nat
  BY <1>2, LineArithmetic
<1>9. Owned => RowBacked(row, OwnFile)
  BY <1>1, <1>2, <1>4, <1>6, <1>8 DEF RowBacked, Finishing
<1>10. sessions' \in Seq(Session) /\ OwnersKnown' /\ RowsBacked'
  BY <1>1, <1>5, <1>6, <1>7, <1>9, RowRewritten
<1>11. TypeOK'
  BY <1>1, <1>7, <1>10 DEF TypeOK, PCs
<1> QED
  BY <1>1, <1>10, <1>11 DEF RecorderInv

LEMMA GoneInv == ASSUME RecorderInv, FinishFails \/ Kill PROVE RecorderInv'
<1>1. /\ UNCHANGED <<sessions, files, clock, counted, noted, bytes, status>>
      /\ pc' = "down" /\ buffer' \in {0, buffer}
  BY DEF FinishFails, Kill, Goto
<1>2. TypeOK'
  BY <1>1 DEF RecorderInv, TypeOK, PCs
<1> QED
  BY <1>1, <1>2, NothingStored DEF RecorderInv

LEMMA UnmovedInv ==
  ASSUME RecorderInv, clock' \in Seconds,
         UNCHANGED <<sessions, files, pc, counted, noted, bytes, buffer, status>>
  PROVE  RecorderInv'
<1>1. TypeOK'
  BY DEF RecorderInv, TypeOK
<1>2. /\ Current' = Current /\ Path' = Path /\ OwnFile' = OwnFile /\ (Owned' <=> Owned)
      /\ OwnersKnown' /\ RowsBacked'
  BY NothingStored
<1>3. Size(OwnFile)' = Size(OwnFile)
  BY <1>2 DEF Size
<1>4. pc # "down" => SessionRuns'
  BY <1>2, <1>3 DEF RecorderInv, SessionRuns, Starting, Recording, Finishing
<1> QED
  BY <1>1, <1>2, <1>4 DEF RecorderInv

LEMMA RecorderNext == ASSUME RecorderInv, [Next]_vars PROVE RecorderInv'
<1>1. CASE Tick
  <2>1. clock' \in Seconds
    BY <1>1, RecorderAssumption DEF Tick, RecorderInv, TypeOK, Seconds
  <2> QED
    BY <1>1, <2>1, UnmovedInv DEF Tick
<1>2. CASE UNCHANGED vars
  <2>1. clock' \in Seconds
    BY <1>2 DEF vars, RecorderInv, TypeOK
  <2> QED
    BY <1>2, <2>1, UnmovedInv DEF vars
<1> QED
  BY <1>1, <1>2, StartInv, OpenInv, WriteInv, CheckProgressInv, NoteProgressInv, BeatInv,
     LastFlushInv, StopInv, FailInv, CloseInv, CloseFailsInv, FinishInv, GoneInv DEF Next

LEMMA RecorderAlways == Spec => []RecorderInv
  BY RecorderInit, RecorderNext, PTL DEF Spec

-----------------------------------------------------------------------------
(* Theorems *)

\* The recorder's rows, files and counters keep their types, whatever fails.
THEOREM TypeCorrect == Spec => []TypeOK
<1>1. RecorderInv => TypeOK
  BY DEF RecorderInv
<1> QED
  BY <1>1, RecorderAlways, PTL

\* The count that a row shows is backed by lines in the file, through every
\* flush, failure, kill and restart (update_market_recording_session).
THEOREM CountAlwaysBacked == Spec => []CountBacked
<1>1. RecorderInv => CountBacked
  <2> SUFFICES ASSUME RecorderInv, NEW s \in Keepers, sessions[s].status # "failed"
               PROVE  sessions[s].count <= Lines(FileOf(s))
    BY DEF CountBacked
  <2>1. sessions[s] \in Session
    BY DEF RecorderInv, TypeOK, Keepers
  <2>2. FileOf(s) \in File /\ sessions[s].count \in Nat
    BY <2>1 DEF RecorderInv, TypeOK, FileOf, Session
  <2>3. sessions[s].count * LineLen <= FileOf(s).disk
    BY DEF RecorderInv, RowsBacked, RowBacked
  <2> QED
    BY <2>2, <2>3, LinesAtLeast
<1> QED
  BY <1>1, RecorderAlways, PTL

\* No row shows more bytes than its file has (finish_market_recording_session).
THEOREM BytesAlwaysThere == Spec => []BytesWithinFile
<1>1. RecorderInv => BytesWithinFile
  BY DEF RecorderInv, RowsBacked, RowBacked, BytesWithinFile
<1> QED
  BY <1>1, RecorderAlways, PTL

\* A recording that is called completed is closed, can be read to its end and
\* has just the events its row counts (record_market_forever).
THEOREM CompletedIsReplayable == Spec => []CompletedReplayable
<1>1. RecorderInv => CompletedReplayable
  <2> SUFFICES ASSUME RecorderInv, NEW s \in Keepers, sessions[s].status = "completed"
               PROVE  /\ Readable(FileOf(s))
                      /\ FileOf(s).disk = sessions[s].count * LineLen
    BY DEF CompletedReplayable
  <2>1. FileOf(s).closed /\ FileOf(s).disk = sessions[s].count * LineLen
    BY DEF RecorderInv, RowsBacked, RowBacked
  <2>2. sessions[s].count \in Nat
    <3>1. sessions[s] \in Session
      BY DEF RecorderInv, TypeOK, Keepers
    <3> QED
      BY <3>1 DEF Session
  <2>3. (sessions[s].count * LineLen) % LineLen = 0
    <3>1. LineLen \in Nat \ {0}
      BY RecorderAssumption
    <3> QED
      BY <2>2, <3>1
  <2> QED
    BY <2>1, <2>3, RecorderAssumption DEF Readable, CutOff
<1> QED
  BY <1>1, RecorderAlways, PTL

\* Whenever the recorder is killed, whichever format it writes, the reader yields
\* all but at most FlushEvery of its events before it ends or raises
\* (record_market_forever, read_market_events).
THEOREM LossAlwaysBounded == Spec => []LossBounded
<1>1. RecorderInv => LossBounded
  <2> SUFFICES ASSUME RecorderInv, pc \notin {"down", "starting", "finishing"}
               PROVE  counted - Yielded(FileOf(Current)) <= FlushEvery
    BY DEF LossBounded
  <2>1. TypeOK /\ SessionRuns /\ Recording
    BY DEF RecorderInv, TypeOK, PCs, SessionRuns, WithFile
  <2>2. OwnFile \in File /\ FileOf(Current) = OwnFile
    BY <2>1, OwnTypes DEF SessionRuns, FileOf, OwnFile, Path
  <2>3. noted \in Nat /\ noted * LineLen <= OwnFile.disk /\ counted - noted <= FlushEvery
    BY <2>1 DEF TypeOK, Recording
  <2>4. noted <= Yielded(OwnFile) /\ Yielded(OwnFile) \in Int
    BY <2>2, <2>3, LinesAtLeast
  <2>5. counted \in Nat /\ FlushEvery \in Nat
    BY <2>1, RecorderAssumption DEF TypeOK
  <2> QED
    BY <2>2, <2>3, <2>4, <2>5
<1> QED
  BY <1>1, RecorderAlways, PTL
=============================================================================
