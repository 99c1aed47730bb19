--------------------------- MODULE Evidence_proofs ---------------------------
(***************************************************************************)
(* Proofs about what remains of an Execution, for every number of outputs, *)
(* runs, callers, chunks, rows and faults.  The parts of Evidence share no *)
(* state, so each has an inductive invariant of its own, preserved by its  *)
(* own steps and by those that leave its variables alone.                  *)
(***************************************************************************)
EXTENDS Evidence, SequenceTheorems, FiniteSetTheorems, TLAPS

evidenceVars == <<part, resultVars, workspaceVars, downloadVars, queryVars>>

----------------------------------------------------------------------------
(* The download.  The file is read twice, first to hash it and then to send *)
(* a range.  As long as its modification time is the one it was opened with *)
(* and no change went without a trace, it has the content it was opened    *)
(* with, so that what is hashed is that content.                           *)

FileContent == [Chunks -> Nat]
FileRow == [chunks : FileContent, mtime : Nat]

ReaderRow ==
    [at : {"closed", "refused", "hash", "send", "conflict", "broken", "complete"},
     tries : Nat, linked : BOOLEAN, own : FileRow \cup {NoFile}, mtime : Nat,
     range : (Chunks \X Chunks) \cup {<< >>}, hashed : Seq(Nat), sent : Seq(Nat)]

\* The files, the contents and the reader keep their shape.
DownloadTypeOK ==
    /\ disk \in FileRow /\ writes \in Nat /\ disk.mtime <= writes
    /\ opened \in [chunks : FileContent, hidden : BOOLEAN]
    /\ reader \in ReaderRow

\* A reader has a range to send.  Time never goes back, so that a file with
\* the time it was opened with was not changed, or was so without a trace.
ReaderSees ==
    Reading =>
        /\ reader.range # << >> /\ reader.range[1] <= reader.range[2]
        /\ OpenFile \in FileRow
        /\ reader.mtime <= OpenFile.mtime /\ OpenFile.mtime <= writes
        /\ ~opened.hidden /\ Unchanged => Content = opened.chunks

\* What was hashed is the beginning of the content that was opened.
HashedBefore ==
    reader.at = "hash" =>
        /\ Len(reader.hashed) < NumChunks /\ reader.sent = << >>
        /\ ~opened.hidden =>
             \A i \in 1 .. Len(reader.hashed) : reader.hashed[i] = opened.chunks[i]

\* ... and in the end all of it.
SentAfter ==
    reader.at = "send" =>
        /\ Len(reader.hashed) = NumChunks
        /\ Len(reader.sent) < reader.range[2] - reader.range[1] + 1
        /\ ~opened.hidden => reader.hashed = opened.chunks

DownloadInv ==
    /\ DownloadTypeOK /\ ReaderSees /\ HashedBefore /\ SentAfter
    /\ DownloadIsAsAnnounced

----------------------------------------------------------------------------
(* A result that is read by three statements: what has SUCCEEDED stays so.  *)

StoredStatus ==
    {"NONE", "PENDING", "QUEUED", "RUNNING", "SUCCEEDED", "FAILED", "SKIPPED",
     "WAITING_FOR_OPERATION", "FINALIZING"}

\* The last Operation there is.
LastOf(o) == IF o[2] = "NONE" THEN 1 ELSE 2

\* The rows of the result and the bundle keep their shape.
BundleTypeOK ==
    /\ stored \in [mode : {"SINGLE", "MULTI"}, execution : StoredStatus,
                   operation : [Parts -> StoredStatus],
                   step : [Parts -> StoredStatus]]
    /\ bundle \in [read : {0, 1, 2, 3}, execution : StoredStatus,
                   operation : [Parts -> StoredStatus],
                   step : [Parts -> StoredStatus]]
    /\ stored.operation[1] # "NONE"

\* Operations end with their Steps, and an Execution succeeds with its last
\* Operation; SINGLE has one Operation, which ends with the Execution.
RowsAgree(mode, status, o, s) ==
    /\ \A p \in Parts : o[p] = "SUCCEEDED" => s[p] = "SUCCEEDED"
    /\ status \in {"FINALIZING", "SUCCEEDED"} => o[LastOf(o)] = "SUCCEEDED"
    /\ status \in {"QUEUED", "RUNNING"} => o[LastOf(o)] # "SUCCEEDED"
    /\ status = "WAITING_FOR_OPERATION" => o[LastOf(o)] = s[LastOf(o)]
    /\ mode = "SINGLE" =>
         /\ o[2] = "NONE"
         /\ status \notin {"WAITING_FOR_OPERATION", "FINALIZING"}
         /\ status = "FAILED" => o[1] # "SUCCEEDED"

StoredAgrees ==
    RowsAgree(stored.mode, stored.execution, stored.operation, stored.step)

\* What a statement saw SUCCEEDED is still so.
BundleFollows ==
    /\ bundle.read >= 1 /\ bundle.execution = "SUCCEEDED" =>
         stored.execution = "SUCCEEDED"
    /\ bundle.read >= 2 =>
         /\ \A p \in Parts :
              bundle.operation[p] = "SUCCEEDED" => stored.operation[p] = "SUCCEEDED"
         /\ bundle.execution = "SUCCEEDED" =>
              bundle.operation[LastOf(bundle.operation)] = "SUCCEEDED"

BundleInv == BundleTypeOK /\ StoredAgrees /\ BundleFollows /\ BundleAgrees

----------------------------------------------------------------------------
(* The proofs about the download. *)

\* A range that can be satisfied lies within the file.
LEMMA RangeIsWithin ==
    ASSUME NEW header \in RangeHeaders, ParseRange(header) # << >>
    PROVE  /\ ParseRange(header) \in Chunks \X Chunks
           /\ ParseRange(header)[1] <= ParseRange(header)[2]
<1> DEFINE suffix == header.from = 0 /\ header.to # 0
           start == IF header = NoHeader THEN 1
                    ELSE IF ~suffix THEN header.from
                    ELSE IF header.to >= NumChunks THEN 1
                    ELSE NumChunks - header.to + 1
           end == IF suffix \/ header.to = 0 THEN NumChunks ELSE header.to
           last == IF end < NumChunks THEN end ELSE NumChunks
<1>1. /\ NumChunks \in Nat \ {0}
      /\ header.from \in 0 .. NumChunks + 1 /\ header.to \in 0 .. NumChunks + 1
      /\ header = [from |-> header.from, to |-> header.to]
  BY ChunksAssumption DEF RangeHeaders
<1>2. start \in Nat \ {0} /\ end \in Nat
  BY <1>1 DEF NoHeader
<1>3. ParseRange(header) = IF start > NumChunks \/ end < start THEN << >>
                           ELSE <<start, last>>
  BY DEF ParseRange
<1> HIDE DEF start, end
<1>4. ~(start > NumChunks \/ end < start)
  BY <1>3
<1>5. start \in Chunks /\ last \in Chunks /\ start <= last
  BY <1>1, <1>2, <1>4 DEF Chunks
<1> HIDE DEF last
<1> QED
  BY <1>3, <1>4, <1>5


\* The file is replaced: its reader sees what it saw.
LEMMA ReplacedKeeps ==
    ASSUME DownloadInv, Replaced
    PROVE  DownloadInv'
<1> DEFINE away == [reader EXCEPT !.linked = FALSE, !.own = disk]
<1>1. /\ disk \in FileRow /\ writes \in Nat /\ disk.mtime <= writes
      /\ opened \in [chunks : FileContent, hidden : BOOLEAN] /\ reader \in ReaderRow
  BY DEF DownloadInv, DownloadTypeOK
<1>2. PICK v \in Values :
        disk' = [chunks |-> [i \in Chunks |-> v], mtime |-> writes + 1]
  BY DEF Replaced
<1>3. /\ writes' = writes + 1 /\ opened' = opened
      /\ reader' = IF Reading /\ reader.linked THEN away ELSE reader
  BY DEF Replaced
<1>4. disk' \in FileRow /\ disk'.mtime = writes + 1 /\ writes + 1 \in Nat
  BY <1>1, <1>2, ValuesAssumption DEF FileRow, FileContent, Values
<1>5. /\ away \in ReaderRow /\ away.at = reader.at /\ away.range = reader.range
      /\ away.hashed = reader.hashed /\ away.sent = reader.sent
      /\ away.linked = FALSE /\ away.own = disk /\ away.mtime = reader.mtime
  BY <1>1 DEF ReaderRow
<1> HIDE DEF away
<1>6. /\ reader' \in ReaderRow /\ reader'.at = reader.at
      /\ reader'.range = reader.range /\ reader'.hashed = reader.hashed
      /\ reader'.sent = reader.sent /\ reader'.mtime = reader.mtime
  BY <1>1, <1>3, <1>5
<1>7. DownloadTypeOK'
  BY <1>1, <1>3, <1>4, <1>6 DEF DownloadTypeOK
<1>8. Reading => OpenFile' = OpenFile
  BY <1>3, <1>5 DEF OpenFile
<1>9. ReaderSees'
  <2> SUFFICES ASSUME Reading PROVE ReaderSees'
    BY <1>6 DEF ReaderSees, Reading
  <2>1. /\ OpenFile \in FileRow /\ reader.mtime <= OpenFile.mtime
        /\ OpenFile.mtime <= writes
        /\ reader.range # << >> /\ reader.range[1] <= reader.range[2]
        /\ ~opened.hidden /\ Unchanged => Content = opened.chunks
    BY DEF DownloadInv, ReaderSees
  <2>2. OpenFile.mtime <= writes + 1
    BY <1>1, <2>1 DEF FileRow
  <2> QED
    BY <2>1, <2>2, <1>3, <1>6, <1>8 DEF ReaderSees, Content, Unchanged
<1>10. HashedBefore' /\ SentAfter' /\ DownloadIsAsAnnounced'
  BY <1>3, <1>6
     DEF DownloadInv, HashedBefore, SentAfter, DownloadIsAsAnnounced, Requested
<1> QED
  BY <1>7, <1>9, <1>10 DEF DownloadInv

\* The file is changed in place: its time tells, or the change is hidden.
LEMMA ChangedKeeps ==
    ASSUME DownloadInv, Changed
    PROVE  DownloadInv'
<1>1. /\ disk \in FileRow /\ writes \in Nat /\ disk.mtime <= writes
      /\ opened \in [chunks : FileContent, hidden : BOOLEAN] /\ reader \in ReaderRow
  BY DEF DownloadInv, DownloadTypeOK
<1>2. PICK i \in Chunks, v \in Values, mtime \in {disk.mtime, writes + 1} :
        /\ disk' = [chunks |-> [disk.chunks EXCEPT ![i] = v], mtime |-> mtime]
        /\ opened' = [opened EXCEPT !.hidden =
                         \/ @
                         \/ Reading /\ reader.linked /\ mtime = disk.mtime]
  BY DEF Changed
<1>3. writes' = writes + 1 /\ reader' = reader
  BY DEF Changed
<1>4. mtime \in Nat /\ mtime <= writes + 1 /\ disk.mtime <= mtime
  BY <1>1 DEF FileRow
<1>5. disk' \in FileRow /\ disk'.mtime = mtime
  BY <1>1, <1>2, <1>4, ValuesAssumption DEF FileRow, FileContent, Values
<1>6. /\ opened' \in [chunks : FileContent, hidden : BOOLEAN]
      /\ opened'.chunks = opened.chunks
      /\ opened'.hidden = (opened.hidden \/ (Reading /\ reader.linked /\ mtime = disk.mtime))
  BY <1>1, <1>2
<1>7. DownloadTypeOK'
  BY <1>1, <1>3, <1>4, <1>5, <1>6 DEF DownloadTypeOK
<1>8. ReaderSees'
  <2> SUFFICES ASSUME Reading PROVE ReaderSees'
    BY <1>3 DEF ReaderSees, Reading
  <2>1. /\ OpenFile \in FileRow /\ reader.mtime <= OpenFile.mtime
        /\ OpenFile.mtime <= writes
        /\ reader.range # << >> /\ reader.range[1] <= reader.range[2]
        /\ ~opened.hidden /\ Unchanged => Content = opened.chunks
    BY DEF DownloadInv, ReaderSees
  <2>2. reader.mtime \in Nat /\ OpenFile.mtime \in Nat
    BY <1>1, <2>1 DEF FileRow, ReaderRow
  <2>3. CASE reader.linked
    <3>1. OpenFile = disk /\ OpenFile' = disk'
      BY <2>3, <1>3 DEF OpenFile
    <3>2. /\ OpenFile' \in FileRow /\ reader.mtime <= OpenFile'.mtime
          /\ OpenFile'.mtime <= writes + 1
      BY <3>1, <1>1, <1>4, <1>5, <2>1, <2>2
    <3>3. Unchanged' => mtime = disk.mtime
      BY <3>1, <1>1, <1>3, <1>4, <1>5, <2>1, <2>2 DEF Unchanged
    <3>4. opened'.hidden \/ ~Unchanged'
      BY <3>3, <1>6, <2>3
    <3> QED
      BY <3>2, <3>4, <1>3, <2>1 DEF ReaderSees
  <2>4. CASE ~reader.linked
    <3>1. OpenFile' = OpenFile
      BY <2>4, <1>3 DEF OpenFile
    <3>2. OpenFile.mtime <= writes + 1
      BY <1>1, <2>1, <2>2
    <3> QED
      BY <3>1, <3>2, <1>3, <1>6, <2>1 DEF ReaderSees, Unchanged, Content
  <2> QED
    BY <2>3, <2>4
<1>9. HashedBefore' /\ SentAfter' /\ DownloadIsAsAnnounced'
  BY <1>3, <1>6
     DEF DownloadInv, HashedBefore, SentAfter, DownloadIsAsAnnounced, Requested, Reading
<1> QED
  BY <1>7, <1>8, <1>9 DEF DownloadInv

\* The file is opened, for the first time or again.
LEMMA OpenedKeeps ==
    ASSUME DownloadInv, NEW range \in Chunks \X Chunks, range[1] <= range[2],
           NEW tries \in Nat, Opened(range, tries), UNCHANGED <<disk, writes>>
    PROVE  DownloadInv'
<1> DEFINE new == [Closed EXCEPT !.at = "hash", !.tries = tries,
                     !.linked = TRUE, !.mtime = disk.mtime, !.range = range]
<1>1. disk \in FileRow /\ writes \in Nat /\ disk.mtime <= writes
  BY DEF DownloadInv, DownloadTypeOK
<1>2. /\ new \in ReaderRow /\ new.at = "hash" /\ new.linked = TRUE
      /\ new.range = range /\ new.hashed = << >> /\ new.sent = << >>
      /\ new.mtime = disk.mtime
  <2>1. << >> \in Seq(Nat)
    OBVIOUS
  <2>2. disk.mtime \in Nat
    BY <1>1 DEF FileRow
  <2> QED
    BY <2>1, <2>2 DEF Closed, ReaderRow
<1>3. /\ reader' = new /\ opened' = [chunks |-> disk.chunks, hidden |-> FALSE]
      /\ disk' = disk /\ writes' = writes
  BY DEF Opened
<1> HIDE DEF new
<1>4. DownloadTypeOK'
  BY <1>1, <1>2, <1>3 DEF DownloadTypeOK, FileRow
<1>5. ReaderSees'
  <2>1. reader'.range # << >>
    BY <1>2, <1>3
  <2>2. OpenFile' = disk /\ disk.mtime \in Nat
    BY <1>1, <1>2, <1>3 DEF OpenFile, FileRow
  <2> QED
    BY <2>1, <2>2, <1>1, <1>2, <1>3 DEF ReaderSees, Content
<1>6. HashedBefore'
  BY <1>2, <1>3, ChunksAssumption DEF HashedBefore
<1>7. SentAfter' /\ DownloadIsAsAnnounced'
  BY <1>2, <1>3 DEF SentAfter, DownloadIsAsAnnounced
<1> QED
  BY <1>4, <1>5, <1>6, <1>7 DEF DownloadInv

\* The reader ends without a complete response.
LEMMA ReaderStopsKeeps ==
    ASSUME DownloadInv, NEW at \in {"refused", "conflict", "broken"},
           reader' = [reader EXCEPT !.at = at], UNCHANGED <<disk, writes, opened>>
    PROVE  DownloadInv'
<1>1. reader' \in ReaderRow /\ reader'.at = at
  BY DEF DownloadInv, DownloadTypeOK, ReaderRow
<1> QED
  BY <1>1 DEF DownloadInv, DownloadTypeOK, ReaderSees, Reading,
              HashedBefore, SentAfter, DownloadIsAsAnnounced

\* One more chunk is hashed: it is the one the file was opened with.
LEMMA HashKeeps ==
    ASSUME DownloadInv, Hash
    PROVE  DownloadInv'
<1> DEFINE i == Len(reader.hashed) + 1
           hashed == Append(reader.hashed, Content[i])
           at == IF i = NumChunks THEN "send" ELSE "hash"
<1>1. /\ reader \in ReaderRow /\ reader.at = "hash" /\ Unchanged
      /\ opened \in [chunks : FileContent, hidden : BOOLEAN]
      /\ NumChunks \in Nat \ {0}
  BY ChunksAssumption DEF DownloadInv, DownloadTypeOK, Hash
<1>2. reader.hashed \in Seq(Nat) /\ Len(reader.hashed) \in Nat
  BY <1>1, LenProperties DEF ReaderRow
<1>3. /\ Len(reader.hashed) < NumChunks /\ reader.sent = << >>
      /\ ~opened.hidden =>
           \A j \in 1 .. Len(reader.hashed) : reader.hashed[j] = opened.chunks[j]
      /\ ~opened.hidden => Content = opened.chunks
      /\ Content \in FileContent
      /\ reader.range # << >> /\ reader.range[1] <= reader.range[2]
  BY <1>1 DEF DownloadInv, HashedBefore, ReaderSees, Reading, Content, FileRow
<1>4. i \in Chunks /\ i \in Nat /\ i <= NumChunks /\ \A j \in Chunks : Content[j] \in Nat
  BY <1>1, <1>2, <1>3 DEF Chunks, FileContent
<1>5. /\ hashed \in Seq(Nat) /\ Len(hashed) = i /\ hashed[i] = Content[i]
      /\ \A j \in 1 .. Len(reader.hashed) : hashed[j] = reader.hashed[j]
  BY <1>2, <1>4, AppendProperties
<1>6. ~opened.hidden => \A j \in 1 .. i : hashed[j] = opened.chunks[j]
  <2>1. \A j \in 1 .. i : j = i \/ j \in 1 .. Len(reader.hashed)
    BY <1>2
  <2> QED
    BY <2>1, <1>3, <1>5
<1>7. /\ reader' = [reader EXCEPT !.hashed = hashed, !.at = at]
      /\ UNCHANGED <<disk, writes, opened>>
  BY <1>1 DEF Hash
<1>8. at \in {"hash", "send"} /\ (at = "send" <=> i = NumChunks)
  OBVIOUS
<1> HIDE DEF hashed, at, i
<1>9. /\ reader' \in ReaderRow /\ reader'.hashed = hashed /\ reader'.at = at
      /\ reader'.sent = reader.sent /\ reader'.range = reader.range
      /\ reader'.linked = reader.linked /\ reader'.own = reader.own
      /\ reader'.mtime = reader.mtime
  BY <1>1, <1>5, <1>7, <1>8 DEF ReaderRow
<1>10. OpenFile' = OpenFile
  BY <1>7, <1>9 DEF OpenFile
<1>11. DownloadTypeOK'
  BY <1>7, <1>9 DEF DownloadInv, DownloadTypeOK
<1>12. ReaderSees'
  BY <1>1, <1>7, <1>9, <1>10
     DEF DownloadInv, ReaderSees, Reading, Content, Unchanged
<1>13. HashedBefore'
  <2> SUFFICES ASSUME at = "hash" PROVE HashedBefore'
    BY <1>9 DEF HashedBefore
  <2>1. i < NumChunks
    BY <1>1, <1>4, <1>8
  <2>2. reader'.sent = << >> /\ Len(reader'.hashed) = i
    BY <1>3, <1>5, <1>9
  <2>3. ~opened'.hidden =>
          \A j \in 1 .. i : reader'.hashed[j] = opened'.chunks[j]
    BY <1>6, <1>7, <1>9
  <2> QED
    BY <2>1, <2>2, <2>3 DEF HashedBefore
<1>14. SentAfter'
  <2> SUFFICES ASSUME i = NumChunks PROVE SentAfter'
    BY <1>8, <1>9 DEF SentAfter
  <2>1. ~opened.hidden => hashed = opened.chunks
    <3> SUFFICES ASSUME ~opened.hidden PROVE hashed = opened.chunks
      OBVIOUS
    <3>1. opened.chunks \in [1 .. NumChunks -> Nat]
      BY <1>1 DEF FileContent, Chunks
    <3>2. opened.chunks \in Seq(Nat) /\ Len(opened.chunks) = NumChunks
      BY <3>1, <1>1
    <3> QED
      BY <3>2, <1>5, <1>6, SeqEqual
  <2>2. Len(reader'.sent) < reader'.range[2] - reader'.range[1] + 1
    <3>1. reader.range[1] \in Nat /\ reader.range[2] \in Nat
      BY <1>1, <1>3 DEF ReaderRow, Chunks
    <3> QED
      BY <3>1, <1>3, <1>9
  <2> QED
    BY <1>5, <1>7, <1>9, <2>1, <2>2 DEF SentAfter
<1>15. DownloadIsAsAnnounced'
  BY <1>8, <1>9 DEF DownloadIsAsAnnounced
<1> QED
  BY <1>11, <1>12, <1>13, <1>14, <1>15 DEF DownloadInv

\* One more chunk is sent.  When it is the last, the range must be the one
\* that was hashed.
LEMMA SendKeeps ==
    ASSUME DownloadInv, Send
    PROVE  DownloadInv'
<1>a. PICK a, b : a = reader.range[1] /\ b = reader.range[2]
  OBVIOUS
<1> DEFINE n == Len(reader.sent) + 1
           sent == Append(reader.sent, Content[a + Len(reader.sent)])
           last == Len(sent) = Len(Requested(reader.hashed))
<1>1. /\ reader \in ReaderRow /\ reader.at = "send"
      /\ NumChunks \in Nat \ {0}
  BY ChunksAssumption DEF DownloadInv, DownloadTypeOK, Send
<1>2. Content \in FileContent /\ a \in Chunks /\ b \in Chunks /\ a <= b
  BY <1>1, <1>a DEF DownloadInv, ReaderSees, Reading, ReaderRow, Content, FileRow
<1>3. /\ Len(reader.hashed) = NumChunks /\ reader.hashed \in Seq(Nat)
      /\ reader.sent \in Seq(Nat) /\ Len(reader.sent) \in Nat
      /\ Len(reader.sent) < b - a + 1
      /\ ~opened.hidden => reader.hashed = opened.chunks
  BY <1>1, <1>a, LenProperties DEF DownloadInv, SentAfter, ReaderRow
<1>4. /\ a \in Nat /\ b \in Nat /\ b <= NumChunks /\ 1 <= a
      /\ a + Len(reader.sent) \in Chunks
  BY <1>1, <1>2, <1>3 DEF Chunks
<1>5. sent \in Seq(Nat) /\ Len(sent) = n
  <2>1. Content[a + Len(reader.sent)] \in Nat
    BY <1>2, <1>4 DEF FileContent
  <2> QED
    BY <2>1, <1>3, AppendProperties
<1>6. Len(Requested(reader.hashed)) = b - a + 1
  <2>1. \A j \in a .. b : j \in 1 .. Len(reader.hashed)
    BY <1>1, <1>3, <1>4
  <2>2. \A j \in a .. b : reader.hashed[j] \in Nat
    BY <2>1, <1>3, ElementOfSeq
  <2>3. Requested(reader.hashed) = SubSeq(reader.hashed, a, b)
    BY <1>a DEF Requested
  <2>4. a \in Int /\ b \in Int /\ a <= b
    BY <1>2, <1>4
  <2> QED
    BY <2>2, <2>3, <2>4, SubSeqProperties
<1>7. UNCHANGED <<disk, writes, opened>>
  BY DEF Send
<1>8. CASE last /\ sent # Requested(reader.hashed)
  <2>1. reader' = [reader EXCEPT !.at = "broken"]
    BY <1>8, <1>a DEF Send, SendChunk
  <2> QED
    BY <2>1, <1>7, ReaderStopsKeeps
<1>9. CASE ~(last /\ sent # Requested(reader.hashed))
  <2> DEFINE at == IF last THEN "complete" ELSE "send"
  <2>1. reader' = [reader EXCEPT !.sent = sent, !.at = at]
    BY <1>1, <1>9, <1>a DEF Send, SendChunk
  <2>2. at \in {"complete", "send"}
        /\ (at = "complete" => sent = Requested(reader.hashed))
        /\ (at = "send" => n # b - a + 1)
    BY <1>5, <1>6, <1>9
  <2> HIDE DEF sent, at
  <2>3. /\ reader' \in ReaderRow /\ reader'.sent = sent /\ reader'.at = at
        /\ reader'.hashed = reader.hashed /\ reader'.range = reader.range
        /\ reader'.linked = reader.linked /\ reader'.own = reader.own
        /\ reader'.mtime = reader.mtime
    BY <1>1, <1>5, <2>1, <2>2 DEF ReaderRow
  <2>4. OpenFile' = OpenFile
    BY <1>7, <2>3 DEF OpenFile
  <2>5. DownloadTypeOK' /\ HashedBefore'
    BY <1>7, <2>2, <2>3 DEF DownloadInv, DownloadTypeOK, HashedBefore
  <2>6. ReaderSees'
    BY <1>1, <1>7, <2>3, <2>4
       DEF DownloadInv, ReaderSees, Reading, Content, Unchanged
  <2>7. SentAfter'
    <3> SUFFICES ASSUME at = "send" PROVE SentAfter'
      BY <2>3 DEF SentAfter
    <3>1. Len(reader'.sent) < reader'.range[2] - reader'.range[1] + 1
      <4>1. PICK m \in Nat : m = Len(reader.sent) /\ m < b - a + 1
        BY <1>3
      <4>2. a \in Nat /\ b \in Nat /\ m + 1 # b - a + 1
        BY <2>2, <4>1, <1>4
      <4>3. m + 1 < b - a + 1
        BY <4>1, <4>2
      <4> QED
        BY <4>1, <4>3, <1>5, <1>a, <2>3
    <3> QED
      BY <3>1, <1>3, <1>7, <2>3 DEF SentAfter
  <2>8. DownloadIsAsAnnounced'
    BY <1>3, <1>7, <2>2, <2>3 DEF DownloadIsAsAnnounced, Requested
  <2> QED
    BY <2>5, <2>6, <2>7, <2>8 DEF DownloadInv
<1> QED
  BY <1>8, <1>9

\* No step of a download or of a writer breaks its invariant.
LEMMA DownloadStep == DownloadInv /\ [DownloadNext]_downloadVars => DownloadInv'
<1> SUFFICES ASSUME DownloadInv, [DownloadNext]_downloadVars PROVE DownloadInv'
  OBVIOUS
<1>1. CASE UNCHANGED downloadVars
  BY <1>1 DEF downloadVars, DownloadInv, DownloadTypeOK, ReaderSees, Reading,
              OpenFile, Content, Unchanged, HashedBefore, SentAfter,
              DownloadIsAsAnnounced, Requested
<1>2. ASSUME NEW header \in RangeHeaders, Open(header) \/ Refuse(header)
      PROVE  DownloadInv'
  BY <1>2, RangeIsWithin, OpenedKeeps, ReaderStopsKeeps DEF Open, Refuse
<1>3. reader.at \in {"hash", "send"} =>
        reader.range \in Chunks \X Chunks /\ reader.range[1] <= reader.range[2]
  BY DEF DownloadInv, DownloadTypeOK, ReaderRow, ReaderSees, Reading
<1>4. CASE Reopen \/ NextTarget \/ Break
  BY <1>3, <1>4, OpenedKeeps, ReaderStopsKeeps DEF Reopen, NextTarget, Break
<1> QED
  BY <1>1, <1>2, <1>4, ReplacedKeeps, ChangedKeeps, HashKeeps, SendKeeps
     DEF DownloadNext

\* It holds before the download is requested.
LEMMA DownloadStart == DownloadInit => DownloadInv
<1> SUFFICES ASSUME DownloadInit PROVE DownloadInv
  OBVIOUS
<1>1. << >> \in Seq(Nat)
  OBVIOUS
<1>2. reader \in ReaderRow /\ reader.at = "closed"
  BY <1>1 DEF DownloadInit, Closed, ReaderRow
<1>3. disk \in FileRow /\ disk.mtime = 0 /\ disk.chunks \in FileContent
  BY DEF DownloadInit, FileContent, FileRow
<1> QED
  BY <1>2, <1>3 DEF DownloadInit, DownloadInv, DownloadTypeOK,
                    ReaderSees, Reading, HashedBefore, SentAfter,
                    DownloadIsAsAnnounced

----------------------------------------------------------------------------
(* The proofs about a result that is read. *)

\* The Operation that is active is the last one there is.
LEMMA ActiveIs ==
    ASSUME BundleInv
    PROVE  Active = IF stored.operation[2] = "NONE" THEN 1 ELSE 2
<1> DEFINE there == {p \in Parts : stored.operation[p] # "NONE"}
<1>1. stored.operation[1] # "NONE"
  BY DEF BundleInv, BundleTypeOK
<1>2. there = IF stored.operation[2] = "NONE" THEN {1} ELSE {1, 2}
  BY <1>1 DEF Parts
<1>3. Cardinality({1}) = 1
  BY FS_Singleton
<1>4. Cardinality({1, 2}) = 2
  <2>1. Cardinality(1 .. 2) = 2
    <3>1. 1 \in Int /\ 2 \in Int
      OBVIOUS
    <3>2. Cardinality(1 .. 2) = IF 1 > 2 THEN 0 ELSE 2 - 1 + 1
      BY <3>1, FS_Interval, Zenon
    <3> QED
      BY <3>2
  <2>2. {1, 2} = 1 .. 2
    OBVIOUS
  <2> QED
    BY <2>1, <2>2
<1> QED
  BY <1>2, <1>3, <1>4 DEF Active

\* A transaction that keeps what has SUCCEEDED, of an Execution that has not,
\* keeps the bundle right.
LEMMA StoredMoves ==
    ASSUME BundleInv, NEW m \in {"SINGLE", "MULTI"},
           NEW x \in StoredStatus, NEW o \in [Parts -> StoredStatus],
           NEW s \in [Parts -> StoredStatus],
           stored' = [mode |-> m, execution |-> x, operation |-> o, step |-> s],
           bundle' = bundle, stored.execution # "SUCCEEDED", o[1] # "NONE",
           \A p \in Parts : stored.operation[p] = "SUCCEEDED" => o[p] = "SUCCEEDED",
           RowsAgree(m, x, o, s)
    PROVE  BundleInv'
<1>1. /\ stored'.execution = x /\ stored'.operation = o /\ stored'.step = s
      /\ stored'.mode = m
  OBVIOUS
<1>2. BundleTypeOK'
  BY <1>1 DEF BundleInv, BundleTypeOK
<1>3. StoredAgrees'
  BY <1>1 DEF StoredAgrees
<1>4. BundleFollows'
  BY <1>1 DEF BundleInv, BundleFollows
<1>5. BundleAgrees'
  BY DEF BundleInv, BundleAgrees
<1> QED
  BY <1>2, <1>3, <1>4, <1>5 DEF BundleInv

\* A transaction on the last Operation and its Step, of which the Operation
\* had not SUCCEEDED or stays so.
LEMMA LastMoves ==
    ASSUME BundleInv, NEW x \in StoredStatus, NEW y \in StoredStatus,
           NEW z \in StoredStatus, y # "NONE",
           stored' = [stored EXCEPT !.execution = x, !.operation[Active] = y,
                                    !.step[Active] = z],
           bundle' = bundle, stored.execution # "SUCCEEDED",
           stored.operation[Active] = "SUCCEEDED" => y = "SUCCEEDED",
           y = "SUCCEEDED" => z = "SUCCEEDED",
           x \in {"FINALIZING", "SUCCEEDED"} => y = "SUCCEEDED",
           x \in {"QUEUED", "RUNNING"} => y # "SUCCEEDED",
           x = "WAITING_FOR_OPERATION" => y = z,
           stored.mode = "SINGLE" =>
               /\ x \notin {"WAITING_FOR_OPERATION", "FINALIZING"}
               /\ x = "FAILED" => y # "SUCCEEDED"
    PROVE  BundleInv'
<1>p. PICK p : p = Active
  OBVIOUS
<1>1. p \in Parts /\ p = LastOf(stored.operation)
  BY <1>p, ActiveIs DEF Parts, LastOf
<1>2. /\ stored \in [mode : {"SINGLE", "MULTI"}, execution : StoredStatus,
                     operation : [Parts -> StoredStatus],
                     step : [Parts -> StoredStatus]]
      /\ stored.operation[1] # "NONE" /\ StoredAgrees
  BY DEF BundleInv, BundleTypeOK
<1> DEFINE o == [stored.operation EXCEPT ![p] = y]
           s == [stored.step EXCEPT ![p] = z]
<1>3. /\ stored.mode \in {"SINGLE", "MULTI"}
      /\ stored.operation \in [Parts -> StoredStatus]
      /\ stored.step \in [Parts -> StoredStatus]
  BY <1>2
<1>4. /\ o \in [Parts -> StoredStatus]
      /\ \A q \in Parts : o[q] = IF q = p THEN y ELSE stored.operation[q]
  BY <1>3
<1>5. /\ s \in [Parts -> StoredStatus]
      /\ \A q \in Parts : s[q] = IF q = p THEN z ELSE stored.step[q]
  BY <1>3
<1>6. stored' = [mode |-> stored.mode, execution |-> x, operation |-> o, step |-> s]
  <2>1. stored' = [stored EXCEPT !.execution = x, !.operation[p] = y, !.step[p] = z]
    BY <1>p
  <2> QED
    BY <2>1, <1>2
<1> HIDE DEF o, s
<1>7. 1 \in Parts /\ 2 \in Parts /\ \A q \in Parts : q = 1 \/ q = 2
  BY DEF Parts
<1>8. LastOf(o) = p /\ o[1] # "NONE"
  BY <1>1, <1>2, <1>4, <1>7 DEF LastOf
<1>9. \A q \in Parts : stored.operation[q] = "SUCCEEDED" => o[q] = "SUCCEEDED"
  BY <1>4, <1>p
<1>10. RowsAgree(stored.mode, x, o, s)
  <2>1. o[p] = y /\ s[p] = z
    BY <1>1, <1>4, <1>5
  <2>2. \A q \in Parts : o[q] = "SUCCEEDED" => s[q] = "SUCCEEDED"
    BY <1>2, <1>4, <1>5 DEF StoredAgrees, RowsAgree
  <2>3. stored.mode = "SINGLE" => p = 1 /\ o[2] = "NONE"
    BY <1>1, <1>2, <1>4, <1>7 DEF StoredAgrees, RowsAgree, LastOf
  <2> QED
    BY <1>8, <2>1, <2>2, <2>3 DEF RowsAgree
<1>11. PICK m \in {"SINGLE", "MULTI"} : m = stored.mode
  BY <1>3
<1>12. /\ stored' = [mode |-> m, execution |-> x, operation |-> o, step |-> s]
       /\ RowsAgree(m, x, o, s) /\ bundle' = bundle /\ BundleInv
       /\ stored.execution # "SUCCEEDED"
  BY <1>6, <1>10, <1>11
<1> QED
  BY ONLY <1>4, <1>5, <1>8, <1>9, <1>12, StoredMoves

\* The rows change as the lifecycle changes them.
LEMMA StoresKeeps ==
    ASSUME BundleInv,
           \/ Claimed \/ StepRuns \/ OperationEnds \/ NewOperation
           \/ FinalizationRequested \/ Succeeds \/ Fails \/ RetriedResult
    PROVE  BundleInv'
<1>p. PICK p : p = Active
  OBVIOUS
<1>1. p \in Parts /\ p = LastOf(stored.operation)
  BY <1>p, ActiveIs DEF Parts, LastOf
<1>2. /\ stored \in [mode : {"SINGLE", "MULTI"}, execution : StoredStatus,
                     operation : [Parts -> StoredStatus],
                     step : [Parts -> StoredStatus]]
      /\ stored.operation[1] # "NONE" /\ StoredAgrees
  BY DEF BundleInv, BundleTypeOK
<1>3. /\ stored.operation \in [Parts -> StoredStatus]
      /\ stored.step \in [Parts -> StoredStatus]
      /\ stored.operation[p] \in StoredStatus /\ stored.step[p] \in StoredStatus
      /\ stored.operation[p] # "NONE"
  BY <1>1, <1>2 DEF LastOf
<1>4. bundle' = bundle
  BY DEF Claimed, StepRuns, StepIs, OperationEnds, NewOperation,
         FinalizationRequested, Succeeds, Fails, RetriedResult, Stores
<1>5. /\ stored.operation[p] = "SUCCEEDED" => stored.step[p] = "SUCCEEDED"
      /\ stored.execution \in {"FINALIZING", "SUCCEEDED"} =>
           stored.operation[p] = "SUCCEEDED"
      /\ stored.execution \in {"QUEUED", "RUNNING"} => stored.operation[p] # "SUCCEEDED"
      /\ stored.execution = "WAITING_FOR_OPERATION" =>
           stored.operation[p] = stored.step[p]
      /\ stored.mode = "SINGLE" =>
           /\ stored.operation[2] = "NONE" /\ p = 1
           /\ stored.execution \notin {"WAITING_FOR_OPERATION", "FINALIZING"}
           /\ stored.execution = "FAILED" => stored.operation[1] # "SUCCEEDED"
  BY <1>1, <1>2 DEF StoredAgrees, RowsAgree, LastOf
<1> DEFINE Right(x, y, z) ==
             /\ stored.execution # "SUCCEEDED"
             /\ x \in StoredStatus /\ y \in StoredStatus /\ z \in StoredStatus
             /\ y # "NONE" /\ (stored.operation[p] = "SUCCEEDED" => y = "SUCCEEDED")
             /\ y = "SUCCEEDED" => z = "SUCCEEDED"
             /\ x \in {"FINALIZING", "SUCCEEDED"} => y = "SUCCEEDED"
             /\ x \in {"QUEUED", "RUNNING"} => y # "SUCCEEDED"
             /\ x = "WAITING_FOR_OPERATION" => y = z
             /\ stored.mode = "SINGLE" =>
                  /\ x \notin {"WAITING_FOR_OPERATION", "FINALIZING"}
                  /\ x = "FAILED" => y # "SUCCEEDED"
<1>6. ASSUME NEW x, NEW y, NEW z, Right(x, y, z),
             stored' = [stored EXCEPT !.execution = x, !.operation[Active] = y,
                                      !.step[Active] = z]
      PROVE  BundleInv'
  BY <1>6, <1>4, <1>p, LastMoves
<1>7. CASE Claimed
  <2>1. stored.execution = "QUEUED"
    BY <1>7 DEF Claimed
  <2>2. stored' = [stored EXCEPT !.execution = "RUNNING",
                     !.operation[Active] = "RUNNING", !.step[Active] = stored.step[p]]
    BY <1>7, <1>2, <1>p DEF Claimed, Stores
  <2>3. Right("RUNNING", "RUNNING", stored.step[p])
    BY <2>1, <1>3, <1>5 DEF StoredStatus
  <2> HIDE DEF Right
  <2> QED
    BY <2>2, <2>3, <1>6, Zenon
<1>8. CASE StepRuns
  <2>1. stored.execution = "RUNNING"
    BY <1>8 DEF StepRuns
  <2>2. PICK z \in {"RUNNING", "SUCCEEDED", "FAILED"} :
          stored' = [stored EXCEPT !.step[Active] = z]
    BY <1>8 DEF StepRuns, StepIs, Stores
  <2>3. stored' = [stored EXCEPT !.execution = "RUNNING",
                     !.operation[Active] = stored.operation[p], !.step[Active] = z]
    BY <2>1, <2>2, <1>2, <1>p
  <2>4. Right("RUNNING", stored.operation[p], z)
    BY <2>1, <1>3, <1>5 DEF StoredStatus
  <2> HIDE DEF Right
  <2> QED
    BY <2>3, <2>4, <1>6, Zenon
<1>9. CASE OperationEnds
  <2>1. /\ stored.execution = "RUNNING" /\ stored.mode = "MULTI"
        /\ stored.step[p] \in {"SUCCEEDED", "FAILED"}
    BY <1>9, <1>p DEF OperationEnds
  <2>2. stored' = [stored EXCEPT !.execution = "WAITING_FOR_OPERATION",
                     !.operation[Active] = stored.step[p],
                     !.step[Active] = stored.step[p]]
    BY <1>9, <1>2, <1>p DEF OperationEnds, Stores
  <2>3. Right("WAITING_FOR_OPERATION", stored.step[p], stored.step[p])
    BY <2>1, <1>3, <1>5 DEF StoredStatus
  <2> HIDE DEF Right
  <2> QED
    BY <2>2, <2>3, <1>6, Zenon
<1>10. CASE NewOperation
  <2> DEFINE o == [stored.operation EXCEPT ![2] = "QUEUED"]
             s == [stored.step EXCEPT ![2] = "PENDING"]
  <2>1. stored.execution = "WAITING_FOR_OPERATION" /\ p = 1
    BY <1>1, <1>10, <1>p DEF NewOperation, Parts
  <2>2. stored' = [mode |-> stored.mode, execution |-> "QUEUED", operation |-> o,
                   step |-> s]
    <3>1. Active + 1 = 2
      BY <1>p, <2>1
    <3>2. stored' = [stored EXCEPT !.execution = "QUEUED",
                                   !.operation[2] = "QUEUED", !.step[2] = "PENDING"]
      BY <1>10, <3>1 DEF NewOperation, Stores
    <3> QED
      BY <3>2, <1>2
  <2>3. /\ o \in [Parts -> StoredStatus] /\ s \in [Parts -> StoredStatus]
        /\ o[1] = stored.operation[1] /\ s[1] = stored.step[1] /\ o[2] = "QUEUED"
    BY <1>3 DEF Parts, StoredStatus
  <2> HIDE DEF o, s
  <2>4. stored.operation[2] = "NONE" /\ stored.mode \in {"SINGLE", "MULTI"}
    BY <1>1, <1>2, <2>1 DEF LastOf
  <2>5. RowsAgree(stored.mode, "QUEUED", o, s)
    BY <1>5, <2>1, <2>3 DEF RowsAgree, LastOf, Parts
  <2>6. \A q \in Parts : stored.operation[q] = "SUCCEEDED" => o[q] = "SUCCEEDED"
    BY <2>3, <2>4 DEF Parts
  <2>7. "QUEUED" \in StoredStatus /\ o[1] # "NONE"
    BY <1>2, <2>3 DEF StoredStatus
  <2> QED
    BY <1>4, <2>1, <2>2, <2>3, <2>4, <2>5, <2>6, <2>7, StoredMoves
<1>11. CASE FinalizationRequested
  <2>1. stored.execution = "WAITING_FOR_OPERATION" /\ stored.step[p] = "SUCCEEDED"
    BY <1>11, <1>p DEF FinalizationRequested
  <2>2. stored' = [stored EXCEPT !.execution = "FINALIZING",
                     !.operation[Active] = stored.operation[p],
                     !.step[Active] = stored.step[p]]
    BY <1>11, <1>2, <1>p DEF FinalizationRequested, Stores
  <2>3. Right("FINALIZING", stored.operation[p], stored.step[p])
    BY <2>1, <1>3, <1>5 DEF StoredStatus
  <2> HIDE DEF Right
  <2> QED
    BY <2>2, <2>3, <1>6, Zenon
<1>12. CASE Succeeds
  <2>1. /\ stored.execution \in {"RUNNING", "FINALIZING"}
        /\ stored.step[p] = "SUCCEEDED"
    BY <1>12, <1>5, <1>p DEF Succeeds
  <2>2. stored' = [stored EXCEPT !.execution = "SUCCEEDED",
                     !.operation[Active] = "SUCCEEDED",
                     !.step[Active] = stored.step[p]]
    BY <1>12, <1>2, <1>p DEF Succeeds, Stores
  <2>3. Right("SUCCEEDED", "SUCCEEDED", stored.step[p])
    BY <2>1, <1>3, <1>5 DEF StoredStatus
  <2> HIDE DEF Right
  <2> QED
    BY <2>2, <2>3, <1>6, Zenon
<1>13. CASE Fails
  <2> DEFINE y == IF stored.operation[p] = "RUNNING" THEN "FAILED"
                  ELSE stored.operation[p]
             z == IF stored.step[p] = "RUNNING" THEN "FAILED"
                  ELSE IF stored.step[p] = "PENDING" THEN "SKIPPED"
                  ELSE stored.step[p]
  <2>1. stored.execution \in {"RUNNING", "FINALIZING"}
    BY <1>13 DEF Fails
  <2>2. stored' = [stored EXCEPT !.execution = "FAILED", !.operation[Active] = y,
                                 !.step[Active] = z]
    BY <1>13, <1>2, <1>p DEF Fails, Stores
  <2>3. /\ y \in StoredStatus /\ z \in StoredStatus /\ y # "NONE"
        /\ y = "SUCCEEDED" <=> stored.operation[p] = "SUCCEEDED"
        /\ stored.step[p] = "SUCCEEDED" => z = "SUCCEEDED"
    BY <1>3 DEF StoredStatus
  <2> HIDE DEF y, z
  <2>4. Right("FAILED", y, z)
    BY <2>1, <2>3, <1>5 DEF StoredStatus
  <2> HIDE DEF Right
  <2> QED
    BY <2>2, <2>4, <1>6, Zenon
<1>14. CASE RetriedResult
  <2>1. stored.mode = "SINGLE" /\ stored.execution = "FAILED"
    BY <1>14 DEF RetriedResult
  <2>2. stored' = [stored EXCEPT !.execution = "QUEUED",
                     !.operation[Active] = "QUEUED", !.step[Active] = "PENDING"]
    BY <1>14 DEF RetriedResult, Stores
  <2>3. Right("QUEUED", "QUEUED", "PENDING")
    BY <2>1, <1>5 DEF StoredStatus
  <2> HIDE DEF Right
  <2> QED
    BY <2>2, <2>3, <1>6, Zenon
<1> QED
  BY <1>7, <1>8, <1>9, <1>10, <1>11, <1>12, <1>13, <1>14

\* One more statement is read.
LEMMA ReadStatementKeeps ==
    ASSUME BundleInv, ReadStatement
    PROVE  BundleInv'
<1>0. /\ Len(Statements) = 3 /\ Statements[1] = "execution"
      /\ Statements[2] = "operation" /\ Statements[3] = "step"
  BY DEF Statements
<1>1. /\ stored' = stored /\ bundle.read \in {0, 1, 2}
      /\ bundle \in [read : {0, 1, 2, 3}, execution : StoredStatus,
                     operation : [Parts -> StoredStatus],
                     step : [Parts -> StoredStatus]]
      /\ stored \in [mode : {"SINGLE", "MULTI"}, execution : StoredStatus,
                     operation : [Parts -> StoredStatus],
                     step : [Parts -> StoredStatus]]
  <2>1. bundle.read < 3 /\ stored' = stored
    BY <1>0 DEF ReadStatement
  <2>2. bundle.read \in {0, 1, 2, 3}
    BY DEF BundleInv, BundleTypeOK
  <2> QED
    BY <2>1, <2>2 DEF BundleInv, BundleTypeOK
<1>2. BundleTypeOK /\ StoredAgrees /\ BundleFollows
  BY DEF BundleInv
<1>3. CASE bundle.read = 0
  <2>1. bundle' = [bundle EXCEPT !.execution = stored.execution, !.read = 1]
    <3>1. Statements[bundle.read + 1] = "execution" /\ bundle.read + 1 = 1
      BY <1>0, <1>3
    <3> QED
      BY <3>1, <1>1 DEF ReadStatement
  <2>2. /\ bundle' \in [read : {0, 1, 2, 3}, execution : StoredStatus,
                        operation : [Parts -> StoredStatus],
                        step : [Parts -> StoredStatus]]
        /\ bundle'.read = 1 /\ bundle'.execution = stored.execution
    BY <1>1, <2>1
  <2> QED
    BY <1>1, <1>2, <2>2 DEF BundleInv, BundleTypeOK, StoredAgrees, BundleFollows,
                            BundleAgrees, Statements
<1>4. CASE bundle.read = 1
  <2>1. bundle' = [bundle EXCEPT !.operation = stored.operation, !.read = 2]
    <3>1. Statements[bundle.read + 1] = "operation" /\ bundle.read + 1 = 2
      BY <1>0, <1>4
    <3> QED
      BY <3>1, <1>1 DEF ReadStatement
  <2>2. /\ bundle' \in [read : {0, 1, 2, 3}, execution : StoredStatus,
                        operation : [Parts -> StoredStatus],
                        step : [Parts -> StoredStatus]]
        /\ bundle'.read = 2 /\ bundle'.execution = bundle.execution
        /\ bundle'.operation = stored.operation
    BY <1>1, <2>1
  <2> QED
    BY <1>1, <1>2, <1>4, <2>2 DEF BundleInv, BundleTypeOK, StoredAgrees,
                            RowsAgree, BundleFollows, BundleAgrees, Statements
<1>5. CASE bundle.read = 2
  <2>1. bundle' = [bundle EXCEPT !.step = stored.step, !.read = 3]
    <3>1. Statements[bundle.read + 1] = "step" /\ bundle.read + 1 = 3
      BY <1>0, <1>5
    <3> QED
      BY <3>1, <1>1 DEF ReadStatement
  <2>2. /\ bundle' \in [read : {0, 1, 2, 3}, execution : StoredStatus,
                        operation : [Parts -> StoredStatus],
                        step : [Parts -> StoredStatus]]
        /\ bundle'.read = 3 /\ bundle'.execution = bundle.execution
        /\ bundle'.operation = bundle.operation /\ bundle'.step = stored.step
    BY <1>1, <2>1
  <2>3. BundleAgrees'
    BY <1>2, <1>5, <2>2
       DEF StoredAgrees, RowsAgree, LastOf, BundleFollows, BundleAgrees, Parts
  <2> QED
    BY <1>1, <1>2, <1>5, <2>2, <2>3 DEF BundleInv, BundleTypeOK, StoredAgrees,
                            BundleFollows
<1> QED
  BY <1>1, <1>3, <1>4, <1>5

\* No transaction of a Worker or of the query breaks the bundle invariant.
LEMMA BundleStep == BundleInv /\ [PageNext \/ SnapshotNext]_queryVars => BundleInv'
<1> SUFFICES ASSUME BundleInv, [PageNext \/ SnapshotNext]_queryVars PROVE BundleInv'
  OBVIOUS
<1>1. CASE UNCHANGED <<stored, bundle>>
  BY <1>1 DEF BundleInv, BundleTypeOK, StoredAgrees, BundleFollows, BundleAgrees
<1>2. CASE PageNext
  <2>1. UNCHANGED <<stored, bundle>>
    BY <1>2 DEF PageNext, BeginListing, ReadPage, Inserts, Commits, Changes,
                Deletes, RowIs
  <2> QED
    BY <2>1, <1>1
<1>3. CASE SnapshotNext
  BY <1>3, StoresKeeps, ReadStatementKeeps DEF SnapshotNext
<1> QED
  BY <1>1, <1>2, <1>3 DEF queryVars

\* It holds before the first transaction.
LEMMA BundleStart == QueriesInit => BundleInv
<1> SUFFICES ASSUME QueriesInit PROVE BundleInv
  OBVIOUS
<1> DEFINE first == <<"QUEUED", "NONE">>
           pending == <<"PENDING", "NONE">>
           none == <<"NONE", "NONE">>
<1>1. /\ first \in [Parts -> StoredStatus] /\ none \in [Parts -> StoredStatus]
      /\ pending \in [Parts -> StoredStatus]
      /\ first[1] = "QUEUED" /\ first[2] = "NONE"
  BY DEF Parts, StoredStatus
<1>2. /\ stored \in [mode : {"SINGLE", "MULTI"}, execution : {"QUEUED"},
                     operation : {first}, step : {pending}]
      /\ bundle = [read |-> 0, execution |-> "NONE", operation |-> none,
                   step |-> none]
  BY DEF QueriesInit
<1> HIDE DEF first, pending, none
<1>3. BundleTypeOK
  BY <1>1, <1>2 DEF BundleTypeOK, StoredStatus
<1> QED
  BY <1>1, <1>2, <1>3 DEF BundleInv, StoredAgrees, RowsAgree, LastOf,
                          BundleFollows, BundleAgrees, Parts, Statements

----------------------------------------------------------------------------
(* The pages.  The key of a row is fixed before any page can hold it, so    *)
(* the rows that were given stay in their order, and the cursor, which is   *)
(* the last of them, parts the list: what was there all the time is given   *)
(* or comes after it.                                                       *)

Given == {listing.items[k] : k \in 1 .. Len(listing.items)}

\* The rows, the flags of the collection and the listing keep their shape.
PagesTypeOK ==
    /\ collection \in QueriedCollections
    /\ row \in [Ids -> [at : {"none", "open", "committed", "gone"},
                        time : Nat, matches : BOOLEAN]]
    /\ listing.at \in {"idle", "reading", "done"}
    /\ listing.cursor \in Ids \cup {0}
    /\ listing.items \in Seq(Ids)

\* Numbers are given out in the order of their commits.
NumbersAreInOrder ==
    collection.numbered =>
        /\ \A i \in Ids : row[i].time = 0 /\ row[i].at # "open"
        /\ \A i, j \in Ids : j < i /\ row[i].at # "none" => row[j].at # "none"

\* What was given was committed, and is in the order of the list.
GivenIsSorted ==
    /\ \A k \in 1 .. Len(listing.items) :
          row[listing.items[k]].at \in {"committed", "gone"}
    /\ \A k, l \in 1 .. Len(listing.items) :
          k < l => InOrder(listing.items[k], listing.items[l])

\* The cursor is the row that was given last.
CursorIsLast ==
    /\ listing.at = "idle" => listing.items = << >>
    /\ listing.at = "reading" =>
         IF listing.cursor = 0 THEN listing.items = << >>
         ELSE listing.items # << >>
              /\ listing.cursor = listing.items[Len(listing.items)]

\* No row that was there all the time is behind the cursor and not given.
SteadyIsGiven ==
    /\ steady \subseteq Visible
    /\ listing.at = "reading" =>
         \A i \in steady : i \in Given \/ Beyond(listing.cursor, i)
    /\ listing.at = "done" => steady \subseteq Given

\* Up to the row that was given last, numbers have no gap.
NumbersHaveNoGap ==
    collection.numbered /\ listing.items # << >> =>
        \A i \in Visible :
            i <= listing.items[Len(listing.items)] => i \in Given

PagesInv ==
    /\ PagesTypeOK
    /\ NumbersAreInOrder
    /\ GivenIsSorted
    /\ CursorIsLast
    /\ SteadyIsGiven
    /\ NumbersHaveNoGap

\* What the order and the steps need to know of a collection.
LEMMA CollectionFlags ==
  ASSUME collection \in QueriedCollections
  PROVE  /\ collection.newestFirst \in BOOLEAN
         /\ collection.numbered \in BOOLEAN
         /\ collection.numbered => ~collection.newestFirst /\ ~collection.changes
<1>1. \/ \E first, changes, deleted \in BOOLEAN :
              collection = ByTime(first, changes, deleted)
      \/ \E deleted \in BOOLEAN : collection = ByNumber(deleted)
  BY DEF QueriedCollections, ListExecutions, ListSteps, ListAttempts,
         ListAttemptSteps, ListOperations, ListOperationSteps, ListEvents,
         ListArtifacts, ListDiagnostics, ListRuntimeTargets, ListRunTargets
<1>2. ASSUME NEW first \in BOOLEAN, NEW changes \in BOOLEAN,
             NEW deleted \in BOOLEAN,
             collection = ByTime(first, changes, deleted)
      PROVE  collection.newestFirst = first /\ collection.numbered = FALSE
  BY <1>2 DEF ByTime
<1>3. ASSUME NEW deleted \in BOOLEAN, collection = ByNumber(deleted)
      PROVE  /\ collection.newestFirst = FALSE /\ collection.numbered = TRUE
             /\ collection.changes = FALSE
  BY <1>3 DEF ByNumber
<1> QED
  BY <1>1, <1>2, <1>3, Zenon

\* The keys of rows order them strictly.
LEMMA OrderIsStrict ==
  ASSUME PagesTypeOK, NEW i \in Ids, NEW j \in Ids
  PROVE  /\ ~InOrder(i, i)
         /\ \A k \in Ids : InOrder(i, j) /\ InOrder(j, k) => InOrder(i, k)
<1>1. /\ \A k \in Ids : row[k].time \in Nat
      /\ Ids \subseteq Nat
  BY DEF PagesTypeOK, Ids
<1>2. ~InOrder(i, i)
  BY <1>1 DEF InOrder, Earlier
<1>3. ASSUME NEW k \in Ids, InOrder(i, j), InOrder(j, k) PROVE InOrder(i, k)
  <2>1. /\ row[i].time \in Nat /\ row[j].time \in Nat /\ row[k].time \in Nat
        /\ i \in Nat /\ j \in Nat /\ k \in Nat
    BY <1>1
  <2>2. CASE collection.newestFirst
    BY <1>3, <2>1, <2>2 DEF InOrder, Earlier
  <2>3. CASE ~collection.newestFirst
    BY <1>3, <2>1, <2>3 DEF InOrder, Earlier
  <2> QED
    BY <2>2, <2>3
<1> QED
  BY <1>2, <1>3

\* A writer leaves a listing in its place: it fixes no key anew, and no row
\* that it adds has a smaller number than a row that was given.
LEMMA WriterKeepsPages ==
  ASSUME PagesInv, UNCHANGED <<collection, listing>>,
         NEW i \in Ids, NEW new, row' = [row EXCEPT ![i] = new],
         new \in [at : {"none", "open", "committed", "gone"}, time : Nat,
                  matches : BOOLEAN],
         row[i].at \in {"committed", "gone"} =>
             new.time = row[i].time /\ new.at \in {"committed", "gone"},
         collection.numbered =>
             /\ new.time = 0 /\ new.at \notin {"none", "open"}
             /\ row[i].at = "none" => \A j \in Ids : j < i => row[j].at # "none"
             /\ row[i].at # "none" /\ new.at = "committed" /\ new.matches =>
                    i \in Visible,
         steady' \subseteq steady,
         i \in steady' => new.at = "committed" /\ new.matches
  PROVE  PagesInv'
<1> USE DEF PagesInv
<1>1. /\ \A j \in Ids : j # i => row'[j] = row[j]
      /\ row'[i] = new
      /\ collection' = collection /\ listing' = listing
      /\ \A j \in Ids : row[j].at \in {"committed", "gone"} =>
            row'[j].time = row[j].time /\ row'[j].at \in {"committed", "gone"}
      /\ Given' = Given
  BY DEF PagesTypeOK, Given
<1>2. PagesTypeOK'
  BY <1>1 DEF PagesTypeOK
<1>3. NumbersAreInOrder'
  <2> SUFFICES ASSUME collection.numbered
               PROVE  /\ \A j \in Ids : row'[j].time = 0 /\ row'[j].at # "open"
                      /\ \A j, k \in Ids : k < j /\ row'[j].at # "none" =>
                            row'[k].at # "none"
    BY <1>1 DEF NumbersAreInOrder
  <2>1. \A j \in Ids : row'[j].time = 0 /\ row'[j].at # "open"
    BY <1>1 DEF NumbersAreInOrder
  <2>2. ASSUME NEW j \in Ids, NEW k \in Ids, k < j, row'[j].at # "none"
        PROVE  row'[k].at # "none"
    <3>1. CASE k = i
      BY <1>1, <3>1
    <3>2. CASE k # i /\ j = i
      BY <1>1, <2>2, <3>2 DEF NumbersAreInOrder
    <3>3. CASE k # i /\ j # i
      BY <1>1, <2>2, <3>3 DEF NumbersAreInOrder
    <3> QED
      BY <3>1, <3>2, <3>3
  <2> QED
    BY <2>1, <2>2
<1>4. \A k, l \in Ids :
         /\ row[k].at \in {"committed", "gone"}
         /\ row[l].at \in {"committed", "gone"}
         => InOrder(k, l)' = InOrder(k, l)
  BY <1>1 DEF InOrder, Earlier
<1>5. \A k \in 1 .. Len(listing.items) :
         /\ listing.items[k] \in Ids
         /\ row[listing.items[k]].at \in {"committed", "gone"}
  BY DEF PagesTypeOK, GivenIsSorted
<1>6. GivenIsSorted'
  BY <1>1, <1>4, <1>5 DEF GivenIsSorted
<1>7. CursorIsLast'
  BY <1>1 DEF CursorIsLast
<1>8. SteadyIsGiven'
  <2>1. steady' \subseteq Visible'
    BY <1>1 DEF SteadyIsGiven, Visible
  <2>2. ASSUME listing.at = "reading", NEW j \in steady'
        PROVE  j \in Given \/ Beyond(listing.cursor, j)'
    <3>1. j \in Ids /\ row[j].at = "committed"
      BY <2>2 DEF SteadyIsGiven, Visible
    <3>2. CASE listing.cursor = 0
      BY <1>1, <3>2 DEF Beyond
    <3>3. CASE listing.cursor # 0
      <4>1. /\ listing.cursor \in Ids
            /\ row[listing.cursor].at \in {"committed", "gone"}
        <5>1. Len(listing.items) \in 1 .. Len(listing.items)
          BY <2>2, <3>3, EmptySeq, LenProperties DEF CursorIsLast, PagesTypeOK
        <5> QED
          BY <2>2, <3>3, <1>5, <5>1 DEF CursorIsLast, PagesTypeOK
      <4>2. InOrder(listing.cursor, j)' = InOrder(listing.cursor, j)
        BY <3>1, <4>1, <1>4, <1>1
      <4> QED
        BY <2>2, <4>2, <1>1 DEF Beyond, SteadyIsGiven
    <3> QED
      BY <3>2, <3>3
  <2> QED
    BY <1>1, <2>1, <2>2 DEF SteadyIsGiven
<1>9. NumbersHaveNoGap'
  <2> SUFFICES ASSUME collection.numbered, listing.items # << >>,
                      NEW j \in Visible',
                      j <= listing.items[Len(listing.items)]
               PROVE  j \in Given
    BY <1>1 DEF NumbersHaveNoGap
  <2> DEFINE last == listing.items[Len(listing.items)]
  <2>1. last \in Ids /\ row[last].at \in {"committed", "gone"}
    <3>1. Len(listing.items) \in 1 .. Len(listing.items)
      BY EmptySeq, LenProperties DEF PagesTypeOK
    <3> QED
      BY <3>1, <1>5
  <2>2. j \in Ids /\ row'[j].at = "committed" /\ row'[j].matches
    BY <1>1 DEF Visible, Ids
  <2>3. j \in Visible
    <3>1. CASE j # i
      BY <1>1, <2>2, <3>1 DEF Visible
    <3>2. CASE j = i
      <4>1. row[i].at # "none"
        <5>1. CASE i = last
          BY <2>1, <5>1
        <5>2. CASE i # last
          BY <2>1, <3>2, <5>2 DEF NumbersAreInOrder, Ids
        <5> QED
          BY <5>1, <5>2
      <4> QED
        BY <1>1, <2>2, <3>2, <4>1
    <3> QED
      BY <3>1, <3>2
  <2> QED
    BY <2>3 DEF NumbersHaveNoGap
<1> QED
  BY <1>2, <1>3, <1>6, <1>7, <1>8, <1>9

\* The writers are such steps.
LEMMA WritersKeepPages ==
  ASSUME PagesInv, Inserts \/ Commits \/ Changes \/ Deletes
  PROVE  PagesInv'
<1> USE DEF PagesInv
<1>0. /\ steady \subseteq Visible
      /\ \A i \in Ids : row[i] \in [at : {"none", "open", "committed", "gone"},
                                    time : Nat, matches : BOOLEAN]
      /\ collection.numbered \in BOOLEAN
      /\ collection.numbered => ~collection.changes
      /\ collection.numbered => \A i \in Ids : row[i].time = 0
  BY CollectionFlags DEF SteadyIsGiven, PagesTypeOK, NumbersAreInOrder
<1>1. CASE Inserts
  <2>1. PICK i \in Ids, t \in 1 .. NumTimes :
           row[i] = NoRow /\ RowIs(i, [NoRow EXCEPT !.at = "open", !.time = t])
    BY <1>1 DEF Inserts
  <2> DEFINE new == [NoRow EXCEPT !.at = "open", !.time = t]
  <2>2. /\ new \in [at : {"none", "open", "committed", "gone"}, time : Nat,
                    matches : BOOLEAN]
        /\ row[i].at = "none"
    <3>1. t \in Nat
      BY RowsAssumption
    <3>2. NoRow \in [at : {"none", "open", "committed", "gone"}, time : Nat,
                     matches : BOOLEAN] /\ NoRow.at = "none"
      BY DEF NoRow
    <3> QED
      BY <2>1, <3>1, <3>2
  <2>3. i \notin steady /\ steady' = steady
    BY <1>0, <1>1, <2>2 DEF Visible, Inserts
  <2>4. ~collection.numbered
    BY <1>1 DEF Inserts
  <2>5. row' = [row EXCEPT ![i] = new] /\ UNCHANGED <<collection, listing>>
    BY <2>1 DEF RowIs
  <2> HIDE DEF new
  <2> QED
    BY <2>2, <2>3, <2>4, <2>5, WriterKeepsPages
<1>2. CASE Commits
  <2>1. PICK i \in Ids :
           /\ \/ row[i].at = "open"
              \/ /\ collection.numbered /\ row[i].at = "none"
                 /\ \A j \in Ids : j < i => row[j].at # "none"
           /\ RowIs(i, [row[i] EXCEPT !.at = "committed"])
    BY <1>2 DEF Commits
  <2> DEFINE new == [row[i] EXCEPT !.at = "committed"]
  <2>2. /\ new \in [at : {"none", "open", "committed", "gone"}, time : Nat,
                    matches : BOOLEAN]
        /\ new.at = "committed" /\ new.time = row[i].time
        /\ row[i].at \notin {"committed", "gone"}
    BY <1>0, <2>1
  <2>3. i \notin steady /\ steady' = steady
    BY <1>0, <1>2, <2>2 DEF Visible, Commits
  <2>4. row' = [row EXCEPT ![i] = new] /\ UNCHANGED <<collection, listing>>
    BY <2>1 DEF RowIs
  <2>5. collection.numbered => row[i].at = "none"
    BY <2>1 DEF NumbersAreInOrder
  <2> HIDE DEF new
  <2> QED
    BY <1>0, <2>1, <2>2, <2>3, <2>4, <2>5, WriterKeepsPages
<1>3. CASE Changes
  <2>1. PICK i \in Ids :
           /\ row[i].at = "committed"
           /\ RowIs(i, [row[i] EXCEPT !.matches = ~@])
           /\ steady' = steady \ {i}
    BY <1>3 DEF Changes
  <2> DEFINE new == [row[i] EXCEPT !.matches = ~@]
  <2>2. /\ new \in [at : {"none", "open", "committed", "gone"}, time : Nat,
                    matches : BOOLEAN]
        /\ new.at = "committed" /\ new.time = row[i].time
    BY <1>0, <2>1
  <2>3. ~collection.numbered
    BY <1>0, <1>3 DEF Changes
  <2>4. row' = [row EXCEPT ![i] = new] /\ UNCHANGED <<collection, listing>>
    BY <2>1 DEF RowIs
  <2> HIDE DEF new
  <2> QED
    BY <2>1, <2>2, <2>3, <2>4, WriterKeepsPages
<1>4. CASE Deletes
  <2>1. PICK i \in Ids :
           /\ row[i].at = "committed"
           /\ RowIs(i, [row[i] EXCEPT !.at = "gone"])
           /\ steady' = steady \ {i}
    BY <1>4 DEF Deletes
  <2> DEFINE new == [row[i] EXCEPT !.at = "gone"]
  <2>2. /\ new \in [at : {"none", "open", "committed", "gone"}, time : Nat,
                    matches : BOOLEAN]
        /\ new.at = "gone" /\ new.time = row[i].time
    BY <1>0, <2>1
  <2>3. row' = [row EXCEPT ![i] = new] /\ UNCHANGED <<collection, listing>>
    BY <2>1 DEF RowIs
  <2> HIDE DEF new
  <2> QED
    BY <1>0, <2>1, <2>2, <2>3, WriterKeepsPages
<1> QED
  BY <1>1, <1>2, <1>3, <1>4

\* The rows of a page are the first of the selected rows, and it has a cursor
\* only if there is a row after them.
LEMMA PageHasFirstRows ==
  ASSUME PagesTypeOK, NEW n \in 0 .. PageLimit + 1,
         NEW rows \in [1 .. n -> Remaining]
  PROVE  \E m \in 0 .. PageLimit :
           /\ m <= n /\ m \in Nat
           /\ m < n => m = PageLimit /\ n = PageLimit + 1
           /\ rows \in Seq(Ids) /\ Len(rows) = n
           /\ PageOf(rows).at = IF m < n THEN "reading" ELSE "done"
           /\ m < n => PageOf(rows).cursor = rows[m]
           /\ m = n => PageOf(rows).cursor = 0
           /\ PageOf(rows).items \in Seq(Ids)
           /\ Len(PageOf(rows).items) = Len(listing.items) + m
           /\ \A k \in 1 .. Len(listing.items) :
                 PageOf(rows).items[k] = listing.items[k]
           /\ \A k \in 1 .. m :
                 PageOf(rows).items[Len(listing.items) + k] = rows[k]
<1>0. /\ PageLimit \in Nat /\ PageLimit > 0 /\ n \in Nat
      /\ Remaining \subseteq Ids
      /\ listing.items \in Seq(Ids) /\ Len(listing.items) \in Nat
  BY LimitAssumption, LenProperties DEF Remaining, Visible, PagesTypeOK
<1>1. rows \in Seq(Ids) /\ Len(rows) = n
  BY <1>0
<1> DEFINE m == IF n > PageLimit THEN PageLimit ELSE n
           p == IF Len(rows) > PageLimit THEN SubSeq(rows, 1, PageLimit) ELSE rows
<1>2. /\ m \in 0 .. PageLimit /\ m <= n /\ m \in Nat
      /\ m < n => m = PageLimit /\ n = PageLimit + 1
      /\ m < n <=> n > PageLimit
  BY <1>0
<1>3. p \in Seq(Ids) /\ Len(p) = m /\ \A k \in 1 .. m : p[k] = rows[k]
  <2>1. CASE n > PageLimit
    <3>1. /\ SubSeq(rows, 1, PageLimit) \in Seq(Ids)
          /\ Len(SubSeq(rows, 1, PageLimit)) = PageLimit
          /\ \A k \in 1 .. PageLimit : SubSeq(rows, 1, PageLimit)[k] = rows[k]
      <4>1. \A k \in 1 .. PageLimit : rows[k] \in Ids
        BY <1>0, <2>1
      <4>2. 1 \in Int /\ PageLimit \in Int
        BY <1>0
      <4> HIDE DEF m, p
      <4>3. /\ SubSeq(rows, 1, PageLimit) \in Seq(Ids)
            /\ Len(SubSeq(rows, 1, PageLimit))
                 = IF 1 <= PageLimit THEN PageLimit - 1 + 1 ELSE 0
            /\ \A k \in 1 .. PageLimit - 1 + 1 :
                  SubSeq(rows, 1, PageLimit)[k] = rows[1 + k - 1]
        BY <4>1, <4>2, SubSeqProperties
      <4>4. PageLimit - 1 + 1 = PageLimit /\ \A k \in 1 .. PageLimit : 1 + k - 1 = k
        BY <1>0
      <4> QED
        BY <1>0, <4>3, <4>4
    <3> QED
      BY <2>1, <3>1, <1>1
  <2>2. CASE ~(n > PageLimit)
    BY <2>2, <1>1
  <2> QED
    BY <2>1, <2>2
<1>4. /\ PageOf(rows).at = IF n > PageLimit THEN "reading" ELSE "done"
      /\ PageOf(rows).cursor = IF n > PageLimit THEN rows[PageLimit] ELSE 0
      /\ PageOf(rows).items = listing.items \o p
  BY <1>1 DEF PageOf
<1> HIDE DEF p, m
<1>5. /\ listing.items \o p \in Seq(Ids)
      /\ Len(listing.items \o p) = Len(listing.items) + m
      /\ \A k \in 1 .. Len(listing.items) + m :
           (listing.items \o p)[k] = IF k <= Len(listing.items) THEN listing.items[k]
                                     ELSE p[k - Len(listing.items)]
  <2>1. listing.items \in Seq(Ids) /\ p \in Seq(Ids)
    BY <1>0, <1>3
  <2>2. /\ listing.items \o p \in Seq(Ids)
        /\ Len(listing.items \o p) = Len(listing.items) + Len(p)
        /\ \A k \in 1 .. Len(listing.items) + Len(p) :
             (listing.items \o p)[k] =
               IF k <= Len(listing.items) THEN listing.items[k]
               ELSE p[k - Len(listing.items)]
    BY <2>1, ConcatProperties, Zenon
  <2> QED
    BY <2>2, <1>3
<1>6. /\ \A k \in 1 .. Len(listing.items) :
           (listing.items \o p)[k] = listing.items[k]
      /\ \A k \in 1 .. m : (listing.items \o p)[Len(listing.items) + k] = rows[k]
  <2>1. ASSUME NEW k \in 1 .. m
        PROVE  (listing.items \o p)[Len(listing.items) + k] = rows[k]
    <3>1. /\ Len(listing.items) + k \in 1 .. Len(listing.items) + m
          /\ ~(Len(listing.items) + k <= Len(listing.items))
          /\ (Len(listing.items) + k) - Len(listing.items) = k
      BY <1>0, <1>2
    <3> QED
      BY <3>1, <1>5, <1>3
  <2>2. ASSUME NEW k \in 1 .. Len(listing.items)
        PROVE  (listing.items \o p)[k] = listing.items[k]
    <3>1. k \in 1 .. Len(listing.items) + m /\ k <= Len(listing.items)
      BY <1>0, <1>2
    <3> QED
      BY <3>1, <1>5
  <2> QED
    BY <2>1, <2>2
<1>7. m < n => PageOf(rows).cursor = rows[m]
  BY <1>2, <1>4
<1>8. m = n => PageOf(rows).cursor = 0
  BY <1>0, <1>2, <1>4
<1>9. PageOf(rows).at = IF m < n THEN "reading" ELSE "done"
  BY <1>2, <1>4
<1>10. /\ PageOf(rows).items \in Seq(Ids)
       /\ Len(PageOf(rows).items) = Len(listing.items) + m
       /\ \A k \in 1 .. Len(listing.items) :
             PageOf(rows).items[k] = listing.items[k]
       /\ \A k \in 1 .. m :
             PageOf(rows).items[Len(listing.items) + k] = rows[k]
  BY <1>4, <1>5, <1>6
<1> QED
  BY <1>1, <1>2, <1>7, <1>8, <1>9, <1>10, Zenon

\* A page goes on where the cursor stands: its rows follow those given before
\* in the order of the list, and what it leaves out comes after its last row.
LEMMA ReadPageKeepsPages ==
  ASSUME PagesInv, ReadPage
  PROVE  PagesInv'
<1> USE DEF PagesInv
<1>0. PICK n \in 0 .. PageLimit + 1 : \E rows \in [1 .. n -> Remaining] :
         Selects(rows) /\ listing' = PageOf(rows)
  BY DEF ReadPage
<1>1. PICK rows \in [1 .. n -> Remaining] :
         Selects(rows) /\ listing' = PageOf(rows)
  BY <1>0
<1>2. /\ collection' = collection /\ row' = row /\ steady' = steady
      /\ listing.at = "reading"
  BY DEF ReadPage
<1>3. PICK m \in 0 .. PageLimit :
           /\ m <= n /\ m \in Nat
           /\ m < n => m = PageLimit /\ n = PageLimit + 1
           /\ rows \in Seq(Ids) /\ Len(rows) = n
           /\ listing'.at = IF m < n THEN "reading" ELSE "done"
           /\ m < n => listing'.cursor = rows[m]
           /\ m = n => listing'.cursor = 0
           /\ listing'.items \in Seq(Ids)
           /\ Len(listing'.items) = Len(listing.items) + m
           /\ \A k \in 1 .. Len(listing.items) :
                 listing'.items[k] = listing.items[k]
           /\ \A k \in 1 .. m :
                 listing'.items[Len(listing.items) + k] = rows[k]
  BY <1>1, PageHasFirstRows
<1> DEFINE old == listing.items
           all == listing'.items
           h == Len(listing.items)
<1>4. /\ PageLimit \in Nat /\ PageLimit > 0 /\ n \in Nat /\ h \in Nat
      /\ old \in Seq(Ids) /\ DOMAIN rows = 1 .. n
      /\ m \in Nat /\ m <= n
      /\ \A k \in 1 .. h : old[k] \in Ids
  BY <1>3, LimitAssumption, LenProperties, ElementOfSeq DEF PagesTypeOK
<1>5. \A k \in 1 .. n : /\ rows[k] \in Ids /\ rows[k] \in Visible
                        /\ Beyond(listing.cursor, rows[k])
  BY DEF Remaining, Visible
<1>6. /\ \A k, l \in 1 .. n : k < l => InOrder(rows[k], rows[l])
      /\ \A i \in Remaining : \/ \E k \in 1 .. n : rows[k] = i
                              \/ m < n /\ InOrder(rows[n], i)
  <2>1. Len(rows) > PageLimit => m < n /\ Len(rows) = n
    BY <1>3, <1>4
  <2> QED
    BY <1>1, <1>3, <1>4, <2>1 DEF Selects
<1>7. \A i, j, k \in Ids : InOrder(i, j) /\ InOrder(j, k) => InOrder(i, k)
  BY OrderIsStrict
<1>8. \A i, j : InOrder(i, j)' = InOrder(i, j)
  BY <1>2 DEF InOrder, Earlier
<1>9. Visible' = Visible
  BY <1>2 DEF Visible
<1>10. \A k \in 1 .. h + m :
          \/ k \in 1 .. h /\ all[k] = old[k]
          \/ \E l \in 1 .. m : k = h + l /\ all[k] = rows[l]
  <2> SUFFICES ASSUME NEW k \in 1 .. h + m
               PROVE  \/ k \in 1 .. h /\ all[k] = old[k]
                      \/ \E l \in 1 .. m : k = h + l /\ all[k] = rows[l]
    OBVIOUS
  <2>1. CASE k <= h
    <3>1. k \in 1 .. h
      BY <1>4, <2>1
    <3> QED
      BY <3>1, <1>3
  <2>2. CASE k > h
    <3>1. k - h \in 1 .. m /\ k = h + (k - h)
      BY <1>4, <2>2
    <3>2. all[h + (k - h)] = rows[k - h]
      BY <3>1, <1>3
    <3> QED
      BY <3>1, <3>2
  <2> QED
    BY <1>4, <2>1, <2>2
<1>11. /\ \A x \in Given : x \in Given'
       /\ \A l \in 1 .. m : rows[l] \in Given'
  <2>1. /\ \A k \in 1 .. h : k \in 1 .. Len(all)
        /\ \A l \in 1 .. m : h + l \in 1 .. Len(all)
    BY <1>3, <1>4
  <2>2. ASSUME NEW x \in Given PROVE x \in Given'
    BY <1>3, <2>1 DEF Given
  <2>3. ASSUME NEW l \in 1 .. m PROVE rows[l] \in Given'
    BY <1>3, <2>1 DEF Given
  <2> QED
    BY <2>2, <2>3
\* What was given before comes before the rows of the page.
<1>12. ASSUME NEW k \in 1 .. h, NEW l \in 1 .. n PROVE InOrder(old[k], rows[l])
  <2>1. /\ listing.cursor # 0 /\ listing.cursor = old[h]
        /\ old[k] \in Ids /\ old[h] \in Ids /\ h \in 1 .. h
    BY <1>2, <1>4, EmptySeq DEF CursorIsLast, PagesTypeOK
  <2>2. InOrder(old[h], rows[l])
    BY <1>5, <2>1 DEF Beyond
  <2>3. CASE k = h
    BY <2>2, <2>3
  <2>4. CASE k # h
    <3>1. InOrder(old[k], old[h])
      BY <1>4, <2>1, <2>4 DEF GivenIsSorted
    <3> QED
      BY <3>1, <2>1, <2>2, <1>5, <1>7
  <2> QED
    BY <2>3, <2>4
<1> HIDE DEF old, all, h
<1>13. PagesTypeOK'
  <2>1. listing'.cursor \in Ids \cup {0}
    <3>1. CASE m < n
      <4>1. m \in 1 .. n
        BY <1>3, <1>4, <3>1
      <4> QED
        BY <3>1, <4>1, <1>3, <1>5
    <3>2. CASE m = n
      BY <3>2, <1>3
    <3> QED
      BY <1>4, <3>1, <3>2
  <2> QED
    BY <2>1, <1>2, <1>3 DEF PagesTypeOK
<1>14. NumbersAreInOrder'
  BY <1>2 DEF NumbersAreInOrder
<1>15. GivenIsSorted'
  <2>1. ASSUME NEW k \in 1 .. h + m
        PROVE  row[all[k]].at \in {"committed", "gone"}
    <3>1. CASE k \in 1 .. h /\ all[k] = old[k]
      BY <3>1 DEF GivenIsSorted, h, old
    <3>2. CASE \E l \in 1 .. m : k = h + l /\ all[k] = rows[l]
      <4>1. PICK l \in 1 .. m : all[k] = rows[l]
        BY <3>2
      <4>2. l \in 1 .. n
        BY <1>4
      <4> QED
        BY <4>1, <4>2, <1>5 DEF Visible
    <3> QED
      BY <1>10, <3>1, <3>2
  <2>2. ASSUME NEW k \in 1 .. h + m, NEW l \in 1 .. h + m, k < l
        PROVE  InOrder(all[k], all[l])
    <3>1. CASE k \in 1 .. h /\ l \in 1 .. h
      <4>1. all[k] = old[k] /\ all[l] = old[l]
        BY <3>1, <1>3 DEF all, old, h
      <4>2. InOrder(old[k], old[l])
        BY <3>1, <2>2 DEF GivenIsSorted, h, old
      <4> QED
        BY <4>1, <4>2
    <3>2. CASE k \in 1 .. h /\ l \notin 1 .. h
      <4>1. all[k] = old[k]
        BY <3>2, <1>3 DEF all, old, h
      <4>2. PICK b \in 1 .. m : all[l] = rows[b]
        BY <3>2, <1>10
      <4>3. b \in 1 .. n
        BY <1>4
      <4> QED
        BY <4>1, <4>2, <4>3, <3>2, <1>12
    <3>3. CASE k \notin 1 .. h
      <4>1. PICK a \in 1 .. m : k = h + a /\ all[k] = rows[a]
        BY <3>3, <1>10
      <4>2. l \notin 1 .. h
        BY <1>4, <4>1, <2>2
      <4>3. PICK b \in 1 .. m : l = h + b /\ all[l] = rows[b]
        BY <4>2, <1>10
      <4>4. a \in 1 .. n /\ b \in 1 .. n /\ a < b
        BY <1>4, <4>1, <4>3, <2>2
      <4> QED
        BY <4>1, <4>3, <4>4, <1>6
    <3> QED
      BY <3>1, <3>2, <3>3
  <2>3. Len(listing'.items) = h + m
    BY <1>3 DEF h
  <2> QED
    BY <1>2, <1>8, <2>1, <2>2, <2>3 DEF GivenIsSorted, all
<1>16. CursorIsLast'
  <2>1. CASE m < n
    <3>1. /\ m \in 1 .. m /\ m \in 1 .. n /\ h + m > 0
          /\ Len(listing'.items) = h + m
          /\ listing'.at = "reading" /\ listing'.cursor = rows[m]
      BY <2>1, <1>3, <1>4 DEF h
    <3>2. listing'.items[h + m] = rows[m] /\ listing'.items # << >>
      BY <1>3, <3>1, EmptySeq DEF h
    <3>3. rows[m] # 0
      BY <3>1, <1>5 DEF Ids
    <3> QED
      BY <3>1, <3>2, <3>3 DEF CursorIsLast
  <2>2. CASE m = n
    BY <2>2, <1>3, <1>4 DEF CursorIsLast
  <2> QED
    BY <1>4, <2>1, <2>2
\* A row after the old cursor is on the page, or after its last row.
<1>17. ASSUME NEW i \in Remaining
       PROVE  i \in Given' \/ (m < n /\ InOrder(rows[m], i))
  <2>0. i \in Ids
    BY DEF Remaining, Visible
  <2>1. CASE m = n
    <3>1. PICK k \in 1 .. n : rows[k] = i
      BY <1>4, <1>6, <2>1
    <3> QED
      BY <2>1, <3>1, <1>11
  <2>2. CASE m < n
    <3>1. m \in 1 .. n /\ n \in 1 .. n /\ n = m + 1
      BY <1>3, <1>4, <2>2
    <3>2. InOrder(rows[m], rows[n])
      BY <1>6, <3>1, <2>2
    <3>3. CASE \E k \in 1 .. n : rows[k] = i
      <4>1. PICK k \in 1 .. n : rows[k] = i
        BY <3>3
      <4>2. k \in 1 .. m \/ k = n
        BY <1>4, <3>1
      <4> QED
        BY <4>1, <4>2, <3>2, <2>2, <1>11
    <3>4. CASE InOrder(rows[n], i)
      BY <3>1, <3>2, <3>4, <2>0, <2>2, <1>5, <1>7
    <3> QED
      BY <3>3, <3>4, <1>6
  <2> QED
    BY <1>4, <2>1, <2>2
<1>18. SteadyIsGiven'
  <2>1. ASSUME NEW i \in steady
        PROVE  i \in Given' \/ (m < n /\ InOrder(rows[m], i))
    <3>1. CASE i \in Given
      BY <3>1, <1>11
    <3>2. CASE i \notin Given
      <4>1. i \in Remaining
        BY <1>2, <3>2 DEF SteadyIsGiven, Remaining
      <4> QED
        BY <4>1, <1>17
    <3> QED
      BY <3>1, <3>2
  <2>2. steady' \subseteq Visible'
    BY <1>2, <1>9 DEF SteadyIsGiven
  <2>3. CASE m < n
    <3>1. listing'.at = "reading" /\ listing'.cursor = rows[m]
      BY <1>3, <2>3
    <3>2. \A i \in steady' : i \in Given' \/ Beyond(listing.cursor, i)'
      BY <1>2, <1>8, <2>1, <3>1 DEF Beyond
    <3> QED
      BY <2>2, <3>1, <3>2 DEF SteadyIsGiven
  <2>4. CASE m = n
    <3>1. listing'.at = "done" /\ ~(m < n)
      BY <1>3, <1>4, <2>4
    <3> QED
      BY <1>2, <2>1, <2>2, <3>1 DEF SteadyIsGiven
  <2> QED
    BY <1>4, <2>3, <2>4
<1>19. NumbersHaveNoGap'
  <2> SUFFICES ASSUME collection.numbered, listing'.items # << >>,
                      NEW i \in Visible,
                      i <= listing'.items[Len(listing'.items)], i \notin Given'
               PROVE  FALSE
    BY <1>2, <1>9 DEF NumbersHaveNoGap
  <2>0. i \in Ids /\ Ids \subseteq Nat
    BY DEF Visible, Ids
  <2>1. \A j, k \in Ids : InOrder(j, k) <=> j < k
    <3>1. ~collection.newestFirst
      BY CollectionFlags DEF PagesTypeOK
    <3>2. \A j \in Ids : row[j].time = 0
      BY DEF NumbersAreInOrder
    <3> QED
      BY <3>1, <3>2 DEF InOrder, Earlier
  <2>2. i \notin Given
    BY <1>11
  <2>3. Len(listing'.items) = h + m
    BY <1>3 DEF h
  <2>4. i \in Remaining
    <3>1. CASE listing.cursor = 0
      BY <3>1 DEF Remaining, Beyond
    <3>2. CASE listing.cursor # 0
      <4>1. old # << >> /\ listing.cursor = old[h] /\ old[h] \in Ids
        BY <3>2, <1>2 DEF CursorIsLast, PagesTypeOK, old, h
      <4>2. ~(i <= old[h])
        BY <2>2, <4>1 DEF NumbersHaveNoGap, old, h
      <4>3. listing.cursor < i
        <5>1. /\ listing.cursor \in Nat /\ i \in Nat
              /\ ~(i <= listing.cursor)
          BY <4>1, <4>2, <2>0, Zenon
        <5> QED
          BY <5>1
      <4>4. InOrder(listing.cursor, i)
        BY <4>1, <4>3, <2>0, <2>1
      <4> QED
        BY <4>4 DEF Remaining, Beyond
    <3> QED
      BY <3>1, <3>2
  <2>5. m < n /\ InOrder(rows[m], i)
    BY <1>17, <2>4
  <2>6. m \in 1 .. m /\ m \in 1 .. n
    BY <1>3, <1>4, <2>5
  <2>7. listing'.items[h + m] = rows[m]
    BY <1>3, <2>6 DEF h
  <2> QED
    BY <2>0, <2>1, <2>3, <2>5, <2>6, <2>7, <1>5
<1> QED
  BY <1>13, <1>14, <1>15, <1>16, <1>18, <1>19

\* No step of a client, a writer or another component breaks the invariant.
LEMMA PagesStep == PagesInv /\ [PageNext \/ SnapshotNext]_queryVars => PagesInv'
<1> SUFFICES ASSUME PagesInv, [PageNext \/ SnapshotNext]_queryVars PROVE PagesInv'
  OBVIOUS
<1>1. CASE UNCHANGED <<collection, row, listing, steady>>
  BY <1>1 DEF PagesInv, PagesTypeOK, NumbersAreInOrder, GivenIsSorted,
              CursorIsLast, SteadyIsGiven, NumbersHaveNoGap, Given, Visible,
              Beyond, InOrder, Earlier
<1>2. CASE BeginListing
  <2>1. /\ listing' = [at |-> "reading", cursor |-> 0, items |-> << >>]
        /\ steady' = Visible /\ UNCHANGED <<collection, row>>
    BY <1>2 DEF BeginListing
  <2>2. Len(<< >>) = 0 /\ << >> \in Seq(Ids)
    BY EmptySeq
  <2>3. Visible' = Visible
    BY <2>1 DEF Visible
  <2> QED
    BY <2>1, <2>2, <2>3 DEF PagesInv, PagesTypeOK, NumbersAreInOrder,
       GivenIsSorted, CursorIsLast, SteadyIsGiven, NumbersHaveNoGap, Beyond
<1>3. CASE ReadPage
  BY <1>3, ReadPageKeepsPages
<1>4. CASE Inserts \/ Commits \/ Changes \/ Deletes
  BY <1>4, WritersKeepPages
<1>5. CASE SnapshotNext
  <2>1. UNCHANGED <<collection, row, listing, steady>>
    BY <1>5 DEF SnapshotNext, Claimed, StepRuns, StepIs, OperationEnds, NewOperation,
                FinalizationRequested, Succeeds, Fails, RetriedResult,
                ReadStatement, Stores
  <2> QED
    BY <2>1, <1>1
<1> QED
  BY <1>1, <1>2, <1>3, <1>4, <1>5 DEF PageNext, queryVars

\* Before the first page nothing was given.
LEMMA PagesStart == QueriesInit => PagesInv
<1> SUFFICES ASSUME QueriesInit PROVE PagesInv
  OBVIOUS
<1>1. /\ collection \in QueriedCollections
      /\ row = [i \in Ids |-> NoRow]
      /\ listing = [at |-> "idle", cursor |-> 0, items |-> << >>]
      /\ steady = {}
  BY DEF QueriesInit
<1>2. Len(<< >>) = 0 /\ << >> \in Seq(Ids)
  BY EmptySeq
<1>3. NoRow \in [at : {"none", "open", "committed", "gone"}, time : Nat,
                 matches : BOOLEAN]
  BY DEF NoRow
<1>4. PagesTypeOK
  BY <1>1, <1>2, <1>3 DEF PagesTypeOK
<1>5. \A i \in Ids : row[i].time = 0 /\ row[i].at = "none"
  BY <1>1 DEF NoRow
<1> QED
  BY <1>1, <1>2, <1>4, <1>5 DEF PagesInv, NumbersAreInOrder, GivenIsSorted,
     CursorIsLast, SteadyIsGiven, NumbersHaveNoGap

\* The property follows: rows that are in strict order are given once.
LEMMA PagesFollow == PagesInv => PagesMissNothing
<1> SUFFICES ASSUME PagesInv PROVE PagesMissNothing
  OBVIOUS
<1> USE DEF PagesInv
<1>1. ASSUME NEW k \in 1 .. Len(listing.items), NEW l \in 1 .. Len(listing.items),
             listing.items[k] = listing.items[l]
      PROVE  k = l
  <2>1. listing.items[k] \in Ids /\ Len(listing.items) \in Nat
    BY LenProperties, ElementOfSeq DEF PagesTypeOK
  <2>2. ~InOrder(listing.items[k], listing.items[k])
    BY <2>1, OrderIsStrict
  <2>3. ~(k < l) /\ ~(l < k)
    BY <1>1, <2>2 DEF GivenIsSorted
  <2> QED
    BY <2>1, <2>3
<1>2. listing.at = "done" => steady \subseteq Given
  BY DEF SteadyIsGiven
<1>3. collection.numbered /\ listing.items # << >> =>
         \A i \in Visible : i <= listing.items[Len(listing.items)] => i \in Given
  BY DEF NumbersHaveNoGap
<1> QED
  BY <1>1, <1>2, <1>3 DEF PagesMissNothing, Given

----------------------------------------------------------------------------
(* The result directory.  A sealed directory never changes, and everything  *)
(* that matters happens before: while nothing is sealed, the directory that *)
(* is filled keeps its files, its log lists only outputs whose files are    *)
(* there, and a manifest lists only what a log listed.  What threads do to  *)
(* the directory they make anew after the rename is of no consequence.      *)

Numbered(n) == [i \in 1 .. n |-> i]

Manifests ==
    [state : Terminal, complete : BOOLEAN, outputs : Seq(Nat), count : Nat]

Directory ==
    [there : {TRUE}, state : BOOLEAN, log : Seq(Nat), files : SUBSET Nat,
     manifest : Manifests \cup {NoManifest}]

Got == Manifests \cup {Nothing, NoManifest, [state |-> "OK"]}

ThreadRow ==
    [at : {"idle", "done", "mkdir", "open", "file", "line", "count", "read",
           "manifest", "state", "log", "rename"},
     name : Terminal \cup {""}, read : Seq(Nat), got : Got]

WorkerRow ==
    [pc : Calls \cup {"follow", "sealed", "end", "dead"}, offset : Nat,
     stored : Got]

\* The directories, the threads, the Worker and the row keep their shape.
ResultTypeOK ==
    /\ partial \in Directory \cup {NoDirectory}
    /\ final \in Directory \cup {NoDirectory}
    /\ log \in [count : Nat, cached : BOOLEAN]
    /\ thread \in [Calls -> ThreadRow]
    /\ worker \in WorkerRow
    /\ reference \in Got
    /\ storageFaults \in Nat

Busy(c) == thread[c].at \notin {"idle", "done"}

\* The files of the outputs are in the directory.
Stored(outputs, files) == \A i \in 1 .. Len(outputs) : outputs[i] \in files

\* A complete manifest lists all outputs in order.
Whole(m) ==
    m.complete =>
        /\ m.outputs = Numbered(m.count)
        /\ m.state = "FINALIZED" => Len(m.outputs) = NumOutputs

GoodManifest(m, files) == m \in Manifests /\ Stored(m.outputs, files) /\ Whole(m)

\* Until begin has made the directory, nobody else gets anywhere.
BeginIsFirst ==
    Busy("begin") =>
        /\ ~final.there /\ ~log.cached /\ log.count = 0
        /\ thread["begin"].at \in {"mkdir", "open"}
        /\ partial = IF thread["begin"].at = "mkdir" THEN NoDirectory ELSE Empty
        /\ thread["append"].at = "idle"
        /\ \A c \in Sealers : thread[c].at \in {"idle", "open", "done"}

\* The directory that is being filled.
PartialIsGood ==
    partial.there /\ ~final.there =>
        /\ partial.log # NoLog => Stored(partial.log, partial.files)
        /\ partial.state => partial.log # NoLog
        /\ partial.manifest # NoManifest =>
             GoodManifest(partial.manifest, partial.files)

FinalIsGood == final.there => GoodManifest(final.manifest, final.files)

\* What the thread of an append knows.
AppendIsGood ==
    /\ thread["append"].at \in {"idle", "done", "open", "file", "line", "count"}
    /\ Busy("append") => thread["append"].at = "open" \/ partial.there \/ final.there
    /\ thread["append"].at = "line" /\ ~final.there =>
         worker.offset + 1 \in partial.files

\* What the threads that seal know.
SealersAreGood ==
    \A c \in Sealers :
        /\ thread[c].at \in {"idle", "done", "open", "read", "manifest", "state",
                             "log", "rename"}
        /\ Busy(c) => thread[c].name \in
               IF c = "finalize" THEN {"FINALIZED", "FAILED"} ELSE {"ABORTED"}
        /\ thread[c].at \in {"read", "manifest", "state", "log", "rename"} =>
             partial.there \/ final.there
        /\ thread[c].at = "manifest" /\ ~final.there =>
             Stored(thread[c].read, partial.files)
        /\ thread[c].at \in {"state", "log", "rename"} /\ ~final.there =>
             partial.manifest # NoManifest
        /\ thread[c].at \in {"log", "rename"} /\ ~final.there => ~partial.state
        /\ thread[c].got # Nothing => final.there /\ thread[c].got = final.manifest

\* A finalize was called after all appends had succeeded.
FinalizeIsLast ==
    Busy("finalize") =>
        /\ ~Busy("begin") /\ ~Busy("append")
        /\ worker.pc \notin {"begin", "follow", "append"}
        /\ log.count = worker.offset
        /\ thread["finalize"].name = "FINALIZED" => worker.offset = NumOutputs
        /\ ~final.there /\ partial.there /\ partial.log # NoLog =>
             partial.log = Numbered(worker.offset)
        /\ ~final.there /\ thread["finalize"].at = "manifest" =>
             thread["finalize"].read = Numbered(worker.offset)

\* The Worker that has not been interrupted is alone in the directory.
Filling(n, counted) ==
    /\ ~final.there /\ partial.there /\ partial.state
    /\ partial.log = Numbered(n) /\ log.count = counted

WorkerIsGood ==
    /\ worker.pc \in {"begin", "follow", "append"} =>
         \A c \in Sealers : thread[c].at = "idle"
    /\ worker.pc = "begin" =>
         /\ thread["append"].at = "idle" /\ worker.offset = 0
         /\ thread["begin"].at = "done" /\ thread["begin"].got # Nothing =>
              Filling(0, 0)
    /\ worker.pc \in {"follow", "append"} => ~Busy("begin")
    /\ worker.pc = "follow" =>
         ~Busy("append") /\ Filling(worker.offset, worker.offset)
    /\ worker.pc = "append" =>
         LET at == thread["append"].at IN
         /\ at \in {"open", "file", "line"} => Filling(worker.offset, worker.offset)
         /\ at = "count" => Filling(worker.offset + 1, worker.offset)
         /\ at = "done" /\ thread["append"].got # Nothing =>
              Filling(worker.offset + 1, worker.offset + 1)
    /\ worker.stored # Nothing => final.there /\ worker.stored = final.manifest
    /\ reference # Nothing => final.there /\ reference = final.manifest

ResultInv ==
    /\ ResultTypeOK /\ BeginIsFirst /\ PartialIsGood /\ FinalIsGood
    /\ AppendIsGood /\ SealersAreGood /\ FinalizeIsLast /\ WorkerIsGood

\* The rows of a storage thread that is idle, has raised or has answered.
LEMMA RaisedIs ==
    /\ Raised \in ThreadRow /\ Raised.at = "done" /\ Raised.got = Nothing
    /\ Idle \in ThreadRow /\ Idle.at = "idle" /\ Idle.got = Nothing
    /\ \A got \in Got : Done(got) \in ThreadRow /\ Done(got).at = "done"
                        /\ Done(got).got = got
<1>1. << >> \in Seq(Nat) /\ Nothing \in Got
  BY DEF Got
<1> QED
  BY <1>1 DEF Raised, Done, Idle, ThreadRow

\* A thread that is not the Worker's concern any more, or that has failed,
\* ends without an answer.
LEMMA RaisesKeeps ==
    ASSUME ResultInv, NEW c \in Calls, Busy(c),
           thread' = [thread EXCEPT ![c] = Raised],
           UNCHANGED <<partial, final, log, worker, reference>>,
           storageFaults' \in Nat
    PROVE  ResultInv'
<1>1. ResultTypeOK /\ thread \in [Calls -> ThreadRow]
  BY DEF ResultInv, ResultTypeOK
<1>2. /\ thread' \in [Calls -> ThreadRow]
      /\ thread'[c].at = "done" /\ thread'[c].got = Nothing
      /\ \A d \in Calls : d # c => thread'[d] = thread[d]
  BY <1>1, RaisedIs
<1>3. "begin" \in Calls /\ "append" \in Calls /\ "finalize" \in Calls
      /\ \A d \in Sealers : d \in Calls
  BY DEF Calls, Sealers
<1>4. ResultTypeOK'
  BY <1>1, <1>2 DEF ResultTypeOK
<1>5. BeginIsFirst'
  BY <1>2, <1>3 DEF ResultInv, BeginIsFirst, Busy
<1>6. PartialIsGood' /\ FinalIsGood'
  BY DEF ResultInv, PartialIsGood, FinalIsGood, GoodManifest, Whole, Stored
<1>7. AppendIsGood'
  BY <1>2, <1>3 DEF ResultInv, AppendIsGood, Busy
<1>8. SealersAreGood'
  BY <1>2, <1>3 DEF ResultInv, SealersAreGood, Busy, Stored
<1>9. FinalizeIsLast'
  BY <1>2, <1>3 DEF ResultInv, FinalizeIsLast, Busy
<1>10. WorkerIsGood'
  BY <1>2, <1>3 DEF ResultInv, WorkerIsGood, Busy, Filling
<1> QED
  BY <1>4, <1>5, <1>6, <1>7, <1>8, <1>9, <1>10 DEF ResultInv

\* The log that is not there is unlike any log.
LEMMA NoLogIs == NoLog \in Seq(Nat) /\ Len(NoLog) = 1 /\ NoLog[1] = 0
BY DEF NoLog

\* The outputs in order.
LEMMA NumberedIs ==
    ASSUME NEW n \in Nat
    PROVE  /\ Numbered(n) \in Seq(Nat) /\ Len(Numbered(n)) = n
           /\ Numbered(n) # NoLog
           /\ Numbered(n) \o <<n + 1>> = Numbered(n + 1)
           /\ Numbered(0) = << >>
<1>1. \A m \in Nat : Numbered(m) \in Seq(Nat) /\ Len(Numbered(m)) = m
                     /\ \A i \in 1 .. m : Numbered(m)[i] = i
  BY DEF Numbered
<1>2. Numbered(n) # NoLog
  <2> SUFFICES ASSUME Numbered(n) = NoLog PROVE FALSE
    OBVIOUS
  <2>1. n = 1 /\ Numbered(n)[1] = 0
    BY <1>1 DEF NoLog
  <2> QED
    BY <2>1, <1>1
<1>3. Numbered(n) \o <<n + 1>> = Numbered(n + 1)
  <2> DEFINE s == Numbered(n) \o <<n + 1>>
             t == Numbered(n + 1)
  <2>1. <<n + 1>> \in Seq(Nat) /\ Len(<<n + 1>>) = 1 /\ <<n + 1>>[1] = n + 1
    OBVIOUS
  <2> DEFINE a == Numbered(n)
             b == <<n + 1>>
  <2>a. a \in Seq(Nat) /\ Len(a) = n /\ \A i \in 1 .. n : a[i] = i
    BY <1>1
  <2>b. b \in Seq(Nat) /\ Len(b) = 1 /\ b[1] = n + 1 /\ s = a \o b
    BY <2>1
  <2> HIDE DEF a, b, s
  <2>c. /\ s \in Seq(Nat) /\ Len(s) = Len(a) + Len(b)
        /\ \A i \in 1 .. Len(a) + Len(b) :
             s[i] = IF i <= Len(a) THEN a[i] ELSE b[i - Len(a)]
    BY <2>a, <2>b, ConcatProperties
  <2>2. s \in Seq(Nat) /\ Len(s) = n + 1
    BY <2>a, <2>b, <2>c
  <2>3. \A i \in 1 .. n + 1 : s[i] = i
    <3> SUFFICES ASSUME NEW i \in 1 .. n + 1 PROVE s[i] = i
      OBVIOUS
    <3>1. s[i] = IF i <= n THEN a[i] ELSE b[i - n]
      BY <2>a, <2>b, <2>c
    <3>2. CASE i <= n
      BY <3>1, <3>2, <2>a
    <3>3. CASE i = n + 1
      <4>1. i - n = 1 /\ ~(i <= n)
        BY <3>3
      <4> QED
        BY <3>1, <3>3, <4>1, <2>b
    <3> QED
      BY <3>2, <3>3
  <2>4. t \in Seq(Nat) /\ Len(t) = n + 1 /\ \A i \in 1 .. n + 1 : t[i] = i
    BY <1>1
  <2> HIDE DEF s, t
  <2>5. s = t
    BY <2>2, <2>3, <2>4, SeqEqual
  <2> QED
    BY <2>5 DEF s, t
<1>4. Numbered(0) = << >>
  BY <1>1
<1> QED
  BY <1>1, <1>2, <1>3, <1>4

\* The names of the calls.
LEMMA CallsAre ==
    /\ "begin" \in Calls /\ "append" \in Calls /\ "finalize" \in Sealers
    /\ "preserve" \in Sealers /\ "again" \in Sealers
    /\ \A c \in Sealers : c \in Calls /\ c # "begin" /\ c # "append"
BY DEF Calls, Sealers

\* A thread goes on to its next operation.
LEMMA GoesIs ==
    ASSUME ResultInv, NEW c \in Calls, NEW pc, Goes(c, pc),
           pc \in {"open", "file", "line", "count", "read", "manifest", "state",
                   "log", "rename"}
    PROVE  /\ thread' \in [Calls -> ThreadRow] /\ thread'[c].at = pc
           /\ thread'[c].name = thread[c].name /\ thread'[c].read = thread[c].read
           /\ thread'[c].got = thread[c].got
           /\ \A d \in Calls : d # c => thread'[d] = thread[d]
<1> DEFINE n == [thread[c] EXCEPT !.at = pc]
<1>1. thread \in [Calls -> ThreadRow]
  BY DEF ResultInv, ResultTypeOK
<1>2. /\ n \in ThreadRow /\ n.at = pc /\ n.name = thread[c].name
      /\ n.read = thread[c].read /\ n.got = thread[c].got
  BY <1>1 DEF ThreadRow
<1>3. thread' = [thread EXCEPT ![c] = n]
  BY <1>1 DEF Goes
<1> HIDE DEF n
<1> QED
  BY <1>1, <1>2, <1>3

\* A thread ends, or starts, as a whole.
LEMMA EndsIs ==
    ASSUME ResultInv, NEW c \in Calls, NEW n \in ThreadRow,
           thread' = [thread EXCEPT ![c] = n]
    PROVE  /\ thread' \in [Calls -> ThreadRow] /\ thread'[c] = n
           /\ \A d \in Calls : d # c => thread'[d] = thread[d]
BY DEF ResultInv, ResultTypeOK

\* The directory that begin makes.
LEMMA EmptyIs ==
    /\ Empty \in Directory /\ Empty.there = TRUE /\ Empty.state = FALSE
    /\ Empty.log = NoLog /\ Empty.manifest = NoManifest /\ Empty.files = {}
    /\ NoDirectory.there = FALSE /\ NoDirectory \notin Directory
<1>1. NoLog \in Seq(Nat) /\ {} \in SUBSET Nat /\ NoManifest \in Manifests \cup {NoManifest}
  BY DEF NoLog
<1>2. NoDirectory.there = FALSE
  BY DEF NoDirectory
<1> QED
  BY <1>1, <1>2 DEF Empty, Directory

\* A directory that is there is kept by atomic_write, and one that is missing
\* is made.
LEMMA MadeIs ==
    ASSUME ResultInv
    PROVE  /\ Made(partial) \in Directory
           /\ partial.there => Made(partial) = partial /\ partial \in Directory
           /\ ~partial.there => Made(partial) = Empty
<1>1. partial \in Directory \/ partial = NoDirectory
  BY DEF ResultInv, ResultTypeOK
<1>2. CASE partial \in Directory
  BY <1>2, EmptyIs DEF Made
<1>3. CASE partial = NoDirectory
  BY <1>3, EmptyIs DEF Made
<1> QED
  BY <1>1, <1>2, <1>3

\* begin: the directory of the token is made.
LEMMA BeginMakesKeeps ==
    ASSUME ResultInv, BeginMakes
    PROVE  ResultInv'
<1>1. /\ thread' \in [Calls -> ThreadRow] /\ thread'["begin"].at = "open"
      /\ \A d \in Calls : d # "begin" => thread'[d] = thread[d]
  BY CallsAre, GoesIs DEF BeginMakes
<1>2. /\ thread["begin"].at = "mkdir" /\ partial' = Empty
      /\ final' = final /\ log' = log /\ worker' = worker
      /\ reference' = reference /\ storageFaults' = storageFaults
  BY DEF BeginMakes, Waits, At
<1>3. /\ Empty \in Directory /\ Empty.there = TRUE /\ Empty.state = FALSE
      /\ Empty.log = NoLog /\ Empty.manifest = NoManifest
  BY EmptyIs
<1>4. Busy("begin") /\ BeginIsFirst
  BY <1>2 DEF ResultInv, Busy
<1>5. ResultTypeOK'
  BY <1>1, <1>2, <1>3 DEF ResultInv, ResultTypeOK
<1>6. BeginIsFirst'
  BY <1>1, <1>2, <1>4, CallsAre DEF BeginIsFirst, Busy
<1>7. PartialIsGood' /\ FinalIsGood'
  BY <1>2, <1>3, <1>4 DEF PartialIsGood, FinalIsGood, BeginIsFirst
<1>8. AppendIsGood'
  BY <1>1, <1>4, CallsAre DEF AppendIsGood, BeginIsFirst, Busy
<1>9. SealersAreGood'
  BY <1>1, <1>2, <1>4, CallsAre DEF ResultInv, SealersAreGood, BeginIsFirst, Busy
<1>10. FinalizeIsLast'
  BY <1>1, <1>2, <1>4, CallsAre DEF ResultInv, FinalizeIsLast, Busy
<1>11. WorkerIsGood'
  BY <1>1, <1>2, <1>3, <1>4, CallsAre DEF ResultInv, WorkerIsGood, Busy
<1> QED
  BY <1>5, <1>6, <1>7, <1>8, <1>9, <1>10, <1>11 DEF ResultInv

\* begin: the log is opened in it.
LEMMA BeginOpensKeeps ==
    ASSUME ResultInv, BeginOpens
    PROVE  ResultInv'
<1> DEFINE ok == [state |-> "OK"]
           new == [Empty EXCEPT !.state = TRUE, !.log = << >>]
<1>0. ok \in Got /\ ok # Nothing
  BY DEF Got, Nothing
<1>1. /\ thread' \in [Calls -> ThreadRow] /\ thread'["begin"].at = "done"
      /\ \A d \in Calls : d # "begin" => thread'[d] = thread[d]
  BY <1>0, CallsAre, EndsIs, RaisedIs DEF BeginOpens, Ends, Returned
<1>2. /\ thread["begin"].at = "open"
      /\ final' = final /\ log' = log /\ worker' = worker
      /\ reference' = reference /\ storageFaults' = storageFaults
  BY DEF BeginOpens, Waits, At
<1>3. Busy("begin") /\ BeginIsFirst /\ partial = Empty
  BY <1>2 DEF ResultInv, Busy, BeginIsFirst
<1>4. /\ new \in Directory /\ new.there = TRUE /\ new.state = TRUE
      /\ new.log = << >> /\ new.manifest = NoManifest
  <2>1. << >> \in Seq(Nat)
    OBVIOUS
  <2> QED
    BY <2>1, EmptyIs DEF Directory
<1>5. partial' = new
  BY <1>3, EmptyIs DEF BeginOpens, Made
<1> HIDE DEF new
<1>6. new.log = Numbered(0) /\ new.log # NoLog /\ Stored(new.log, new.files)
  <2>1. new.log = Numbered(0) /\ new.log # NoLog /\ Len(new.log) = 0
    BY <1>4, NumberedIs
  <2> QED
    BY <2>1 DEF Stored
<1> HIDE DEF new
<1>7. ResultTypeOK'
  BY <1>1, <1>2, <1>4, <1>5 DEF ResultInv, ResultTypeOK
<1>8. BeginIsFirst'
  BY <1>1 DEF BeginIsFirst, Busy
<1>9. PartialIsGood' /\ FinalIsGood'
  BY <1>2, <1>3, <1>4, <1>5, <1>6 DEF PartialIsGood, FinalIsGood, BeginIsFirst
<1>10. AppendIsGood'
  BY <1>1, <1>3, CallsAre DEF AppendIsGood, BeginIsFirst, Busy
<1>11. SealersAreGood'
  BY <1>1, <1>2, <1>3, CallsAre DEF ResultInv, SealersAreGood, BeginIsFirst, Busy
<1>12. FinalizeIsLast'
  BY <1>1, <1>2, <1>3, CallsAre DEF ResultInv, FinalizeIsLast, Busy
<1>13. WorkerIsGood'
  BY <1>1, <1>2, <1>3, <1>4, <1>5, <1>6, CallsAre
     DEF ResultInv, WorkerIsGood, Busy, BeginIsFirst, Filling
<1> QED
  BY <1>7, <1>8, <1>9, <1>10, <1>11, <1>12, <1>13 DEF ResultInv

\* What opening the log does to its counter.
LEMMA OpenedLogIs ==
    ASSUME ResultInv, Openable
    PROVE  /\ OpenedLog \in [count : Nat, cached : BOOLEAN] /\ OpenedLog.cached
           /\ OpenedLog.count = IF log.cached THEN log.count ELSE Len(partial.log)
           /\ partial \in Directory
<1>1. log \in [count : Nat, cached : BOOLEAN] /\ partial \in Directory
  BY DEF ResultInv, ResultTypeOK, Openable, NoDirectory
<1>2. Len(partial.log) \in Nat
  BY <1>1, LenProperties DEF Directory
<1> QED
  BY <1>1, <1>2 DEF OpenedLog

\* append: the log is opened again.
LEMMA AppendOpensKeeps ==
    ASSUME ResultInv, AppendOpens
    PROVE  ResultInv'
<1>1. /\ thread["append"].at = "open" /\ partial' = partial
      /\ final' = final /\ worker' = worker
      /\ reference' = reference /\ storageFaults' = storageFaults
  BY DEF AppendOpens, Waits, At
<1>2. CASE Openable /\ OpenedLog.count = worker.offset
  <2>1. Goes("append", "file") /\ log' = OpenedLog
    BY <1>2 DEF AppendOpens
  <2>2. /\ thread' \in [Calls -> ThreadRow] /\ thread'["append"].at = "file"
        /\ \A d \in Calls : d # "append" => thread'[d] = thread[d]
    BY <2>1, CallsAre, GoesIs
  <2>3. /\ log' \in [count : Nat, cached : BOOLEAN] /\ partial.there
        /\ log'.count = worker.offset
    BY <1>2, <2>1, OpenedLogIs DEF Openable
  <2>4. Busy("append") /\ ~Busy("begin") /\ ~Busy("finalize")
    BY <1>1 DEF ResultInv, BeginIsFirst, FinalizeIsLast, Busy
  <2>5. ResultTypeOK'
    BY <1>1, <2>2, <2>3 DEF ResultInv, ResultTypeOK
  <2>6. BeginIsFirst' /\ FinalizeIsLast'
    BY <2>2, <2>4, CallsAre DEF BeginIsFirst, FinalizeIsLast, Busy
  <2>7. PartialIsGood' /\ FinalIsGood'
    BY <1>1 DEF ResultInv, PartialIsGood, FinalIsGood, GoodManifest, Whole, Stored
  <2>8. AppendIsGood'
    BY <1>1, <2>2, <2>3 DEF AppendIsGood, Busy
  <2>9. SealersAreGood'
    BY <1>1, <2>2, CallsAre DEF ResultInv, SealersAreGood, Busy, Stored
  <2>10. WorkerIsGood'
    BY <1>1, <2>2, <2>3, CallsAre DEF ResultInv, WorkerIsGood, Busy, Filling
  <2> QED
    BY <2>5, <2>6, <2>7, <2>8, <2>9, <2>10 DEF ResultInv
<1>3. CASE ~(Openable /\ OpenedLog.count = worker.offset)
  <2>1. thread' = [thread EXCEPT !["append"] = Raised] /\ log' = log
    BY <1>3 DEF AppendOpens, Ends
  <2>2. storageFaults' \in Nat /\ Busy("append")
    BY <1>1 DEF ResultInv, ResultTypeOK, Busy
  <2> QED
    BY <1>1, <2>1, <2>2, CallsAre, RaisesKeeps
<1> QED
  BY <1>2, <1>3

\* Files are added, and only added, to a directory.
LEMMA AppendFileKeeps ==
    ASSUME ResultInv, AppendFile
    PROVE  ResultInv'
<1> DEFINE files == Made(partial).files \cup {worker.offset + 1}
           new == [Made(partial) EXCEPT !.files = files]
<1>1. /\ thread["append"].at = "file" /\ partial' = new
      /\ final' = final /\ log' = log /\ worker' = worker
      /\ reference' = reference /\ storageFaults' = storageFaults
  BY DEF AppendFile, Waits, At
<1>2. /\ thread' \in [Calls -> ThreadRow] /\ thread'["append"].at = "line"
      /\ \A d \in Calls : d # "append" => thread'[d] = thread[d]
  BY CallsAre, GoesIs DEF AppendFile
<1>3. Made(partial) \in Directory /\ (partial.there => Made(partial) = partial)
  BY MadeIs
<1>4. worker.offset + 1 \in Nat
  BY DEF ResultInv, ResultTypeOK, WorkerRow
<1>5. /\ new \in Directory /\ new.files = files /\ new.there = TRUE
      /\ new.state = Made(partial).state /\ new.log = Made(partial).log
      /\ new.manifest = Made(partial).manifest
  <2>1. files \in SUBSET Nat
    BY <1>3, <1>4 DEF Directory
  <2> HIDE DEF files
  <2> QED
    BY <1>3, <2>1 DEF Directory
<1>6. worker.offset + 1 \in files /\ Made(partial).files \subseteq files
  OBVIOUS
<1> HIDE DEF new, files
<1>7. Busy("append") /\ ~Busy("begin") /\ ~Busy("finalize")
  BY <1>1 DEF ResultInv, BeginIsFirst, FinalizeIsLast, Busy
<1>8. partial.there \/ final.there
  BY <1>1 DEF ResultInv, AppendIsGood, Busy
<1>9. ResultTypeOK'
  BY <1>1, <1>2, <1>5 DEF ResultInv, ResultTypeOK
<1>10. BeginIsFirst' /\ FinalizeIsLast'
  BY <1>2, <1>7, CallsAre DEF BeginIsFirst, FinalizeIsLast, Busy
<1>11. PartialIsGood'
  <2>1. CASE ~final.there
    <3>1. /\ partial.there /\ new.state = partial.state /\ new.log = partial.log
          /\ new.manifest = partial.manifest /\ partial.files \subseteq new.files
      BY <2>1, <1>3, <1>5, <1>6, <1>8
    <3> QED
      BY <2>1, <3>1, <1>1 DEF ResultInv, PartialIsGood, GoodManifest, Stored
  <2> QED
    BY <2>1, <1>1 DEF PartialIsGood
<1>12. FinalIsGood'
  BY <1>1 DEF ResultInv, FinalIsGood, GoodManifest, Whole, Stored
<1>13. AppendIsGood'
  BY <1>1, <1>2, <1>5, <1>6 DEF AppendIsGood, Busy
<1>14. SealersAreGood'
  BY <1>1, <1>2, <1>3, <1>5, <1>6, <1>8, CallsAre
     DEF ResultInv, SealersAreGood, Busy, Stored
<1>15. WorkerIsGood'
  BY <1>1, <1>2, <1>3, <1>5, CallsAre DEF ResultInv, WorkerIsGood, Busy, Filling
<1> QED
  BY <1>9, <1>10, <1>11, <1>12, <1>13, <1>14, <1>15 DEF ResultInv

\* An output is added at the end of the log; what there is of it has files.
LEMMA LineIs ==
    ASSUME ResultInv, partial.there, NEW base, NEW line, NEW made,
           base = IF partial.log = NoLog THEN << >> ELSE partial.log,
           line = worker.offset + 1,
           made = base \o <<line>>
    PROVE  /\ made \in Seq(Nat) /\ made # NoLog
           /\ ~final.there /\ line \in partial.files => Stored(made, partial.files)
<1>1. partial \in Directory /\ partial.log \in Seq(Nat)
  BY MadeIs DEF Directory
<1>2. base \in Seq(Nat) /\ << >> \in Seq(Nat)
  BY <1>1
<1>3. line \in Nat /\ line # 0
  BY DEF ResultInv, ResultTypeOK, WorkerRow
<1>4. PICK m \in Nat : m = Len(base)
  BY <1>2, LenProperties
<1> DEFINE b == <<line>>
<1>5. b \in Seq(Nat) /\ Len(b) = 1 /\ b[1] = line
  BY <1>3
<1> HIDE DEF b
<1>6. /\ made \in Seq(Nat) /\ Len(made) = m + 1
      /\ \A i \in 1 .. m + 1 : made[i] = IF i <= m THEN base[i] ELSE b[i - m]
  <2>1. made = base \o b
    BY DEF b
  <2>2. /\ made \in Seq(Nat) /\ Len(made) = Len(base) + Len(b)
        /\ \A i \in 1 .. Len(base) + Len(b) :
             made[i] = IF i <= Len(base) THEN base[i] ELSE b[i - Len(base)]
    BY <2>1, <1>2, <1>5, ConcatProperties
  <2> QED
    BY <2>2, <1>4, <1>5
<1>7. made[m + 1] = line
  <2>1. m + 1 \in 1 .. m + 1 /\ ~(m + 1 <= m) /\ (m + 1) - m = 1
    BY <1>4
  <2> QED
    BY <2>1, <1>5, <1>6
<1>8. made # NoLog
  <2> SUFFICES ASSUME made = NoLog PROVE FALSE
    OBVIOUS
  <2>1. Len(made) = 1 /\ made[1] = 0
    BY NoLogIs
  <2>2. m + 1 = 1
    BY <2>1, <1>6
  <2> QED
    BY <2>1, <2>2, <1>7, <1>3
<1>9. ASSUME ~final.there, line \in partial.files
      PROVE  Stored(made, partial.files)
  <2>1. \A i \in 1 .. m : base[i] \in partial.files
    <3>1. CASE partial.log = NoLog
      <4>1. m = 0
        BY <3>1, <1>4
      <4> QED
        BY <4>1
    <3>2. CASE partial.log # NoLog
      BY <3>2, <1>9, <1>4 DEF ResultInv, PartialIsGood, Stored
    <3> QED
      BY <3>1, <3>2
  <2>2. \A i \in 1 .. m + 1 : made[i] \in partial.files
    <3> SUFFICES ASSUME NEW i \in 1 .. m + 1 PROVE made[i] \in partial.files
      OBVIOUS
    <3>1. CASE i = m + 1
      BY <3>1, <1>7, <1>9
    <3>2. CASE i # m + 1
      <4>1. i \in 1 .. m /\ i <= m
        BY <3>2, <1>4
      <4> QED
        BY <4>1, <1>6, <2>1
    <3> QED
      BY <3>1, <3>2
  <2> QED
    BY <2>2, <1>6 DEF Stored
<1> QED
  BY <1>6, <1>8, <1>9

\* The line of an output whose file is there is added to the log.
LEMMA AppendLineKeeps ==
    ASSUME ResultInv, AppendLine
    PROVE  ResultInv'
<1>1. /\ thread["append"].at = "line" /\ final' = final /\ log' = log
      /\ worker' = worker /\ reference' = reference
      /\ storageFaults' = storageFaults
  BY DEF AppendLine, Waits, At
<1>2. Busy("append") /\ ~Busy("begin") /\ ~Busy("finalize")
  BY <1>1 DEF ResultInv, BeginIsFirst, FinalizeIsLast, Busy
<1>3. CASE partial.there
  <2>1. PICK base : base = IF partial.log = NoLog THEN << >> ELSE partial.log
    OBVIOUS
  <2>2. PICK line : line = worker.offset + 1
    OBVIOUS
  <2>3. PICK made : made = base \o <<line>>
    OBVIOUS
  <2>4. PICK new : new = [partial EXCEPT !.log = made]
    OBVIOUS
  <2>5. partial' = new /\ Goes("append", "count")
    BY <1>3, <2>1, <2>2, <2>3, <2>4 DEF AppendLine
  <2>6. /\ thread' \in [Calls -> ThreadRow] /\ thread'["append"].at = "count"
        /\ \A d \in Calls : d # "append" => thread'[d] = thread[d]
    BY <2>5, CallsAre, GoesIs
  <2>7. /\ made \in Seq(Nat) /\ made # NoLog
        /\ ~final.there => Stored(made, partial.files)
    BY <1>1, <1>3, <2>1, <2>2, <2>3, LineIs DEF ResultInv, AppendIsGood
  <2>8. /\ new \in Directory /\ new.log = made /\ new.there = TRUE
        /\ new.state = partial.state /\ new.files = partial.files
        /\ new.manifest = partial.manifest
    BY <1>3, <2>4, <2>7, MadeIs DEF Directory
  <2>9. ResultTypeOK'
    BY <1>1, <2>5, <2>6, <2>8 DEF ResultInv, ResultTypeOK
  <2>10. BeginIsFirst' /\ FinalizeIsLast'
    BY <1>2, <2>6, CallsAre DEF BeginIsFirst, FinalizeIsLast, Busy
  <2>11. PartialIsGood'
    BY <1>1, <1>3, <2>5, <2>7, <2>8 DEF ResultInv, PartialIsGood, GoodManifest,
                                        Stored
  <2>12. FinalIsGood'
    BY <1>1 DEF ResultInv, FinalIsGood, GoodManifest, Whole, Stored
  <2>13. AppendIsGood'
    BY <2>5, <2>6, <2>8 DEF AppendIsGood, Busy
  <2>14. SealersAreGood'
    BY <1>1, <1>3, <2>5, <2>6, <2>8, CallsAre
       DEF ResultInv, SealersAreGood, Busy, Stored
  <2>15. worker.pc = "append" => made = Numbered(worker.offset + 1)
    <3> SUFFICES ASSUME worker.pc = "append"
                 PROVE  made = Numbered(worker.offset + 1)
      OBVIOUS
    <3>1. partial.log = Numbered(worker.offset) /\ worker.offset \in Nat
      BY <1>1 DEF ResultInv, WorkerIsGood, Filling, ResultTypeOK, WorkerRow
    <3> QED
      BY <3>1, <2>1, <2>2, <2>3, NumberedIs
  <2>16. WorkerIsGood'
    BY <1>1, <1>2, <2>5, <2>6, <2>8, <2>15, CallsAre
       DEF ResultInv, WorkerIsGood, Busy, Filling
  <2> QED
    BY <2>9, <2>10, <2>11, <2>12, <2>13, <2>14, <2>16 DEF ResultInv
<1>4. CASE ~partial.there
  <2>1. thread' = [thread EXCEPT !["append"] = Raised] /\ partial' = partial
    BY <1>4 DEF AppendLine, Ends
  <2>2. storageFaults' \in Nat
    BY <1>1 DEF ResultInv, ResultTypeOK
  <2> QED
    BY <1>1, <1>2, <2>1, <2>2, CallsAre, RaisesKeeps
<1> QED
  BY <1>3, <1>4

\* The counter follows the log.
LEMMA AppendCountsKeeps ==
    ASSUME ResultInv, AppendCounts
    PROVE  ResultInv'
<1> DEFINE ok == [state |-> "OK"]
           new == [log EXCEPT !.count = @ + 1]
<1>0. ok \in Got /\ ok # Nothing
  BY DEF Got, Nothing
<1>1. /\ thread' \in [Calls -> ThreadRow] /\ thread'["append"].at = "done"
      /\ \A d \in Calls : d # "append" => thread'[d] = thread[d]
  BY <1>0, CallsAre, EndsIs, RaisedIs DEF AppendCounts, Ends, Returned
<1>2. /\ thread["append"].at = "count" /\ partial' = partial /\ log' = new
      /\ final' = final /\ worker' = worker
      /\ reference' = reference /\ storageFaults' = storageFaults
  BY DEF AppendCounts, Waits, At
<1>3. /\ new \in [count : Nat, cached : BOOLEAN] /\ new.count = log.count + 1
      /\ new.cached = log.cached
  BY DEF ResultInv, ResultTypeOK
<1> HIDE DEF new
<1>4. Busy("append") /\ ~Busy("begin") /\ ~Busy("finalize")
  BY <1>2 DEF ResultInv, BeginIsFirst, FinalizeIsLast, Busy
<1>5. ResultTypeOK'
  BY <1>1, <1>2, <1>3 DEF ResultInv, ResultTypeOK
<1>6. BeginIsFirst' /\ FinalizeIsLast'
  BY <1>1, <1>4, CallsAre DEF BeginIsFirst, FinalizeIsLast, Busy
<1>7. PartialIsGood' /\ FinalIsGood'
  BY <1>2 DEF ResultInv, PartialIsGood, FinalIsGood, GoodManifest, Whole, Stored
<1>8. AppendIsGood'
  BY <1>1 DEF AppendIsGood, Busy
<1>9. SealersAreGood'
  BY <1>1, <1>2, CallsAre DEF ResultInv, SealersAreGood, Busy, Stored
<1>10. WorkerIsGood'
  BY <1>1, <1>2, <1>3, <1>4, CallsAre DEF ResultInv, WorkerIsGood, Busy, Filling
<1> QED
  BY <1>5, <1>6, <1>7, <1>8, <1>9, <1>10 DEF ResultInv

\* While a thread seals, the Worker has left the loop of the outputs, and
\* once it has opened the log begin is over.
LEMMA SealerIsAlone ==
    ASSUME ResultInv, NEW c \in Sealers, thread[c].at \notin {"idle", "done"}
    PROVE  /\ worker.pc \notin {"begin", "follow", "append"}
           /\ Busy(c) /\ c \in Calls
           /\ c = "finalize" => ~Busy("append") /\ ~Busy("begin")
           /\ thread[c].at # "open" \/ final.there => ~Busy("begin")
<1>1. c \in Calls /\ Busy(c)
  BY CallsAre DEF Busy
<1>2. worker.pc \notin {"begin", "follow", "append"}
  BY DEF ResultInv, WorkerIsGood
<1>3. c = "finalize" => ~Busy("append") /\ ~Busy("begin")
  BY <1>1 DEF ResultInv, FinalizeIsLast
<1>4. thread[c].at # "open" \/ final.there => ~Busy("begin")
  BY DEF ResultInv, BeginIsFirst
<1> QED
  BY <1>1, <1>2, <1>3, <1>4

\* A seal of a sealed result answers with its manifest or not at all;
\* otherwise it opens the log.
LEMMA SealOpensKeeps ==
    ASSUME ResultInv, NEW c \in Sealers, SealOpens(c)
    PROVE  ResultInv'
<1>1. /\ thread[c].at = "open" /\ partial' = partial
      /\ final' = final /\ worker' = worker
      /\ reference' = reference /\ storageFaults' = storageFaults
  BY DEF SealOpens, Waits, At
<1>2. /\ worker.pc \notin {"begin", "follow", "append"}
      /\ Busy(c) /\ c \in Calls /\ (final.there => ~Busy("begin"))
      /\ c = "finalize" => ~Busy("append") /\ ~Busy("begin")
      /\ c # "begin" /\ c # "append"
  BY <1>1, SealerIsAlone, CallsAre
<1>3. storageFaults' \in Nat /\ ResultTypeOK /\ thread \in [Calls -> ThreadRow]
  BY <1>1 DEF ResultInv, ResultTypeOK
<1>4. ASSUME thread' = [thread EXCEPT ![c] = Raised], log' = log
      PROVE  ResultInv'
  BY <1>1, <1>2, <1>3, <1>4, RaisesKeeps
<1>5. CASE final.there /\ Ends(c, Done(Descriptor(thread[c].name))) /\ log' = log
  <2>1. PICK got : got = Descriptor(thread[c].name)
    OBVIOUS
  <2>2. CASE got = Nothing
    BY <1>4, <1>5, <2>1, <2>2 DEF Ends, Raised
  <2>3. CASE got # Nothing
    <3>1. got = final.manifest /\ got \in Got
      BY <1>5, <2>1, <2>3 DEF Descriptor, ResultInv, FinalIsGood, GoodManifest, Got
    <3>2. /\ thread' \in [Calls -> ThreadRow] /\ thread'[c].at = "done"
          /\ thread'[c].got = got
          /\ \A d \in Calls : d # c => thread'[d] = thread[d]
      BY <1>2, <1>5, <2>1, <3>1, EndsIs, RaisedIs DEF Ends
    <3>3. ResultTypeOK'
      BY <1>1, <1>3, <1>5, <3>2 DEF ResultTypeOK
    <3>4. BeginIsFirst'
      BY <1>2, <1>5, <3>2, CallsAre DEF BeginIsFirst, Busy
    <3>5. PartialIsGood' /\ FinalIsGood'
      BY <1>1 DEF ResultInv, PartialIsGood, FinalIsGood, GoodManifest, Whole, Stored
    <3>6. AppendIsGood'
      BY <1>1, <1>2, <3>2, CallsAre DEF ResultInv, AppendIsGood, Busy
    <3>7. SealersAreGood'
      BY <1>1, <1>2, <1>5, <3>1, <3>2, CallsAre
         DEF ResultInv, SealersAreGood, Busy, Stored
    <3>8. FinalizeIsLast'
      BY <1>1, <1>2, <1>5, <3>2, CallsAre DEF ResultInv, FinalizeIsLast, Busy
    <3>9. WorkerIsGood'
      BY <1>1, <1>2, <3>2, CallsAre DEF ResultInv, WorkerIsGood
    <3> QED
      BY <3>3, <3>4, <3>5, <3>6, <3>7, <3>8, <3>9 DEF ResultInv
  <2> QED
    BY <2>2, <2>3
<1>6. CASE ~final.there /\ Openable /\ log' = OpenedLog /\ Goes(c, "read")
  <2>1. /\ thread' \in [Calls -> ThreadRow] /\ thread'[c].at = "read"
        /\ thread'[c].name = thread[c].name /\ thread'[c].got = thread[c].got
        /\ \A d \in Calls : d # c => thread'[d] = thread[d]
    BY <1>2, <1>6, GoesIs
  <2>2. /\ log' \in [count : Nat, cached : BOOLEAN] /\ partial.there
        /\ log'.count = IF log.cached THEN log.count ELSE Len(partial.log)
    BY <1>6, OpenedLogIs DEF Openable
  <2>3. ~Busy("begin")
    BY <1>6, EmptyIs DEF ResultInv, BeginIsFirst, Openable
  <2>4. ResultTypeOK'
    BY <1>1, <1>3, <2>1, <2>2 DEF ResultTypeOK
  <2>5. BeginIsFirst'
    BY <1>2, <2>1, <2>3, CallsAre DEF BeginIsFirst, Busy
  <2>6. PartialIsGood' /\ FinalIsGood'
    BY <1>1 DEF ResultInv, PartialIsGood, FinalIsGood, GoodManifest, Whole, Stored
  <2>7. AppendIsGood'
    BY <1>1, <1>2, <2>1, CallsAre DEF ResultInv, AppendIsGood, Busy
  <2>8. SealersAreGood'
    BY <1>1, <1>2, <1>6, <2>1, <2>2, CallsAre
       DEF ResultInv, SealersAreGood, Busy, Stored
  <2>9. FinalizeIsLast'
    <3> SUFFICES ASSUME Busy("finalize")' PROVE FinalizeIsLast'
      BY DEF FinalizeIsLast
    <3>1. /\ Busy("finalize") /\ thread'["finalize"].name = thread["finalize"].name
          /\ (thread'["finalize"].at = "manifest" => thread'["finalize"] = thread["finalize"])
      BY <1>2, <2>1, CallsAre DEF Busy
    <3>2. log'.count = worker.offset
      <4>1. log.count = worker.offset /\ worker.offset \in Nat
        BY <3>1 DEF ResultInv, FinalizeIsLast, ResultTypeOK, WorkerRow
      <4>2. ~log.cached => partial.log = Numbered(worker.offset)
        <5>1. ~log.cached => partial.state /\ partial.log # NoLog
          BY <1>6, <2>2 DEF Openable, ResultInv, PartialIsGood
        <5> QED
          BY <5>1, <1>6, <2>2, <3>1 DEF ResultInv, FinalizeIsLast
      <4>3. Len(Numbered(worker.offset)) = worker.offset
        BY <4>1, NumberedIs
      <4> QED
        BY <2>2, <4>1, <4>2, <4>3
    <3> QED
      BY <1>1, <1>2, <2>1, <3>1, <3>2, CallsAre DEF ResultInv, FinalizeIsLast, Busy
  <2>10. WorkerIsGood'
    BY <1>1, <1>2, <2>1, CallsAre DEF ResultInv, WorkerIsGood
  <2> QED
    BY <2>4, <2>5, <2>6, <2>7, <2>8, <2>9, <2>10 DEF ResultInv
<1> QED
  BY <1>4, <1>5, <1>6 DEF SealOpens, Ends

\* The lines of the log are read.
LEMMA SealReadsKeeps ==
    ASSUME ResultInv, NEW c \in Sealers, SealReads(c)
    PROVE  ResultInv'
<1>1. /\ thread[c].at = "read" /\ partial' = partial /\ log' = log
      /\ final' = final /\ worker' = worker
      /\ reference' = reference /\ storageFaults' = storageFaults
  BY DEF SealReads, Waits, At
<1>2. /\ worker.pc \notin {"begin", "follow", "append"}
      /\ Busy(c) /\ c \in Calls /\ ~Busy("begin")
      /\ c # "begin" /\ c # "append"
  BY <1>1, SealerIsAlone, CallsAre
<1>3. storageFaults' \in Nat /\ ResultTypeOK /\ thread \in [Calls -> ThreadRow]
  BY <1>1 DEF ResultInv, ResultTypeOK
<1>4. CASE partial.there /\ partial.log # NoLog
  <2>1. PICK lines : lines = partial.log
    OBVIOUS
  <2>2. PICK new : new = [thread[c] EXCEPT !.read = lines, !.at = "manifest"]
    OBVIOUS
  <2>3. lines \in Seq(Nat)
    BY <1>4, <2>1, MadeIs DEF Directory
  <2>4. /\ new \in ThreadRow /\ new.at = "manifest" /\ new.read = lines
        /\ new.name = thread[c].name /\ new.got = thread[c].got
    BY <1>2, <1>3, <2>2, <2>3 DEF ThreadRow
  <2>5. thread' = [thread EXCEPT ![c] = new]
    BY <1>2, <1>3, <1>4, <2>1, <2>2 DEF SealReads
  <2>6. /\ thread' \in [Calls -> ThreadRow] /\ thread'[c] = new
        /\ \A d \in Calls : d # c => thread'[d] = thread[d]
    BY <1>2, <2>4, <2>5, EndsIs
  <2>7. ResultTypeOK'
    BY <1>1, <1>3, <2>6 DEF ResultTypeOK
  <2>8. BeginIsFirst'
    BY <1>2, <2>6, CallsAre DEF BeginIsFirst, Busy
  <2>9. PartialIsGood' /\ FinalIsGood'
    BY <1>1 DEF ResultInv, PartialIsGood, FinalIsGood, GoodManifest, Whole, Stored
  <2>10. AppendIsGood'
    BY <1>1, <1>2, <2>6, CallsAre DEF ResultInv, AppendIsGood, Busy
  <2>11. SealersAreGood'
    <3>1. ~final.there => Stored(lines, partial.files)
      BY <1>4, <2>1 DEF ResultInv, PartialIsGood
    <3> QED
      BY <1>1, <1>2, <1>4, <2>4, <2>6, <3>1, CallsAre
         DEF ResultInv, SealersAreGood, Busy, Stored
  <2>12. FinalizeIsLast'
    BY <1>1, <1>2, <1>4, <2>1, <2>4, <2>6, CallsAre
       DEF ResultInv, FinalizeIsLast, Busy
  <2>13. WorkerIsGood'
    BY <1>1, <1>2, <2>6, CallsAre DEF ResultInv, WorkerIsGood
  <2> QED
    BY <2>7, <2>8, <2>9, <2>10, <2>11, <2>12, <2>13 DEF ResultInv
<1>5. CASE ~(partial.there /\ partial.log # NoLog)
  <2>1. thread' = [thread EXCEPT ![c] = Raised]
    BY <1>5 DEF SealReads, Ends
  <2> QED
    BY <1>1, <1>2, <1>3, <2>1, RaisesKeeps
<1> QED
  BY <1>4, <1>5

\* The manifest lists what was read; a complete one is written by a finalize,
\* which no append runs beside.
LEMMA SealWritesKeeps ==
    ASSUME ResultInv, NEW c \in Sealers, SealWrites(c)
    PROVE  ResultInv'
<1>1. PICK m : m = Manifest(thread[c].name, thread[c].read)
  OBVIOUS
<1>2. PICK new : new = [Made(partial) EXCEPT !.manifest = m]
  OBVIOUS
<1>3. /\ thread[c].at = "manifest" /\ partial' = new /\ log' = log
      /\ final' = final /\ worker' = worker
      /\ reference' = reference /\ storageFaults' = storageFaults
  BY <1>1, <1>2 DEF SealWrites, Waits, At
<1>4. /\ worker.pc \notin {"begin", "follow", "append"}
      /\ Busy(c) /\ c \in Calls /\ ~Busy("begin")
      /\ c # "begin" /\ c # "append"
  BY <1>3, SealerIsAlone, CallsAre
<1>5. /\ thread' \in [Calls -> ThreadRow] /\ thread'[c].at = "state"
      /\ thread'[c].name = thread[c].name /\ thread'[c].got = thread[c].got
      /\ \A d \in Calls : d # c => thread'[d] = thread[d]
  BY <1>4, GoesIs DEF SealWrites
<1>6. /\ thread[c].read \in Seq(Nat) /\ log.count \in Nat
      /\ thread[c].name \in IF c = "finalize" THEN {"FINALIZED", "FAILED"}
                            ELSE {"ABORTED"}
  BY <1>4 DEF ResultInv, ResultTypeOK, ThreadRow, SealersAreGood
<1>7. /\ m \in Manifests /\ m # NoManifest /\ m.outputs = thread[c].read
      /\ m.count = log.count /\ m.state = thread[c].name
      /\ m.complete => c = "finalize"
  <2>1. thread[c].name \in Terminal
    BY <1>6 DEF Terminal
  <2>2. /\ m \in Manifests /\ m.outputs = thread[c].read
        /\ m.count = log.count /\ m.state = thread[c].name
        /\ m.complete = (thread[c].name \in {"FINALIZED", "FAILED"})
    BY <1>1, <1>6, <2>1 DEF Manifest, Manifests
  <2>3. m # NoManifest
    BY <2>1, <2>2 DEF NoManifest, Terminal
  <2> QED
    BY <2>2, <2>3, <1>6
<1>8. /\ new \in Directory /\ new.manifest = m /\ new.there = TRUE
      /\ new.state = Made(partial).state /\ new.log = Made(partial).log
      /\ new.files = Made(partial).files
  BY <1>2, <1>7, MadeIs DEF Directory
<1>9. /\ partial.there \/ final.there
      /\ ~final.there => Stored(m.outputs, partial.files)
  BY <1>3, <1>7 DEF ResultInv, SealersAreGood
<1>10. ~final.there => Whole(m)
  <2> SUFFICES ASSUME ~final.there, m.complete
               PROVE  /\ m.outputs = Numbered(m.count)
                      /\ m.state = "FINALIZED" => Len(m.outputs) = NumOutputs
    BY DEF Whole
  <2>1. c = "finalize" /\ Busy("finalize")
    BY <1>4, <1>7
  <2>2. /\ m.outputs = Numbered(worker.offset) /\ log.count = worker.offset
        /\ m.state = "FINALIZED" => worker.offset = NumOutputs
    BY <2>1, <1>3, <1>7 DEF ResultInv, FinalizeIsLast
  <2>3. Len(Numbered(worker.offset)) = worker.offset
    BY NumberedIs DEF ResultInv, ResultTypeOK, WorkerRow
  <2> QED
    BY <2>2, <2>3, <1>7
<1>11. ResultTypeOK'
  BY <1>3, <1>5, <1>8 DEF ResultInv, ResultTypeOK
<1>12. BeginIsFirst'
  BY <1>4, <1>5, CallsAre DEF BeginIsFirst, Busy
<1>13. PartialIsGood'
  <2>1. CASE ~final.there
    <3>1. /\ partial.there /\ new.state = partial.state /\ new.log = partial.log
          /\ new.files = partial.files
      BY <2>1, <1>8, <1>9, MadeIs
    <3>2. GoodManifest(new.manifest, new.files)
      BY <2>1, <3>1, <1>7, <1>8, <1>9, <1>10 DEF GoodManifest
    <3> QED
      BY <2>1, <3>1, <3>2, <1>3 DEF ResultInv, PartialIsGood
  <2> QED
    BY <2>1, <1>3 DEF PartialIsGood
<1>14. FinalIsGood'
  BY <1>3 DEF ResultInv, FinalIsGood, GoodManifest, Whole, Stored
<1>15. AppendIsGood'
  BY <1>3, <1>4, <1>5, <1>8, <1>9, MadeIs, CallsAre DEF ResultInv, AppendIsGood, Busy
<1>16. SealersAreGood'
  BY <1>3, <1>4, <1>5, <1>7, <1>8, <1>9, MadeIs, CallsAre
     DEF ResultInv, SealersAreGood, Busy, Stored
<1>17. FinalizeIsLast'
  BY <1>3, <1>4, <1>5, <1>8, <1>9, MadeIs, CallsAre
     DEF ResultInv, FinalizeIsLast, Busy
<1>18. WorkerIsGood'
  BY <1>3, <1>4, <1>5, CallsAre DEF ResultInv, WorkerIsGood
<1> QED
  BY <1>11, <1>12, <1>13, <1>14, <1>15, <1>16, <1>17, <1>18 DEF ResultInv

\* The .state file is removed after the manifest was written.
LEMMA SealUnlinksStateKeeps ==
    ASSUME ResultInv, NEW c \in Sealers, SealUnlinksState(c)
    PROVE  ResultInv'
<1>1. /\ thread[c].at = "state" /\ log' = log
      /\ final' = final /\ worker' = worker
      /\ reference' = reference /\ storageFaults' = storageFaults
  BY DEF SealUnlinksState, Waits, At
<1>2. /\ worker.pc \notin {"begin", "follow", "append"}
      /\ Busy(c) /\ c \in Calls /\ ~Busy("begin")
      /\ c # "begin" /\ c # "append"
  BY <1>1, SealerIsAlone, CallsAre
<1>3. storageFaults' \in Nat /\ ResultTypeOK
  BY <1>1 DEF ResultInv, ResultTypeOK
<1>4. CASE partial.there /\ partial.state
  <2>1. PICK new : new = [partial EXCEPT !.state = FALSE]
    OBVIOUS
  <2>2. partial' = new
    BY <1>4, <2>1 DEF SealUnlinksState
  <2>3. /\ new \in Directory /\ new.there = TRUE /\ new.state = FALSE
        /\ new.log = partial.log /\ new.files = partial.files
        /\ new.manifest = partial.manifest
    BY <1>4, <2>1, MadeIs DEF Directory
  <2>4. /\ thread' \in [Calls -> ThreadRow] /\ thread'[c].at = "log"
        /\ thread'[c].name = thread[c].name /\ thread'[c].got = thread[c].got
        /\ \A d \in Calls : d # c => thread'[d] = thread[d]
    BY <1>2, <1>4, GoesIs DEF SealUnlinksState
  <2>5. ResultTypeOK'
    BY <1>1, <1>3, <2>2, <2>3, <2>4 DEF ResultTypeOK
  <2>6. BeginIsFirst'
    BY <1>2, <2>4, CallsAre DEF BeginIsFirst, Busy
  <2>7. PartialIsGood' /\ FinalIsGood'
    BY <1>1, <1>4, <2>2, <2>3
       DEF ResultInv, PartialIsGood, FinalIsGood, GoodManifest, Whole, Stored
  <2>8. AppendIsGood'
    BY <1>1, <1>2, <2>2, <2>3, <2>4, CallsAre DEF ResultInv, AppendIsGood, Busy
  <2>9. SealersAreGood'
    BY <1>1, <1>2, <2>2, <2>3, <2>4, CallsAre
       DEF ResultInv, SealersAreGood, Busy, Stored
  <2>10. FinalizeIsLast'
    BY <1>1, <1>2, <1>4, <2>2, <2>3, <2>4, CallsAre
       DEF ResultInv, FinalizeIsLast, Busy
  <2>11. WorkerIsGood'
    BY <1>1, <1>2, <2>4, CallsAre DEF ResultInv, WorkerIsGood
  <2> QED
    BY <2>5, <2>6, <2>7, <2>8, <2>9, <2>10, <2>11 DEF ResultInv
<1>5. CASE ~(partial.there /\ partial.state)
  <2>1. thread' = [thread EXCEPT ![c] = Raised] /\ partial' = partial
    BY <1>5 DEF SealUnlinksState, Ends
  <2> QED
    BY <1>1, <1>2, <1>3, <2>1, RaisesKeeps
<1> QED
  BY <1>4, <1>5

\* The log is removed after the .state file was.
LEMMA SealUnlinksLogKeeps ==
    ASSUME ResultInv, NEW c \in Sealers, SealUnlinksLog(c)
    PROVE  ResultInv'
<1>1. /\ thread[c].at = "log"
      /\ final' = final /\ worker' = worker
      /\ reference' = reference /\ storageFaults' = storageFaults
  BY DEF SealUnlinksLog, Waits, At
<1>2. /\ worker.pc \notin {"begin", "follow", "append"}
      /\ Busy(c) /\ c \in Calls /\ ~Busy("begin")
      /\ c # "begin" /\ c # "append"
  BY <1>1, SealerIsAlone, CallsAre
<1>3. storageFaults' \in Nat /\ ResultTypeOK
  BY <1>1 DEF ResultInv, ResultTypeOK
<1>4. CASE partial.there /\ partial.log # NoLog
  <2>1. PICK new : new = [partial EXCEPT !.log = NoLog]
    OBVIOUS
  <2>a. PICK newLog : newLog = [log EXCEPT !.cached = FALSE]
    OBVIOUS
  <2>2. partial' = new /\ log' = newLog
    BY <1>4, <2>1, <2>a DEF SealUnlinksLog
  <2>3. /\ new \in Directory /\ new.there = TRUE /\ new.state = partial.state
        /\ new.log = NoLog /\ new.files = partial.files
        /\ new.manifest = partial.manifest
    BY <1>4, <2>1, MadeIs, NoLogIs DEF Directory
  <2>b. newLog \in [count : Nat, cached : BOOLEAN] /\ newLog.count = log.count
    BY <1>3, <2>a DEF ResultTypeOK
  <2>4. /\ thread' \in [Calls -> ThreadRow] /\ thread'[c].at = "rename"
        /\ thread'[c].name = thread[c].name /\ thread'[c].got = thread[c].got
        /\ \A d \in Calls : d # c => thread'[d] = thread[d]
    BY <1>2, <1>4, GoesIs DEF SealUnlinksLog
  <2>5. ResultTypeOK'
    BY <1>1, <1>3, <2>2, <2>3, <2>b, <2>4 DEF ResultTypeOK
  <2>6. BeginIsFirst'
    BY <1>2, <2>4, CallsAre DEF BeginIsFirst, Busy
  <2>7. PartialIsGood' /\ FinalIsGood'
    <3>1. ~final.there => ~partial.state
      BY <1>1 DEF ResultInv, SealersAreGood
    <3> QED
      BY <1>1, <1>4, <2>2, <2>3, <3>1
         DEF ResultInv, PartialIsGood, FinalIsGood, GoodManifest, Whole, Stored
  <2>8. AppendIsGood'
    BY <1>1, <1>2, <2>2, <2>3, <2>4, CallsAre DEF ResultInv, AppendIsGood, Busy
  <2>9. SealersAreGood'
    BY <1>1, <1>2, <2>2, <2>3, <2>4, CallsAre
       DEF ResultInv, SealersAreGood, Busy, Stored
  <2>10. FinalizeIsLast'
    BY <1>1, <1>2, <1>4, <2>2, <2>3, <2>4, <2>b, CallsAre
       DEF ResultInv, FinalizeIsLast, Busy
  <2>11. WorkerIsGood'
    BY <1>1, <1>2, <2>4, CallsAre DEF ResultInv, WorkerIsGood
  <2> QED
    BY <2>5, <2>6, <2>7, <2>8, <2>9, <2>10, <2>11 DEF ResultInv
<1>5. CASE ~(partial.there /\ partial.log # NoLog)
  <2>1. thread' = [thread EXCEPT ![c] = Raised] /\ partial' = partial /\ log' = log
    BY <1>5 DEF SealUnlinksLog, Ends
  <2> QED
    BY <1>1, <1>2, <1>3, <2>1, RaisesKeeps
<1> QED
  BY <1>4, <1>5

\* The directory becomes the result: it has a good manifest.
LEMMA SealRenamesKeeps ==
    ASSUME ResultInv, NEW c \in Sealers, SealRenames(c)
    PROVE  ResultInv'
<1>1. /\ thread[c].at = "rename" /\ log' = log /\ worker' = worker
      /\ reference' = reference /\ storageFaults' = storageFaults
  BY DEF SealRenames, Waits, At
<1>2. /\ worker.pc \notin {"begin", "follow", "append"}
      /\ Busy(c) /\ c \in Calls /\ ~Busy("begin")
      /\ c # "begin" /\ c # "append"
  BY <1>1, SealerIsAlone, CallsAre
<1>3. storageFaults' \in Nat /\ ResultTypeOK
  BY <1>1 DEF ResultInv, ResultTypeOK
<1>4. CASE partial.there /\ ~final.there
  <2>1. PICK m : m = partial.manifest
    OBVIOUS
  <2>2. final' = partial /\ partial' = NoDirectory
    BY <1>4 DEF SealRenames
  <2>3. /\ partial \in Directory /\ m \in Got
        /\ GoodManifest(m, partial.files)
    BY <1>1, <1>4, <2>1, MadeIs
       DEF ResultInv, SealersAreGood, PartialIsGood, GoodManifest, Got
  <2>4. /\ thread' \in [Calls -> ThreadRow] /\ thread'[c].at = "done"
        /\ thread'[c].got = m
        /\ \A d \in Calls : d # c => thread'[d] = thread[d]
    BY <1>2, <1>4, <2>1, <2>3, EndsIs, RaisedIs DEF SealRenames, Ends
  <2>5. ResultTypeOK'
    BY <1>1, <1>3, <2>2, <2>3, <2>4 DEF ResultTypeOK
  <2>6. BeginIsFirst'
    BY <1>2, <2>4, CallsAre DEF BeginIsFirst, Busy
  <2>7. PartialIsGood' /\ FinalIsGood'
    BY <1>4, <2>1, <2>2, <2>3 DEF PartialIsGood, FinalIsGood
  <2>8. AppendIsGood'
    BY <1>2, <1>4, <2>2, <2>4, CallsAre DEF ResultInv, AppendIsGood, Busy
  <2>9. SealersAreGood'
    BY <1>2, <1>4, <2>1, <2>2, <2>4, CallsAre
       DEF ResultInv, SealersAreGood, Busy
  <2>10. FinalizeIsLast'
    BY <1>1, <1>2, <1>4, <2>2, <2>4, CallsAre DEF ResultInv, FinalizeIsLast, Busy
  <2>11. WorkerIsGood'
    BY <1>1, <1>2, <1>4, <2>4, CallsAre DEF ResultInv, WorkerIsGood
  <2> QED
    BY <2>5, <2>6, <2>7, <2>8, <2>9, <2>10, <2>11 DEF ResultInv
<1>5. CASE ~(partial.there /\ ~final.there)
  <2>1. /\ thread' = [thread EXCEPT ![c] = Raised]
        /\ partial' = partial /\ final' = final
    BY <1>5 DEF SealRenames, Ends
  <2> QED
    BY <1>1, <1>2, <1>3, <2>1, RaisesKeeps
<1> QED
  BY <1>4, <1>5

\* Of two threads that write the manifest both fail.
LEMMA TemporaryCollidesKeeps ==
    ASSUME ResultInv, TemporaryCollides
    PROVE  ResultInv'
<1>1. PICK c \in Sealers, d \in Sealers :
        /\ c # d /\ thread[c].at = "manifest" /\ thread[d].at = "manifest"
        /\ thread' = [thread EXCEPT ![c] = Raised, ![d] = Raised]
        /\ UNCHANGED <<partial, final, log, worker, reference, storageFaults>>
  BY DEF TemporaryCollides, At, Waits
<1>2. /\ worker.pc \notin {"begin", "follow", "append"}
      /\ Busy(c) /\ c \in Calls /\ d \in Calls /\ ~Busy("begin")
      /\ c # "begin" /\ c # "append" /\ d # "begin" /\ d # "append"
  BY <1>1, SealerIsAlone, CallsAre
<1>3. ResultTypeOK /\ thread \in [Calls -> ThreadRow]
  BY DEF ResultInv, ResultTypeOK
<1>4. /\ thread' \in [Calls -> ThreadRow]
      /\ thread'[c] = Raised /\ thread'[d] = Raised
      /\ \A e \in Calls : e # c /\ e # d => thread'[e] = thread[e]
  BY <1>1, <1>2, <1>3, RaisedIs
<1>5. ResultTypeOK'
  BY <1>1, <1>3, <1>4 DEF ResultTypeOK
<1>6. BeginIsFirst'
  BY <1>2, <1>4, CallsAre DEF BeginIsFirst, Busy
<1>7. PartialIsGood' /\ FinalIsGood'
  BY <1>1 DEF ResultInv, PartialIsGood, FinalIsGood, GoodManifest, Whole, Stored
<1>8. AppendIsGood'
  BY <1>1, <1>2, <1>4, CallsAre DEF ResultInv, AppendIsGood, Busy
<1>9. SealersAreGood'
  BY <1>1, <1>2, <1>4, CallsAre, RaisedIs DEF ResultInv, SealersAreGood, Busy, Stored
<1>10. FinalizeIsLast'
  BY <1>1, <1>2, <1>4, CallsAre, RaisedIs DEF ResultInv, FinalizeIsLast, Busy
<1>11. WorkerIsGood'
  BY <1>1, <1>2, <1>4, CallsAre DEF ResultInv, WorkerIsGood
<1> QED
  BY <1>5, <1>6, <1>7, <1>8, <1>9, <1>10, <1>11 DEF ResultInv

\* The thread of a call starts.
LEMMA StartsIs ==
    ASSUME ResultInv, NEW c \in Calls, NEW name \in Terminal \cup {""},
           Starts(c, name)
    PROVE  /\ thread' \in [Calls -> ThreadRow] /\ thread'[c].at = "open"
           /\ thread'[c].name = name /\ thread'[c].got = Nothing
           /\ \A d \in Calls : d # c => thread'[d] = thread[d]
<1>1. PICK new : new = [Idle EXCEPT !.at = "open", !.name = name]
  OBVIOUS
<1>2. /\ new \in ThreadRow /\ new.at = "open" /\ new.name = name
      /\ new.got = Nothing
  BY <1>1, RaisedIs DEF ThreadRow
<1>3. thread' = [thread EXCEPT ![c] = new]
  BY <1>1 DEF Starts
<1> QED
  BY <1>2, <1>3, EndsIs

\* The Worker goes on.
LEMMA CallingIs ==
    ASSUME ResultInv, NEW pc \in Calls \cup {"follow", "sealed", "end", "dead"},
           Calling(pc)
    PROVE  /\ worker' \in WorkerRow /\ worker'.pc = pc
           /\ worker'.offset = worker.offset /\ worker'.stored = worker.stored
           /\ worker \in WorkerRow
BY DEF ResultInv, ResultTypeOK, Calling, WorkerRow

\* The Worker hands the next output to the store.
LEMMA AppendsOutputKeeps ==
    ASSUME ResultInv, AppendsOutput
    PROVE  ResultInv'
<1>1. /\ worker.pc = "follow" /\ partial' = partial /\ final' = final
      /\ log' = log /\ reference' = reference /\ storageFaults' = storageFaults
  BY DEF AppendsOutput
<1>2. /\ thread' \in [Calls -> ThreadRow] /\ thread'["append"].at = "open"
      /\ \A d \in Calls : d # "append" => thread'[d] = thread[d]
  BY CallsAre, StartsIs DEF AppendsOutput
<1>3. /\ worker' \in WorkerRow /\ worker'.pc = "append"
      /\ worker'.offset = worker.offset /\ worker'.stored = worker.stored
  BY CallsAre, CallingIs DEF AppendsOutput
<1>4. /\ ~Busy("begin") /\ Filling(worker.offset, worker.offset)
      /\ \A c \in Sealers : thread[c].at = "idle"
  BY <1>1 DEF ResultInv, WorkerIsGood
<1>5. ResultTypeOK'
  BY <1>1, <1>2, <1>3 DEF ResultInv, ResultTypeOK
<1>6. BeginIsFirst' /\ FinalizeIsLast'
  BY <1>2, <1>4, CallsAre DEF BeginIsFirst, FinalizeIsLast, Busy
<1>7. PartialIsGood' /\ FinalIsGood'
  BY <1>1 DEF ResultInv, PartialIsGood, FinalIsGood, GoodManifest, Whole, Stored
<1>8. AppendIsGood'
  BY <1>2 DEF AppendIsGood
<1>9. SealersAreGood'
  BY <1>1, <1>2, CallsAre DEF ResultInv, SealersAreGood, Busy, Stored
<1>10. WorkerIsGood'
  BY <1>1, <1>2, <1>3, <1>4, CallsAre DEF ResultInv, WorkerIsGood, Busy, Filling
<1> QED
  BY <1>5, <1>6, <1>7, <1>8, <1>9, <1>10 DEF ResultInv

\* The Worker finalizes a result that it is alone with.
LEMMA FinalizesKeeps ==
    ASSUME ResultInv, Finalizes
    PROVE  ResultInv'
<1>1. PICK name \in {"FINALIZED", "FAILED"} :
        /\ Starts("finalize", name)
        /\ name = "FINALIZED" => worker.offset = NumOutputs
  BY DEF Finalizes
<1>2. /\ worker.pc = "follow" /\ partial' = partial /\ final' = final
      /\ log' = log /\ reference' = reference /\ storageFaults' = storageFaults
  BY DEF Finalizes
<1>3. /\ thread' \in [Calls -> ThreadRow] /\ thread'["finalize"].at = "open"
      /\ thread'["finalize"].name = name /\ thread'["finalize"].got = Nothing
      /\ \A d \in Calls : d # "finalize" => thread'[d] = thread[d]
  <2>1. name \in Terminal \cup {""}
    BY DEF Terminal
  <2> QED
    BY <1>1, <2>1, CallsAre, StartsIs
<1>4. /\ worker' \in WorkerRow /\ worker'.pc = "finalize"
      /\ worker'.offset = worker.offset /\ worker'.stored = worker.stored
  BY CallsAre, CallingIs DEF Finalizes
<1>5. /\ ~Busy("begin") /\ ~Busy("append")
      /\ Filling(worker.offset, worker.offset)
      /\ \A c \in Sealers : thread[c].at = "idle"
  BY <1>2 DEF ResultInv, WorkerIsGood
<1>6. ResultTypeOK'
  BY <1>2, <1>3, <1>4 DEF ResultInv, ResultTypeOK
<1>7. BeginIsFirst'
  BY <1>3, <1>5, CallsAre DEF BeginIsFirst, Busy
<1>8. PartialIsGood' /\ FinalIsGood'
  BY <1>2 DEF ResultInv, PartialIsGood, FinalIsGood, GoodManifest, Whole, Stored
<1>9. AppendIsGood'
  BY <1>2, <1>3, <1>4, CallsAre DEF ResultInv, AppendIsGood, Busy
<1>10. SealersAreGood'
  BY <1>2, <1>3, CallsAre DEF ResultInv, SealersAreGood, Busy, Stored
<1>11. FinalizeIsLast'
  BY <1>1, <1>2, <1>3, <1>4, <1>5, CallsAre DEF FinalizeIsLast, Busy, Filling
<1>12. WorkerIsGood'
  BY <1>2, <1>3, <1>4, CallsAre DEF ResultInv, WorkerIsGood
<1> QED
  BY <1>6, <1>7, <1>8, <1>9, <1>10, <1>11, <1>12 DEF ResultInv

\* The Worker preserves what there is, whatever thread it leaves behind.
LEMMA PreservingKeeps ==
    ASSUME ResultInv, Preserving,
           worker.pc \in {"begin", "follow", "append", "finalize", "preserve"},
           UNCHANGED <<partial, final, log, reference, storageFaults>>
    PROVE  ResultInv'
<1>1. PICK c : c = IF worker.pc = "preserve" THEN "again" ELSE "preserve"
  OBVIOUS
<1>2. /\ c \in Sealers /\ c \in Calls /\ c \in {"preserve", "again"}
      /\ "ABORTED" \in Terminal \cup {""}
  BY <1>1, CallsAre DEF Terminal
<1>3. /\ thread' \in [Calls -> ThreadRow] /\ thread'[c].at = "open"
      /\ thread'[c].name = "ABORTED" /\ thread'[c].got = Nothing
      /\ \A d \in Calls : d # c => thread'[d] = thread[d]
  BY <1>1, <1>2, StartsIs DEF Preserving
<1>4. /\ worker' \in WorkerRow /\ worker'.pc = c
      /\ worker'.offset = worker.offset /\ worker'.stored = worker.stored
  BY <1>1, <1>2, CallingIs DEF Preserving
<1>5. ResultTypeOK'
  BY <1>3, <1>4 DEF ResultInv, ResultTypeOK
<1>6. BeginIsFirst'
  BY <1>2, <1>3, CallsAre DEF ResultInv, BeginIsFirst, Busy
<1>7. PartialIsGood' /\ FinalIsGood'
  BY DEF ResultInv, PartialIsGood, FinalIsGood, GoodManifest, Whole, Stored
<1>8. AppendIsGood'
  BY <1>2, <1>3, <1>4, CallsAre DEF ResultInv, AppendIsGood, Busy
<1>9. SealersAreGood'
  BY <1>2, <1>3, CallsAre DEF ResultInv, SealersAreGood, Busy, Stored
<1>10. FinalizeIsLast'
  BY <1>2, <1>3, <1>4, CallsAre DEF ResultInv, FinalizeIsLast, Busy
<1>11. WorkerIsGood'
  BY <1>2, <1>3, <1>4, CallsAre DEF ResultInv, WorkerIsGood
<1> QED
  BY <1>5, <1>6, <1>7, <1>8, <1>9, <1>10, <1>11 DEF ResultInv

\* The Worker takes the answer of the call it awaits.
LEMMA AnsweredKeeps ==
    ASSUME ResultInv, Answered
    PROVE  ResultInv'
<1>1. PICK got : got = thread[worker.pc].got
  OBVIOUS
<1>2. /\ worker.pc \in Calls /\ thread[worker.pc].at = "done"
      /\ UNCHANGED <<partial, final, log, reference, storageFaults>>
  BY DEF Answered, At
<1>3. worker \in WorkerRow /\ thread \in [Calls -> ThreadRow] /\ ResultTypeOK
  BY DEF ResultInv, ResultTypeOK
<1>4. got \in Got
  BY <1>1, <1>2, <1>3 DEF ThreadRow
<1>5. PartialIsGood' /\ FinalIsGood'
  BY <1>2 DEF ResultInv, PartialIsGood, FinalIsGood, GoodManifest, Whole, Stored
<1>6. CASE worker.pc = "begin" /\ got # Nothing /\ Calling("follow") /\ thread' = thread
  <2>1. /\ worker' \in WorkerRow /\ worker'.pc = "follow"
        /\ worker'.offset = worker.offset /\ worker'.stored = worker.stored
    BY <1>6, CallingIs
  <2>2. /\ Filling(0, 0) /\ worker.offset = 0 /\ thread["append"].at = "idle"
        /\ ~Busy("begin") /\ \A c \in Sealers : thread[c].at = "idle"
    BY <1>1, <1>2, <1>6 DEF ResultInv, WorkerIsGood, Busy
  <2>3. ResultTypeOK'
    BY <1>2, <1>3, <1>6, <2>1 DEF ResultTypeOK
  <2>4. BeginIsFirst' /\ FinalizeIsLast'
    BY <1>6, <2>2, CallsAre DEF BeginIsFirst, FinalizeIsLast, Busy
  <2>5. AppendIsGood'
    BY <1>6, <2>2 DEF AppendIsGood, Busy
  <2>6. SealersAreGood'
    BY <1>2, <1>6 DEF ResultInv, SealersAreGood, Busy, Stored
  <2>7. WorkerIsGood'
    BY <1>2, <1>6, <2>1, <2>2 DEF ResultInv, WorkerIsGood, Busy, Filling
  <2> QED
    BY <1>5, <2>3, <2>4, <2>5, <2>6, <2>7 DEF ResultInv
<1>7. CASE /\ worker.pc = "append" /\ got # Nothing /\ thread' = thread
           /\ worker' = [worker EXCEPT !.pc = "follow", !.offset = @ + 1]
  <2>1. /\ worker' \in WorkerRow /\ worker'.pc = "follow"
        /\ worker'.offset = worker.offset + 1 /\ worker'.stored = worker.stored
    <3>1. PICK n : n = worker.offset + 1
      OBVIOUS
    <3>2. n \in Nat
      BY <1>3, <3>1 DEF WorkerRow
    <3>3. worker' = [worker EXCEPT !.pc = "follow", !.offset = n]
      BY <1>7, <3>1
    <3> QED
      BY <1>3, <3>1, <3>2, <3>3 DEF WorkerRow
  <2>2. /\ Filling(worker.offset + 1, worker.offset + 1)
        /\ thread["append"].at = "done" /\ ~Busy("begin")
        /\ \A c \in Sealers : thread[c].at = "idle"
    BY <1>1, <1>2, <1>7 DEF ResultInv, WorkerIsGood
  <2>3. ResultTypeOK'
    BY <1>2, <1>3, <1>7, <2>1 DEF ResultTypeOK
  <2>4. BeginIsFirst' /\ FinalizeIsLast'
    BY <1>7, <2>2, CallsAre DEF BeginIsFirst, FinalizeIsLast, Busy
  <2>5. AppendIsGood'
    BY <1>7, <2>2 DEF AppendIsGood, Busy
  <2>6. SealersAreGood'
    BY <1>2, <1>7 DEF ResultInv, SealersAreGood, Busy, Stored
  <2>7. WorkerIsGood'
    BY <1>2, <1>7, <2>1, <2>2 DEF ResultInv, WorkerIsGood, Busy, Filling
  <2> QED
    BY <1>5, <2>3, <2>4, <2>5, <2>6, <2>7 DEF ResultInv
<1>8. CASE worker.pc \in {"begin", "append", "finalize"} /\ Preserving
  BY <1>2, <1>8, PreservingKeeps
<1>9. CASE /\ worker.pc \in Sealers /\ thread' = thread
           /\ worker' = StoredIs(got)
  <2>1. /\ worker' \in WorkerRow /\ worker'.pc = "sealed"
        /\ worker'.offset = worker.offset /\ worker'.stored = got
    BY <1>3, <1>4, <1>9 DEF WorkerRow, StoredIs
  <2>2. got # Nothing => final.there /\ got = final.manifest
    BY <1>1, <1>9 DEF ResultInv, SealersAreGood
  <2>3. ResultTypeOK'
    BY <1>2, <1>3, <1>9, <2>1 DEF ResultTypeOK
  <2>4. BeginIsFirst' /\ FinalizeIsLast'
    BY <1>2, <1>9, <2>1 DEF ResultInv, BeginIsFirst, FinalizeIsLast, Busy
  <2>5. AppendIsGood'
    BY <1>2, <1>9, <2>1 DEF ResultInv, AppendIsGood, Busy
  <2>6. SealersAreGood'
    BY <1>2, <1>9 DEF ResultInv, SealersAreGood, Busy, Stored
  <2>7. WorkerIsGood'
    BY <1>2, <1>9, <2>1, <2>2 DEF ResultInv, WorkerIsGood
  <2> QED
    BY <1>5, <2>3, <2>4, <2>5, <2>6, <2>7 DEF ResultInv
<1>10. worker.pc = "finalize" \/ worker.pc \in {"preserve", "again"} =>
          worker.pc \in Sealers
  BY CallsAre
<1> QED
  BY <1>1, <1>6, <1>7, <1>8, <1>9, <1>10 DEF Answered

\* The row gets what the Worker was answered.
LEMMA RecordsKeeps ==
    ASSUME ResultInv, Records
    PROVE  ResultInv'
<1>1. /\ worker.pc = "sealed" /\ reference' = worker.stored
      /\ UNCHANGED <<partial, final, log, thread, storageFaults>>
  BY DEF Records
<1>2. /\ worker' \in WorkerRow /\ worker'.pc = "end" /\ worker \in WorkerRow
      /\ worker'.offset = worker.offset /\ worker'.stored = worker.stored
  BY CallingIs DEF Records
<1>3. ResultTypeOK'
  BY <1>1, <1>2 DEF ResultInv, ResultTypeOK, WorkerRow
<1>4. BeginIsFirst' /\ FinalizeIsLast'
  BY <1>1, <1>2 DEF ResultInv, BeginIsFirst, FinalizeIsLast, Busy
<1>5. PartialIsGood' /\ FinalIsGood'
  BY <1>1 DEF ResultInv, PartialIsGood, FinalIsGood, GoodManifest, Whole, Stored
<1>6. AppendIsGood'
  BY <1>1, <1>2 DEF ResultInv, AppendIsGood, Busy
<1>7. SealersAreGood'
  BY <1>1 DEF ResultInv, SealersAreGood, Busy, Stored
<1>8. WorkerIsGood'
  BY <1>1, <1>2 DEF ResultInv, WorkerIsGood
<1> QED
  BY <1>3, <1>4, <1>5, <1>6, <1>7, <1>8 DEF ResultInv

\* A file operation fails.
LEMMA FileFailsKeeps ==
    ASSUME ResultInv, FileFails
    PROVE  ResultInv'
<1>1. PICK c \in Calls : /\ thread[c].at \notin {"idle", "done"}
                         /\ thread' = [thread EXCEPT ![c] = Raised]
  BY DEF FileFails, At, Ends
<1>2. storageFaults' \in Nat
  BY DEF FileFails, ResultInv, ResultTypeOK
<1>3. Busy(c) /\ UNCHANGED <<partial, final, log, worker, reference>>
  BY <1>1 DEF FileFails, Busy
<1> QED
  BY <1>1, <1>2, <1>3, RaisesKeeps

\* The process dies and the directory stays as it is.
LEMMA ProcessDiesKeeps ==
    ASSUME ResultInv, ProcessDies
    PROVE  ResultInv'
<1>1. /\ thread' = [c \in Calls |-> Idle]
      /\ UNCHANGED <<partial, final, log, reference, storageFaults>>
  BY DEF ProcessDies
<1>2. /\ worker' \in WorkerRow /\ worker'.pc = "dead"
      /\ worker'.offset = worker.offset /\ worker'.stored = worker.stored
  BY CallingIs DEF ProcessDies
<1>3. /\ thread' \in [Calls -> ThreadRow]
      /\ \A c \in Calls : thread'[c].at = "idle" /\ thread'[c].got = Nothing
  BY <1>1, RaisedIs
<1>4. ResultTypeOK'
  BY <1>1, <1>2, <1>3 DEF ResultInv, ResultTypeOK
<1>5. BeginIsFirst' /\ FinalizeIsLast' /\ AppendIsGood'
  BY <1>3, CallsAre DEF BeginIsFirst, FinalizeIsLast, AppendIsGood, Busy
<1>6. PartialIsGood' /\ FinalIsGood'
  BY <1>1 DEF ResultInv, PartialIsGood, FinalIsGood, GoodManifest, Whole, Stored
<1>7. SealersAreGood'
  BY <1>3, CallsAre DEF SealersAreGood, Busy
<1>8. WorkerIsGood'
  BY <1>1, <1>2 DEF ResultInv, WorkerIsGood
<1> QED
  BY <1>4, <1>5, <1>6, <1>7, <1>8 DEF ResultInv

\* Every step of the result store keeps the invariant.
LEMMA ResultStep == ResultInv /\ [ResultNext]_resultVars => ResultInv'
<1> SUFFICES ASSUME ResultInv, [ResultNext]_resultVars PROVE ResultInv'
  OBVIOUS
<1>1. CASE UNCHANGED resultVars
  <2>1. UNCHANGED <<partial, final, log, thread, worker, reference, storageFaults>>
    BY <1>1 DEF resultVars
  <2> QED
    BY <2>1 DEF ResultInv, ResultTypeOK, BeginIsFirst, PartialIsGood, FinalIsGood,
         AppendIsGood, SealersAreGood, FinalizeIsLast, WorkerIsGood, Busy,
         Filling, GoodManifest, Whole, Stored
<1>2. CASE \/ BeginMakes \/ BeginOpens
           \/ AppendOpens \/ AppendFile \/ AppendLine \/ AppendCounts
  BY <1>2, BeginMakesKeeps, BeginOpensKeeps, AppendOpensKeeps, AppendFileKeeps,
     AppendLineKeeps, AppendCountsKeeps
<1>3. CASE \E c \in Sealers :
              \/ SealOpens(c) \/ SealReads(c) \/ SealWrites(c)
              \/ SealUnlinksState(c) \/ SealUnlinksLog(c) \/ SealRenames(c)
  BY <1>3, SealOpensKeeps, SealReadsKeeps, SealWritesKeeps,
     SealUnlinksStateKeeps, SealUnlinksLogKeeps, SealRenamesKeeps
<1>4. CASE \/ TemporaryCollides \/ AppendsOutput \/ Finalizes \/ Answered
           \/ Records \/ FileFails \/ ProcessDies
  BY <1>4, TemporaryCollidesKeeps, AppendsOutputKeeps, FinalizesKeeps,
     AnsweredKeeps, RecordsKeeps, FileFailsKeeps, ProcessDiesKeeps
<1>5. CASE Interrupted
  BY <1>5, PreservingKeeps DEF Interrupted
<1> QED
  BY <1>1, <1>2, <1>3, <1>4, <1>5 DEF ResultNext

\* The directories are missing and begin is called.
LEMMA ResultStart == ResultInit => ResultInv
<1> SUFFICES ASSUME ResultInit PROVE ResultInv
  OBVIOUS
<1>1. /\ partial = NoDirectory /\ final = NoDirectory /\ reference = Nothing
      /\ ~partial.there /\ ~final.there /\ storageFaults = 0
      /\ log = [count |-> 0, cached |-> FALSE]
  BY EmptyIs DEF ResultInit
<1>2. PICK new : new = [Idle EXCEPT !.at = "mkdir"]
  OBVIOUS
<1>3. new \in ThreadRow /\ new.at = "mkdir"
  BY <1>2, RaisedIs DEF ThreadRow
<1>4. thread = [[c \in Calls |-> Idle] EXCEPT !["begin"] = new]
  BY <1>2, CallsAre DEF ResultInit
<1>5. /\ thread \in [Calls -> ThreadRow] /\ thread["begin"].at = "mkdir"
      /\ \A c \in Calls : c # "begin" => thread[c] = Idle
  BY <1>3, <1>4, RaisedIs, CallsAre
<1>6. /\ worker \in WorkerRow /\ worker.pc = "begin" /\ worker.offset = 0
      /\ worker.stored = Nothing /\ Nothing \in Got
  BY CallsAre DEF ResultInit, WorkerRow, Got
<1>7. ResultTypeOK
  BY <1>1, <1>5, <1>6 DEF ResultTypeOK
<1>8. BeginIsFirst /\ FinalizeIsLast /\ AppendIsGood
  BY <1>1, <1>5, CallsAre, RaisedIs DEF BeginIsFirst, FinalizeIsLast, AppendIsGood, Busy
<1>9. PartialIsGood /\ FinalIsGood
  BY <1>1 DEF PartialIsGood, FinalIsGood
<1>10. SealersAreGood
  BY <1>5, CallsAre, RaisedIs DEF SealersAreGood, Busy
<1>11. WorkerIsGood
  BY <1>1, <1>5, <1>6, CallsAre, RaisedIs DEF WorkerIsGood, Busy
<1> QED
  BY <1>7, <1>8, <1>9, <1>10, <1>11 DEF ResultInv

\* What the invariant says of the row and of a complete result.
LEMMA ResultIsGood ==
    ASSUME ResultInv
    PROVE  ReferenceIsReadable /\ CompleteIsWhole
<1>1. ReferenceIsReadable
  BY DEF ResultInv, WorkerIsGood, FinalIsGood, GoodManifest, Stored,
         ReferenceIsReadable, Readable, HasContent
<1>2. CompleteIsWhole
  BY DEF ResultInv, FinalIsGood, GoodManifest, Whole, Numbered, CompleteIsWhole
<1> QED
  BY <1>1, <1>2

----------------------------------------------------------------------------
(* The workspace.  Each run claims the Execution once, and while it holds   *)
(* it nobody else changes the rows; a write of anybody else to the notebook *)
(* is late.  So what the run that completes the Execution wrote, found and  *)
(* registered is still there when it does.  A report is only written after  *)
(* that, under the lock of the Execution's row.                             *)

ExecutionRow ==
    [status : {"QUEUED", "RUNNING", "SUCCEEDED", "FAILED"}, owner : Nat,
     attempt : Nat, step : {"QUEUED", "RUNNING", "SUCCEEDED", "FAILED"},
     result : Nat, complete : BOOLEAN,
     projection : {"NOT_STARTED", "PENDING", "SUCCEEDED", "FAILED"},
     registered : BOOLEAN, baseline : Nat, handover : BOOLEAN]

RunPoints ==
    {"new", "load", "prepare", "blank", "listed", "start", "follow", "project",
     "assert", "write", "record", "register", "discover", "rows", "complete",
     "fail", "end", "lost"}

RunRow ==
    [pc : RunPoints, before : Nat, doc : Nat, found : SUBSET Nat,
     failing : BOOLEAN]

CallerRow ==
    [pc : {"idle", "reserve", "lock", "text", "read", "append", "persist",
           "answered"},
     body : Bodies, doc : Seq(Bodies)]

\* The rows, the files and the callers keep their shape.
WorkspaceTypeOK ==
    /\ execution \in ExecutionRow
    /\ job \in [Runs -> RunRow]
    /\ notebook \in [shows : Nat, reports : Seq(Bodies)]
    /\ file \in Nat
    /\ code \in {"NEW", "RUNNING", "ENDED"} /\ late \in BOOLEAN
    /\ receipt \in [body : Bodies \cup {NoOne}, done : BOOLEAN]
    /\ caller \in [Callers -> CallerRow]
    /\ callFaults \in Nat

Projected == {"record", "register", "discover", "rows", "complete"}
Marking == {"project", "assert", "write"} \cup Projected

\* What the run knows that holds the Execution.
HolderKnows(r) ==
    /\ job[r].pc # "new"
    /\ job[r].pc \in {"follow"} \cup Marking => job[r].before = execution.baseline
    /\ job[r].pc \in Marking => code # "RUNNING"
    /\ job[r].pc \in Marking /\ ~job[r].failing => execution.result = r
    /\ job[r].pc \in Marking \ {"project"} /\ ~job[r].failing => job[r].doc = r
    /\ job[r].pc \in Projected /\ ~job[r].failing /\ ~late => notebook.shows = r
    /\ job[r].pc = "rows" => job[r].found = {file} \ {execution.baseline}
    /\ job[r].pc = "complete" /\ file # execution.baseline =>
         [attempt |-> execution.attempt, version |-> file,
          status |-> "AVAILABLE"] \in artifacts

HoldersKnow ==
    \A r \in Runs :
        /\ job[r].pc = "complete" => ~job[r].failing
        /\ Holds(r) => HolderKnows(r)

\* What was completed stays so.
SucceededStays ==
    execution.status = "SUCCEEDED" =>
        /\ execution.owner = NoRun /\ code # "RUNNING"
        /\ execution.result # NoRun
        /\ ~late => notebook.shows = execution.result
        /\ file # execution.baseline =>
             [attempt |-> execution.attempt, version |-> file,
              status |-> "AVAILABLE"] \in artifacts

\* Nobody reports before the Execution has succeeded.
ReportsAfterSuccess ==
    execution.status # "SUCCEEDED" =>
        /\ receipt = [body |-> NoOne, done |-> FALSE]
        /\ notebook.reports = << >>
        /\ \A c \in Callers : caller[c].pc \in {"idle", "answered"}

Writing == {"text", "read", "append", "persist"}

\* The callers that write have reserved the key, and one has the lock.
CallersAgree ==
    \A c \in Callers :
        /\ caller[c].pc \in {"lock"} \cup Writing => receipt.body = caller[c].body
        /\ caller[c].pc \in Writing => lock = c
        /\ caller[c].pc = "append" => caller[c].doc = << >>
        /\ caller[c].pc = "persist" /\ ~late =>
             notebook.reports = <<receipt.body>>

\* What was acknowledged stays appended.
ReceiptIsGood ==
    /\ receipt.done => receipt.body # NoOne
    /\ receipt.done /\ ~late => notebook.reports = <<receipt.body>>
    /\ notebook.reports # << >> =>
         receipt.body # NoOne /\ notebook.reports = <<receipt.body>>

WorkspaceInv ==
    /\ WorkspaceTypeOK /\ HoldersKnow /\ SucceededStays
    /\ ReportsAfterSuccess /\ CallersAgree /\ ReceiptIsGood

\* The runs are numbered from 1.
LEMMA RunsAre == \A r \in Runs : r \in Nat /\ r # NoRun
BY RunsAssumption DEF Runs, NoRun

\* A run goes on to its next step.
LEMMA StepsIs ==
    ASSUME WorkspaceInv, NEW r \in Runs, NEW pc \in RunPoints, Steps(r, pc)
    PROVE  /\ job' \in [Runs -> RunRow] /\ job'[r].pc = pc
           /\ job'[r].before = job[r].before /\ job'[r].doc = job[r].doc
           /\ job'[r].found = job[r].found /\ job'[r].failing = job[r].failing
           /\ \A q \in Runs : q # r => job'[q] = job[q]
<1> DEFINE n == [job[r] EXCEPT !.pc = pc]
<1>1. job \in [Runs -> RunRow]
  BY DEF WorkspaceInv, WorkspaceTypeOK
<1>2. /\ n \in RunRow /\ n.pc = pc /\ n.before = job[r].before
      /\ n.doc = job[r].doc /\ n.found = job[r].found
      /\ n.failing = job[r].failing
  BY <1>1 DEF RunRow
<1>3. job' = [job EXCEPT ![r] = n]
  BY <1>1 DEF Steps
<1> HIDE DEF n
<1> QED
  BY <1>1, <1>2, <1>3

\* What the others of the workspace see of a step of a run.
RunStep(r) ==
    /\ \A q \in Runs : q # r => job'[q] = job[q]
    /\ UNCHANGED <<receipt, caller, lock>>
    /\ callFaults' \in Nat
    /\ execution.status = "SUCCEEDED" => execution' = execution
    /\ \/ notebook' = notebook /\ late' = late
       \/ Written(r)

\* The reports are as they were, or there were none, or the write is late.
LEMMA ReportsKeep ==
    ASSUME WorkspaceInv, NEW r \in Runs, RunStep(r)
    PROVE  /\ ReportsAfterSuccess' /\ CallersAgree' /\ ReceiptIsGood'
           /\ notebook' \in [shows : Nat, reports : Seq(Bodies)] /\ late' \in BOOLEAN
<1>1. /\ notebook \in [shows : Nat, reports : Seq(Bodies)] /\ late \in BOOLEAN
      /\ job[r].doc \in Nat /\ << >> \in Seq(Bodies)
  BY DEF WorkspaceInv, WorkspaceTypeOK, RunRow
<1>2. CASE notebook' = notebook /\ late' = late
  <2>1. execution'.status # "SUCCEEDED" => execution.status # "SUCCEEDED"
    BY DEF RunStep
  <2> QED
    BY <1>1, <1>2, <2>1
       DEF RunStep, WorkspaceInv, ReportsAfterSuccess, CallersAgree, ReceiptIsGood
<1>3. CASE Written(r)
  <2>1. notebook' = [shows |-> job[r].doc, reports |-> << >>]
    BY <1>3 DEF Written
  <2>2. notebook'.reports = << >> /\ late' = (late \/ ~Holds(r))
    BY <1>3 DEF Written
  <2>3. notebook' \in [shows : Nat, reports : Seq(Bodies)] /\ late' \in BOOLEAN
    <3>1. late' \in BOOLEAN
      BY <2>2 DEF Holds
    <3> QED
      BY <1>1, <2>1, <3>1
  <2>4. CASE Holds(r)
    <3>1. execution.status # "SUCCEEDED"
      BY <2>4 DEF Holds
    <3> QED
      BY <2>2, <2>3, <3>1 DEF RunStep, WorkspaceInv, ReportsAfterSuccess,
                              CallersAgree, ReceiptIsGood, Writing
  <2>5. CASE ~Holds(r)
    <3>1. late' = TRUE
      BY <2>2, <2>5
    <3>2. execution'.status # "SUCCEEDED" => execution.status # "SUCCEEDED"
      BY DEF RunStep
    <3> QED
      BY <2>2, <2>3, <3>1, <3>2 DEF RunStep, WorkspaceInv, ReportsAfterSuccess,
                              CallersAgree, ReceiptIsGood
  <2> QED
    BY <2>4, <2>5
<1> QED
  BY <1>2, <1>3 DEF RunStep

\* The step of a run does not disturb what another run that holds the
\* Execution knows, nor an Execution that has succeeded.
LEMMA OthersKnow ==
    ASSUME WorkspaceInv, NEW r \in Runs, RunStep(r),
           execution.owner # r => UNCHANGED execution,
           artifacts \subseteq artifacts',
           code' = "RUNNING" => code = "RUNNING" \/ Holds(r),
           execution'.owner \in {execution.owner, r, NoRun},
           file' = file
    PROVE  /\ \A q \in Runs : q # r =>
                 /\ job'[q].pc = "complete" => ~job'[q].failing
                 /\ Holds(q)' => HolderKnows(q)'
           /\ execution.status = "SUCCEEDED" => SucceededStays'
<1>1. ASSUME NEW q \in Runs, q # r
      PROVE  /\ job'[q].pc = "complete" => ~job'[q].failing
             /\ Holds(q)' => HolderKnows(q)'
  <2>1. job'[q] = job[q] /\ (job[q].pc = "complete" => ~job[q].failing)
    BY <1>1 DEF RunStep, WorkspaceInv, HoldersKnow
  <2> SUFFICES ASSUME Holds(q)' PROVE HolderKnows(q)'
    BY <2>1
  <2>2. execution'.owner = q /\ q # NoRun
    BY RunsAre DEF Holds
  <2>3. execution.owner = q /\ execution' = execution /\ ~Holds(r)
    BY <1>1, <2>2 DEF Holds
  <2>4. Holds(q) /\ HolderKnows(q)
    BY <2>3 DEF Holds, WorkspaceInv, HoldersKnow
  <2>5. late' \/ (notebook' = notebook /\ late' = late)
    BY <2>3 DEF RunStep, Written
  <2> QED
    BY <2>1, <2>3, <2>4, <2>5 DEF HolderKnows
<1>2. ASSUME execution.status = "SUCCEEDED" PROVE SucceededStays'
  <2>1. ~Holds(r) /\ execution' = execution
    BY <1>2 DEF Holds, RunStep
  <2>2. late' \/ (notebook' = notebook /\ late' = late)
    BY <2>1 DEF RunStep, Written
  <2> QED
    BY <1>2, <2>1, <2>2 DEF WorkspaceInv, SucceededStays
<1> QED
  BY <1>1, <1>2

\* What is left to show of a step of a run is what the run itself knows.
LEMMA RunStepKeeps ==
    ASSUME WorkspaceInv, NEW r \in Runs, RunStep(r),
           execution.owner # r => UNCHANGED execution,
           execution'.owner \in {execution.owner, r, NoRun},
           artifacts \subseteq artifacts', file' = file,
           code' = "RUNNING" => code = "RUNNING" \/ Holds(r),
           execution' \in ExecutionRow, job' \in [Runs -> RunRow],
           code' \in {"NEW", "RUNNING", "ENDED"},
           job'[r].pc = "complete" => ~job'[r].failing,
           Holds(r)' => HolderKnows(r)',
           execution.status # "SUCCEEDED" => SucceededStays'
    PROVE  WorkspaceInv'
<1>1. /\ ReportsAfterSuccess' /\ CallersAgree' /\ ReceiptIsGood'
      /\ notebook' \in [shows : Nat, reports : Seq(Bodies)] /\ late' \in BOOLEAN
  BY ReportsKeep
<1>2. /\ \A q \in Runs : q # r =>
            /\ job'[q].pc = "complete" => ~job'[q].failing
            /\ Holds(q)' => HolderKnows(q)'
      /\ SucceededStays'
  BY OthersKnow
<1>3. HoldersKnow'
  BY <1>2 DEF HoldersKnow
<1>4. WorkspaceTypeOK'
  BY <1>1 DEF WorkspaceInv, WorkspaceTypeOK, RunStep
<1> QED
  BY <1>1, <1>2, <1>3, <1>4 DEF WorkspaceInv

\* A run that only goes on, holding the Execution or not.
LEMMA OnlyGoesOn ==
    ASSUME WorkspaceInv, NEW r \in Runs, NEW pc \in RunPoints, Steps(r, pc),
           Outside, callFaults' \in Nat,
           UNCHANGED <<execution, file, artifacts>>,
           code' \in {code, "ENDED"},
           (notebook' = notebook /\ late' = late) \/ Written(r),
           pc = "complete" => ~job[r].failing,
           Holds(r) => HolderKnows(r)'
    PROVE  WorkspaceInv'
<1>1. /\ job' \in [Runs -> RunRow] /\ job'[r].pc = pc
      /\ job'[r].failing = job[r].failing
      /\ \A q \in Runs : q # r => job'[q] = job[q]
  BY StepsIs
<1>2. RunStep(r)
  BY <1>1 DEF RunStep, Outside
<1>3. execution' \in ExecutionRow /\ code' \in {"NEW", "RUNNING", "ENDED"}
  BY DEF WorkspaceInv, WorkspaceTypeOK
<1>4. Holds(r)' => HolderKnows(r)'
  BY DEF Holds
<1>5. execution.status # "SUCCEEDED" => SucceededStays'
  BY DEF SucceededStays
<1> QED
  BY <1>1, <1>2, <1>3, <1>4, <1>5, RunStepKeeps

\* A replaced run notices and stops.
LEMMA LostKeeps ==
    ASSUME WorkspaceInv, NEW r \in Runs, Lost(r), Outside,
           UNCHANGED <<notebook, file, late, code, artifacts, callFaults>>
    PROVE  WorkspaceInv'
<1>1. "lost" \in RunPoints /\ callFaults' \in Nat
  BY DEF RunPoints, WorkspaceInv, WorkspaceTypeOK
<1> QED
  BY <1>1, OnlyGoesOn DEF Lost

\* A run claims the Execution.
LEMMA ClaimsKeeps ==
    ASSUME WorkspaceInv, NEW r \in Runs, Claims(r)
    PROVE  WorkspaceInv'
<1>1. execution \in ExecutionRow /\ r \in Nat /\ r # NoRun
  BY RunsAre DEF WorkspaceInv, WorkspaceTypeOK
<1>2. PICK n : n = execution.attempt + 1
  OBVIOUS
<1>3. n \in Nat
  BY <1>1, <1>2 DEF ExecutionRow
<1>4. /\ execution' \in ExecutionRow /\ execution'.owner = r
      /\ execution.status # "SUCCEEDED" /\ execution'.status # "SUCCEEDED"
  <2>1. CASE /\ execution.status = "QUEUED"
             /\ execution' = [execution EXCEPT !.status = "RUNNING", !.owner = r,
                                               !.attempt = @ + 1]
    <3>1. execution' = [execution EXCEPT !.status = "RUNNING", !.owner = r,
                                               !.attempt = n]
      BY <2>1, <1>2
    <3> QED
      BY <2>1, <3>1, <1>1, <1>3 DEF ExecutionRow
  <2>2. CASE /\ execution.status = "RUNNING"
             /\ execution' = [execution EXCEPT !.owner = r, !.handover = FALSE]
    BY <2>2, <1>1 DEF ExecutionRow
  <2> QED
    BY <2>1, <2>2 DEF Claims
<1>5. PICK pc \in {"prepare", "load"} : Steps(r, pc)
  BY DEF Claims
<1>6. /\ job' \in [Runs -> RunRow] /\ job'[r].pc = pc
      /\ \A q \in Runs : q # r => job'[q] = job[q]
  BY <1>5, StepsIs DEF RunPoints
<1>7. UNCHANGED <<notebook, file, code, late, receipt, caller, lock, artifacts, callFaults>>
  BY DEF Claims, Files, Outside
<1>8. RunStep(r)
  BY <1>4, <1>6, <1>7 DEF RunStep, WorkspaceInv, WorkspaceTypeOK
<1>9. /\ ReportsAfterSuccess' /\ CallersAgree' /\ ReceiptIsGood'
  BY <1>8, ReportsKeep
<1>10. SucceededStays'
  BY <1>4 DEF SucceededStays
<1>11. HoldersKnow'
  <2> SUFFICES ASSUME NEW q \in Runs
               PROVE  /\ job'[q].pc = "complete" => ~job'[q].failing
                      /\ Holds(q)' => HolderKnows(q)'
    BY DEF HoldersKnow
  <2>1. CASE q = r
    BY <2>1, <1>5, <1>6 DEF HolderKnows, Marking, Projected
  <2>2. CASE q # r
    BY <2>2, <1>4, <1>6 DEF WorkspaceInv, HoldersKnow, Holds
  <2> QED
    BY <2>1, <2>2
<1>12. WorkspaceTypeOK'
  BY <1>4, <1>6, <1>7 DEF WorkspaceInv, WorkspaceTypeOK
<1> QED
  BY <1>9, <1>10, <1>11, <1>12 DEF WorkspaceInv

\* A run that took over knows what the workspace held before the Step.
LEMMA LoadsRunKeeps ==
    ASSUME WorkspaceInv, NEW r \in Runs, LoadsRun(r)
    PROVE  WorkspaceInv'
<1>1. CASE Lost(r)
  BY <1>1, LostKeeps DEF LoadsRun, Files
<1>2. CASE /\ Holds(r) /\ UNCHANGED execution
           /\ job' = [job EXCEPT ![r].pc = "follow", ![r].before = execution.baseline]
  <2>1. PICK b : b = execution.baseline
    OBVIOUS
  <2>2. PICK n : n = [job[r] EXCEPT !.pc = "follow", !.before = b]
    OBVIOUS
  <2>3. /\ job \in [Runs -> RunRow] /\ b \in Nat /\ execution \in ExecutionRow
        /\ callFaults \in Nat /\ code \in {"NEW", "RUNNING", "ENDED"}
    BY <2>1 DEF WorkspaceInv, WorkspaceTypeOK, ExecutionRow
  <2>4. n \in RunRow /\ n.pc = "follow" /\ n.before = b
    BY <2>2, <2>3 DEF RunRow, RunPoints
  <2>5. job' = [job EXCEPT ![r] = n]
    BY <1>2, <2>1, <2>2, <2>3
  <2>6. /\ job' \in [Runs -> RunRow] /\ job'[r] = n
        /\ \A q \in Runs : q # r => job'[q] = job[q]
    BY <2>3, <2>4, <2>5
  <2>7. UNCHANGED <<execution, notebook, file, code, late, receipt, caller, lock, artifacts, callFaults>>
    BY <1>2 DEF LoadsRun, Files, Outside
  <2>8. RunStep(r)
    BY <2>3, <2>6, <2>7 DEF RunStep
  <2>9. HolderKnows(r)'
    BY <2>1, <2>4, <2>6, <2>7 DEF HolderKnows, Marking, Projected
  <2>10. execution.status # "SUCCEEDED"
    BY <1>2 DEF Holds
  <2>11. SucceededStays'
    BY <2>7, <2>10 DEF SucceededStays
  <2> QED
    BY <2>3, <2>4, <2>6, <2>7, <2>8, <2>9, <2>11, RunStepKeeps
<1> QED
  BY <1>1, <1>2 DEF LoadsRun

\* What the run that holds the Execution knows.
LEMMA HolderDoes ==
    ASSUME WorkspaceInv, NEW r \in Runs
    PROVE  /\ Holds(r) => HolderKnows(r) /\ execution.status # "SUCCEEDED"
           /\ job[r].pc = "complete" => ~job[r].failing
           /\ execution \in ExecutionRow /\ job \in [Runs -> RunRow]
           /\ file \in Nat /\ code \in {"NEW", "RUNNING", "ENDED"}
           /\ callFaults \in Nat /\ late \in BOOLEAN
           /\ Fault => callFaults' \in Nat
<1>1. /\ execution \in ExecutionRow /\ job \in [Runs -> RunRow]
      /\ file \in Nat /\ code \in {"NEW", "RUNNING", "ENDED"}
      /\ callFaults \in Nat /\ late \in BOOLEAN
  BY DEF WorkspaceInv, WorkspaceTypeOK
<1>2. Fault => callFaults' \in Nat
  BY <1>1 DEF Fault
<1> QED
  BY <1>1, <1>2 DEF WorkspaceInv, HoldersKnow, Holds

\* The lease is checked before the notebook is written.
LEMMA AssertsKeeps ==
    ASSUME WorkspaceInv, NEW r \in Runs, Asserts(r)
    PROVE  WorkspaceInv'
<1>1. /\ UNCHANGED <<notebook, file, late, code, artifacts, callFaults, execution>>
      /\ Outside
  BY DEF Asserts, Files
<1>2. CASE Lost(r)
  BY <1>1, <1>2, LostKeeps
<1>3. CASE ~Lost(r)
  <2>1. \/ job[r].pc = "prepare" /\ Steps(r, "blank")
        \/ job[r].pc = "assert" /\ Steps(r, "write")
    BY <1>3 DEF Asserts
  <2>2. PICK pc \in {"blank", "write"} :
          Steps(r, pc) /\ (pc = "write" => job[r].pc = "assert")
    BY <2>1
  <2>3. pc \in RunPoints /\ pc # "complete"
    BY DEF RunPoints
  <2>4. Holds(r) => HolderKnows(r)'
    BY <1>1, <2>2, <2>3, StepsIs, HolderDoes DEF HolderKnows, Marking, Projected
  <2> QED
    BY <1>1, <2>2, <2>3, <2>4, OnlyGoesOn, HolderDoes
<1> QED
  BY <1>2, <1>3

\* The notebook is written, or may have been.
LEMMA WritesKeeps ==
    ASSUME WorkspaceInv, NEW r \in Runs,
           PreparesNotebook(r) \/ WritesNotebook(r) \/ WriteRepeats(r)
    PROVE  WorkspaceInv'
<1>1. PICK pc \in {"listed", "record", "assert"} :
        /\ Steps(r, pc)
        /\ pc = "record" => job[r].pc = "write" /\ Written(r)
        /\ pc = "assert" => job[r].pc = "write"
  BY DEF PreparesNotebook, WritesNotebook, WriteRepeats
<1>2. /\ UNCHANGED <<execution, file, code, artifacts>> /\ Outside
      /\ callFaults' \in Nat
      /\ (notebook' = notebook /\ late' = late) \/ Written(r)
  BY HolderDoes DEF PreparesNotebook, WritesNotebook, WriteRepeats
<1>3. pc \in RunPoints /\ pc # "complete"
  BY DEF RunPoints
<1>4. Written(r) => notebook'.shows = job[r].doc
  BY DEF Written
<1>5. Holds(r) => HolderKnows(r)'
  BY <1>1, <1>2, <1>3, <1>4, StepsIs, HolderDoes DEF HolderKnows, Marking, Projected
<1> QED
  BY <1>1, <1>2, <1>3, <1>5, OnlyGoesOn

\* A transaction of the run that holds the Execution, which changes neither
\* the result, what was there before nor who holds it.
LEMMA HolderGoesOn ==
    ASSUME WorkspaceInv, NEW r \in Runs, NEW pc \in RunPoints, Steps(r, pc),
           Holds(r), Outside, Files, callFaults' \in Nat,
           artifacts \subseteq artifacts',
           execution' \in ExecutionRow,
           execution'.owner = r, execution'.status = "RUNNING",
           execution'.baseline = execution.baseline,
           execution'.result = execution.result,
           execution'.attempt = execution.attempt,
           pc = "complete" => ~job[r].failing,
           HolderKnows(r)'
    PROVE  WorkspaceInv'
<1>1. /\ job' \in [Runs -> RunRow] /\ job'[r].pc = pc
      /\ job'[r].failing = job[r].failing
      /\ \A q \in Runs : q # r => job'[q] = job[q]
  BY StepsIs
<1>2. execution.owner = r /\ execution.status # "SUCCEEDED"
  BY DEF Holds
<1>3. RunStep(r)
  BY <1>1, <1>2 DEF RunStep, Outside, Files
<1>4. code' \in {"NEW", "RUNNING", "ENDED"} /\ code' = code /\ file' = file
  BY HolderDoes DEF Files
<1>5. SucceededStays'
  BY DEF SucceededStays
<1> QED
  BY <1>1, <1>2, <1>3, <1>4, <1>5, RunStepKeeps

\* The notebook's row.
LEMMA RegistersKeeps ==
    ASSUME WorkspaceInv, NEW r \in Runs, Registers(r)
    PROVE  WorkspaceInv'
<1>1. CASE Lost(r)
  BY <1>1, LostKeeps DEF Registers, Files
<1>2. CASE ~Lost(r)
  <2>1. /\ Holds(r) /\ execution' = [execution EXCEPT !.registered = TRUE]
        /\ artifacts' = artifacts /\ callFaults' = callFaults
        /\ Outside /\ Files
    BY <1>2 DEF Registers
  <2>2. PICK pc \in {"start", "discover"} :
          Steps(r, pc) /\ (pc = "discover" => job[r].pc = "register")
    BY <1>2 DEF Registers
  <2>3. pc \in RunPoints /\ pc # "complete"
    BY DEF RunPoints
  <2>4. /\ execution' \in ExecutionRow /\ execution'.owner = r
        /\ execution'.status = "RUNNING"
        /\ execution'.baseline = execution.baseline
        /\ execution'.result = execution.result
        /\ execution'.attempt = execution.attempt
    BY <2>1, HolderDoes DEF ExecutionRow, Holds
  <2>5. HolderKnows(r)'
    BY <2>1, <2>2, <2>3, <2>4, StepsIs, HolderDoes
       DEF HolderKnows, Marking, Projected, Files
  <2> QED
    BY <2>1, <2>2, <2>3, <2>4, <2>5, HolderGoesOn, HolderDoes
<1> QED
  BY <1>1, <1>2

\* The outcome of the projection.
LEMMA RecordsProjectionKeeps ==
    ASSUME WorkspaceInv, NEW r \in Runs, RecordsProjection(r)
    PROVE  WorkspaceInv'
<1>1. CASE job[r].pc = "record" /\ Lost(r) /\ UNCHANGED callFaults
  BY <1>1, LostKeeps DEF RecordsProjection, Files
<1>2. CASE ~(job[r].pc = "record" /\ Lost(r) /\ UNCHANGED callFaults)
  <2>1. PICK status \in {"SUCCEEDED", "FAILED"} : ProjectionIs(status)
    BY <1>2 DEF RecordsProjection
  <2>2. PICK pc \in {"register", "discover", "fail"} :
          /\ Steps(r, pc)
          /\ pc = "register" => job[r].pc = "record"
          /\ pc = "discover" => job[r].pc = "write" /\ job[r].failing
    BY <1>2 DEF RecordsProjection
  <2>3. Holds(r) /\ artifacts' = artifacts /\ Outside /\ Files /\ callFaults' \in Nat
    BY <1>2, HolderDoes DEF RecordsProjection
  <2>4. /\ execution' \in ExecutionRow /\ execution'.owner = r
        /\ execution'.status = "RUNNING"
        /\ execution'.baseline = execution.baseline
        /\ execution'.result = execution.result
        /\ execution'.attempt = execution.attempt
    BY <2>1, <2>3, HolderDoes DEF ExecutionRow, Holds, ProjectionIs
  <2>5. pc \in RunPoints /\ pc # "complete"
    BY DEF RunPoints
  <2>6. HolderKnows(r)'
    BY <2>2, <2>3, <2>4, <2>5, StepsIs, HolderDoes
       DEF HolderKnows, Marking, Projected, Files
  <2> QED
    BY <2>2, <2>3, <2>4, <2>5, <2>6, HolderGoesOn
<1> QED
  BY <1>1, <1>2

\* The Artifacts of what was found.
LEMMA PersistsKeeps ==
    ASSUME WorkspaceInv, NEW r \in Runs, Persists(r)
    PROVE  WorkspaceInv'
<1>1. /\ job[r].pc = "rows" /\ Outside /\ Files /\ callFaults' = callFaults
      /\ execution' = execution
  BY DEF Persists, Lost
<1>2. CASE job[r].found # {} /\ Lost(r) /\ UNCHANGED artifacts
  BY <1>1, <1>2, LostKeeps DEF Files
<1>3. CASE /\ Holds(r) \/ job[r].found = {}
           /\ artifacts' = artifacts \cup {Artifact(r, v) : v \in job[r].found}
           /\ Steps(r, Continues(r))
  <2>1. PICK pc : pc = Continues(r)
    OBVIOUS
  <2>2. /\ pc \in RunPoints /\ pc \in {"fail", "complete"}
        /\ pc = "complete" <=> ~job[r].failing
    BY <2>1, HolderDoes DEF Continues, RunPoints, RunRow
  <2>3. Steps(r, pc)
    BY <1>3, <2>1
  <2>4. CASE Holds(r)
    <3>1. /\ execution' \in ExecutionRow /\ execution'.owner = r
          /\ execution'.status = "RUNNING"
      BY <1>1, <2>4, HolderDoes DEF Holds
    <3>2. pc = "complete" /\ file # execution.baseline =>
            [attempt |-> execution.attempt, version |-> file,
             status |-> "AVAILABLE"] \in artifacts'
      <4> SUFFICES ASSUME pc = "complete", file # execution.baseline
                   PROVE  [attempt |-> execution.attempt, version |-> file,
                           status |-> "AVAILABLE"] \in artifacts'
        OBVIOUS
      <4>1. file \in job[r].found
        BY <1>1, <2>4, HolderDoes DEF HolderKnows
      <4>2. Artifact(r, file) = [attempt |-> execution.attempt, version |-> file,
                                 status |-> "AVAILABLE"]
        BY <2>2 DEF Artifact
      <4>3. Artifact(r, file) \in artifacts'
        BY <1>3, <4>1
      <4> QED
        BY <4>2, <4>3
    <3>3. artifacts \subseteq artifacts' /\ callFaults' \in Nat
      BY <1>1, <1>3, HolderDoes
    <3>4. HolderKnows(r)'
      BY <1>1, <2>2, <2>3, <2>4, <3>2, StepsIs, HolderDoes
         DEF HolderKnows, Marking, Projected, Files
    <3> QED
      BY <1>1, <2>2, <2>3, <2>4, <3>1, <3>3, <3>4, HolderGoesOn
  <2>5. CASE ~Holds(r)
    <3>1. artifacts' = artifacts
      <4>1. {Artifact(r, v) : v \in job[r].found} = {}
        BY <1>3, <2>5
      <4> QED
        BY <1>3, <4>1
    <3> QED
      BY <1>1, <2>2, <2>3, <2>5, <3>1, OnlyGoesOn, HolderDoes DEF Files
  <2> QED
    BY <2>4, <2>5
<1> QED
  BY <1>2, <1>3 DEF Persists

\* The row of a run becomes n.
LEMMA RunIs ==
    ASSUME WorkspaceInv, NEW r \in Runs, NEW n \in RunRow,
           job' = [job EXCEPT ![r] = n]
    PROVE  /\ job' \in [Runs -> RunRow] /\ job'[r] = n
           /\ \A q \in Runs : q # r => job'[q] = job[q]
BY DEF WorkspaceInv, WorkspaceTypeOK

\* The Step starts: what the workspace holds now is its baseline.
LEMMA StartsStepKeeps ==
    ASSUME WorkspaceInv, NEW r \in Runs, StartsStep(r)
    PROVE  WorkspaceInv'
<1>1. /\ UNCHANGED <<notebook, file, late, artifacts, callFaults>> /\ Outside
  BY DEF StartsStep
<1>2. CASE Lost(r) /\ UNCHANGED code
  BY <1>1, <1>2, LostKeeps
<1>3. CASE Holds(r) /\ Started(r)
  <2>1. PICK b : b = file
    OBVIOUS
  <2>2. PICK n : n = [job[r] EXCEPT !.pc = "follow", !.before = b]
    OBVIOUS
  <2>3. /\ execution' = [execution EXCEPT !.step = "RUNNING", !.result = NoRun,
                            !.complete = FALSE, !.baseline = b]
        /\ job' = [job EXCEPT ![r] = n] /\ code' = "RUNNING"
    BY <1>3, <2>1, <2>2, HolderDoes DEF Started, Snapshot
  <2>4. n \in RunRow /\ n.pc = "follow" /\ n.before = b
    BY <2>1, <2>2, HolderDoes DEF RunRow, RunPoints
  <2>5. /\ job' \in [Runs -> RunRow] /\ job'[r] = n
        /\ \A q \in Runs : q # r => job'[q] = job[q]
    BY <2>3, <2>4, RunIs
  <2>6. /\ execution' \in ExecutionRow /\ execution'.owner = r
        /\ execution'.status = "RUNNING" /\ execution'.baseline = b
    BY <1>3, <2>1, <2>3, HolderDoes DEF ExecutionRow, Holds, NoRun
  <2>7. execution.owner = r /\ execution.status # "SUCCEEDED"
    BY <1>3 DEF Holds
  <2>8. RunStep(r)
    BY <1>1, <2>5, <2>7, HolderDoes DEF RunStep, Outside
  <2>9. HolderKnows(r)'
    BY <2>4, <2>5, <2>6 DEF HolderKnows, Marking, Projected
  <2>10. SucceededStays'
    BY <2>6 DEF SucceededStays
  <2> QED
    BY <1>1, <1>3, <2>3, <2>4, <2>5, <2>6, <2>7, <2>8, <2>9, <2>10, RunStepKeeps
<1> QED
  BY <1>2, <1>3 DEF StartsStep

\* The Step has ended, and its result is the run's.
LEMMA MarksKeeps ==
    ASSUME WorkspaceInv, NEW r \in Runs, Marks(r)
    PROVE  WorkspaceInv'
<1>1. /\ UNCHANGED <<notebook, file, late, artifacts, callFaults>> /\ Outside
      /\ job[r].pc = "follow"
  BY DEF Marks
<1>2. CASE Lost(r) /\ UNCHANGED code
  BY <1>1, <1>2, LostKeeps
<1>3. CASE Holds(r) /\ \E status \in {"SUCCEEDED", "FAILED"} : Marked(r, status)
  <2>1. PICK status \in {"SUCCEEDED", "FAILED"} : Marked(r, status)
    BY <1>3
  <2>2. PICK failing \in BOOLEAN : failing = (status = "FAILED")
    OBVIOUS
  <2>3. PICK complete \in BOOLEAN : complete = (status = "SUCCEEDED")
    OBVIOUS
  <2>4. PICK n : n = [job[r] EXCEPT !.pc = "project", !.failing = failing]
    OBVIOUS
  <2>5. /\ execution' = [execution EXCEPT !.step = status, !.result = r,
                                          !.complete = complete]
        /\ job' = [job EXCEPT ![r] = n] /\ code' = "ENDED"
    BY <2>1, <2>2, <2>3, <2>4, HolderDoes DEF Marked
  <2>6. n \in RunRow /\ n.pc = "project" /\ n.before = job[r].before
    BY <2>4, HolderDoes DEF RunRow, RunPoints
  <2>7. /\ job' \in [Runs -> RunRow] /\ job'[r] = n
        /\ \A q \in Runs : q # r => job'[q] = job[q]
    BY <2>5, <2>6, RunIs
  <2>8. /\ execution' \in ExecutionRow /\ execution'.owner = r
        /\ execution'.status = "RUNNING" /\ execution'.result = r
        /\ execution'.baseline = execution.baseline
    BY <1>3, <2>5, HolderDoes, RunsAre DEF ExecutionRow, Holds
  <2>9. execution.owner = r /\ execution.status # "SUCCEEDED"
    BY <1>3 DEF Holds
  <2>10. RunStep(r)
    BY <1>1, <2>7, <2>9, HolderDoes DEF RunStep, Outside
  <2>11. HolderKnows(r)'
    BY <1>1, <1>3, <2>5, <2>6, <2>7, <2>8, HolderDoes
       DEF HolderKnows, Marking, Projected
  <2>12. SucceededStays'
    BY <2>8 DEF SucceededStays
  <2> QED
    BY <1>1, <2>5, <2>6, <2>7, <2>8, <2>9, <2>10, <2>11, <2>12, RunStepKeeps
<1> QED
  BY <1>2, <1>3 DEF Marks

\* The notebook will show what the row refers to.
LEMMA ProjectsKeeps ==
    ASSUME WorkspaceInv, NEW r \in Runs, Projects(r)
    PROVE  WorkspaceInv'
<1>1. /\ UNCHANGED <<notebook, file, late, code, artifacts, callFaults>> /\ Outside
      /\ job[r].pc = "project"
  BY DEF Projects, Files
<1>2. CASE Lost(r)
  BY <1>1, <1>2, LostKeeps
<1>3. CASE /\ Holds(r) /\ ProjectionIs("PENDING")
           /\ job' = [job EXCEPT ![r].pc = "assert", ![r].doc = execution.result]
  <2>1. PICK d : d = execution.result
    OBVIOUS
  <2>2. PICK n : n = [job[r] EXCEPT !.pc = "assert", !.doc = d]
    OBVIOUS
  <2>3. job' = [job EXCEPT ![r] = n] /\ d \in Nat
    BY <1>3, <2>1, <2>2, HolderDoes DEF ExecutionRow
  <2>4. /\ n \in RunRow /\ n.pc = "assert" /\ n.before = job[r].before
        /\ n.doc = d /\ n.failing = job[r].failing
    BY <2>2, <2>3, HolderDoes DEF RunRow, RunPoints
  <2>5. /\ job' \in [Runs -> RunRow] /\ job'[r] = n
        /\ \A q \in Runs : q # r => job'[q] = job[q]
    BY <2>3, <2>4, RunIs
  <2>6. /\ execution' \in ExecutionRow /\ execution'.owner = r
        /\ execution'.status = "RUNNING" /\ execution'.result = execution.result
        /\ execution'.baseline = execution.baseline
    BY <1>3, HolderDoes DEF ExecutionRow, Holds, ProjectionIs
  <2>7. execution.owner = r /\ execution.status # "SUCCEEDED"
    BY <1>3 DEF Holds
  <2>8. RunStep(r)
    BY <1>1, <2>5, <2>7, HolderDoes DEF RunStep, Outside
  <2>9. HolderKnows(r)'
    BY <1>1, <1>3, <2>1, <2>4, <2>5, <2>6, HolderDoes
       DEF HolderKnows, Marking, Projected
  <2>10. SucceededStays'
    BY <2>6 DEF SucceededStays
  <2> QED
    BY <1>1, <2>4, <2>5, <2>6, <2>7, <2>8, <2>9, <2>10, RunStepKeeps, HolderDoes
<1> QED
  BY <1>2, <1>3 DEF Projects

\* The run looks for what differs from the baseline.
LEMMA DiscoversKeeps ==
    ASSUME WorkspaceInv, NEW r \in Runs, Discovers(r)
    PROVE  WorkspaceInv'
<1>1. /\ UNCHANGED <<execution, notebook, file, late, code, artifacts, callFaults>>
      /\ Outside /\ job[r].pc = "discover"
  BY DEF Discovers, Files
<1>2. PICK f : f = {file} \ {job[r].before}
  OBVIOUS
<1>3. PICK n : n = [job[r] EXCEPT !.pc = "rows", !.found = f]
  OBVIOUS
<1>4. job' = [job EXCEPT ![r] = n] /\ f \in SUBSET Nat
  BY <1>2, <1>3, HolderDoes DEF Discovers, Found, Snapshot
<1>5. /\ n \in RunRow /\ n.pc = "rows" /\ n.before = job[r].before
      /\ n.doc = job[r].doc /\ n.failing = job[r].failing /\ n.found = f
  BY <1>3, <1>4, HolderDoes DEF RunRow, RunPoints
<1>6. /\ job' \in [Runs -> RunRow] /\ job'[r] = n
      /\ \A q \in Runs : q # r => job'[q] = job[q]
  BY <1>4, <1>5, RunIs
<1>7. RunStep(r)
  BY <1>1, <1>6, HolderDoes DEF RunStep, Outside
<1>8. Holds(r)' => HolderKnows(r)'
  <2>1. Holds(r)' => Holds(r)
    BY <1>1 DEF Holds
  <2> QED
    BY <2>1, <1>1, <1>2, <1>5, <1>6, HolderDoes DEF HolderKnows, Marking, Projected
<1>9. execution.status # "SUCCEEDED" => SucceededStays'
  BY <1>1 DEF SucceededStays
<1> QED
  BY <1>1, <1>5, <1>6, <1>7, <1>8, <1>9, RunStepKeeps, HolderDoes

\* The Execution is given up, failed or completed.
LEMMA EndsRunKeeps ==
    ASSUME WorkspaceInv, NEW r \in Runs, EndsRun(r)
    PROVE  WorkspaceInv'
<1>1. /\ UNCHANGED <<notebook, file, late, code, artifacts, callFaults>> /\ Outside
      /\ Steps(r, "end") /\ "end" \in RunPoints
  BY DEF EndsRun, Files, RunPoints
<1>2. CASE ~Holds(r)
  BY <1>1, <1>2, OnlyGoesOn, HolderDoes DEF EndsRun
<1>3. CASE Holds(r)
  <2>1. /\ job' \in [Runs -> RunRow] /\ job'[r].pc = "end"
        /\ \A q \in Runs : q # r => job'[q] = job[q]
    BY <1>1, StepsIs
  <2>2. execution.owner = r /\ execution.status # "SUCCEEDED" /\ HolderKnows(r)
    BY <1>3, HolderDoes DEF Holds
  <2>3. RunStep(r)
    BY <1>1, <2>1, <2>2, HolderDoes DEF RunStep, Outside
  <2>4. CASE /\ job[r].pc = "complete"
             /\ execution' = [execution EXCEPT !.status = "SUCCEEDED", !.owner = NoRun]
    <3>1. /\ execution' \in ExecutionRow /\ execution'.owner = NoRun
          /\ execution'.result = execution.result
          /\ execution'.baseline = execution.baseline
          /\ execution'.attempt = execution.attempt
      BY <2>4, HolderDoes DEF ExecutionRow, NoRun
    <3>2. ~Holds(r)'
      BY <3>1, RunsAre DEF Holds
    <3>3. SucceededStays'
      BY <1>1, <2>2, <2>4, <3>1, HolderDoes, RunsAre
         DEF SucceededStays, HolderKnows, Marking, Projected
    <3> QED
      BY <1>1, <2>1, <2>2, <2>3, <3>1, <3>2, <3>3, RunStepKeeps, HolderDoes
  <2>5. CASE execution' = [execution EXCEPT !.status = "FAILED", !.owner = NoRun,
                              !.step = IF @ = "SUCCEEDED" THEN @ ELSE "FAILED"]
    <3>1. PICK step \in {"SUCCEEDED", "FAILED"} :
            step = IF execution.step = "SUCCEEDED" THEN execution.step ELSE "FAILED"
      OBVIOUS
    <3>2. execution' = [execution EXCEPT !.status = "FAILED", !.owner = NoRun,
                                         !.step = step]
      BY <2>5, <3>1
    <3>3. /\ execution' \in ExecutionRow /\ execution'.owner = NoRun
          /\ execution'.status = "FAILED"
      BY <3>2, HolderDoes DEF ExecutionRow, NoRun
    <3>4. ~Holds(r)' /\ SucceededStays'
      BY <3>3, RunsAre DEF Holds, SucceededStays
    <3> QED
      BY <1>1, <2>1, <2>2, <2>3, <3>3, <3>4, RunStepKeeps, HolderDoes
  <2> QED
    BY <1>3, <2>4, <2>5 DEF EndsRun
<1> QED
  BY <1>2, <1>3

\* A call of the run fails for good.
LEMMA RunBreaksKeeps ==
    ASSUME WorkspaceInv, NEW r \in Runs, RunBreaks(r)
    PROVE  WorkspaceInv'
<1>1. /\ UNCHANGED <<execution, file, artifacts>> /\ Outside
      /\ callFaults' \in Nat /\ code' \in {code, "ENDED"}
      /\ (notebook' = notebook /\ late' = late) \/ Written(r)
  BY HolderDoes DEF RunBreaks
<1>2. PICK pc \in {"discover", "fail"} :
        /\ Steps(r, pc)
        /\ pc = "discover" => job[r].failing /\ job[r].pc = "register"
  BY DEF RunBreaks
<1>3. pc \in RunPoints /\ pc # "complete"
  BY DEF RunPoints
<1>4. Holds(r) => HolderKnows(r)'
  BY <1>1, <1>2, <1>3, StepsIs, HolderDoes DEF HolderKnows, Marking, Projected
<1> QED
  BY <1>1, <1>2, <1>3, <1>4, OnlyGoesOn

\* The code writes its file, or ends.
LEMMA CodeKeeps ==
    ASSUME WorkspaceInv, CodeWrites \/ CodeEnds
    PROVE  WorkspaceInv'
<1>1. /\ code = "RUNNING" /\ code' \in {"RUNNING", "ENDED"}
      /\ UNCHANGED <<execution, job, notebook, late, artifacts, callFaults,
                     receipt, caller, lock>>
      /\ file' = file \/ code' = "RUNNING"
  BY DEF CodeWrites, CodeEnds, Outside
<1>2. file' \in Nat
  BY DEF CodeWrites, CodeEnds, WorkspaceInv, WorkspaceTypeOK
<1>3. WorkspaceTypeOK'
  BY <1>1, <1>2 DEF WorkspaceInv, WorkspaceTypeOK
<1>4. HoldersKnow'
  BY <1>1 DEF WorkspaceInv, HoldersKnow, HolderKnows, Holds, Marking, Projected
<1>5. SucceededStays'
  BY <1>1 DEF WorkspaceInv, SucceededStays
<1>6. ReportsAfterSuccess' /\ CallersAgree' /\ ReceiptIsGood'
  BY <1>1 DEF WorkspaceInv, ReportsAfterSuccess, CallersAgree, ReceiptIsGood
<1> QED
  BY <1>3, <1>4, <1>5, <1>6 DEF WorkspaceInv

\* Nobody holds an Execution that waits for its retry or whose lease expired.
LEMMA LeavesKeeps ==
    ASSUME WorkspaceInv, Retries \/ LeaseExpires
    PROVE  WorkspaceInv'
<1>1. /\ UNCHANGED <<job, notebook, file, late, artifacts, receipt, caller, lock>>
      /\ code' \in {code, "NEW"} /\ execution.status # "SUCCEEDED"
  BY DEF Retries, LeaseExpires, Outside, Files
<1>2. execution \in ExecutionRow /\ callFaults \in Nat
  BY DEF WorkspaceInv, WorkspaceTypeOK
<1>3. callFaults' \in Nat
  BY <1>2 DEF Retries, LeaseExpires, Fault
<1>4. /\ execution' \in ExecutionRow /\ execution'.status # "SUCCEEDED"
      /\ execution'.owner = NoRun \/ execution'.status # "RUNNING"
  <2>1. CASE Retries
    BY <2>1, <1>2 DEF Retries, ExecutionRow
  <2>2. CASE execution' = [execution EXCEPT !.owner = NoRun, !.handover = TRUE]
    BY <1>1, <2>2, <1>2 DEF ExecutionRow, NoRun
  <2>3. CASE execution' = [execution EXCEPT !.owner = NoRun,
                            !.status = "FAILED", !.projection = "FAILED"]
    BY <2>3, <1>2 DEF ExecutionRow, NoRun
  <2> QED
    BY <2>1, <2>2, <2>3 DEF LeaseExpires
<1>5. WorkspaceTypeOK'
  BY <1>1, <1>3, <1>4 DEF WorkspaceInv, WorkspaceTypeOK
<1>6. HoldersKnow'
  BY <1>1, <1>4, RunsAre DEF WorkspaceInv, HoldersKnow, Holds
<1>7. SucceededStays'
  BY <1>4 DEF SucceededStays
<1>8. ReportsAfterSuccess' /\ CallersAgree' /\ ReceiptIsGood'
  BY <1>1 DEF WorkspaceInv, ReportsAfterSuccess, CallersAgree, ReceiptIsGood
<1> QED
  BY <1>5, <1>6, <1>7, <1>8 DEF WorkspaceInv

\* A caller changes neither the rows of the run nor what the notebook shows.
LEMMA CallerKeeps ==
    ASSUME WorkspaceInv, Inside, artifacts \subseteq artifacts',
           notebook' \in [shows : Nat, reports : Seq(Bodies)],
           notebook'.shows = notebook.shows,
           receipt' \in [body : Bodies \cup {NoOne}, done : BOOLEAN],
           caller' \in [Callers -> CallerRow], callFaults' \in Nat,
           ReportsAfterSuccess', CallersAgree', ReceiptIsGood'
    PROVE  WorkspaceInv'
<1>1. UNCHANGED <<execution, job, file, code, late>>
  BY DEF Inside
<1>2. WorkspaceTypeOK'
  BY <1>1 DEF WorkspaceInv, WorkspaceTypeOK
<1>3. HoldersKnow' /\ SucceededStays'
  BY <1>1 DEF WorkspaceInv, HoldersKnow, SucceededStays, HolderKnows, Holds
<1> QED
  BY <1>2, <1>3 DEF WorkspaceInv

\* The row of a caller becomes n.
LEMMA CallerIs ==
    ASSUME WorkspaceInv, NEW c \in Callers, NEW n \in CallerRow,
           caller' = [caller EXCEPT ![c] = n]
    PROVE  /\ caller' \in [Callers -> CallerRow] /\ caller'[c] = n
           /\ \A d \in Callers : d # c => caller'[d] = caller[d]
BY DEF WorkspaceInv, WorkspaceTypeOK

\* A caller goes on to its next step.
LEMMA CallerAtIs ==
    ASSUME WorkspaceInv, NEW c \in Callers, NEW pc, CallerAt(c, pc),
           pc \in {"idle", "lock", "text", "read", "persist", "answered"}
    PROVE  /\ caller' \in [Callers -> CallerRow] /\ caller'[c].pc = pc
           /\ caller'[c].body = caller[c].body /\ caller'[c].doc = caller[c].doc
           /\ \A d \in Callers : d # c => caller'[d] = caller[d]
<1>1. PICK n : n = [caller[c] EXCEPT !.pc = pc]
  OBVIOUS
<1>2. caller \in [Callers -> CallerRow]
  BY DEF WorkspaceInv, WorkspaceTypeOK
<1>3. /\ n \in CallerRow /\ n.pc = pc /\ n.body = caller[c].body
      /\ n.doc = caller[c].doc
  BY <1>1, <1>2 DEF CallerRow
<1>4. caller' = [caller EXCEPT ![c] = n]
  BY <1>1, <1>2 DEF CallerAt
<1> QED
  BY <1>3, <1>4, CallerIs

\* The types of what callers share.
LEMMA SharedIs ==
    ASSUME WorkspaceInv
    PROVE  /\ notebook \in [shows : Nat, reports : Seq(Bodies)]
           /\ receipt \in [body : Bodies \cup {NoOne}, done : BOOLEAN]
           /\ caller \in [Callers -> CallerRow] /\ callFaults \in Nat
           /\ Fault => callFaults' \in Nat
           /\ NoOne \notin Bodies
<1>1. NoOne \notin Bodies
  BY DEF NoOne, Bodies
<1> QED
  BY <1>1 DEF WorkspaceInv, WorkspaceTypeOK, Fault

\* A caller looks at the receipt and at the Execution.
LEMMA LooksKeeps ==
    ASSUME WorkspaceInv, NEW c \in Callers, Looks(c)
    PROVE  WorkspaceInv'
<1>1. /\ Inside /\ UNCHANGED <<notebook, artifacts, receipt, lock, callFaults>>
      /\ UNCHANGED <<execution, late>>
  BY DEF Looks, Inside
<1>2. PICK body \in Bodies :
        caller' = [caller EXCEPT ![c].body = body, ![c].pc =
            IF \/ receipt.body \notin {NoOne, body} \/ receipt.done
               \/ execution.status # "SUCCEEDED"
            THEN "answered" ELSE "reserve"]
  BY DEF Looks
<1>3. PICK pc \in {"answered", "reserve"} :
        pc = IF \/ receipt.body \notin {NoOne, body} \/ receipt.done
                \/ execution.status # "SUCCEEDED"
             THEN "answered" ELSE "reserve"
  OBVIOUS
<1>4. PICK n : n = [caller[c] EXCEPT !.body = body, !.pc = pc]
  OBVIOUS
<1>5. n \in CallerRow /\ n.pc = pc
  BY <1>4, SharedIs DEF CallerRow
<1>6. caller' = [caller EXCEPT ![c] = n]
  BY <1>2, <1>3, <1>4, SharedIs
<1>7. /\ caller' \in [Callers -> CallerRow] /\ caller'[c] = n
      /\ \A d \in Callers : d # c => caller'[d] = caller[d]
  BY <1>5, <1>6, CallerIs
<1>8. execution.status # "SUCCEEDED" => pc = "answered"
  BY <1>3
<1>9. ReportsAfterSuccess'
  BY <1>1, <1>5, <1>7, <1>8 DEF WorkspaceInv, ReportsAfterSuccess
<1>10. CallersAgree'
  BY <1>1, <1>5, <1>7 DEF WorkspaceInv, CallersAgree, Writing
<1>11. ReceiptIsGood'
  BY <1>1 DEF WorkspaceInv, ReceiptIsGood
<1> QED
  BY <1>1, <1>7, <1>9, <1>10, <1>11, CallerKeeps, SharedIs

\* A caller owns the key before it changes a file.
LEMMA ReservesKeeps ==
    ASSUME WorkspaceInv, NEW c \in Callers, Reserves(c)
    PROVE  WorkspaceInv'
<1>1. /\ Inside /\ UNCHANGED <<notebook, artifacts, lock, callFaults>>
      /\ UNCHANGED <<execution, late>> /\ caller[c].pc = "reserve"
  BY DEF Reserves, Inside
<1>2. execution.status = "SUCCEEDED"
  BY <1>1 DEF WorkspaceInv, ReportsAfterSuccess
<1>3. PICK body : body = caller[c].body
  OBVIOUS
<1>4. body \in Bodies /\ body # NoOne
  BY <1>3, SharedIs DEF CallerRow
<1>5. CASE /\ receipt.body = NoOne
           /\ receipt' = [receipt EXCEPT !.body = caller[c].body]
           /\ CallerAt(c, "lock")
  <2>1. /\ caller' \in [Callers -> CallerRow] /\ caller'[c].pc = "lock"
        /\ caller'[c].body = body
        /\ \A d \in Callers : d # c => caller'[d] = caller[d]
    BY <1>3, <1>5, CallerAtIs
  <2>2. receipt' = [receipt EXCEPT !.body = body]
    BY <1>3, <1>5
  <2>3. /\ receipt' \in [body : Bodies \cup {NoOne}, done : BOOLEAN]
        /\ receipt'.body = body /\ receipt'.done = receipt.done
    BY <1>4, <2>2, SharedIs
  <2>4. ~receipt.done /\ notebook.reports = << >>
    BY <1>5 DEF WorkspaceInv, ReceiptIsGood
  <2>5. \A d \in Callers : caller[d].pc \notin {"lock"} \cup Writing
    <3> SUFFICES ASSUME NEW d \in Callers, caller[d].pc \in {"lock"} \cup Writing
                 PROVE  FALSE
      OBVIOUS
    <3>1. caller[d].body = NoOne /\ caller[d].body \in Bodies
      BY <1>5, SharedIs DEF WorkspaceInv, CallersAgree, CallerRow
    <3> QED
      BY <3>1, SharedIs
  <2>6. ReportsAfterSuccess'
    BY <1>1, <1>2 DEF ReportsAfterSuccess
  <2>7. CallersAgree'
    BY <1>1, <2>1, <2>3, <2>5 DEF CallersAgree, Writing
  <2>8. ReceiptIsGood'
    BY <1>1, <2>3, <2>4 DEF ReceiptIsGood
  <2> QED
    BY <1>1, <2>1, <2>3, <2>6, <2>7, <2>8, CallerKeeps, SharedIs
<1>6. CASE /\ receipt' = receipt
           /\ \/ receipt.body = caller[c].body /\ CallerAt(c, "lock")
              \/ CallerAt(c, "answered")
  <2>1. PICK pc \in {"lock", "answered"} :
          CallerAt(c, pc) /\ (pc = "lock" => receipt.body = caller[c].body)
    BY <1>6
  <2>2. /\ caller' \in [Callers -> CallerRow] /\ caller'[c].pc = pc
        /\ caller'[c].body = body
        /\ \A d \in Callers : d # c => caller'[d] = caller[d]
    BY <1>3, <2>1, CallerAtIs
  <2>3. ReportsAfterSuccess'
    BY <1>1, <1>2 DEF ReportsAfterSuccess
  <2>4. CallersAgree'
    BY <1>1, <1>3, <1>6, <2>1, <2>2 DEF WorkspaceInv, CallersAgree, Writing
  <2>5. ReceiptIsGood'
    BY <1>1, <1>6 DEF WorkspaceInv, ReceiptIsGood
  <2> QED
    BY <1>1, <1>6, <2>2, <2>3, <2>4, <2>5, CallerKeeps, SharedIs
<1> QED
  BY <1>5, <1>6 DEF Reserves, Answers, CallerAt

\* One caller at a time writes.
LEMMA LocksKeeps ==
    ASSUME WorkspaceInv, NEW c \in Callers, Locks(c) \/ WritesText(c)
    PROVE  WorkspaceInv'
<1>1. /\ Inside /\ UNCHANGED <<notebook, artifacts, receipt, callFaults>>
      /\ UNCHANGED <<execution, late>> /\ caller[c].pc \in {"lock", "text"}
  BY DEF Locks, WritesText, Inside
<1>2. execution.status = "SUCCEEDED"
  BY <1>1 DEF WorkspaceInv, ReportsAfterSuccess
<1>3. PICK pc \in {"answered", "text", "read"} :
        /\ CallerAt(c, pc)
        /\ pc = "text" => lock = NoOne /\ lock' = c
        /\ pc = "read" => caller[c].pc = "text" /\ lock' = lock
        /\ pc = "answered" => lock' = lock
  BY DEF Locks, WritesText, Answers, CallerAt
<1>4. /\ caller' \in [Callers -> CallerRow] /\ caller'[c].pc = pc
      /\ caller'[c].body = caller[c].body
      /\ \A d \in Callers : d # c => caller'[d] = caller[d]
  BY <1>3, CallerAtIs
<1>5. ReportsAfterSuccess' /\ ReceiptIsGood'
  BY <1>1, <1>2 DEF WorkspaceInv, ReportsAfterSuccess, ReceiptIsGood
<1>6. CallersAgree'
  <2> SUFFICES ASSUME NEW d \in Callers
               PROVE  /\ caller'[d].pc \in {"lock"} \cup Writing =>
                           receipt'.body = caller'[d].body
                      /\ caller'[d].pc \in Writing => lock' = d
                      /\ caller'[d].pc = "append" => caller'[d].doc = << >>
                      /\ caller'[d].pc = "persist" /\ ~late' =>
                           notebook'.reports = <<receipt'.body>>
    BY DEF CallersAgree
  <2>1. CASE d = c
    BY <2>1, <1>1, <1>3, <1>4 DEF WorkspaceInv, CallersAgree, Writing
  <2>2. CASE d # c
    <3>1. pc = "text" => caller[d].pc \notin Writing
      BY <1>3, CallersAssumption DEF WorkspaceInv, CallersAgree
    <3> QED
      BY <2>2, <3>1, <1>1, <1>3, <1>4 DEF WorkspaceInv, CallersAgree, Writing
  <2> QED
    BY <2>1, <2>2
<1> QED
  BY <1>1, <1>4, <1>5, <1>6, CallerKeeps, SharedIs

\* The caller that has the lock looks for the cell.
LEMMA ReadsNotebookKeeps ==
    ASSUME WorkspaceInv, NEW c \in Callers, ReadsNotebook(c)
    PROVE  WorkspaceInv'
<1>1. /\ Inside /\ UNCHANGED <<notebook, artifacts, receipt, lock, callFaults>>
      /\ UNCHANGED <<execution, late>> /\ caller[c].pc = "read"
  BY DEF ReadsNotebook, Inside
<1>2. execution.status = "SUCCEEDED"
  BY <1>1 DEF WorkspaceInv, ReportsAfterSuccess
<1>3. PICK doc : doc = notebook.reports
  OBVIOUS
<1>4. PICK pc \in {"append", "persist"} :
        pc = IF doc = << >> THEN "append" ELSE "persist"
  OBVIOUS
<1>5. PICK n : n = [caller[c] EXCEPT !.doc = doc, !.pc = pc]
  OBVIOUS
<1>6. n \in CallerRow /\ n.pc = pc /\ n.doc = doc /\ n.body = caller[c].body
  <2>1. doc \in Seq(Bodies)
    BY <1>3, SharedIs
  <2> QED
    BY <1>5, <2>1, SharedIs DEF CallerRow
<1>7. caller' = [caller EXCEPT ![c] = n]
  BY <1>3, <1>4, <1>5, SharedIs DEF ReadsNotebook
<1>8. /\ caller' \in [Callers -> CallerRow] /\ caller'[c] = n
      /\ \A d \in Callers : d # c => caller'[d] = caller[d]
  BY <1>6, <1>7, CallerIs
<1>9. ReportsAfterSuccess' /\ ReceiptIsGood'
  BY <1>1, <1>2 DEF WorkspaceInv, ReportsAfterSuccess, ReceiptIsGood
<1>10. pc = "persist" => notebook.reports = <<receipt.body>>
  BY <1>3, <1>4 DEF WorkspaceInv, ReceiptIsGood
<1>11. pc = "append" => doc = << >>
  BY <1>4
<1>12. CallersAgree'
  BY <1>1, <1>6, <1>8, <1>10, <1>11 DEF WorkspaceInv, CallersAgree, Writing
<1> QED
  BY <1>1, <1>8, <1>9, <1>12, CallerKeeps, SharedIs

\* The notebook gets the report once.
LEMMA AppendedIs ==
    ASSUME WorkspaceInv, NEW c \in Callers, caller[c].pc = "append", Appended(c)
    PROVE  /\ notebook' \in [shows : Nat, reports : Seq(Bodies)]
           /\ notebook'.shows = notebook.shows
           /\ notebook'.reports = <<receipt.body>>
           /\ receipt.body \in Bodies /\ receipt.body # NoOne
<1>1. /\ caller[c].doc = << >> /\ caller[c].body = receipt.body
      /\ caller[c].body \in Bodies
  BY SharedIs DEF WorkspaceInv, CallersAgree, Writing, CallerRow
<1>2. PICK body \in Bodies : body = caller[c].body
  BY <1>1
<1>3. PICK new : new = << >> \o <<body>>
  OBVIOUS
<1>4. new = <<body>> /\ <<body>> \in Seq(Bodies)
  BY <1>3
<1>5. notebook' = [notebook EXCEPT !.reports = new]
  BY <1>1, <1>2, <1>3 DEF Appended
<1> QED
  BY <1>1, <1>2, <1>4, <1>5, SharedIs

\* append_notebook_markdown, acknowledged.
LEMMA AppendsReportKeeps ==
    ASSUME WorkspaceInv, NEW c \in Callers, AppendsReport(c)
    PROVE  WorkspaceInv'
<1>1. /\ Inside /\ UNCHANGED <<artifacts, receipt, lock, callFaults>>
      /\ UNCHANGED <<execution, late>> /\ caller[c].pc = "append"
      /\ Appended(c) /\ CallerAt(c, "persist")
  BY DEF AppendsReport, Inside
<1>2. execution.status = "SUCCEEDED"
  BY <1>1 DEF WorkspaceInv, ReportsAfterSuccess
<1>3. /\ notebook' \in [shows : Nat, reports : Seq(Bodies)]
      /\ notebook'.shows = notebook.shows
      /\ notebook'.reports = <<receipt.body>>
      /\ receipt.body \in Bodies /\ receipt.body # NoOne
  BY <1>1, AppendedIs
<1>4. /\ caller' \in [Callers -> CallerRow] /\ caller'[c].pc = "persist"
      /\ caller'[c].body = caller[c].body
      /\ \A d \in Callers : d # c => caller'[d] = caller[d]
  BY <1>1, CallerAtIs
<1>5. ReportsAfterSuccess' /\ ReceiptIsGood'
  BY <1>1, <1>2, <1>3 DEF ReportsAfterSuccess, ReceiptIsGood
<1>6. CallersAgree'
  BY <1>1, <1>3, <1>4 DEF WorkspaceInv, CallersAgree, Writing
<1> QED
  BY <1>1, <1>3, <1>4, <1>5, <1>6, CallerKeeps, SharedIs

\* The receipt is completed.
LEMMA PersistsReportKeeps ==
    ASSUME WorkspaceInv, NEW c \in Callers, PersistsReport(c)
    PROVE  WorkspaceInv'
<1>1. /\ Inside /\ UNCHANGED <<notebook, callFaults>> /\ lock' = NoOne
      /\ UNCHANGED <<execution, late>> /\ caller[c].pc = "persist"
      /\ artifacts \subseteq artifacts' /\ CallerAt(c, "answered")
      /\ receipt' = [receipt EXCEPT !.done = TRUE]
  BY DEF PersistsReport, Inside, Answers, CallerAt
<1>2. execution.status = "SUCCEEDED"
  BY <1>1 DEF WorkspaceInv, ReportsAfterSuccess
<1>3. /\ caller' \in [Callers -> CallerRow] /\ caller'[c].pc = "answered"
      /\ \A d \in Callers : d # c => caller'[d] = caller[d]
  BY <1>1, CallerAtIs
<1>4. /\ receipt' \in [body : Bodies \cup {NoOne}, done : BOOLEAN]
      /\ receipt'.body = receipt.body
  BY <1>1, SharedIs
<1>5. /\ receipt.body # NoOne /\ lock = c
      /\ ~late => notebook.reports = <<receipt.body>>
  BY <1>1, SharedIs DEF WorkspaceInv, CallersAgree, Writing, CallerRow
<1>6. ReportsAfterSuccess'
  BY <1>1, <1>2 DEF ReportsAfterSuccess
<1>7. ReceiptIsGood'
  BY <1>1, <1>4, <1>5 DEF WorkspaceInv, ReceiptIsGood
<1>8. CallersAgree'
  BY <1>1, <1>3, <1>4, <1>5 DEF WorkspaceInv, CallersAgree, Writing
<1> QED
  BY <1>1, <1>3, <1>4, <1>6, <1>7, <1>8, CallerKeeps, SharedIs

\* A caller that fails leaves the notebook with the report or without it.
LEMMA CallFailsKeeps ==
    ASSUME WorkspaceInv, NEW c \in Callers, CallFails(c)
    PROVE  WorkspaceInv'
<1>1. /\ Inside /\ UNCHANGED <<artifacts, receipt>> /\ lock' = NoOne
      /\ UNCHANGED <<execution, late>> /\ caller[c].pc \in Writing
      /\ CallerAt(c, "idle") /\ callFaults' \in Nat
  BY SharedIs DEF CallFails, Inside, Writing
<1>2. execution.status = "SUCCEEDED"
  BY <1>1 DEF WorkspaceInv, ReportsAfterSuccess, Writing
<1>3. /\ caller' \in [Callers -> CallerRow] /\ caller'[c].pc = "idle"
      /\ \A d \in Callers : d # c => caller'[d] = caller[d]
  BY <1>1, CallerAtIs
<1>4. lock = c
  BY <1>1 DEF WorkspaceInv, CallersAgree
<1>5. /\ notebook' \in [shows : Nat, reports : Seq(Bodies)]
      /\ notebook'.shows = notebook.shows
      /\ \/ notebook' = notebook
         \/ notebook'.reports = <<receipt.body>> /\ receipt.body # NoOne
  BY AppendedIs, SharedIs DEF CallFails
<1>6. ReportsAfterSuccess'
  BY <1>1, <1>2 DEF ReportsAfterSuccess
<1>7. ReceiptIsGood'
  BY <1>1, <1>5 DEF WorkspaceInv, ReceiptIsGood
<1>8. CallersAgree'
  BY <1>1, <1>3, <1>4 DEF WorkspaceInv, CallersAgree, Writing
<1> QED
  BY <1>1, <1>3, <1>5, <1>6, <1>7, <1>8, CallerKeeps, SharedIs

\* Every step of the workspace keeps the invariant.
LEMMA WorkspaceStep == WorkspaceInv /\ [WorkspaceNext]_workspaceVars => WorkspaceInv'
<1> SUFFICES ASSUME WorkspaceInv, [WorkspaceNext]_workspaceVars PROVE WorkspaceInv'
  OBVIOUS
<1>1. CASE UNCHANGED workspaceVars
  <2>1. UNCHANGED <<execution, job, notebook, file, artifacts, code, late,
                    receipt, caller, lock, callFaults>>
    BY <1>1 DEF workspaceVars
  <2> QED
    BY <2>1 DEF WorkspaceInv, WorkspaceTypeOK, HoldersKnow, HolderKnows, Holds,
         SucceededStays, ReportsAfterSuccess, CallersAgree, ReceiptIsGood
<1>2. CASE \E r \in Runs :
         \/ Claims(r) \/ LoadsRun(r) \/ Asserts(r)
         \/ PreparesNotebook(r) \/ WritesNotebook(r)
         \/ WriteRepeats(r) \/ Registers(r) \/ StartsStep(r) \/ Marks(r)
         \/ Projects(r) \/ RecordsProjection(r) \/ Discovers(r)
         \/ Persists(r) \/ EndsRun(r) \/ RunBreaks(r)
  BY <1>2, ClaimsKeeps, LoadsRunKeeps, AssertsKeeps, WritesKeeps, RegistersKeeps,
     StartsStepKeeps, MarksKeeps, ProjectsKeeps, RecordsProjectionKeeps,
     DiscoversKeeps, PersistsKeeps, EndsRunKeeps, RunBreaksKeeps
<1>3. CASE CodeWrites \/ CodeEnds \/ Retries \/ LeaseExpires
  BY <1>3, CodeKeeps, LeavesKeeps
<1>4. CASE \E c \in Callers :
         \/ Looks(c) \/ Reserves(c) \/ Locks(c) \/ WritesText(c)
         \/ ReadsNotebook(c) \/ AppendsReport(c) \/ PersistsReport(c)
         \/ CallFails(c)
  BY <1>4, LooksKeeps, ReservesKeeps, LocksKeeps, ReadsNotebookKeeps,
     AppendsReportKeeps, PersistsReportKeeps, CallFailsKeeps
<1> QED
  BY <1>1, <1>2, <1>3, <1>4 DEF WorkspaceNext

\* Nothing has been run and nothing is reported.
LEMMA WorkspaceStart == WorkspaceInit => WorkspaceInv
<1> SUFFICES ASSUME WorkspaceInit PROVE WorkspaceInv
  OBVIOUS
<1>1. << >> \in Seq(Bodies) /\ "x" \in Bodies /\ {} \in SUBSET Nat
  BY DEF Bodies
<1>2. /\ execution \in ExecutionRow /\ execution.status = "QUEUED"
  BY DEF WorkspaceInit, ExecutionRow, NoRun
<1>3. job \in [Runs -> RunRow] /\ \A r \in Runs : job[r].pc = "new"
  BY <1>1 DEF WorkspaceInit, RunRow, RunPoints, NoRun
<1>4. notebook \in [shows : Nat, reports : Seq(Bodies)] /\ notebook.reports = << >>
  BY <1>1 DEF WorkspaceInit, NoRun
<1>5. caller \in [Callers -> CallerRow] /\ \A c \in Callers : caller[c].pc = "idle"
  BY <1>1 DEF WorkspaceInit, CallerRow
<1>6. /\ receipt = [body |-> NoOne, done |-> FALSE] /\ callFaults = 0
      /\ file = 0 /\ code = "NEW" /\ late = FALSE
  BY DEF WorkspaceInit
<1>7. WorkspaceTypeOK
  BY <1>2, <1>3, <1>4, <1>5, <1>6 DEF WorkspaceTypeOK
<1>8. HoldersKnow /\ SucceededStays
  BY <1>2, <1>3 DEF HoldersKnow, SucceededStays, Holds
<1>9. ReportsAfterSuccess /\ CallersAgree /\ ReceiptIsGood
  BY <1>4, <1>5, <1>6 DEF ReportsAfterSuccess, CallersAgree, ReceiptIsGood, Writing
<1> QED
  BY <1>7, <1>8, <1>9 DEF WorkspaceInv

----------------------------------------------------------------------------
(* The parts together.                                                     *)

\* A step of the composition is a step of each part or leaves it alone.
LEMMA PartsStep ==
    ASSUME [EvidenceNext]_evidenceVars
    PROVE  /\ [ResultNext]_resultVars /\ [WorkspaceNext]_workspaceVars
           /\ [DownloadNext]_downloadVars
           /\ [PageNext \/ SnapshotNext]_queryVars
BY DEF EvidenceNext, evidenceVars

\* The result that the Step's row refers to can be read for good: every
\* output it lists is on disk, whatever threads of interrupted calls of the
\* store are still at work in the directory and wherever the process dies.
THEOREM ResultIsReadable == EvidenceSpec => []ReferenceIsReadable
<1>1. EvidenceInit => ResultInv
  BY ResultStart DEF EvidenceInit
<1>2. ResultInv /\ [EvidenceNext]_evidenceVars => ResultInv'
  BY PartsStep, ResultStep
<1>3. ResultInv => ReferenceIsReadable
  BY ResultIsGood
<1> QED
  BY <1>1, <1>2, <1>3, PTL DEF EvidenceSpec, evidenceVars

\* A result that says it is complete lists every output in order, and all of
\* the code's when it was FINALIZED: no append of an interrupted call, retry
\* or second seal changes what finalize listed and counted.
THEOREM CompleteResultIsWhole == EvidenceSpec => []CompleteIsWhole
<1>1. EvidenceInit => ResultInv
  BY ResultStart DEF EvidenceInit
<1>2. ResultInv /\ [EvidenceNext]_evidenceVars => ResultInv'
  BY PartsStep, ResultStep
<1>3. ResultInv => CompleteIsWhole
  BY ResultIsGood
<1> QED
  BY <1>1, <1>2, <1>3, PTL DEF EvidenceSpec, evidenceVars

\* A download that was completed is the range of what its checksum announced,
\* which is the file as it was opened unless a change in place left no trace.
THEOREM DownloadIsSound == EvidenceSpec => []DownloadIsAsAnnounced
<1>1. EvidenceInit => DownloadInv
  BY DownloadStart DEF EvidenceInit
<1>2. DownloadInv /\ [EvidenceNext]_evidenceVars => DownloadInv'
  BY PartsStep, DownloadStep
<1>3. DownloadInv => DownloadIsAsAnnounced
  BY DEF DownloadInv
<1> QED
  BY <1>1, <1>2, <1>3, PTL DEF EvidenceSpec, evidenceVars

\* A result that shows an Operation as SUCCEEDED has its Step so, and one that
\* shows the Execution as SUCCEEDED has its last Operation so: the order of its
\* statements tolerates every commit between two of them, corrected failures
\* and retries included.
THEOREM BundleIsConsistent == EvidenceSpec => []BundleAgrees
<1>1. EvidenceInit => BundleInv
  BY BundleStart DEF EvidenceInit
<1>2. BundleInv /\ [EvidenceNext]_evidenceVars => BundleInv'
  BY PartsStep, BundleStep
<1>3. BundleInv => BundleAgrees
  BY DEF BundleInv
<1> QED
  BY <1>1, <1>2, <1>3, PTL DEF EvidenceSpec, evidenceVars

\* A list read page by page, while rows are added, change and go away, repeats
\* nothing and misses no row that was there all the time, for every page size
\* and any ties of times; a list by number has no gap.
THEOREM PagesAreComplete == EvidenceSpec => []PagesMissNothing
<1>1. EvidenceInit => PagesInv
  BY PagesStart DEF EvidenceInit
<1>2. PagesInv /\ [EvidenceNext]_evidenceVars => PagesInv'
  BY PartsStep, PagesStep
<1>3. PagesInv => PagesMissNothing
  BY PagesFollow
<1> QED
  BY <1>1, <1>2, <1>3, PTL DEF EvidenceSpec, evidenceVars

\* The notebook of an Execution that succeeded shows the result its Step's
\* row refers to, after any number of takeovers, retries and repeated writes,
\* unless a replaced Worker's write reached it later.
THEOREM NotebookIsFaithful == EvidenceSpec => []NotebookShowsResult
<1>1. EvidenceInit => WorkspaceInv
  BY WorkspaceStart DEF EvidenceInit
<1>2. WorkspaceInv /\ [EvidenceNext]_evidenceVars => WorkspaceInv'
  BY PartsStep, WorkspaceStep
<1>3. WorkspaceInv => NotebookShowsResult
  BY DEF WorkspaceInv, SucceededStays, NotebookShowsResult
<1> QED
  BY <1>1, <1>2, <1>3, PTL DEF EvidenceSpec, evidenceVars

\* Every file that the code of an Execution that succeeded left behind is an
\* AVAILABLE Artifact of its last attempt, whichever run started the Step.
THEOREM FilesAreArtifacts == EvidenceSpec => []FilesAreRegistered
<1>1. EvidenceInit => WorkspaceInv
  BY WorkspaceStart DEF EvidenceInit
<1>2. WorkspaceInv /\ [EvidenceNext]_evidenceVars => WorkspaceInv'
  BY PartsStep, WorkspaceStep
<1>3. WorkspaceInv => FilesAreRegistered
  BY DEF WorkspaceInv, SucceededStays, FilesAreRegistered
<1> QED
  BY <1>1, <1>2, <1>3, PTL DEF EvidenceSpec, evidenceVars

\* A report that was acknowledged is in the notebook once, for any number of
\* callers and failures between its steps.
THEOREM ReportIsThereOnce == EvidenceSpec => []ReportIsAppendedOnce
<1>1. EvidenceInit => WorkspaceInv
  BY WorkspaceStart DEF EvidenceInit
<1>2. WorkspaceInv /\ [EvidenceNext]_evidenceVars => WorkspaceInv'
  BY PartsStep, WorkspaceStep
<1>3. WorkspaceInv => ReportIsAppendedOnce
  BY DEF WorkspaceInv, ReceiptIsGood, ReportIsAppendedOnce
<1> QED
  BY <1>1, <1>2, <1>3, PTL DEF EvidenceSpec, evidenceVars

=============================================================================
