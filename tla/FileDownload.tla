---------------------------- MODULE FileDownload ----------------------------
(***************************************************************************)
(* The download of a registered file while others write it.               *)
(*                                                                         *)
(* The Jupyter server opens the file once, reads it all to announce its    *)
(* checksum, and reads the requested range again to send it.  The file may *)
(* be replaced under its path (the reader keeps the old one) or changed in *)
(* place, with or without a visible change of its modification time.       *)
(* A file is a sequence of chunks; a chunk is one of a few values, and a   *)
(* value that was overwritten may be written again.                        *)
(***************************************************************************)
EXTENDS Naturals, Sequences

CONSTANTS
    NumChunks,      \* chunks of the file
    NumValues,      \* different contents of a chunk
    MaxWrites       \* Bound: changes made to it by others

ASSUME ChunksAssumption == NumChunks \in Nat \ {0}
ASSUME ValuesAssumption == NumValues \in Nat \ {0}
ASSUME WritesAssumption == MaxWrites \in Nat

VARIABLES
    disk,           \* the file at the path: its chunks, its mtime
    writes,         \* the time of the last write
    opened,         \* history: the content of the file when it was opened,
                    \* and whether it was changed since without a trace
    reader          \* the handler of the request

downloadVars == <<disk, writes, opened, reader>>

Chunks == 1 .. NumChunks
Values == 0 .. NumValues - 1

\* A range as a client may ask for it: from and to, or the last chunks;
\* 0 stands for a bound that is left open
RangeHeaders == [from : 0 .. NumChunks + 1, to : 0 .. NumChunks + 1]
NoHeader == [from |-> 0, to |-> 0]

\* parse_range, with chunks for bytes and counting from 1
ParseRange(header) ==
    LET suffix == header.from = 0 /\ header.to # 0
        start == IF header = NoHeader THEN 1
                 ELSE IF ~suffix THEN header.from
                 ELSE IF header.to >= NumChunks THEN 1
                 ELSE NumChunks - header.to + 1
        end == IF suffix \/ header.to = 0 THEN NumChunks
               ELSE header.to
    IN  IF start > NumChunks \/ end < start
        THEN << >>
        ELSE <<start, IF end < NumChunks THEN end ELSE NumChunks>>

NoFile == [chunks |-> << >>, mtime |-> 0]

Closed == [at |-> "closed", tries |-> 0, linked |-> FALSE, own |-> NoFile,
           mtime |-> 0, range |-> << >>, hashed |-> << >>, sent |-> << >>]

DownloadInit ==
    /\ disk = [chunks |-> [i \in Chunks |-> 0], mtime |-> 0]
    /\ writes = 0 /\ reader = Closed
    /\ opened = [chunks |-> disk.chunks, hidden |-> FALSE]

\* What the open descriptor sees
OpenFile == IF reader.linked THEN disk ELSE reader.own
Content == OpenFile.chunks

Reading == reader.at \in {"hash", "send"}

----------------------------------------------------------------------------
(* Writers.                                                                *)

\* os.replace: the reader stays on the file it opened
Replaced ==
    /\ writes < MaxWrites /\ writes' = writes + 1
    /\ \E v \in Values :
         disk' = [chunks |-> [i \in Chunks |-> v], mtime |-> writes + 1]
    /\ reader' = IF Reading /\ reader.linked
                 THEN [reader EXCEPT !.linked = FALSE, !.own = disk]
                 ELSE reader
    /\ UNCHANGED opened

\* A chunk is changed in place.  The volume may go on showing the old mtime:
\* within its resolution, or from a cache
Changed ==
    /\ writes < MaxWrites /\ writes' = writes + 1
    /\ \E i \in Chunks, v \in Values, mtime \in {disk.mtime, writes + 1} :
         /\ disk' = [chunks |-> [disk.chunks EXCEPT ![i] = v], mtime |-> mtime]
         /\ opened' = [opened EXCEPT !.hidden =
                          \/ @
                          \/ Reading /\ reader.linked /\ mtime = disk.mtime]
    /\ UNCHANGED reader

----------------------------------------------------------------------------
(* OpenedFileDownload.                                                     *)

Opened(range, tries) ==
    /\ reader' = [Closed EXCEPT !.at = "hash", !.tries = tries,
                    !.linked = TRUE, !.mtime = disk.mtime, !.range = range]
    /\ opened' = [chunks |-> disk.chunks, hidden |-> FALSE]

Open(header) ==
    /\ reader.at = "closed" /\ ParseRange(header) # << >>
    /\ Opened(ParseRange(header), 1)
    /\ UNCHANGED <<disk, writes>>

\* 416: the range cannot be satisfied
Refuse(header) ==
    /\ reader.at = "closed" /\ ParseRange(header) = << >>
    /\ reader' = [reader EXCEPT !.at = "refused"]
    /\ UNCHANGED <<disk, writes, opened>>

\* Size and mtime are those of the opened file, before and after each read
Unchanged == OpenFile.mtime = reader.mtime

\* _hash_opened_file
Hash ==
    /\ reader.at = "hash" /\ Unchanged
    /\ LET i == Len(reader.hashed) + 1 IN
       reader' = [reader EXCEPT !.hashed = Append(@, Content[i]),
                                !.at = IF i = NumChunks THEN "send" ELSE @]
    /\ UNCHANGED <<disk, writes, opened>>

\* Before anything is sent, a changed file is opened once more; then 409
Reopen ==
    /\ reader.at = "hash" /\ ~Unchanged
    /\ \/ reader.tries = 1 /\ Opened(reader.range, 2)
       \/ /\ reader.tries = 2 /\ reader' = [reader EXCEPT !.at = "conflict"]
          /\ UNCHANGED opened
    /\ UNCHANGED <<disk, writes>>

\* Setting up failed on one Runtime Target: the next one opens the file at
\* the same path of the shared storage.  Once the metadata is handed on, the
\* target is never changed and a lost connection breaks the response.
NextTarget ==
    /\ \/ reader.at = "hash" /\ Opened(reader.range, 1)
       \/ /\ reader.at = "send" /\ reader' = [reader EXCEPT !.at = "broken"]
          /\ UNCHANGED opened
    /\ UNCHANGED <<disk, writes>>

Requested(sequence) == SubSeq(sequence, reader.range[1], reader.range[2])

\* Mutant: only size and mtime tell that a file has changed
SendUnverified ==
    LET sent == Append(reader.sent, Content[reader.range[1] + Len(reader.sent)])
        last == Len(sent) = Len(Requested(reader.hashed))
    IN  [reader EXCEPT !.sent = sent, !.at = IF last THEN "complete" ELSE @]

\* The last bytes are sent only if the range read twice is the same
SendChunk ==
    LET sent == Append(reader.sent, Content[reader.range[1] + Len(reader.sent)])
        last == Len(sent) = Len(Requested(reader.hashed))
    IN  IF last /\ sent # Requested(reader.hashed)
        THEN [reader EXCEPT !.at = "broken"]
        ELSE [reader EXCEPT !.sent = sent,
                            !.at = IF last THEN "complete" ELSE @]

Send ==
    /\ reader.at = "send" /\ Unchanged
    /\ reader' = SendChunk
    /\ UNCHANGED <<disk, writes, opened>>

\* The response ends before its length and the client sees it
Break ==
    /\ reader.at = "send" /\ ~Unchanged
    /\ reader' = [reader EXCEPT !.at = "broken"]
    /\ UNCHANGED <<disk, writes, opened>>

DownloadNext ==
    \/ Replaced \/ Changed
    \/ \E header \in RangeHeaders : Open(header) \/ Refuse(header)
    \/ Hash \/ Reopen \/ NextTarget \/ Send \/ Break

----------------------------------------------------------------------------
(* Properties.                                                             *)

\* A response that was completed is the range of what its checksum announced.
\* Both are of the file as it was when it was opened, whatever replaced it at
\* its path meanwhile, unless it was changed in place without a change of its
\* size or modification time: then they may mix two contents, if the range
\* reads the same twice (file_download.py: "not a filesystem snapshot").
DownloadIsAsAnnounced ==
    reader.at = "complete" =>
        /\ reader.sent = Requested(reader.hashed)
        /\ ~opened.hidden => reader.hashed = opened.chunks

=============================================================================
