------------------------------ MODULE FileDump ------------------------------
(***************************************************************************)
(* class FileDump (FileDump.cpp) on FileStream (FileStream.cpp): chunks of *)
(* data in a file whose header, the table of their sizes, is written when  *)
(* the file is closed; and a reader of that file.                          *)
(*                                                                         *)
(* The writer's process may die between any two system calls, a write may  *)
(* be done in pieces, and reads, writes and opens may fail.  The file was  *)
(* there before, or not: it is opened without O_TRUNC, so that old bytes   *)
(* stay until they are written over.                                       *)
(*                                                                         *)
(* A cell of the file is one number of the header (4 bytes) or one piece   *)
(* of a chunk; a place that was skipped reads as 0.                        *)
(***************************************************************************)
EXTENDS Integers, Sequences

CONSTANTS
  Count,        (* m_count, as the writer gives it to the constructor        *)
  MaxSize,      (* bound: pieces in a chunk                                  *)
  OldFiles,     (* what the file may hold before; <<>>: nothing, or no file  *)
  CrashOverOld, (* the writer may die although the file was there before     *)
  HalfDone,     (* ::write may fail when a part of a chunk is written, or    *)
                (* while the header is                                       *)
  ReadsOn       (* the reader goes on after ::read failed                    *)

ASSUME FileDumpAssumption ==
  /\ Count \in Nat \ {0}
  /\ MaxSize \in Nat \ {0}
  /\ OldFiles \subseteq Seq(Int)
  /\ CrashOverOld \in BOOLEAN /\ HalfDone \in BOOLEAN /\ ReadsOn \in BOOLEAN

VARIABLES
  file, old,    (* the file, and what it was at the start                    *)
  wpc, woff,    (* the writer, and its place in the file                     *)
  table, index, (* m_sizeTable, m_index                                      *)
  maxSize,      (* m_maxDataSize                                             *)
  out, done,    (* FileStream::write: its data, and how much is written      *)
  rpc, roff,    (* the reader, and its place in the file                     *)
  rtable, rindex, rmax,  (* its m_sizeTable, m_index and m_maxDataSize       *)
  log, got,     (* history: the chunks written, and those read               *)
  fault         (* history: the writer died, a write failed when it was half *)
                (* done or the header's, or the reader's open failed         *)

writerVars == <<woff, table, index, maxSize, out, done>>
readerVars == <<rpc, roff, rtable, rindex, rmax, got>>
vars == <<file, old, wpc, woff, table, index, maxSize, out, done, rpc, roff, rtable, rindex,
          rmax, log, got, fault>>

Lost == <<>>

\* m_hdrSize: itself, the maximum and the table
HdrSize == 2 + Count

NoTable == [i \in 1 .. Count |-> 0]

Init ==
  /\ old \in OldFiles /\ file = old
  /\ wpc = "new" /\ woff = 0
  /\ table = NoTable /\ index = 0 /\ maxSize = 0
  /\ out = <<>> /\ done = 0
  /\ rpc = "new" /\ roff = 0 /\ rtable = <<>> /\ rindex = 0 /\ rmax = 0
  /\ log = <<>> /\ got = <<>> /\ fault = FALSE

-----------------------------------------------------------------------------
(* The writer.                                                              *)

\* open: the place is behind the header that is still to be written.  Who is told that
\* the open failed goes no further.
OpenWrite ==
  /\ wpc = "new"
  /\ \/ woff' = HdrSize /\ wpc' = "ready"
     \/ wpc' = "failed" /\ UNCHANGED woff
  /\ UNCHANGED <<file, old, table, index, maxSize, out, done, readerVars, log, fault>>

\* FileStream::write is called.
StartWrite(pc, data) ==
  /\ wpc' = pc
  /\ out' = data
  /\ done' = 0

\* The i-th chunk, of the given size
ChunkData(i, size) == [k \in 1 .. size |-> 10 * i + k]

\* Mutant: writeData does not look whether the table has room.
WriteData_NoRoom(size) ==
  /\ wpc = "ready"
  /\ index < Count + 1
  /\ StartWrite("data", ChunkData(index + 1, size))
  /\ UNCHANGED <<file, old, woff, table, index, maxSize, readerVars, log, fault>>

\* writeData, while the table has room
WriteData(size) ==
  /\ wpc = "ready"
  /\ index < Count
  /\ StartWrite("data", ChunkData(index + 1, size))
  /\ UNCHANGED <<file, old, woff, table, index, maxSize, readerVars, log, fault>>

\* The file after cells were written at a place in it
Overwritten(f, off, cells) ==
  LET end == off + Len(cells) IN
  [i \in 1 .. IF end > Len(f) THEN end ELSE Len(f) |->
     IF i \in off + 1 .. end THEN cells[i - off]
     ELSE IF i <= Len(f) THEN f[i] ELSE 0]

\* Mutant: a failed chunk has no entry in the table.
Entered_IfWritten(sz) ==
  /\ table' = IF sz > 0 THEN [table EXCEPT ![index + 1] = sz] ELSE table
  /\ index' = IF sz > 0 THEN index + 1 ELSE index
  /\ maxSize' = IF sz > maxSize THEN sz ELSE maxSize
  /\ log' = Append(log, IF sz > 0 THEN out ELSE Lost)

\* writeData's bookkeeping: a chunk that failed has size -1 in the table.
Entered(sz) ==
  /\ table' = [table EXCEPT ![index + 1] = sz]
  /\ index' = index + 1
  /\ maxSize' = IF sz > maxSize THEN sz ELSE maxSize
  /\ log' = Append(log, IF sz > 0 THEN out ELSE Lost)

\* FileStream::write returns sz to writeData, or to close, which writes one part of the
\* header after the other, whatever the result.
Finished(sz) ==
  \/ /\ wpc = "data"
     /\ Entered(sz)
     /\ StartWrite("ready", <<>>)
  \/ /\ \/ wpc = "hdrSize"     /\ StartWrite("maxDataSize", <<maxSize>>)
        \/ wpc = "maxDataSize" /\ StartWrite("sizeTable", table)
        \/ wpc = "sizeTable"   /\ StartWrite("closed", <<>>)
     /\ UNCHANGED <<table, index, maxSize, log>>

Writing == wpc \in {"data", "hdrSize", "maxDataSize", "sizeTable"}

\* ::write takes some of the data; the loop ends with the last of it.
Write ==
  /\ Writing
  /\ \E n \in 1 .. Len(out) - done :
       /\ file' = Overwritten(file, woff, SubSeq(out, done + 1, done + n))
       /\ woff' = woff + n
       /\ IF done + n = Len(out)
            THEN Finished(Len(out))
            ELSE done' = done + n /\ UNCHANGED <<wpc, table, index, maxSize, out, log>>
  /\ UNCHANGED <<old, readerVars, fault>>

\* ::write fails.  What it has written before stays, and stays where it is.
WriteFails ==
  /\ Writing
  /\ HalfDone \/ (wpc = "data" /\ done = 0)
  /\ Finished(-1)
  /\ fault' = (fault \/ wpc # "data" \/ done > 0)
  /\ UNCHANGED <<file, old, woff, readerVars>>

\* Mutant: the header is written where the data ends.
Close_NoSeek ==
  /\ wpc = "ready"
  /\ StartWrite("hdrSize", <<HdrSize>>)
  /\ UNCHANGED <<file, old, woff, table, index, maxSize, readerVars, log, fault>>

\* close goes back to the front of the file, for the header.
Close ==
  /\ wpc = "ready"
  /\ woff' = 0
  /\ StartWrite("hdrSize", <<HdrSize>>)
  /\ UNCHANGED <<file, old, table, index, maxSize, readerVars, log, fault>>

\* The writer's process dies.
Crash ==
  /\ wpc = "ready" \/ Writing
  /\ old = <<>> \/ CrashOverOld
  /\ wpc' = "dead"
  /\ fault' = TRUE
  /\ UNCHANGED <<file, old, writerVars, readerVars, log>>

-----------------------------------------------------------------------------
(* The reader, when the writer is gone.                                     *)

\* The header can be loaded: its size is given and makes sense (malloc refuses a negative
\* size, read one of no bytes), and all of it is there.
Readable ==
  /\ Len(file) >= 2
  /\ file[1] - 2 > 0
  /\ file[1] <= Len(file)

\* open.  A header whose maximum is 0 looks to the caller like a failure.
OpenRead ==
  /\ rpc = "new"
  /\ wpc \in {"closed", "dead"}
  /\ \/ /\ Readable
        /\ rmax' = file[2]
        /\ rtable' = SubSeq(file, 3, file[1])
        /\ roff' = file[1]
        /\ rpc' = IF file[2] # 0 THEN "open" ELSE "refused"
        /\ UNCHANGED fault
     \/ /\ ~Readable
        /\ rpc' = "refused"
        /\ UNCHANGED <<roff, rtable, rmax, fault>>
     \/ /\ rpc' = "refused"
        /\ fault' = TRUE
        /\ UNCHANGED <<roff, rtable, rmax>>
  /\ UNCHANGED <<file, old, wpc, writerVars, rindex, log, got>>

\* readData returns c, and its place in the file is n pieces further.
Returned(n, c) ==
  /\ rindex' = rindex + 1
  /\ roff' = roff + n
  /\ got' = Append(got, c)
  /\ UNCHANGED <<file, old, wpc, writerVars, rtable, rmax, log>>

\* readData: the next entry's size, which may be larger than the largest, 0 where no chunk
\* was written (FileStream::read refuses it), or -1 (it passes that on to ::read as a size_t,
\* which the kernel refuses); at the end of the file fewer bytes come than were asked for.
ReadData ==
  /\ rpc = "open"
  /\ rindex < Len(rtable)
  /\ LET req == rtable[rindex + 1] IN
       IF req > rmax \/ req <= 0
         THEN Returned(0, Lost)
         ELSE IF roff + req <= Len(file)
           THEN Returned(req, SubSeq(file, roff + 1, roff + req))
           ELSE LET rest == SubSeq(file, roff + 1, Len(file)) IN Returned(Len(rest), rest)
  /\ UNCHANGED <<rpc, fault>>

\* ::read fails.  What it has read before is lost, and is not read again; the entry of the
\* table is passed by all the same.
ReadFails ==
  /\ rpc = "open"
  /\ rindex < Len(rtable)
  /\ rtable[rindex + 1] \in 1 .. rmax
  /\ \E n \in 0 .. rtable[rindex + 1] - 1 : roff + n <= Len(file) /\ Returned(n, Lost)
  /\ rpc' = IF ReadsOn THEN "open" ELSE "failed"
  /\ UNCHANGED fault

-----------------------------------------------------------------------------
Next ==
  \/ OpenWrite \/ Write \/ WriteFails \/ Close \/ Crash
  \/ \E size \in 1 .. MaxSize : WriteData(size)
  \/ OpenRead \/ ReadData \/ ReadFails

Spec == Init /\ [][Next]_vars

-----------------------------------------------------------------------------
(* Properties.                                                              *)

Chunks == {ChunkData(i, size) : i \in 1 .. Count, size \in 1 .. MaxSize}

\* The state is well formed: the table never has more entries than room, its entries are
\* sizes of chunks or -1, and both places are in the file or behind the header.
TypeOK ==
  /\ file \in Seq(Int) /\ old \in OldFiles
  /\ wpc \in {"new", "failed", "ready", "data", "hdrSize", "maxDataSize", "sizeTable",
             "closed", "dead"}
  /\ rpc \in {"new", "open", "refused", "failed"}
  /\ woff \in Nat /\ (woff <= Len(file) \/ woff = HdrSize)
  /\ table \in [1 .. Count -> -1 .. MaxSize]
  /\ index \in 0 .. Count /\ maxSize \in 0 .. MaxSize
  /\ out \in Seq(Int) /\ done \in 0 .. Len(out)
  /\ roff \in 0 .. Len(file) /\ rtable \in Seq(Int) /\ rindex \in 0 .. Len(rtable)
  /\ log \in Seq(Chunks \cup {Lost})
  /\ fault \in BOOLEAN

Log == INSTANCE ChunkLog WITH Chunk <- Chunks

\* What the reader gets are the chunks as they were written, in their order, or word that
\* one cannot be had; never other bytes, at whatever system call the writer died, and
\* whichever chunk could not be written (writeData, close, open and readData together).
ImplementsChunkLog == Log!Spec

\* After close the reader finds every chunk, unless a call failed: it is not refused when
\* there is one, and when it has read all entries it has them all (readData fails for the
\* entries that were not used).
Complete ==
  (wpc = "closed" /\ ~fault) =>
    /\ rpc = "refused" => \A i \in 1 .. Len(log) : log[i] = Lost
    /\ (rpc = "open" /\ rindex = Len(rtable)) =>
         /\ Len(got) = Count
         /\ \A i \in 1 .. Count : got[i] = IF i <= Len(log) THEN log[i] ELSE Lost
=============================================================================
