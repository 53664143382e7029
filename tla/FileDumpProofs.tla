--------------------------- MODULE FileDumpProofs ---------------------------
(***************************************************************************)
(* Proofs about FileDump, for every count and size of chunks and whatever  *)
(* the file held before: its state stays well formed; what was written is  *)
(* what is read (Complete), and a dump is a ChunkLog.                      *)
(*                                                                         *)
(* The sums of chunk sizes, which are the chunks' places in the file, are  *)
(* a function the invariant says to exist (InPlace): it grows by one value *)
(* with each chunk, so that no sum has to be reasoned about.               *)
(***************************************************************************)
EXTENDS FileDump, SequenceTheorems, TLAPS

\* The writer: the chunk in hand is a chunk, and the table tells how the chunks went that
\* were written.
WriterTypes ==
  /\ table \in [1 .. Count -> -1 .. MaxSize]
  /\ index \in 0 .. Count /\ maxSize \in 0 .. MaxSize
  /\ out \in Seq(Int) /\ done \in 0 .. Len(out)
  /\ log \in Seq(Chunks \cup {Lost})
  /\ wpc = "new" => index = 0
  /\ wpc = "data" => index < Count /\ \E size \in 1 .. MaxSize : out = ChunkData(index + 1, size)
  /\ Len(log) = index
  /\ \A i \in 1 .. Count :
       table[i] = IF i > index THEN 0 ELSE IF log[i] = Lost THEN -1 ELSE Len(log[i])
  /\ \A i \in 1 .. index : Len(log[i]) <= maxSize

FileTypes ==
  /\ file \in Seq(Int) /\ old \in OldFiles
  /\ woff \in Nat /\ (woff <= Len(file) \/ woff = HdrSize)

\* The reader waits until the writer is gone, and has been told one thing for each entry
\* it has read.
ReaderTypes ==
  /\ rpc \in {"new", "open", "refused", "failed"}
  /\ roff \in 0 .. Len(file) /\ rtable \in Seq(Int) /\ rindex \in 0 .. Len(rtable)
  /\ rmax \in Int /\ got \in Seq(Seq(Int)) /\ Len(got) = rindex
  /\ rpc = "new" => rindex = 0
  /\ wpc \notin {"closed", "dead"} => rpc = "new"

WriterPcs == {"new", "failed", "ready", "data", "hdrSize", "maxDataSize", "sizeTable",
              "closed", "dead"}

TInv == WriterTypes /\ FileTypes /\ ReaderTypes /\ wpc \in WriterPcs /\ fault \in BOOLEAN

\* Where the file can be relied upon: no call has failed that leaves the file and the table
\* at odds, nobody died over the bytes of an older file, and no reader goes on after an error.
Reliable ==
  /\ ~ReadsOn
  /\ HalfDone => ~fault
  /\ wpc = "dead" => old = <<>>

\* Where chunks may begin and end
Places == [0 .. Count -> Nat]

\* Chunk i lies between at[i - 1] and at[i].
InPlace(at) ==
  /\ at[0] = HdrSize
  /\ \A i \in 0 .. index : HdrSize <= at[i] /\ at[i] <= at[index]
  /\ \A i \in 1 .. index : at[i] = at[i - 1] + Len(log[i])
  /\ \A i \in 1 .. index : \A k \in 1 .. Len(log[i]) :
       at[i - 1] + k <= Len(file) /\ file[at[i - 1] + k] = log[i][k]

\* The writer's place, and what it has written of the chunk in hand
WriterAt(at) ==
  /\ wpc = "ready" => woff = at[index]
  /\ wpc = "data" =>
       /\ woff = at[index] + done /\ done < Len(out)
       /\ \A k \in 1 .. done : at[index] + k <= Len(file) /\ file[at[index] + k] = out[k]

Header == [k \in 1 .. HdrSize |-> IF k = 1 THEN HdrSize
                                  ELSE IF k = 2 THEN maxSize ELSE table[k - 2]]

HeaderPcs == {"hdrSize", "maxDataSize", "sizeTable"}

\* The header is there up to w, and in a new file not further: who dies leaves a part of
\* it, behind which there are zeros.
HeaderTo(w) ==
  /\ w <= Len(file)
  /\ \A k \in 1 .. w : file[k] = Header[k]
  /\ old = <<>> => \A k \in w + 1 .. HdrSize : (k <= Len(file) => file[k] = 0)
  /\ wpc \in {"new", "failed", "ready", "data"} => w = 0
  /\ wpc \in HeaderPcs => w = woff
  /\ wpc = "closed" => w = HdrSize

\* What close writes next
HeaderNext ==
  /\ wpc = "hdrSize"     => woff = 0 /\ done = 0 /\ out = <<HdrSize>>
  /\ wpc = "maxDataSize" => woff = 1 /\ done = 0 /\ out = <<maxSize>>
  /\ wpc = "sizeTable"   => woff = 2 + done /\ done < Count /\ out = table

\* The reader has the writer's table as far as there is a header, and is where the writer
\* was when it had written as many chunks.
ReaderAt(at, w) ==
  /\ rpc = "open" =>
       /\ Len(rtable) = Count /\ rmax = maxSize
       /\ \A k \in 1 .. Count : rtable[k] = IF k + 2 <= w THEN table[k] ELSE 0
       /\ rindex <= index /\ rindex + 2 <= w => roff = at[rindex]
       /\ wpc = "closed" =>
            \A i \in 1 .. rindex : got[i] = IF i <= index THEN log[i] ELSE Lost
  /\ rpc = "refused" /\ wpc = "closed" /\ ~fault => maxSize = 0

Laid(at, w) ==
  InPlace(at) /\ WriterAt(at) /\ HeaderTo(w) /\ HeaderNext /\ ReaderAt(at, w)

LInv == Reliable => \E at \in Places, w \in 0 .. HdrSize : Laid(at, w)

-----------------------------------------------------------------------------
(* Sequences.                                                               *)

\* Functions on an interval are sequences.
LEMMA SeqOfFunction ==
  ASSUME NEW S, NEW n \in Nat, NEW f \in [1 .. n -> S]
  PROVE  f \in Seq(S) /\ Len(f) = n
  OBVIOUS

\* A part of a file that is there
LEMMA Part ==
  ASSUME NEW s \in Seq(Int), NEW m \in Nat, NEW n \in Nat, m + n <= Len(s)
  PROVE  /\ SubSeq(s, m + 1, m + n) \in Seq(Int)
         /\ Len(SubSeq(s, m + 1, m + n)) = n
         /\ \A k \in 1 .. n : SubSeq(s, m + 1, m + n)[k] = s[m + k]
<1>1. \A i \in m + 1 .. m + n : s[i] \in Int
  OBVIOUS
<1> QED
  BY <1>1, SubSeqProperties

\* What ::write leaves: its cells at their place, the others as they were, zeros between.
LEMMA AfterWrite ==
  ASSUME NEW f \in Seq(Int), NEW cells \in Seq(Int), NEW off \in Nat
  PROVE  LET g == Overwritten(f, off, cells) IN
         /\ g \in Seq(Int)
         /\ Len(g) >= Len(f) /\ Len(g) >= off + Len(cells)
         /\ \A k \in 1 .. Len(cells) : g[off + k] = cells[k]
         /\ \A i \in 1 .. Len(f) : ~(i \in off + 1 .. off + Len(cells)) => g[i] = f[i]
         /\ \A i \in 1 .. Len(g) :
              ~(i \in off + 1 .. off + Len(cells)) /\ ~(i <= Len(f)) => g[i] = 0
<1> DEFINE end == off + Len(cells)
           n == IF end > Len(f) THEN end ELSE Len(f)
           g == Overwritten(f, off, cells)
<1>1. n \in Nat /\ n >= Len(f) /\ n >= end
  OBVIOUS
<1>2. g = [i \in 1 .. n |-> IF i \in off + 1 .. end THEN cells[i - off]
                            ELSE IF i <= Len(f) THEN f[i] ELSE 0]
  BY DEF Overwritten
<1>3. \A i \in 1 .. n : (IF i \in off + 1 .. end THEN cells[i - off]
                         ELSE IF i <= Len(f) THEN f[i] ELSE 0) \in Int
  <2>1. \A i \in off + 1 .. end : i - off \in 1 .. Len(cells)
    OBVIOUS
  <2> QED
    BY <2>1
<1>4. g \in [1 .. n -> Int]
  BY <1>2, <1>3
<1>5. g \in Seq(Int) /\ Len(g) = n
  BY <1>1, <1>4, SeqOfFunction
<1>6. \A k \in 1 .. Len(cells) : off + k \in 1 .. n /\ off + k \in off + 1 .. end
                                 /\ off + k - off = k
  BY <1>1
<1>7. \A k \in 1 .. Len(cells) : g[off + k] = cells[k]
  BY <1>2, <1>6
<1>8. \A i \in 1 .. Len(f) : i \in 1 .. n /\ i <= Len(f)
  BY <1>1
<1> QED
  BY <1>1, <1>2, <1>5, <1>7, <1>8

\* A chunk, and its size
LEMMA ChunkOf ==
  ASSUME NEW i \in 1 .. Count, NEW size \in 1 .. MaxSize
  PROVE  /\ ChunkData(i, size) \in Chunks /\ ChunkData(i, size) \in Seq(Int)
         /\ Len(ChunkData(i, size)) = size
<1>1. size \in Nat /\ i \in Int
  BY FileDumpAssumption
<1>2. ChunkData(i, size) \in [1 .. size -> Int]
  BY <1>1 DEF ChunkData
<1> QED
  BY <1>1, <1>2, SeqOfFunction DEF Chunks

\* A chunk is never Lost.
LEMMA ChunkType == \A c \in Chunks : c \in Seq(Int) /\ Len(c) \in 1 .. MaxSize /\ c # Lost
<1> SUFFICES ASSUME NEW i \in 1 .. Count, NEW size \in 1 .. MaxSize
             PROVE  LET c == ChunkData(i, size) IN
                    c \in Seq(Int) /\ Len(c) \in 1 .. MaxSize /\ c # Lost
  BY DEF Chunks
<1> QED
  BY ChunkOf, FileDumpAssumption DEF Lost

-----------------------------------------------------------------------------
(* Types and bookkeeping.                                                   *)

\* The table and the log grow together.
LEMMA EnteredTypes ==
  ASSUME WriterTypes, wpc = "data", NEW sz \in {-1, Len(out)}, Entered(sz),
         wpc' = "ready", out' = <<>>, done' = 0
  PROVE  WriterTypes'
<1>1. PICK size \in 1 .. MaxSize : out = ChunkData(index + 1, size)
  BY DEF WriterTypes
<1>2. index \in Nat /\ index < Count /\ index + 1 \in 1 .. Count
  BY FileDumpAssumption DEF WriterTypes
<1>3. out \in Chunks /\ Len(out) = size /\ size \in 1 .. MaxSize
  BY <1>1, <1>2, ChunkOf
<1>4. Count \in Nat /\ MaxSize \in Nat
  BY FileDumpAssumption
<1> DEFINE c == IF sz > 0 THEN out ELSE Lost
<1>5. c \in Chunks \cup {Lost} /\ Len(c) = (IF sz > 0 THEN sz ELSE 0)
      /\ (c = Lost <=> sz = -1)
  BY <1>3, <1>4, ChunkType DEF Lost
<1>6. log \in Seq(Chunks \cup {Lost}) /\ Len(log) = index /\ log' = Append(log, c)
  BY DEF WriterTypes, Entered
<1> HIDE DEF c
<1>7. /\ log' \in Seq(Chunks \cup {Lost}) /\ Len(log') = index + 1
      /\ \A i \in 1 .. index : log'[i] = log[i]
      /\ log'[index + 1] = c
  BY <1>5, <1>6
<1>8. sz \in -1 .. MaxSize /\ sz \in Int
  BY <1>3, <1>4
<1>9. /\ index' = index + 1
      /\ table' = [table EXCEPT ![index + 1] = sz]
      /\ maxSize' = IF sz > maxSize THEN sz ELSE maxSize
  BY DEF Entered
<1>10. table' \in [1 .. Count -> -1 .. MaxSize]
  BY <1>8, <1>9 DEF WriterTypes
<1>11. index' \in 0 .. Count
  BY <1>2, <1>4, <1>9
<1>12. maxSize' \in 0 .. MaxSize /\ maxSize <= maxSize' /\ sz <= maxSize'
  BY <1>4, <1>8, <1>9 DEF WriterTypes
<1>13. \A i \in 1 .. index' : Len(log'[i]) <= maxSize'
  <2>1. \A i \in 1 .. index : Len(log[i]) <= maxSize /\ Len(log[i]) \in Nat
    BY <1>6, ChunkType DEF WriterTypes, Lost
  <2>2. \A i \in 1 .. index : Len(log'[i]) <= maxSize'
    BY <2>1, <1>7, <1>12, <1>4 DEF WriterTypes
  <2>3. Len(log'[index + 1]) <= maxSize'
    BY <1>5, <1>7, <1>8, <1>12, <1>4
  <2>4. \A i \in 1 .. index' : i \in 1 .. index \/ i = index + 1
    BY <1>2, <1>9
  <2> QED
    BY <2>2, <2>3, <2>4
<1>14. \A i \in 1 .. Count :
         table'[i] = IF i > index' THEN 0 ELSE IF log'[i] = Lost THEN -1 ELSE Len(log'[i])
  <2> SUFFICES ASSUME NEW i \in 1 .. Count
               PROVE  table'[i] = IF i > index' THEN 0
                                  ELSE IF log'[i] = Lost THEN -1 ELSE Len(log'[i])
    OBVIOUS
  <2>1. CASE i = index + 1
    <3>1. table'[i] = sz
      BY <2>1, <1>9 DEF WriterTypes
    <3>2. (IF log'[i] = Lost THEN -1 ELSE Len(log'[i])) = sz
      BY <2>1, <1>3, <1>5, <1>7, <1>8
    <3> QED
      BY <3>1, <3>2, <2>1, <1>2, <1>9
  <2>2. CASE i # index + 1
    <3>1. table'[i] = table[i]
      BY <2>2, <1>9 DEF WriterTypes
    <3>2. (i > index' <=> i > index) /\ (~(i > index) => i \in 1 .. index)
      BY <2>2, <1>2, <1>9
    <3>3. table[i] = IF i > index THEN 0 ELSE IF log[i] = Lost THEN -1 ELSE Len(log[i])
      BY DEF WriterTypes
    <3> QED
      BY <3>1, <3>2, <3>3, <1>7
  <2> QED
    BY <2>1, <2>2
<1>15. out' \in Seq(Int) /\ done' \in 0 .. Len(out')
  OBVIOUS
<1> QED
  BY <1>7, <1>9, <1>10, <1>11, <1>12, <1>13, <1>14, <1>15 DEF WriterTypes

\* The header's parts are typed as well.
LEMMA FinishedTypes ==
  ASSUME WriterTypes, Writing, NEW sz \in {-1, Len(out)}, Finished(sz)
  PROVE  WriterTypes' /\ wpc' \in WriterPcs \ {"new", "data", "dead"}
<1>1. CASE wpc = "data"
  BY <1>1, EnteredTypes DEF Finished, StartWrite, WriterPcs
<1>2. Count \in Nat /\ table \in [1 .. Count -> Int]
  BY FileDumpAssumption DEF WriterTypes
<1>3. table \in Seq(Int) /\ <<maxSize>> \in Seq(Int) /\ <<>> \in Seq(Int)
  BY <1>2, SeqOfFunction, FileDumpAssumption DEF WriterTypes
<1>4. CASE wpc # "data"
  <2>1. /\ UNCHANGED <<table, index, maxSize, log>>
        /\ wpc' \in {"maxDataSize", "sizeTable", "closed"}
        /\ out' \in Seq(Int) /\ done' = 0
    <3>1. CASE wpc = "hdrSize"
      BY <1>3, <3>1 DEF Finished, StartWrite
    <3>2. CASE wpc = "maxDataSize"
      BY <1>3, <3>2 DEF Finished, StartWrite
    <3>3. CASE wpc = "sizeTable"
      BY <1>3, <3>3 DEF Finished, StartWrite
    <3> QED
      BY <1>4, <3>1, <3>2, <3>3 DEF Writing
  <2>2. done' \in 0 .. Len(out')
    BY <2>1
  <2> QED
    BY <2>1, <2>2 DEF WriterTypes, WriterPcs
<1> QED
  BY <1>1, <1>4

LEMMA InitTypes == Init => TInv
<1> SUFFICES ASSUME Init PROVE TInv
  OBVIOUS
<1> DEFINE L == Chunks \cup {Lost}
<1> HIDE DEF L
<1>1. /\ file \in Seq(Int) /\ Len(file) \in Nat
      /\ <<>> \in Seq(L) /\ <<>> \in Seq(Int) /\ <<>> \in Seq(Seq(Int)) /\ Len(<<>>) = 0
  BY FileDumpAssumption DEF Init
<1>2. table \in [1 .. Count -> -1 .. MaxSize] /\ \A i \in 1 .. Count : table[i] = 0
  BY FileDumpAssumption DEF NoTable, Init
<1>3. WriterTypes
  <2>1. log \in Seq(Chunks \cup {Lost})
    BY <1>1 DEF L, Init
  <2> QED
    BY <1>1, <1>2, <2>1, FileDumpAssumption DEF Init, WriterTypes
<1>4. FileTypes
  BY <1>1 DEF Init, FileTypes
<1>5. ReaderTypes
  BY <1>1 DEF Init, ReaderTypes
<1> QED
  BY <1>3, <1>4, <1>5 DEF TInv, Init, WriterPcs

LEMMA OpenWriteTypes == TInv /\ OpenWrite => TInv'
<1> SUFFICES ASSUME TInv, OpenWrite PROVE TInv'
  OBVIOUS
<1>1. WriterTypes /\ FileTypes /\ ReaderTypes /\ fault \in BOOLEAN
  BY DEF TInv
<1>2. wpc' \in {"ready", "failed"}
  BY DEF OpenWrite
<1>3. WriterTypes'
  BY <1>1, <1>2 DEF WriterTypes, OpenWrite
<1>4. FileTypes'
  BY <1>1, FileDumpAssumption DEF FileTypes, OpenWrite, HdrSize
<1>5. ReaderTypes'
  BY <1>1, <1>2 DEF ReaderTypes, OpenWrite, readerVars
<1> QED
  BY <1>1, <1>2, <1>3, <1>4, <1>5 DEF TInv, WriterPcs, OpenWrite

LEMMA WriteDataTypes == TInv /\ (\E size \in 1 .. MaxSize : WriteData(size)) => TInv'
<1> SUFFICES ASSUME TInv, NEW size \in 1 .. MaxSize, WriteData(size) PROVE TInv'
  OBVIOUS
<1>1. WriterTypes /\ FileTypes /\ ReaderTypes /\ fault \in BOOLEAN
  BY DEF TInv
<1>2. /\ wpc' = "data" /\ done' = 0 /\ out' = ChunkData(index + 1, size) /\ index < Count
      /\ UNCHANGED <<table, index, maxSize, log>>
  BY DEF WriteData, StartWrite
<1>3. index + 1 \in 1 .. Count
  BY <1>1, <1>2, FileDumpAssumption DEF WriterTypes
<1>4. out' \in Seq(Int) /\ done' \in 0 .. Len(out')
  BY <1>2, <1>3, ChunkOf
<1>5. WriterTypes'
  BY <1>1, <1>2, <1>4 DEF WriterTypes
<1>6. FileTypes'
  BY <1>1 DEF FileTypes, WriteData
<1>7. ReaderTypes'
  BY <1>1, <1>2 DEF ReaderTypes, WriteData, readerVars
<1> QED
  BY <1>1, <1>2, <1>5, <1>6, <1>7 DEF TInv, WriterPcs, WriteData

\* What is written next is a part of the data, which goes to the writer's place.
LEMMA WriteStep ==
  ASSUME TInv, NEW n \in 1 .. Len(out) - done
  PROVE  LET cells == SubSeq(out, done + 1, done + n)
             f == Overwritten(file, woff, cells)
         IN /\ n \in Nat /\ done + n \in 1 .. Len(out) /\ woff + n \in Nat
            /\ f \in Seq(Int)
            /\ Len(f) >= Len(file) /\ Len(f) >= woff + n
            /\ \A k \in 1 .. n : f[woff + k] = out[done + k]
            /\ \A i \in 1 .. Len(file) : ~(i \in woff + 1 .. woff + n) => f[i] = file[i]
            /\ \A i \in 1 .. Len(f) :
                 ~(i \in woff + 1 .. woff + n) /\ ~(i <= Len(file)) => f[i] = 0
<1>1. /\ out \in Seq(Int) /\ done \in Nat /\ file \in Seq(Int) /\ woff \in Nat
      /\ Len(out) \in Nat
  BY DEF TInv, WriterTypes, FileTypes
<1>2. n \in Nat /\ done + n \in 1 .. Len(out) /\ done + n <= Len(out)
  BY <1>1
<1> DEFINE cells == SubSeq(out, done + 1, done + n)
<1>3. cells \in Seq(Int) /\ Len(cells) = n /\ \A k \in 1 .. n : cells[k] = out[done + k]
  BY <1>1, <1>2, Part
<1> DEFINE f == Overwritten(file, woff, cells)
<1> HIDE DEF cells
<1>4. /\ f \in Seq(Int)
      /\ Len(f) >= Len(file) /\ Len(f) >= woff + Len(cells)
      /\ \A k \in 1 .. Len(cells) : f[woff + k] = cells[k]
      /\ \A i \in 1 .. Len(file) :
           ~(i \in woff + 1 .. woff + Len(cells)) => f[i] = file[i]
      /\ \A i \in 1 .. Len(f) :
           ~(i \in woff + 1 .. woff + Len(cells)) /\ ~(i <= Len(file)) => f[i] = 0
  BY <1>1, <1>3, AfterWrite
<1> HIDE DEF f
<1>5. /\ Len(f) >= woff + n
      /\ \A k \in 1 .. n : f[woff + k] = out[done + k]
      /\ \A i \in 1 .. Len(file) : ~(i \in woff + 1 .. woff + n) => f[i] = file[i]
      /\ \A i \in 1 .. Len(f) :
           ~(i \in woff + 1 .. woff + n) /\ ~(i <= Len(file)) => f[i] = 0
  BY <1>3, <1>4
<1>6. woff + n \in Nat
  BY <1>1, <1>2
<1> QED
  BY <1>2, <1>4, <1>5, <1>6 DEF cells, f

LEMMA WriteTypes == TInv /\ Write => TInv'
<1> SUFFICES ASSUME TInv, Write PROVE TInv'
  OBVIOUS
<1>1. WriterTypes /\ FileTypes /\ ReaderTypes /\ fault \in BOOLEAN /\ wpc \in WriterPcs
  BY DEF TInv
<1>2. PICK n \in 1 .. Len(out) - done :
       /\ file' = Overwritten(file, woff, SubSeq(out, done + 1, done + n))
       /\ woff' = woff + n
       /\ IF done + n = Len(out)
            THEN Finished(Len(out))
            ELSE done' = done + n /\ UNCHANGED <<wpc, table, index, maxSize, out, log>>
  BY DEF Write
<1>3. /\ done + n \in 1 .. Len(out) /\ woff + n \in Nat
      /\ file' \in Seq(Int) /\ Len(file') >= Len(file) /\ Len(file') >= woff + n
  BY <1>2, WriteStep
<1>4. Writing /\ UNCHANGED <<old, rpc, roff, rtable, rindex, rmax, got, fault>>
  BY DEF Write, readerVars
<1>5. WriterTypes' /\ wpc' \in WriterPcs /\ (wpc' \in {"closed", "dead"} \/ rpc = "new")
  <2>1. CASE done + n = Len(out)
    <3>1. WriterTypes' /\ wpc' \in WriterPcs
      BY <2>1, <1>1, <1>2, <1>4, FinishedTypes
    <3>2. rpc = "new"
      BY <1>1, <1>4 DEF ReaderTypes, Writing
    <3> QED
      BY <3>1, <3>2
  <2>2. CASE done + n # Len(out)
    <3>1. done' \in 0 .. Len(out') /\ out' = out
      BY <1>2, <1>3, <2>2
    <3> QED
      BY <2>2, <1>1, <1>2, <3>1 DEF WriterTypes, ReaderTypes
  <2> QED
    BY <2>1, <2>2
<1>6. FileTypes'
  BY <1>1, <1>2, <1>3, <1>4 DEF FileTypes
<1>7. ReaderTypes'
  <2>1. roff' \in 0 .. Len(file')
    BY <1>1, <1>3, <1>4 DEF ReaderTypes, FileTypes
  <2> QED
    BY <2>1, <1>1, <1>4, <1>5 DEF ReaderTypes
<1> QED
  BY <1>1, <1>4, <1>5, <1>6, <1>7 DEF TInv

LEMMA WriteFailsTypes == TInv /\ WriteFails => TInv'
<1> SUFFICES ASSUME TInv, WriteFails PROVE TInv'
  OBVIOUS
<1>1. WriterTypes /\ FileTypes /\ ReaderTypes /\ fault \in BOOLEAN
  BY DEF TInv
<1>2. /\ Writing /\ Finished(-1)
      /\ UNCHANGED <<file, old, woff, rpc, roff, rtable, rindex, rmax, got>>
      /\ fault' \in BOOLEAN
  BY <1>1 DEF WriteFails, readerVars
<1>3. WriterTypes' /\ wpc' \in WriterPcs /\ rpc = "new"
  BY <1>1, <1>2, FinishedTypes DEF ReaderTypes, Writing
<1>4. FileTypes' /\ ReaderTypes'
  BY <1>1, <1>2, <1>3 DEF FileTypes, ReaderTypes
<1> QED
  BY <1>2, <1>3, <1>4 DEF TInv

LEMMA CloseTypes == TInv /\ Close => TInv'
<1> SUFFICES ASSUME TInv, Close PROVE TInv'
  OBVIOUS
<1>1. WriterTypes /\ FileTypes /\ ReaderTypes /\ fault \in BOOLEAN
  BY DEF TInv
<1>2. /\ wpc = "ready" /\ wpc' = "hdrSize" /\ woff' = 0 /\ out' = <<HdrSize>> /\ done' = 0
      /\ UNCHANGED <<file, old, table, index, maxSize, log, fault>>
      /\ UNCHANGED <<rpc, roff, rtable, rindex, rmax, got>>
  BY DEF Close, StartWrite, readerVars
<1>3. HdrSize \in Int
  BY FileDumpAssumption DEF HdrSize
<1>4. out' \in Seq(Int) /\ done' \in 0 .. Len(out')
  BY <1>2, <1>3
<1>5. WriterTypes' /\ FileTypes' /\ ReaderTypes'
  BY <1>1, <1>2, <1>4 DEF WriterTypes, FileTypes, ReaderTypes
<1> QED
  BY <1>1, <1>2, <1>5 DEF TInv, WriterPcs

LEMMA CrashTypes == TInv /\ Crash => TInv'
<1> SUFFICES ASSUME TInv, Crash PROVE TInv'
  OBVIOUS
<1>1. WriterTypes /\ FileTypes /\ ReaderTypes
  BY DEF TInv
<1>2. /\ wpc' = "dead" /\ fault' = TRUE
      /\ UNCHANGED <<file, old, woff, table, index, maxSize, out, done, log>>
      /\ UNCHANGED <<rpc, roff, rtable, rindex, rmax, got>>
  BY DEF Crash, writerVars, readerVars
<1>3. WriterTypes' /\ FileTypes' /\ ReaderTypes'
  BY <1>1, <1>2 DEF WriterTypes, FileTypes, ReaderTypes
<1> QED
  BY <1>1, <1>2, <1>3 DEF TInv, WriterPcs

\* The table that a readable file begins with
LEMMA ReadHeader ==
  ASSUME file \in Seq(Int), Readable
  PROVE  /\ file[1] \in 3 .. Len(file) /\ file[2] \in Int
         /\ SubSeq(file, 3, file[1]) \in Seq(Int)
         /\ Len(SubSeq(file, 3, file[1])) = file[1] - 2
         /\ \A k \in 1 .. file[1] - 2 : SubSeq(file, 3, file[1])[k] = file[k + 2]
<1>1. Len(file) \in Nat /\ 1 \in 1 .. Len(file) /\ 2 \in 1 .. Len(file)
  BY DEF Readable
<1>2. file[1] \in Int /\ file[2] \in Int
  BY <1>1
<1>3. file[1] \in 3 .. Len(file)
  BY <1>1, <1>2 DEF Readable
<1> DEFINE n == file[1] - 2
<1>4. n \in Nat /\ 2 + n <= Len(file) /\ 2 + n = file[1] /\ 2 \in Nat /\ 2 + 1 = 3
  BY <1>1, <1>2, <1>3
<1> HIDE DEF n
<1>5. /\ SubSeq(file, 2 + 1, 2 + n) \in Seq(Int)
      /\ Len(SubSeq(file, 2 + 1, 2 + n)) = n
      /\ \A k \in 1 .. n : SubSeq(file, 2 + 1, 2 + n)[k] = file[2 + k]
  BY <1>4, Part
<1>6. \A k \in 1 .. n : 2 + k = k + 2
  BY <1>4
<1> QED
  BY <1>2, <1>3, <1>4, <1>5, <1>6 DEF n

LEMMA OpenReadTypes == TInv /\ OpenRead => TInv'
<1> SUFFICES ASSUME TInv, OpenRead PROVE TInv'
  OBVIOUS
<1>1. WriterTypes /\ FileTypes /\ ReaderTypes /\ fault \in BOOLEAN
  BY DEF TInv
<1>2. UNCHANGED <<file, old, wpc, woff, table, index, maxSize, out, done, rindex, log, got>>
  BY DEF OpenRead, writerVars
<1>3. rindex = 0 /\ wpc \in {"closed", "dead"}
  BY <1>1 DEF OpenRead, ReaderTypes
<1>4. WriterTypes' /\ FileTypes'
  BY <1>1, <1>2 DEF WriterTypes, FileTypes
<1>5. /\ rtable' \in Seq(Int) /\ roff' \in 0 .. Len(file) /\ rmax' \in Int
      /\ fault' \in BOOLEAN /\ rpc' \in {"open", "refused"}
  <2>1. CASE /\ Readable
             /\ rmax' = file[2]
             /\ rtable' = SubSeq(file, 3, file[1])
             /\ roff' = file[1]
             /\ rpc' = IF file[2] # 0 THEN "open" ELSE "refused"
             /\ UNCHANGED fault
    <3>1. file \in Seq(Int) /\ Len(file) \in Nat
      BY <1>1 DEF FileTypes
    <3>2. file[1] \in 0 .. Len(file)
      BY <2>1, <3>1, ReadHeader
    <3> QED
      BY <1>1, <2>1, <3>1, <3>2, ReadHeader
  <2>2. CASE /\ rpc' = "refused" /\ fault' \in BOOLEAN
             /\ UNCHANGED <<roff, rtable, rmax>>
    BY <1>1, <2>2 DEF ReaderTypes
  <2> QED
    BY <1>1, <2>1, <2>2 DEF OpenRead
<1>6. ReaderTypes'
  <2>1. rindex' \in 0 .. Len(rtable')
    BY <1>2, <1>3, <1>5
  <2> QED
    BY <1>1, <1>2, <1>3, <1>5, <2>1 DEF ReaderTypes
<1> QED
  BY <1>2, <1>4, <1>5, <1>6 DEF TInv

LEMMA ReturnedTypes ==
  ASSUME TInv, rpc = "open", rindex < Len(rtable),
         NEW n \in Nat, roff + n <= Len(file), NEW c \in Seq(Int), Returned(n, c),
         rpc' \in {"open", "failed"}, fault' = fault
  PROVE  TInv'
<1>1. WriterTypes /\ FileTypes /\ ReaderTypes
  BY DEF TInv
<1>2. /\ UNCHANGED <<file, old, wpc, woff, table, index, maxSize, out, done, rtable, rmax, log>>
      /\ rindex' = rindex + 1 /\ roff' = roff + n /\ got' = Append(got, c)
  BY DEF Returned, writerVars
<1>3. WriterTypes' /\ FileTypes'
  BY <1>1, <1>2 DEF WriterTypes, FileTypes
<1>4. rindex' \in 0 .. Len(rtable') /\ rindex' # 0
  BY <1>1, <1>2 DEF ReaderTypes
<1>5. roff' \in 0 .. Len(file')
  BY <1>1, <1>2 DEF ReaderTypes, FileTypes
<1>6. got' \in Seq(Seq(Int)) /\ Len(got') = rindex'
  BY <1>1, <1>2 DEF ReaderTypes
<1>7. wpc' \in {"closed", "dead"}
  BY <1>1, <1>2 DEF ReaderTypes
<1>8. ReaderTypes'
  BY <1>1, <1>2, <1>4, <1>5, <1>6, <1>7 DEF ReaderTypes
<1> QED
  BY <1>2, <1>3, <1>8 DEF TInv

\* What is left of the file, where a chunk should be
LEMMA Rest ==
  ASSUME NEW s \in Seq(Int), NEW m \in 0 .. Len(s)
  PROVE  LET rest == SubSeq(s, m + 1, Len(s)) IN
         rest \in Seq(Int) /\ Len(rest) \in Nat /\ m + Len(rest) <= Len(s)
<1> DEFINE n == Len(s) - m
<1>1. n \in Nat /\ m \in Nat /\ m + n = Len(s)
  OBVIOUS
<1> HIDE DEF n
<1>2. /\ SubSeq(s, m + 1, m + n) \in Seq(Int)
      /\ Len(SubSeq(s, m + 1, m + n)) = n
  BY <1>1, Part
<1> QED
  BY <1>1, <1>2

\* The four ways in which readData returns
LEMMA ReadDataCases ==
  ASSUME TInv, ReadData
  PROVE  LET req == rtable[rindex + 1]
             rest == SubSeq(file, roff + 1, Len(file))
         IN /\ rpc = "open" /\ rindex < Len(rtable) /\ UNCHANGED <<rpc, fault>>
            /\ req \in Int
            /\ \/ (req > rmax \/ req <= 0) /\ Returned(0, Lost)
               \/ /\ req \in 1 .. rmax /\ roff + req <= Len(file)
                  /\ Returned(req, SubSeq(file, roff + 1, roff + req))
               \/ /\ req \in 1 .. rmax /\ roff + req > Len(file)
                  /\ Returned(Len(rest), rest)
<1>1. rtable \in Seq(Int) /\ rindex \in 0 .. Len(rtable) /\ rmax \in Int
  BY DEF TInv, ReaderTypes
<1>2. rindex < Len(rtable)
  BY DEF ReadData
<1>3. rindex + 1 \in 1 .. Len(rtable)
  BY <1>1, <1>2
<1>4. rtable[rindex + 1] \in Int
  BY <1>1, <1>3
<1>5. roff \in Nat /\ Len(file) \in Nat
  BY DEF TInv, ReaderTypes, FileTypes
<1> QED
  BY <1>1, <1>4, <1>5 DEF ReadData

LEMMA ReadDataTypes == TInv /\ ReadData => TInv'
<1> SUFFICES ASSUME TInv, ReadData PROVE TInv'
  OBVIOUS
<1> DEFINE req == rtable[rindex + 1]
           rest == SubSeq(file, roff + 1, Len(file))
<1>1. file \in Seq(Int) /\ roff \in 0 .. Len(file) /\ roff \in Nat /\ Len(file) \in Nat
  BY DEF TInv, ReaderTypes, FileTypes
<1>2. /\ rpc = "open" /\ rindex < Len(rtable) /\ UNCHANGED <<rpc, fault>> /\ req \in Int
      /\ \/ Returned(0, Lost)
         \/ /\ req \in 1 .. rmax /\ roff + req <= Len(file)
            /\ Returned(req, SubSeq(file, roff + 1, roff + req))
         \/ Returned(Len(rest), rest)
  BY ReadDataCases
<1> HIDE DEF req, rest
<1>3. CASE Returned(0, Lost)
  <2>1. 0 \in Nat /\ roff + 0 <= Len(file) /\ Lost \in Seq(Int)
    BY <1>1 DEF Lost
  <2> QED
    BY <1>2, <1>3, <2>1, ReturnedTypes
<1>4. CASE /\ req \in 1 .. rmax /\ roff + req <= Len(file)
           /\ Returned(req, SubSeq(file, roff + 1, roff + req))
  <2>1. req \in Nat
    BY <1>2, <1>4
  <2>2. SubSeq(file, roff + 1, roff + req) \in Seq(Int)
    BY <1>1, <1>4, <2>1, Part
  <2> QED
    BY <1>2, <1>4, <2>1, <2>2, ReturnedTypes
<1>5. CASE Returned(Len(rest), rest)
  <2>1. rest \in Seq(Int) /\ Len(rest) \in Nat /\ roff + Len(rest) <= Len(file)
    BY <1>1, Rest DEF rest
  <2> QED
    BY <1>2, <1>5, <2>1, ReturnedTypes
<1> QED
  BY <1>2, <1>3, <1>4, <1>5

LEMMA ReadFailsTypes == TInv /\ ReadFails => TInv'
<1> SUFFICES ASSUME TInv, ReadFails PROVE TInv'
  OBVIOUS
<1>1. PICK n \in 0 .. rtable[rindex + 1] - 1 : roff + n <= Len(file) /\ Returned(n, Lost)
  BY DEF ReadFails
<1>2. rtable \in Seq(Int) /\ rindex \in 0 .. Len(rtable)
  BY DEF TInv, ReaderTypes
<1>3. n \in Nat /\ Lost \in Seq(Int)
  <2>1. rindex + 1 \in 1 .. Len(rtable)
    BY <1>2 DEF ReadFails
  <2>2. rtable[rindex + 1] \in Int
    BY <1>2, <2>1
  <2> QED
    BY <2>2 DEF Lost
<1> QED
  BY <1>1, <1>3, ReturnedTypes DEF ReadFails

LEMMA TypesKept == Spec => []TInv
<1>1. Init => TInv
  BY InitTypes
<1>2. TInv /\ [Next]_vars => TInv'
  <2> SUFFICES ASSUME TInv, [Next]_vars PROVE TInv'
    OBVIOUS
  <2>1. CASE UNCHANGED vars
    BY <2>1 DEF vars, TInv, WriterTypes, FileTypes, ReaderTypes
  <2> QED
    BY <2>1, OpenWriteTypes, WriteDataTypes, WriteTypes, WriteFailsTypes, CloseTypes,
       CrashTypes, OpenReadTypes, ReadDataTypes, ReadFailsTypes DEF Next
<1> QED
  BY <1>1, <1>2, PTL DEF Spec

\* The dump's state stays well formed: the table never has more entries than room, and
\* neither place leaves the file, whatever it held and whichever call fails (FileDump.cpp).
THEOREM TypeCorrect == Spec => []TypeOK
<1>1. TInv => TypeOK
  BY DEF TInv, TypeOK, WriterTypes, FileTypes, ReaderTypes, WriterPcs
<1> QED
  BY <1>1, TypesKept, PTL

-----------------------------------------------------------------------------
(* Where the chunks are.                                                    *)

\* Who relies on the file after a step relied on it before.
LEMMA ReliableBefore ==
  ASSUME TInv, [Next]_vars, Reliable'
  PROVE  Reliable
<1>1. fault \in BOOLEAN
  BY DEF TInv
<1>2. (fault => fault') /\ old' = old
  BY <1>1 DEF Next, OpenWrite, WriteData, Write, WriteFails, Close, Crash, OpenRead, ReadData,
     ReadFails, Returned, vars
<1>3. wpc = "dead" => wpc' = wpc
  BY DEF Next, OpenWrite, WriteData, Write, WriteFails, Writing, Close, Crash, OpenRead,
     ReadData, ReadFails, Returned, vars
<1> QED
  BY <1>2, <1>3 DEF Reliable

\* Chunks that are in place stay there when only cells before the first of them, or behind
\* the last, are written.
OthersWritten(at) ==
  /\ file' \in Seq(Int) /\ Len(file') >= Len(file)
  /\ \A i \in 1 .. Len(file) : HdrSize < i /\ i <= at[index] => file'[i] = file[i]

LEMMA CellsKept ==
  ASSUME TInv, NEW at \in Places, InPlace(at), OthersWritten(at)
  PROVE  \A i \in 1 .. index : \A k \in 1 .. Len(log[i]) :
           at[i - 1] + k <= Len(file') /\ file'[at[i - 1] + k] = log[i][k]
<1>1. index \in Nat /\ index <= Count /\ Count \in Nat /\ HdrSize \in Nat
  BY FileDumpAssumption DEF TInv, WriterTypes, HdrSize
<1>2. /\ file \in Seq(Int) /\ Len(file) \in Nat
      /\ file' \in Seq(Int) /\ Len(file') >= Len(file) /\ Len(file') \in Nat
  <2>1. file \in Seq(Int)
    BY DEF TInv, FileTypes
  <2>2. file' \in Seq(Int) /\ Len(file') >= Len(file)
    BY DEF OthersWritten
  <2> QED
    BY <2>1, <2>2
<1>3. ASSUME NEW i \in 1 .. index, NEW k \in 1 .. Len(log[i])
      PROVE  at[i - 1] + k <= Len(file') /\ file'[at[i - 1] + k] = log[i][k]
  <2>1. Len(log[i]) \in Nat
    BY <1>1, ChunkType DEF TInv, WriterTypes, Lost
  <2>2. i \in 0 .. index /\ i - 1 \in 0 .. index /\ i \in 0 .. Count /\ i - 1 \in 0 .. Count
        /\ index \in 0 .. Count
    BY <1>1
  <2>3. at[i - 1] \in Nat /\ at[i] \in Nat /\ at[index] \in Nat
    BY <2>2 DEF Places
  <2>4. HdrSize <= at[i - 1] /\ at[i] <= at[index] /\ at[i] = at[i - 1] + Len(log[i])
    BY <2>2 DEF InPlace
  <2>5. at[i - 1] + k <= Len(file) /\ file[at[i - 1] + k] = log[i][k]
    BY DEF InPlace
  <2> DEFINE p == at[i - 1] + k
  <2>6. p \in 1 .. Len(file) /\ HdrSize < p /\ p <= at[index]
    <3> DEFINE a == at[i - 1]
               b == at[i]
               e == at[index]
               m == Len(log[i])
    <3>1. k \in Nat /\ 1 <= k /\ k <= m
      BY <2>1
    <3>2. /\ a \in Nat /\ b \in Nat /\ e \in Nat /\ m \in Nat
          /\ HdrSize <= a /\ b <= e /\ b = a + m /\ a + k <= Len(file)
      BY <2>1, <2>3, <2>4, <2>5
    <3> HIDE DEF a, b, e, m
    <3>3. a + k \in 1 .. Len(file) /\ HdrSize < a + k /\ a + k <= e
      BY <1>1, <1>2, <3>1, <3>2
    <3> QED
      BY <3>3 DEF a, e
  <2>7. file'[p] = file[p]
    BY <2>6 DEF OthersWritten
  <2> QED
    BY <1>2, <2>3, <2>5, <2>7 DEF OthersWritten
<1> QED
  BY <1>3

LEMMA InPlaceKept ==
  ASSUME TInv, NEW at \in Places, InPlace(at), OthersWritten(at),
         UNCHANGED <<index, log>>
  PROVE  InPlace(at)'
  BY CellsKept DEF InPlace

\* A chunk, or word of one that failed, is entered: its place is behind the others.
LEMMA InPlaceMore ==
  ASSUME TInv, NEW at \in Places, InPlace(at), OthersWritten(at),
         index < Count, NEW c \in Chunks \cup {Lost},
         index' = index + 1, log' = Append(log, c),
         \A k \in 1 .. Len(c) : at[index] + k <= Len(file') /\ file'[at[index] + k] = c[k]
  PROVE  \E more \in Places :
           InPlace(more)' /\ more[index'] = at[index] + Len(c)
<1>1. index \in Nat /\ index <= Count /\ Count \in Nat /\ HdrSize \in Nat /\ Len(log) = index
  BY FileDumpAssumption DEF TInv, WriterTypes, HdrSize
<1>2. Len(c) \in Nat
  BY ChunkType DEF Lost
<1>3. log \in Seq(Chunks \cup {Lost})
  BY DEF TInv, WriterTypes
<1>4. log'[index + 1] = c /\ \A i \in 1 .. index : log'[i] = log[i]
  BY <1>1, <1>3
<1>5. index \in 0 .. Count /\ index + 1 \in 0 .. Count /\ at[index] \in Nat
  BY <1>1 DEF Places
<1>6. PICK more \in Places :
        more = [at EXCEPT ![index + 1] = at[index] + Len(c)]
  <2>1. at[index] + Len(c) \in Nat
    BY <1>2, <1>5
  <2>2. [at EXCEPT ![index + 1] = at[index] + Len(c)] \in Places
    BY <2>1 DEF Places
  <2> QED
    BY <2>2
<1>7. more[index + 1] = at[index] + Len(c) /\ \A i \in 0 .. index : more[i] = at[i]
  BY <1>1, <1>5, <1>6 DEF Places
<1>8. more[0] = HdrSize
  BY <1>1, <1>7 DEF InPlace
<1>9. \A i \in 0 .. index + 1 : HdrSize <= more[i] /\ more[i] <= more[index + 1]
  <2>1. \A i \in 0 .. index : at[i] \in Nat
    BY <1>1 DEF Places
  <2>2. \A i \in 0 .. index : HdrSize <= at[i] /\ at[i] <= at[index]
    BY DEF InPlace
  <2>3. \A i \in 0 .. index + 1 : i \in 0 .. index \/ i = index + 1
    BY <1>1
  <2>4. index \in 0 .. index
    BY <1>1
  <2> QED
    <3> DEFINE a == at[index]
               m == Len(c)
    <3>1. a \in Nat /\ m \in Nat /\ more[index + 1] = a + m /\ HdrSize <= a
      BY <1>2, <1>5, <1>7, <2>2, <2>4
    <3>2. \A i \in 0 .. index : more[i] \in Nat /\ HdrSize <= more[i] /\ more[i] <= a
      BY <1>7, <2>1, <2>2
    <3> HIDE DEF a, m
    <3>3. HdrSize <= a + m /\ a + m <= a + m /\ \A x \in Nat : x <= a => x <= a + m
      BY <1>1, <3>1
    <3> QED
      BY <2>3, <3>1, <3>2, <3>3
<1>10. ASSUME NEW i \in 1 .. index + 1
       PROVE  /\ more[i] = more[i - 1] + Len(log'[i])
              /\ \A k \in 1 .. Len(log'[i]) :
                   more[i - 1] + k <= Len(file') /\ file'[more[i - 1] + k] = log'[i][k]
  <2>1. CASE i = index + 1
    <3>1. i - 1 = index /\ more[i - 1] = at[index] /\ log'[i] = c
      BY <2>1, <1>1, <1>4, <1>7
    <3> QED
      BY <2>1, <3>1, <1>7
  <2>2. CASE i # index + 1
    <3>1. i \in 1 .. index /\ i \in 0 .. index /\ i - 1 \in 0 .. index
      BY <2>2, <1>1
    <3>2. more[i] = at[i] /\ more[i - 1] = at[i - 1] /\ log'[i] = log[i]
      BY <3>1, <1>4, <1>7
    <3>3. at[i] = at[i - 1] + Len(log[i])
      BY <3>1 DEF InPlace
    <3>4. \A k \in 1 .. Len(log[i]) :
            at[i - 1] + k <= Len(file') /\ file'[at[i - 1] + k] = log[i][k]
      BY <3>1, CellsKept
    <3> QED
      BY <3>2, <3>3, <3>4
  <2> QED
    BY <2>1, <2>2
<1>11. InPlace(more)'
  BY <1>8, <1>9, <1>10 DEF InPlace
<1> QED
  BY <1>7, <1>11

LEMMA OpenWriteLaid ==
  ASSUME TInv, NEW at \in Places, NEW w \in 0 .. HdrSize, Laid(at, w), OpenWrite
  PROVE  Laid(at, w)'
<1>1. /\ wpc = "new" /\ index = 0 /\ rpc = "new"
      /\ UNCHANGED <<file, old, table, index, maxSize, out, done, rpc, roff, rtable, rindex,
                     rmax, got, log, fault>>
      /\ \/ woff' = HdrSize /\ wpc' = "ready"
         \/ wpc' = "failed"
  BY DEF OpenWrite, readerVars, TInv, WriterTypes, ReaderTypes
<1>2. InPlace(at)' /\ at[index] = HdrSize
  BY <1>1 DEF Laid, InPlace
<1>3. WriterAt(at)' /\ HeaderNext'
  BY <1>1, <1>2 DEF WriterAt, HeaderNext
<1>4. HeaderTo(w)'
  BY <1>1 DEF Laid, HeaderTo, HeaderPcs, Header
<1>5. ReaderAt(at, w)'
  BY <1>1 DEF ReaderAt
<1> QED
  BY <1>2, <1>3, <1>4, <1>5 DEF Laid

LEMMA WriteDataLaid ==
  ASSUME TInv, NEW at \in Places, NEW w \in 0 .. HdrSize, Laid(at, w),
         NEW size \in 1 .. MaxSize, WriteData(size)
  PROVE  Laid(at, w)'
<1>1. /\ wpc = "ready" /\ wpc' = "data" /\ rpc = "new" /\ index < Count
      /\ out' = ChunkData(index + 1, size) /\ done' = 0
      /\ UNCHANGED <<file, old, woff, table, index, maxSize, rpc, roff, rtable, rindex,
                     rmax, got, log, fault>>
  BY DEF WriteData, StartWrite, readerVars, TInv, ReaderTypes
<1>2. InPlace(at)'
  BY <1>1 DEF Laid, InPlace
<1>3. WriterAt(at)'
  <2>1. index + 1 \in 1 .. Count /\ size \in Nat \ {0} /\ index \in 0 .. Count
    BY <1>1, FileDumpAssumption DEF TInv, WriterTypes
  <2>2. Len(out') = size /\ done' < Len(out')
    BY <1>1, <2>1, ChunkOf
  <2>3. at[index] \in Nat /\ woff = at[index]
    BY <1>1, <2>1 DEF Laid, WriterAt, Places
  <2> QED
    BY <1>1, <2>2, <2>3 DEF WriterAt
<1>4. HeaderTo(w)' /\ HeaderNext'
  BY <1>1 DEF Laid, HeaderTo, HeaderPcs, Header, HeaderNext
<1>5. ReaderAt(at, w)'
  BY <1>1 DEF ReaderAt
<1> QED
  BY <1>2, <1>3, <1>4, <1>5 DEF Laid

LEMMA CloseLaid ==
  ASSUME TInv, NEW at \in Places, NEW w \in 0 .. HdrSize, Laid(at, w), Close
  PROVE  Laid(at, w)'
<1>1. /\ wpc = "ready" /\ wpc' = "hdrSize" /\ rpc = "new"
      /\ woff' = 0 /\ out' = <<HdrSize>> /\ done' = 0
      /\ UNCHANGED <<file, old, table, index, maxSize, rpc, roff, rtable, rindex,
                     rmax, got, log, fault>>
  BY DEF Close, StartWrite, readerVars, TInv, ReaderTypes
<1>2. InPlace(at)' /\ WriterAt(at)' /\ HeaderNext'
  BY <1>1 DEF Laid, InPlace, WriterAt, HeaderNext
<1>3. HeaderTo(w)'
  BY <1>1 DEF Laid, HeaderTo, HeaderPcs, Header
<1>4. ReaderAt(at, w)'
  BY <1>1 DEF ReaderAt
<1> QED
  BY <1>2, <1>3, <1>4 DEF Laid

LEMMA CrashLaid ==
  ASSUME TInv, NEW at \in Places, NEW w \in 0 .. HdrSize, Laid(at, w), Crash
  PROVE  Laid(at, w)'
<1>1. /\ wpc' = "dead" /\ rpc = "new"
      /\ UNCHANGED <<file, old, woff, table, index, maxSize, out, done, rpc, roff, rtable,
                     rindex, rmax, got, log>>
  BY DEF Crash, Writing, writerVars, readerVars, TInv, ReaderTypes
<1>2. InPlace(at)' /\ WriterAt(at)' /\ HeaderNext'
  BY <1>1 DEF Laid, InPlace, WriterAt, HeaderNext
<1>3. HeaderTo(w)'
  BY <1>1 DEF Laid, HeaderTo, HeaderPcs, Header
<1>4. ReaderAt(at, w)'
  BY <1>1 DEF ReaderAt
<1> QED
  BY <1>2, <1>3, <1>4 DEF Laid

\* The chunk in hand grows in the file, behind the chunks that are in place.
LEMMA WriteChunkLaid ==
  ASSUME TInv, NEW at \in Places, NEW w \in 0 .. HdrSize, Laid(at, w),
         Write, wpc = "data"
  PROVE  \E more \in Places : Laid(more, w)'
<1>1. PICK n \in 1 .. Len(out) - done :
       /\ file' = Overwritten(file, woff, SubSeq(out, done + 1, done + n))
       /\ woff' = woff + n
       /\ IF done + n = Len(out)
            THEN Finished(Len(out))
            ELSE done' = done + n /\ UNCHANGED <<wpc, table, index, maxSize, out, log>>
  BY DEF Write
<1>2. /\ UNCHANGED <<old, rpc, roff, rtable, rindex, rmax, got, fault>>
      /\ rpc = "new"
  BY DEF Write, readerVars, TInv, ReaderTypes
<1>3. n \in Nat /\ done + n \in 1 .. Len(out) /\ woff + n \in Nat
  BY <1>1, WriteStep
<1>14. file' \in Seq(Int) /\ Len(file') >= Len(file) /\ Len(file') >= woff + n
  BY <1>1, WriteStep
<1>15. /\ \A k \in 1 .. n : file'[woff + k] = out[done + k]
       /\ \A i \in 1 .. Len(file) : ~(i \in woff + 1 .. woff + n) => file'[i] = file[i]
       /\ \A i \in 1 .. Len(file') :
            ~(i \in woff + 1 .. woff + n) /\ ~(i <= Len(file)) => file'[i] = 0
  BY <1>1, WriteStep
<1>4. /\ file \in Seq(Int) /\ Len(file) \in Nat /\ Len(file') \in Nat /\ woff \in Nat
      /\ Len(out) \in Nat /\ done \in Nat /\ index \in Nat /\ index < Count
  BY <1>14 DEF TInv, WriterTypes, FileTypes
<1>16. Count \in Nat /\ HdrSize \in Nat
  BY FileDumpAssumption DEF HdrSize
<1>5. /\ woff = at[index] + done /\ done < Len(out)
      /\ \A k \in 1 .. done : at[index] + k <= Len(file) /\ file[at[index] + k] = out[k]
  BY DEF Laid, WriterAt
<1>6. PICK b \in Nat : b = at[index] /\ HdrSize <= b
  <2>1. index \in 0 .. Count /\ index \in 0 .. index
    BY <1>4, <1>16
  <2>2. at[index] \in Nat
    BY <2>1 DEF Places
  <2>3. HdrSize <= at[index]
    BY <2>1 DEF Laid, InPlace
  <2> QED
    BY <2>2, <2>3
<1>17. InPlace(at)
  BY DEF Laid
<1>18. woff = b + done /\ done < Len(out)
  BY <1>5, <1>6
<1>7. \A i \in 1 .. Len(file) : i <= woff => file'[i] = file[i]
  <2> SUFFICES ASSUME NEW i \in 1 .. Len(file), i <= woff
               PROVE  file'[i] = file[i]
    OBVIOUS
  <2>1. ~(i \in woff + 1 .. woff + n)
    BY <1>3, <1>4
  <2> QED
    BY <2>1, <1>15
<1>8. \A k \in 1 .. done + n : b + k <= Len(file') /\ file'[b + k] = out[k]
  <2> SUFFICES ASSUME NEW k \in 1 .. done + n
               PROVE  b + k <= Len(file') /\ file'[b + k] = out[k]
    OBVIOUS
  <2>1. CASE k <= done
    <3>1. k \in 1 .. done
      BY <2>1, <1>3, <1>4
    <3>2. b + k <= Len(file) /\ file[b + k] = out[k]
      BY <3>1, <1>5, <1>6
    <3>3. b + k \in 1 .. Len(file) /\ b + k <= woff /\ b + k <= Len(file')
      BY <3>1, <3>2, <1>4, <1>14, <1>18
    <3> QED
      BY <3>2, <3>3, <1>7
  <2>2. CASE ~(k <= done)
    <3>1. k - done \in 1 .. n
      BY <2>2, <1>3, <1>4
    <3>2. file'[woff + (k - done)] = out[done + (k - done)]
      BY <3>1, <1>15
    <3>3. woff + (k - done) = b + k /\ done + (k - done) = k
      BY <1>3, <1>4, <1>18
    <3>4. woff + (k - done) <= Len(file')
      BY <3>1, <1>3, <1>4, <1>14
    <3> QED
      BY <3>2, <3>3, <3>4
  <2> QED
    BY <2>1, <2>2
<1>9. w = 0
  BY DEF Laid, HeaderTo
<1>10. old = <<>> => \A k \in 1 .. HdrSize : (k <= Len(file') => file'[k] = 0)
  <2> SUFFICES ASSUME old = <<>>, NEW k \in 1 .. HdrSize, k <= Len(file')
               PROVE  file'[k] = 0
    OBVIOUS
  <2>1. k \in 1 .. Len(file') /\ ~(k \in woff + 1 .. woff + n) /\ k <= woff
    <3>1. k \in Nat /\ 1 <= k /\ k <= HdrSize
      BY <1>16
    <3>2. k <= woff
      BY <3>1, <1>4, <1>6, <1>16, <1>18
    <3> QED
      BY <3>1, <3>2, <1>3, <1>4
  <2>2. CASE k <= Len(file)
    <3>1. k \in w + 1 .. HdrSize /\ k \in 1 .. Len(file)
      BY <2>2, <1>9, <1>4
    <3>2. file[k] = 0
      BY <2>2, <3>1 DEF Laid, HeaderTo
    <3> QED
      BY <2>1, <3>1, <3>2, <1>7
  <2> QED
    BY <2>1, <2>2, <1>15
<1>13. OthersWritten(at)
  <2>1. \A i \in 1 .. Len(file) : HdrSize < i /\ i <= at[index] => file'[i] = file[i]
    <3>1. \A i \in 1 .. Len(file) : i <= b => i <= woff
      BY <1>4, <1>18
    <3> QED
      BY <3>1, <1>6, <1>7
  <2> QED
    BY <2>1, <1>14 DEF OthersWritten
<1>11. CASE done + n # Len(out)
  <2>1. done' = done + n /\ UNCHANGED <<wpc, table, index, maxSize, out, log>>
    BY <1>1, <1>11
  <2>2. InPlace(at)'
    BY <2>1, <1>13, <1>17, InPlaceKept
  <2>3. WriterAt(at)'
    <3>1. done' < Len(out')
      BY <2>1, <1>3, <1>4, <1>11
    <3>2. woff' = at[index'] + done'
      <4>1. woff + n = b + (done + n)
        BY <1>3, <1>4, <1>18
      <4> QED
        BY <4>1, <2>1, <1>1, <1>6
    <3> QED
      BY <2>1, <3>1, <3>2, <1>6, <1>8 DEF WriterAt
  <2>4. HeaderTo(w)' /\ HeaderNext'
    BY <2>1, <1>2, <1>4, <1>9, <1>10 DEF HeaderTo, HeaderNext, HeaderPcs
  <2>5. ReaderAt(at, w)'
    BY <1>2 DEF ReaderAt
  <2>6. Laid(at, w)'
    BY <2>2, <2>3, <2>4, <2>5 DEF Laid
  <2> QED
    BY <2>6
<1>12. CASE done + n = Len(out)
  <2>1. Entered(Len(out)) /\ wpc' = "ready"
    BY <1>1, <1>12 DEF Finished, StartWrite
  <2>2. out \in Chunks /\ Len(out) > 0
    <3>1. PICK size \in 1 .. MaxSize : out = ChunkData(index + 1, size)
      BY DEF TInv, WriterTypes
    <3>2. index + 1 \in 1 .. Count
      BY <1>4, <1>16
    <3> QED
      BY <3>1, <3>2, ChunkOf, FileDumpAssumption
  <2>3. index' = index + 1 /\ log' = Append(log, out)
    BY <2>1, <2>2 DEF Entered
  <2>4. PICK more \in Places :
          InPlace(more)' /\ more[index'] = at[index] + Len(out)
    BY <2>2, <2>3, <1>4, <1>6, <1>8, <1>12, <1>13, <1>17, InPlaceMore
  <2>5. WriterAt(more)'
    <3>1. woff' = more[index']
      <4>1. woff + n = b + Len(out)
        BY <1>3, <1>4, <1>12, <1>18
      <4> QED
        BY <4>1, <2>4, <1>1, <1>6
    <3> QED
      BY <2>1, <3>1 DEF WriterAt
  <2>6. HeaderTo(w)' /\ HeaderNext'
    BY <2>1, <1>2, <1>4, <1>9, <1>10 DEF HeaderTo, HeaderNext, HeaderPcs
  <2>7. ReaderAt(more, w)'
    BY <1>2 DEF ReaderAt
  <2>8. Laid(more, w)'
    BY <2>4, <2>5, <2>6, <2>7 DEF Laid
  <2> QED
    BY <2>8
<1> QED
  BY <1>11, <1>12

\* A part of the header is written: the header is there up to the writer's new place.
LEMMA WriteHeaderLaid ==
  ASSUME TInv, NEW at \in Places, NEW w \in 0 .. HdrSize, Laid(at, w), Write, wpc \in HeaderPcs
  PROVE  \E v \in 0 .. HdrSize : Laid(at, v)'
<1>1. PICK n \in 1 .. Len(out) - done :
       /\ file' = Overwritten(file, woff, SubSeq(out, done + 1, done + n))
       /\ woff' = woff + n
       /\ IF done + n = Len(out)
            THEN Finished(Len(out))
            ELSE done' = done + n /\ UNCHANGED <<wpc, table, index, maxSize, out, log>>
  BY DEF Write
<1>2. /\ UNCHANGED <<old, rpc, roff, rtable, rindex, rmax, got, fault>>
      /\ rpc = "new"
  BY DEF Write, readerVars, TInv, ReaderTypes, HeaderPcs
<1>3. n \in Nat /\ done + n \in 1 .. Len(out) /\ woff + n \in Nat
  BY <1>1, WriteStep
<1>4. file' \in Seq(Int) /\ Len(file') >= Len(file) /\ Len(file') >= woff + n
  BY <1>1, WriteStep
<1>5. /\ \A k \in 1 .. n : file'[woff + k] = out[done + k]
      /\ \A i \in 1 .. Len(file) : ~(i \in woff + 1 .. woff + n) => file'[i] = file[i]
      /\ \A i \in 1 .. Len(file') :
           ~(i \in woff + 1 .. woff + n) /\ ~(i <= Len(file)) => file'[i] = 0
  BY <1>1, WriteStep
<1>6. /\ file \in Seq(Int) /\ Len(file) \in Nat /\ Len(file') \in Nat /\ woff \in Nat
      /\ Len(out) \in Nat /\ done \in Nat
  BY <1>4 DEF TInv, WriterTypes, FileTypes
<1>7. Count \in Nat \ {0} /\ HdrSize \in Nat /\ HdrSize = 2 + Count
  BY FileDumpAssumption DEF HdrSize
<1>8. w = woff /\ w <= Len(file)
  BY DEF Laid, HeaderTo
<1>9. Len(table) = Count
  BY <1>7, SeqOfFunction DEF TInv, WriterTypes
<1>10. /\ wpc = "hdrSize" => woff = 0 /\ done = 0 /\ out = <<HdrSize>>
       /\ wpc = "maxDataSize" => woff = 1 /\ done = 0 /\ out = <<maxSize>>
       /\ wpc = "sizeTable" => woff = 2 + done /\ done < Count /\ out = table
  BY DEF Laid, HeaderNext
<1>11. /\ UNCHANGED <<table, index, maxSize, log>>
       /\ wpc' \in HeaderPcs \cup {"closed"}
  BY <1>1 DEF HeaderPcs, Finished, StartWrite
\* The cells are those of the header, and none behind it.
<1>12. woff + n \in 0 .. HdrSize /\ \A k \in 1 .. n : out[done + k] = Header[woff + k]
  <2>1. CASE wpc = "hdrSize"
    <3>1. Len(out) = 1 /\ out[1] = HdrSize /\ woff = 0 /\ done = 0
      BY <2>1, <1>10
    <3>2. n = 1
      BY <3>1, <1>3
    <3>3. Header[1] = HdrSize
      BY <1>7 DEF Header
    <3> QED
      BY <3>1, <3>2, <3>3, <1>7
  <2>2. CASE wpc = "maxDataSize"
    <3>1. Len(out) = 1 /\ out[1] = maxSize /\ woff = 1 /\ done = 0
      BY <2>2, <1>10
    <3>2. n = 1
      BY <3>1, <1>3
    <3>3. Header[2] = maxSize
      BY <1>7 DEF Header
    <3> QED
      BY <3>1, <3>2, <3>3, <1>7
  <2>3. CASE wpc = "sizeTable"
    <3>1. Len(out) = Count /\ out = table /\ woff = 2 + done
      BY <2>3, <1>9, <1>10
    <3>2. woff + n \in 0 .. HdrSize
      BY <3>1, <1>3, <1>6, <1>7
    <3>3. ASSUME NEW k \in 1 .. n PROVE out[done + k] = Header[woff + k]
      <4> DEFINE p == woff + k
      <4>1. p \in 1 .. HdrSize /\ p # 1 /\ p # 2 /\ p - 2 = done + k
        BY <3>1, <3>2, <1>3, <1>6, <1>7
      <4> HIDE DEF p
      <4>2. Header[p] = table[p - 2]
        BY <4>1 DEF Header
      <4>3. out[done + k] = Header[p]
        BY <3>1, <4>1, <4>2
      <4> QED
        BY <4>3 DEF p
    <3> QED
      BY <3>2, <3>3
  <2> QED
    BY <2>1, <2>2, <2>3 DEF HeaderPcs
<1>13. Header' = Header
  BY <1>11 DEF Header
<1>14. \A k \in 1 .. woff + n : file'[k] = Header[k]
  <2> SUFFICES ASSUME NEW k \in 1 .. woff + n PROVE file'[k] = Header[k]
    OBVIOUS
  <2>1. CASE k <= woff
    <3>1. k \in 1 .. Len(file) /\ ~(k \in woff + 1 .. woff + n) /\ k \in 1 .. w
      BY <2>1, <1>3, <1>6, <1>8
    <3>2. file[k] = Header[k]
      BY <3>1 DEF Laid, HeaderTo
    <3> QED
      BY <3>1, <3>2, <1>5
  <2>2. CASE ~(k <= woff)
    <3>1. k - woff \in 1 .. n /\ woff + (k - woff) = k
      BY <2>2, <1>3, <1>6
    <3>2. file'[woff + (k - woff)] = out[done + (k - woff)]
      BY <3>1, <1>5
    <3>3. out[done + (k - woff)] = Header[woff + (k - woff)]
      BY <3>1, <1>12
    <3> QED
      BY <3>1, <3>2, <3>3
  <2> QED
    BY <2>1, <2>2
<1>15. old = <<>> => \A k \in woff + n + 1 .. HdrSize : (k <= Len(file') => file'[k] = 0)
  <2> SUFFICES ASSUME old = <<>>, NEW k \in woff + n + 1 .. HdrSize, k <= Len(file')
               PROVE  file'[k] = 0
    OBVIOUS
  <2>1. k \in 1 .. Len(file') /\ ~(k \in woff + 1 .. woff + n) /\ k \in w + 1 .. HdrSize
    BY <1>3, <1>6, <1>7, <1>8
  <2>2. CASE k <= Len(file)
    <3>1. k \in 1 .. Len(file)
      BY <2>1, <2>2, <1>6
    <3>2. file[k] = 0
      BY <2>1, <2>2 DEF Laid, HeaderTo
    <3> QED
      BY <2>1, <3>1, <3>2, <1>5
  <2> QED
    BY <2>1, <2>2, <1>5
<1>16. InPlace(at)'
  <2>1. \A i \in 1 .. Len(file) : HdrSize < i => ~(i \in woff + 1 .. woff + n)
    BY <1>3, <1>6, <1>7, <1>12
  <2>2. OthersWritten(at)
    BY <2>1, <1>4, <1>5 DEF OthersWritten
  <2> QED
    BY <2>2, <1>11, InPlaceKept DEF Laid
<1>17. HeaderNext' /\ (wpc' \in HeaderPcs => woff' = woff + n)
                   /\ (wpc' = "closed" => woff + n = HdrSize)
  <2>1. CASE wpc = "hdrSize"
    <3>1. Len(out) = 1 /\ woff = 0 /\ done = 0
      BY <2>1, <1>10
    <3>2. n = 1
      BY <3>1, <1>3
    <3>3. Finished(Len(out)) /\ woff' = 1
      BY <3>1, <3>2, <1>1
    <3> QED
      BY <2>1, <3>1, <3>2, <3>3 DEF Finished, StartWrite, HeaderNext
  <2>2. CASE wpc = "maxDataSize"
    <3>1. Len(out) = 1 /\ woff = 1 /\ done = 0
      BY <2>2, <1>10
    <3>2. n = 1
      BY <3>1, <1>3
    <3>3. Finished(Len(out)) /\ woff' = 2
      BY <3>1, <3>2, <1>1
    <3> QED
      BY <2>2, <3>1, <3>2, <3>3, <1>7 DEF Finished, StartWrite, HeaderNext
  <2>3. CASE wpc = "sizeTable"
    <3>1. Len(out) = Count /\ out = table /\ woff = 2 + done
      BY <2>3, <1>9, <1>10
    <3>2. CASE done + n = Len(out)
      <4>1. wpc' = "closed" /\ woff + n = HdrSize
        BY <2>3, <3>1, <3>2, <1>1, <1>3, <1>6, <1>7 DEF Finished, StartWrite
      <4> QED
        BY <4>1 DEF HeaderNext, HeaderPcs
    <3>3. CASE done + n # Len(out)
      <4>1. done' = done + n /\ wpc' = wpc /\ out' = out /\ woff' = woff + n
        BY <3>3, <1>1
      <4>2. woff + n = 2 + (done + n) /\ done + n < Count
        BY <3>1, <3>3, <1>3, <1>6, <1>7
      <4> QED
        BY <2>3, <3>1, <4>1, <4>2, <1>11 DEF HeaderNext
    <3> QED
      BY <3>2, <3>3
  <2> QED
    BY <2>1, <2>2, <2>3 DEF HeaderPcs
<1>18. PICK v \in 0 .. HdrSize : v = woff + n
  BY <1>12
<1>19. HeaderTo(v)'
  BY <1>2, <1>4, <1>11, <1>13, <1>14, <1>15, <1>17, <1>18 DEF HeaderTo, HeaderPcs
<1>20. WriterAt(at)' /\ ReaderAt(at, v)'
  BY <1>2, <1>11 DEF WriterAt, ReaderAt, HeaderPcs
<1> QED
  BY <1>16, <1>17, <1>19, <1>20 DEF Laid

\* A chunk that cannot be written is Lost: nothing of it is in the file.
LEMMA WriteFailsLaid ==
  ASSUME TInv, NEW at \in Places, NEW w \in 0 .. HdrSize, Laid(at, w), WriteFails, Reliable'
  PROVE  \E more \in Places : Laid(more, w)'
<1>1. wpc = "data" /\ done = 0 /\ Entered(-1) /\ wpc' = "ready"
  <2>1. done \in Nat
    BY DEF TInv, WriterTypes
  <2>2. wpc = "data" /\ done = 0
    <3>1. CASE HalfDone
      <4>1. ~fault'
        BY <3>1 DEF Reliable
      <4>2. ~(wpc # "data" \/ done > 0)
        BY <4>1 DEF WriteFails
      <4> QED
        BY <4>2, <2>1
    <3>2. CASE ~HalfDone
      BY <3>2 DEF WriteFails
    <3> QED
      BY <3>1, <3>2
  <2> QED
    BY <2>2 DEF WriteFails, Finished, StartWrite
<1>2. /\ UNCHANGED <<file, old, woff, rpc, roff, rtable, rindex, rmax, got>>
      /\ rpc = "new"
  BY <1>1 DEF WriteFails, readerVars, TInv, ReaderTypes
<1>3. index' = index + 1 /\ log' = Append(log, Lost) /\ index < Count
  BY <1>1 DEF Entered, TInv, WriterTypes
<1>4. InPlace(at) /\ OthersWritten(at)
  <2>1. file \in Seq(Int) /\ Len(file) >= Len(file)
    BY DEF TInv, FileTypes
  <2> QED
    BY <2>1, <1>2 DEF OthersWritten, Laid
<1>5. Len(Lost) = 0 /\ Lost \in Chunks \cup {Lost} /\ at[index] \in Nat
  <2>1. index \in 0 .. Count
    BY DEF TInv, WriterTypes
  <2> QED
    BY <2>1 DEF Lost, Places
<1>6. PICK more \in Places : InPlace(more)' /\ more[index'] = at[index] + Len(Lost)
  BY <1>3, <1>4, <1>5, InPlaceMore
<1>7. woff' = more[index']
  <2>1. woff = at[index] + 0
    BY <1>1 DEF Laid, WriterAt
  <2> QED
    BY <2>1, <1>2, <1>5, <1>6
<1>8. WriterAt(more)' /\ HeaderNext'
  BY <1>1, <1>7 DEF WriterAt, HeaderNext
<1>9. HeaderTo(w)'
  <2>1. w = 0
    BY <1>1 DEF Laid, HeaderTo
  <2> QED
    BY <2>1, <1>1, <1>2 DEF Laid, HeaderTo, HeaderPcs
<1>10. ReaderAt(more, w)'
  BY <1>2 DEF ReaderAt
<1> QED
  BY <1>6, <1>8, <1>9, <1>10 DEF Laid

\* The reader sees the header as far as there is one.
LEMMA OpenReadLaid ==
  ASSUME TInv, NEW at \in Places, NEW w \in 0 .. HdrSize, Laid(at, w), OpenRead, Reliable
  PROVE  Laid(at, w)'
<1>1. /\ UNCHANGED <<file, old, wpc, woff, table, index, maxSize, out, done, rindex, log, got>>
      /\ wpc \in {"closed", "dead"} /\ rindex = 0
  BY DEF OpenRead, writerVars, TInv, ReaderTypes
<1>2. InPlace(at)' /\ WriterAt(at)' /\ HeaderNext'
  BY <1>1 DEF Laid, InPlace, WriterAt, HeaderNext
<1>3. HeaderTo(w)'
  BY <1>1 DEF Laid, HeaderTo, HeaderPcs, Header
<1>4. /\ \A k \in 1 .. w : file[k] = Header[k]
      /\ wpc = "closed" => w = HdrSize /\ HdrSize <= Len(file)
      /\ \A k \in w + 1 .. HdrSize : (k <= Len(file) => file[k] = 0)
  <2>1. CASE wpc = "closed"
    <3>1. w = HdrSize /\ w <= Len(file) /\ HdrSize \in Nat
      BY <2>1, FileDumpAssumption DEF Laid, HeaderTo, HdrSize
    <3>2. \A k \in w + 1 .. HdrSize : FALSE
      BY <3>1
    <3> QED
      BY <3>1, <3>2 DEF Laid, HeaderTo
  <2>2. CASE wpc = "dead"
    BY <2>2 DEF Laid, HeaderTo, Reliable
  <2> QED
    BY <2>1, <2>2, <1>1
<1>5. Count \in Nat \ {0} /\ HdrSize \in Nat /\ HdrSize = 2 + Count /\ w \in Nat
  BY FileDumpAssumption DEF HdrSize
<1>6. /\ file \in Seq(Int) /\ Len(file) \in Nat
      /\ Header[1] = HdrSize /\ Header[2] = maxSize
      /\ \A k \in 1 .. Count : Header[k + 2] = table[k]
  <2>1. \A k \in 1 .. Count : k + 2 \in 1 .. HdrSize /\ k + 2 # 1 /\ k + 2 # 2 /\ k + 2 - 2 = k
    BY <1>5
  <2>2. 1 \in 1 .. HdrSize /\ 2 \in 1 .. HdrSize
    BY <1>5
  <2> QED
    BY <2>1, <2>2 DEF Header, TInv, FileTypes
<1>7. at[0] = HdrSize
  BY DEF Laid, InPlace
<1>8. ReaderAt(at, w)'
  <2>1. CASE /\ Readable
             /\ rmax' = file[2]
             /\ rtable' = SubSeq(file, 3, file[1])
             /\ roff' = file[1]
             /\ rpc' = IF file[2] # 0 THEN "open" ELSE "refused"
             /\ UNCHANGED fault
    <3>1. /\ file[1] \in 3 .. Len(file) /\ Len(rtable') = file[1] - 2
          /\ \A k \in 1 .. file[1] - 2 : rtable'[k] = file[k + 2]
      BY <2>1, <1>6, ReadHeader
    <3>2. file[1] = HdrSize
      <4>1. CASE w >= 1
        BY <4>1, <1>4, <1>5, <1>6
      <4>2. CASE w = 0
        <5>1. 1 \in w + 1 .. HdrSize /\ 1 <= Len(file)
          BY <4>2, <3>1, <1>5, <1>6
        <5> QED
          BY <5>1, <3>1, <1>4
      <4> QED
        BY <4>1, <4>2, <1>5
    <3>3. HdrSize <= Len(file) /\ Len(rtable') = Count
          /\ \A k \in 1 .. Count : rtable'[k] = file[k + 2]
      BY <3>1, <3>2, <1>5, <1>6
    <3>4. \A k \in 1 .. Count : rtable'[k] = IF k + 2 <= w THEN table[k] ELSE 0
      <4> SUFFICES ASSUME NEW k \in 1 .. Count
                   PROVE  rtable'[k] = IF k + 2 <= w THEN table[k] ELSE 0
        OBVIOUS
      <4>1. CASE k + 2 <= w
        <5>1. k + 2 \in 1 .. w
          BY <4>1, <1>5
        <5> QED
          BY <4>1, <5>1, <3>3, <1>4, <1>6
      <4>2. CASE ~(k + 2 <= w)
        <5>1. k + 2 \in w + 1 .. HdrSize /\ k + 2 <= Len(file)
          BY <4>2, <3>3, <1>5, <1>6
        <5> QED
          BY <4>2, <5>1, <3>3, <1>4
      <4> QED
        BY <4>1, <4>2
    <3>5. file[2] # 0 => file[2] = maxSize
      <4>1. CASE w >= 2
        BY <4>1, <1>4, <1>5, <1>6
      <4>2. CASE w < 2
        <5>1. 2 \in w + 1 .. HdrSize /\ 2 <= Len(file)
          BY <4>2, <3>1, <1>5, <1>6
        <5> QED
          BY <5>1, <1>4
      <4> QED
        BY <4>1, <4>2, <1>5
    <3>6. wpc = "closed" => file[2] = maxSize
      BY <1>4, <1>5, <1>6
    <3>7. roff' = at[rindex']
      BY <2>1, <3>2, <1>1, <1>7
    <3>8. \A i \in 1 .. rindex' : FALSE
      BY <1>1
    <3> QED
      BY <2>1, <3>3, <3>4, <3>5, <3>6, <3>7, <3>8, <1>1 DEF ReaderAt
  <2>2. CASE ~Readable /\ rpc' = "refused"
    <3>1. wpc = "closed" => Readable
      <4> SUFFICES ASSUME wpc = "closed" PROVE Readable
        OBVIOUS
      <4>1. 1 \in 1 .. w /\ w = HdrSize /\ HdrSize <= Len(file)
        BY <1>4, <1>5
      <4>2. file[1] = HdrSize
        BY <4>1, <1>4, <1>6
      <4> QED
        BY <4>1, <4>2, <1>5, <1>6 DEF Readable
    <3> QED
      BY <2>2, <3>1, <1>1 DEF ReaderAt
  <2>3. CASE rpc' = "refused" /\ fault' = TRUE
    BY <2>3 DEF ReaderAt
  <2> QED
    BY <2>1, <2>2, <2>3 DEF OpenRead
<1> QED
  BY <1>2, <1>3, <1>8 DEF Laid

\* A sequence is what it holds.
LEMMA SameSeq ==
  ASSUME NEW s \in Seq(Int), NEW t \in Seq(Int), Len(s) = Len(t),
         \A k \in 1 .. Len(t) : s[k] = t[k]
  PROVE  s = t
  BY SeqEqual

\* The chunk readData is to return next
NextChunk(w) ==
  IF rindex < index /\ rindex + 3 <= w THEN log[rindex + 1] ELSE Lost

\* readData returns the next chunk as it was written, or, where the table is cut off or the
\* chunk failed, none.
LEMMA ReadDataReturns ==
  ASSUME TInv, NEW at \in Places, NEW w \in 0 .. HdrSize, Laid(at, w), ReadData
  PROVE  LET c == NextChunk(w) IN
         /\ Returned(Len(c), c) /\ UNCHANGED <<rpc, fault>> /\ rpc = "open"
         /\ rindex < Count
<1> DEFINE req == rtable[rindex + 1]
           rest == SubSeq(file, roff + 1, Len(file))
           i == rindex + 1
<1>1. /\ rpc = "open" /\ rindex < Len(rtable) /\ UNCHANGED <<rpc, fault>>
      /\ req \in Int
      /\ \/ (req > rmax \/ req <= 0) /\ Returned(0, Lost)
         \/ /\ req \in 1 .. rmax /\ roff + req <= Len(file)
            /\ Returned(req, SubSeq(file, roff + 1, roff + req))
         \/ /\ req \in 1 .. rmax /\ roff + req > Len(file)
            /\ Returned(Len(rest), rest)
  BY ReadDataCases
<1> HIDE DEF rest
<1>2. /\ Len(rtable) = Count /\ rmax = maxSize
      /\ \A k \in 1 .. Count : rtable[k] = IF k + 2 <= w THEN table[k] ELSE 0
      /\ rindex <= index /\ rindex + 2 <= w => roff = at[rindex]
  BY <1>1 DEF Laid, ReaderAt
<1>3. /\ Count \in Nat /\ HdrSize \in Nat /\ w \in Nat /\ index \in Nat /\ index <= Count
      /\ rindex \in Nat /\ roff \in Nat /\ Len(file) \in Nat /\ maxSize \in Nat
      /\ file \in Seq(Int)
  BY FileDumpAssumption DEF HdrSize, TInv, WriterTypes, ReaderTypes, FileTypes
<1>4. i \in 1 .. Count /\ rindex < Count
  BY <1>1, <1>2, <1>3
<1>5. req = IF i + 2 <= w THEN table[i] ELSE 0
  BY <1>2, <1>4
<1>6. table[i] = IF i > index THEN 0 ELSE IF log[i] = Lost THEN -1 ELSE Len(log[i])
  BY <1>4 DEF TInv, WriterTypes
<1>7. CASE ~(rindex < index /\ rindex + 3 <= w)
  <2>1. NextChunk(w) = Lost /\ Len(Lost) = 0
    BY <1>7 DEF NextChunk, Lost
  <2>2. i > index \/ ~(i + 2 <= w)
    BY <1>3, <1>7
  <2>3. req = 0
    BY <2>2, <1>5, <1>6
  <2>4. Returned(0, Lost)
    BY <2>3, <1>1, <1>2, <1>3
  <2> QED
    BY <2>1, <2>4, <1>1, <1>4
<1>8. CASE rindex < index /\ rindex + 3 <= w
  <2>1. /\ NextChunk(w) = log[i] /\ i \in 1 .. index /\ ~(i > index) /\ i + 2 <= w
        /\ rindex \in 0 .. index /\ i - 1 = rindex /\ rindex + 2 <= w
    BY <1>3, <1>8 DEF NextChunk
  <2>2. log[i] \in Chunks \cup {Lost} /\ Len(log[i]) <= maxSize
    BY <2>1 DEF TInv, WriterTypes
  <2>3. roff = at[rindex] /\ at[i] = at[rindex] + Len(log[i])
        /\ \A k \in 1 .. Len(log[i]) :
             at[rindex] + k <= Len(file) /\ file[at[rindex] + k] = log[i][k]
    <3>1. roff = at[rindex]
      BY <2>1, <1>2, <1>3
    <3> HIDE DEF i
    <3>2. /\ at[i] = at[i - 1] + Len(log[i])
          /\ \A k \in 1 .. Len(log[i]) :
               at[i - 1] + k <= Len(file) /\ file[at[i - 1] + k] = log[i][k]
      BY <2>1 DEF Laid, InPlace
    <3> QED
      BY <2>1, <3>1, <3>2
  <2>4. CASE log[i] = Lost
    <3>1. req = -1
      BY <2>1, <2>4, <1>5, <1>6
    <3>2. Returned(0, Lost)
      BY <3>1, <1>1, <1>2, <1>3
    <3>3. Len(Lost) = 0
      BY DEF Lost
    <3> QED
      BY <2>1, <2>4, <3>2, <3>3, <1>1, <1>4
  <2>5. CASE log[i] # Lost
    <3> DEFINE c == log[i]
               n == Len(log[i])
    <3>1. c \in Seq(Int) /\ n \in Nat /\ n >= 1 /\ n <= maxSize
      BY <2>2, <2>5, <1>3, ChunkType, FileDumpAssumption
    <3>2. req = n
      BY <2>1, <2>5, <1>5, <1>6
    <3>3. \A k \in 1 .. n : roff + k <= Len(file) /\ file[roff + k] = c[k]
      BY <2>3
    <3> HIDE DEF c, n, req, i
    <3>4. n \in 1 .. n /\ roff + n <= Len(file)
      BY <3>1, <3>3
    <3>5. req \in 1 .. rmax /\ roff + req <= Len(file)
      BY <3>1, <3>2, <3>4, <1>2, <1>3
    <3>6. Returned(n, SubSeq(file, roff + 1, roff + n))
      BY <3>1, <3>2, <3>4, <3>5, <1>1, <1>2, <1>3
    <3>7. SubSeq(file, roff + 1, roff + n) = c
      <4>1. /\ SubSeq(file, roff + 1, roff + n) \in Seq(Int)
            /\ Len(SubSeq(file, roff + 1, roff + n)) = n
            /\ \A k \in 1 .. n : SubSeq(file, roff + 1, roff + n)[k] = file[roff + k]
        BY <3>1, <3>4, <1>3, Part
      <4>2. Len(c) = n
        BY DEF c, n
      <4> QED
        BY <3>1, <3>3, <4>1, <4>2, SameSeq
    <3>8. Returned(Len(c), c) /\ c = NextChunk(w)
      BY <2>1, <3>6, <3>7 DEF c, n, i
    <3> QED
      BY <3>8, <1>1, <1>4
  <2> QED
    BY <2>4, <2>5
<1> QED
  BY <1>7, <1>8

LEMMA ReadDataLaid ==
  ASSUME TInv, NEW at \in Places, NEW w \in 0 .. HdrSize, Laid(at, w), ReadData
  PROVE  Laid(at, w)'
<1> DEFINE c == NextChunk(w)
<1>1. Returned(Len(c), c) /\ UNCHANGED <<rpc, fault>> /\ rpc = "open" /\ rindex < Count
  BY ReadDataReturns
<1>2. /\ UNCHANGED <<file, old, wpc, woff, table, index, maxSize, out, done, rtable, rmax, log>>
      /\ rindex' = rindex + 1 /\ roff' = roff + Len(c) /\ got' = Append(got, c)
  BY <1>1 DEF Returned, writerVars
<1>3. InPlace(at)' /\ WriterAt(at)' /\ HeaderNext'
  BY <1>2 DEF Laid, InPlace, WriterAt, HeaderNext
<1>4. HeaderTo(w)'
  BY <1>2 DEF Laid, HeaderTo, HeaderPcs, Header
<1>5. /\ index \in Nat /\ rindex \in Nat /\ w \in Nat /\ Count \in Nat /\ index <= Count
      /\ HdrSize = 2 + Count
  BY FileDumpAssumption DEF TInv, WriterTypes, ReaderTypes, HdrSize
<1>6. got \in Seq(Seq(Int)) /\ Len(got) = rindex
  BY DEF TInv, ReaderTypes
<1>7. /\ Len(rtable) = Count /\ rmax = maxSize
      /\ \A k \in 1 .. Count : rtable[k] = IF k + 2 <= w THEN table[k] ELSE 0
      /\ rindex <= index /\ rindex + 2 <= w => roff = at[rindex]
      /\ wpc = "closed" =>
           \A i \in 1 .. rindex : got[i] = IF i <= index THEN log[i] ELSE Lost
  BY <1>1 DEF Laid, ReaderAt
<1>8. rindex' <= index' /\ rindex' + 2 <= w => roff' = at[rindex']
  <2> SUFFICES ASSUME rindex' <= index', rindex' + 2 <= w PROVE roff' = at[rindex']
    OBVIOUS
  <2>1. rindex < index /\ rindex + 3 <= w /\ rindex <= index /\ rindex + 2 <= w
        /\ rindex + 1 \in 1 .. index /\ rindex + 1 - 1 = rindex
    BY <1>2, <1>5
  <2>2. c = log[rindex + 1]
    BY <2>1 DEF NextChunk
  <2>3. at[rindex + 1] = at[rindex] + Len(log[rindex + 1])
    <3> DEFINE i == rindex + 1
    <3>1. i \in 1 .. index /\ i - 1 = rindex
      BY <2>1, <1>5
    <3> HIDE DEF i
    <3>2. at[i] = at[i - 1] + Len(log[i])
      BY <3>1 DEF Laid, InPlace
    <3>3. at[i] = at[rindex] + Len(log[i])
      BY <3>1, <3>2
    <3> QED
      BY <3>3 DEF i
  <2> QED
    BY <2>1, <2>2, <2>3, <1>2, <1>7
<1>9. wpc = "closed" =>
        \A i \in 1 .. rindex + 1 : got'[i] = IF i <= index THEN log[i] ELSE Lost
  <2> SUFFICES ASSUME wpc = "closed", NEW i \in 1 .. rindex + 1
               PROVE  got'[i] = IF i <= index THEN log[i] ELSE Lost
    OBVIOUS
  <2>1. CASE i = rindex + 1
    <3>1. got'[i] = c
      BY <2>1, <1>2, <1>6
    <3>2. w = HdrSize
      BY DEF Laid, HeaderTo
    <3>3. rindex + 3 <= w
      BY <3>2, <1>1, <1>5
    <3>4. rindex < index <=> i <= index
      BY <2>1, <1>5
    <3> QED
      BY <2>1, <3>1, <3>3, <3>4 DEF NextChunk
  <2>2. CASE i # rindex + 1
    <3>1. i \in 1 .. rindex
      BY <2>2, <1>5
    <3>2. got'[i] = got[i]
      BY <3>1, <1>2, <1>6
    <3> QED
      BY <3>1, <3>2, <1>7
  <2> QED
    BY <2>1, <2>2
<1>10. ReaderAt(at, w)'
  BY <1>1, <1>2, <1>7, <1>8, <1>9 DEF ReaderAt
<1> QED
  BY <1>3, <1>4, <1>10 DEF Laid

LEMMA ReadFailsLaid ==
  ASSUME TInv, NEW at \in Places, NEW w \in 0 .. HdrSize, Laid(at, w), ReadFails, Reliable
  PROVE  Laid(at, w)'
<1>1. /\ UNCHANGED <<file, old, wpc, woff, table, index, maxSize, out, done, log>>
      /\ rpc' = "failed"
  BY DEF ReadFails, Returned, writerVars, Reliable
<1>2. InPlace(at)' /\ WriterAt(at)' /\ HeaderNext'
  BY <1>1 DEF Laid, InPlace, WriterAt, HeaderNext
<1>3. HeaderTo(w)'
  BY <1>1 DEF Laid, HeaderTo, HeaderPcs, Header
<1>4. ReaderAt(at, w)'
  BY <1>1 DEF ReaderAt
<1> QED
  BY <1>2, <1>3, <1>4 DEF Laid

LEMMA InitLaid == Init => LInv
<1> SUFFICES ASSUME Init PROVE \E at \in Places, w \in 0 .. HdrSize : Laid(at, w)
  BY DEF LInv
<1>1. HdrSize \in Nat /\ 0 \in 0 .. HdrSize
  BY FileDumpAssumption DEF HdrSize
<1>2. PICK at \in Places : at = [i \in 0 .. Count |-> HdrSize]
  BY <1>1 DEF Places
<1>3. at[0] = HdrSize
  BY <1>2, FileDumpAssumption
<1>4. InPlace(at)
  BY <1>1, <1>3 DEF Init, InPlace
<1>5. HeaderTo(0)
  <2>1. file \in Seq(Int) /\ 0 <= Len(file) /\ Len(<<>>) = 0
    BY FileDumpAssumption DEF Init
  <2>2. file = <<>> => \A k \in 0 + 1 .. HdrSize : ~(k <= Len(file))
    BY <2>1, <1>1
  <2> QED
    BY <2>1, <2>2, <1>1 DEF Init, HeaderTo, HeaderPcs
<1>6. WriterAt(at) /\ HeaderNext /\ ReaderAt(at, 0)
  BY DEF Init, WriterAt, HeaderNext, ReaderAt
<1> QED
  BY <1>1, <1>4, <1>5, <1>6 DEF Laid

LEMMA LaidKept == Spec => [](TInv /\ LInv)
<1>1. TInv /\ TInv' /\ LInv /\ [Next]_vars => LInv'
  <2> SUFFICES ASSUME TInv, LInv, [Next]_vars, Reliable'
               PROVE  \E at \in Places, w \in 0 .. HdrSize : Laid(at, w)'
    BY DEF LInv
  <2>1. Reliable
    BY ReliableBefore
  <2>2. PICK at \in Places, w \in 0 .. HdrSize : Laid(at, w)
    BY <2>1 DEF LInv
  <2>3. CASE OpenWrite
    BY <2>2, <2>3, OpenWriteLaid
  <2>4. ASSUME NEW size \in 1 .. MaxSize, WriteData(size)
        PROVE  \E at2 \in Places, w2 \in 0 .. HdrSize : Laid(at2, w2)'
    BY <2>2, <2>4, WriteDataLaid
  <2>5. CASE Write
    <3>1. wpc = "data" \/ wpc \in HeaderPcs
      BY <2>5 DEF Write, Writing, HeaderPcs
    <3> QED
      BY <2>2, <2>5, <3>1, WriteChunkLaid, WriteHeaderLaid
  <2>6. CASE WriteFails
    BY <2>2, <2>6, WriteFailsLaid
  <2>7. CASE Close
    BY <2>2, <2>7, CloseLaid
  <2>8. CASE Crash
    BY <2>2, <2>8, CrashLaid
  <2>9. CASE OpenRead
    BY <2>1, <2>2, <2>9, OpenReadLaid
  <2>10. CASE ReadData
    BY <2>2, <2>10, ReadDataLaid
  <2>11. CASE ReadFails
    BY <2>1, <2>2, <2>11, ReadFailsLaid
  <2>12. CASE UNCHANGED vars
    <3>1. UNCHANGED <<file, old, wpc, woff, table, index, maxSize, out, done, rpc, roff,
                      rtable, rindex, rmax, log, got, fault>>
      BY <2>12 DEF vars
    <3>2. InPlace(at)' /\ WriterAt(at)' /\ HeaderNext'
      BY <2>2, <3>1 DEF Laid, InPlace, WriterAt, HeaderNext
    <3>3. HeaderTo(w)'
      BY <2>2, <3>1 DEF Laid, HeaderTo, HeaderPcs, Header
    <3>4. ReaderAt(at, w)'
      BY <2>2, <3>1 DEF Laid, ReaderAt
    <3> QED
      BY <3>2, <3>3, <3>4 DEF Laid
  <2> QED
    BY <2>3, <2>4, <2>5, <2>6, <2>7, <2>8, <2>9, <2>10, <2>11, <2>12 DEF Next
<1> QED
  BY <1>1, InitLaid, TypesKept, PTL DEF Spec

-----------------------------------------------------------------------------
(* The theorems.                                                            *)

\* After close the reader finds every chunk, unless a call failed; for a reader that stops
\* after an error.
THEOREM AllFound == ~ReadsOn => (Spec => []Complete)
<1> SUFFICES ASSUME ~ReadsOn PROVE Spec => []Complete
  OBVIOUS
<1>1. TInv /\ LInv => Complete
  <2> SUFFICES ASSUME TInv, LInv, wpc = "closed", ~fault
               PROVE  /\ rpc = "refused" => \A i \in 1 .. Len(log) : log[i] = Lost
                      /\ (rpc = "open" /\ rindex = Len(rtable)) =>
                           /\ Len(got) = Count
                           /\ \A i \in 1 .. Count :
                                got[i] = IF i <= Len(log) THEN log[i] ELSE Lost
    BY DEF Complete
  <2>1. Reliable
    BY DEF Reliable
  <2>2. PICK at \in Places, w \in 0 .. HdrSize : Laid(at, w)
    BY <2>1 DEF LInv
  <2>3. ASSUME rpc = "refused", NEW i \in 1 .. Len(log) PROVE log[i] = Lost
    <3>1. maxSize = 0
      BY <2>2, <2>3 DEF Laid, ReaderAt
    <3>2. i \in 1 .. index /\ log[i] \in Chunks \cup {Lost}
      BY DEF TInv, WriterTypes
    <3>3. Len(log[i]) <= 0
      BY <3>1, <3>2 DEF TInv, WriterTypes
    <3>4. \A c \in Chunks : ~(Len(c) <= 0)
      BY ChunkType, FileDumpAssumption
    <3> QED
      BY <3>2, <3>3, <3>4
  <2>4. ASSUME rpc = "open", rindex = Len(rtable)
        PROVE  /\ Len(got) = Count
               /\ \A i \in 1 .. Count : got[i] = IF i <= Len(log) THEN log[i] ELSE Lost
    <3>1. Len(rtable) = Count
          /\ \A i \in 1 .. rindex : got[i] = IF i <= index THEN log[i] ELSE Lost
      BY <2>2, <2>4 DEF Laid, ReaderAt
    <3>2. Len(got) = rindex /\ Len(log) = index
      BY DEF TInv, WriterTypes, ReaderTypes
    <3> QED
      BY <2>4, <3>1, <3>2
  <2> QED
    BY <2>3, <2>4
<1> QED
  BY <1>1, LaidKept, PTL

\* A chunk enters the log when it is written, or has failed; nobody has read yet.
LEMMA FinishedPuts ==
  ASSUME TInv, Writing, NEW sz \in {-1, Len(out)}, Finished(sz), UNCHANGED got
  PROVE  Log!Put \/ UNCHANGED <<log, got>>
<1>1. CASE wpc = "data"
  <2>1. PICK size \in 1 .. MaxSize : out = ChunkData(index + 1, size)
    BY <1>1 DEF TInv, WriterTypes
  <2>2. index + 1 \in 1 .. Count
    BY <1>1, FileDumpAssumption DEF TInv, WriterTypes
  <2>3. out \in Chunks
    BY <2>1, <2>2, ChunkOf
  <2>4. \E c \in Chunks \cup {Lost} : log' = Append(log, c)
    BY <1>1, <2>3 DEF Finished, Entered
  <2>5. got = <<>>
    <3>1. Len(got) = 0 /\ got \in Seq(Seq(Int))
      BY <1>1 DEF TInv, ReaderTypes
    <3> QED
      BY <3>1, EmptySeq
  <2> QED
    BY <2>4, <2>5 DEF Log!Put
<1>2. CASE wpc # "data"
  BY <1>2 DEF Finished
<1> QED
  BY <1>1, <1>2

\* A dump is a log of chunks: its reader gets them as they were written, in their order, or
\* word that one cannot be had, at whatever call the writer died.  A new file, or a writer
\* that lives; no write that fails half done; a reader that stops after an error.
THEOREM DumpIsLog == ~CrashOverOld /\ ~HalfDone /\ ~ReadsOn => (Spec => ImplementsChunkLog)
<1> SUFFICES ASSUME ~CrashOverOld, ~HalfDone, ~ReadsOn
             PROVE  Spec => ImplementsChunkLog
  OBVIOUS
<1> DEFINE DeadNew == wpc = "dead" => old = <<>>
<1>1. Init => DeadNew /\ Log!Init
  BY DEF Init, Log!Init
<1>2. TInv /\ DeadNew /\ [Next]_vars => DeadNew'
  BY DEF TInv, Next, OpenWrite, WriteData, StartWrite, Write, WriteFails, Finished, Close, Crash,
     OpenRead, ReadData, ReadFails, Returned, vars
<1>3. TInv /\ LInv /\ DeadNew /\ [Next]_vars => [Log!Put \/ Log!Take]_<<log, got>>
  <2> SUFFICES ASSUME TInv, LInv, DeadNew, [Next]_vars
               PROVE  Log!Put \/ Log!Take \/ UNCHANGED <<log, got>>
    OBVIOUS
  <2>1. CASE Write
    <3>1. CASE UNCHANGED log
      BY <2>1, <3>1 DEF Write, readerVars
    <3>2. CASE Finished(Len(out))
      BY <2>1, <3>2, FinishedPuts DEF Write, readerVars
    <3> QED
      BY <2>1, <3>1, <3>2 DEF Write
  <2>2. CASE WriteFails
    BY <2>2, FinishedPuts DEF WriteFails, readerVars
  <2>3. CASE ReadData
    <3>1. Reliable
      BY DEF Reliable
    <3>2. PICK at \in Places, w \in 0 .. HdrSize : Laid(at, w)
      BY <3>1 DEF LInv
    <3>3. got' = Append(got, NextChunk(w)) /\ log' = log
      BY <2>3, <3>2, ReadDataReturns DEF Returned
    <3>4. Len(got) = rindex /\ Len(log) = index
      BY DEF TInv, WriterTypes, ReaderTypes
    <3>5. CASE NextChunk(w) = Lost
      BY <3>3, <3>5 DEF Log!Take
    <3>6. CASE NextChunk(w) # Lost
      BY <3>3, <3>4, <3>6 DEF NextChunk, Log!Take
    <3> QED
      BY <3>5, <3>6
  <2>4. CASE ReadFails
    BY <2>4 DEF ReadFails, Returned, Log!Take
  <2>5. CASE OpenWrite \/ Close \/ Crash \/ OpenRead \/ UNCHANGED vars
             \/ \E size \in 1 .. MaxSize : WriteData(size)
    BY <2>5 DEF OpenWrite, Close, Crash, OpenRead, WriteData, readerVars, vars
  <2> QED
    BY <2>1, <2>2, <2>3, <2>4, <2>5 DEF Next
<1> QED
  BY <1>1, <1>2, <1>3, LaidKept, PTL DEF Spec, ImplementsChunkLog, Log!Spec
=============================================================================
