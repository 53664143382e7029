-------------------------- MODULE CntBufferProofs ---------------------------
(***************************************************************************)
(* Proofs about CntBuffer, for every size, work space, set of threads and  *)
(* of chunks: the counters keep describing one layout, a running callback  *)
(* has the buffer to itself, and the buffer is a FIFO of bytes wherever    *)
(* its memcpy moves overlapping bytes the way it was meant to.             *)
(***************************************************************************)
EXTENDS CntBuffer, SequenceTheorems, TLAPS

\* The inductive invariant: TypeOK alone is not one, since an offset stays inside the
\* buffer only while it agrees with the other three counters.
IInv == TypeOK /\ Layout /\ CallbackHasData

\* Nobody runs a callback while the lock is free.
LEMMA NoCallback ==
  ASSUME IInv, lock = NoOne
  PROVE  \A t \in Threads : pc[t] # "callback"
  BY CntBufferAssumption DEF IInv, CallbackHasData

\* The sums of addData do not wrap where the chunk is accepted; line 58's sz wraps
\* below zero and line 66's sum brings it back.
LEMMA Sums ==
  ASSUME IInv, NEW sz \in Nat, sz + BufSz < Word
  PROVE  /\ Fits(sz) <=> dataAvailable + sz <= BufSz
         /\ freeAtEnd >= sz =>
              /\ Wrap(writeOffset + sz) = writeOffset + sz
              /\ Wrap(freeAtEnd - sz) = freeAtEnd - sz
         /\ freeAtEnd < sz /\ Fits(sz) =>
              /\ Wrap(writeOffset + Wrap(sz - readOffset)) = dataAvailable + sz
              /\ Wrap(freeAtEnd - Wrap(sz - readOffset)) = BufSz - (dataAvailable + sz)
  BY CntBufferAssumption DEF IInv, TypeOK, Layout, Fits, Wrap

\* What a chunk is: a length, bounded by the caller, and a byte for each position.
LEMMA ChunkType ==
  ASSUME NEW chunk \in Chunks
  PROVE  /\ Len(chunk) \in Nat
         /\ Len(chunk) + BufSz < Word
         /\ \A i \in 1 .. Len(chunk) : chunk[i] \in Bytes
  BY CntBufferAssumption

-----------------------------------------------------------------------------
\* A buffer that is just built is in order.
LEMMA InitInv == Init => IInv
  BY CntBufferAssumption
  DEF Init, IInv, TypeOK, Layout, CallbackHasData, Offsets

\* addData keeps the buffer in order.
LEMMA AddInv ==
  ASSUME IInv, NEW t \in Threads, NEW chunk \in Chunks,
         AddAtEnd(t, chunk) \/ AddAtFront(t, chunk) \/ Refuse(t, chunk)
  PROVE  IInv'
<1>1. Len(chunk) \in Nat /\ Len(chunk) + BufSz < Word
                         /\ \A i \in 1 .. Len(chunk) : chunk[i] \in Bytes
  BY ChunkType
<1>2. lock = NoOne /\ UNCHANGED <<lock, pc, processSz>>
  BY DEF AddAtEnd, AddAtFront, Refuse, Enter
<1>3. CallbackHasData'
  BY <1>2, NoCallback DEF CallbackHasData
<1>4. CASE AddAtEnd(t, chunk)
  <2>1. writeOffset' = writeOffset + Len(chunk) /\ freeAtEnd' = freeAtEnd - Len(chunk)
    BY <1>1, <1>4, Sums DEF AddAtEnd
  <2>2. buf' \in [Offsets -> Bytes]
    BY <1>1, <1>4, CntBufferAssumption
    DEF AddAtEnd, Stored, Offsets, IInv, TypeOK, Layout
  <2>3. /\ dataAvailable' = dataAvailable + Len(chunk)
        /\ readOffset' = readOffset
        /\ freeAtEnd >= Len(chunk)
        /\ added' = TRUE
    BY <1>4 DEF AddAtEnd
  <2>4. Layout' /\ writeOffset' \in 0 .. BufSz /\ freeAtEnd' \in 0 .. BufSz
                /\ dataAvailable' \in 0 .. BufSz
    BY <1>1, <2>1, <2>3, CntBufferAssumption DEF IInv, TypeOK, Layout
  <2> QED
    BY <1>2, <1>3, <2>2, <2>3, <2>4 DEF IInv, TypeOK
<1>5. CASE AddAtFront(t, chunk)
  <2>1. /\ writeOffset' = dataAvailable + Len(chunk)
        /\ freeAtEnd' = BufSz - (dataAvailable + Len(chunk))
        /\ dataAvailable + Len(chunk) <= BufSz
    BY <1>1, <1>5, Sums DEF AddAtFront
  <2>2. Moved(buf) \in [Offsets -> Bytes]
    <3>1. freeAtEnd < Len(chunk) /\ dataAvailable + Len(chunk) <= BufSz
      BY <1>1, <1>5, <2>1 DEF AddAtFront
    <3>2. readOffset \in Nat \ {0}
      BY <1>1, <3>1, CntBufferAssumption DEF IInv, TypeOK, Layout
    <3>3. ASSUME NEW i \in Offsets, i < dataAvailable
          PROVE  dataAvailable + ((i - dataAvailable) % readOffset) \in Offsets
      <4> DEFINE m == (i - dataAvailable) % readOffset
      <4>1. m \in 0 .. readOffset - 1
        BY <3>2 DEF Offsets, IInv, TypeOK
      <4> HIDE DEF m
      <4>2. dataAvailable + m \in Offsets
        BY <4>1, <3>2, CntBufferAssumption DEF Offsets, IInv, TypeOK, Layout
      <4> QED
        BY <4>2 DEF m
    <3>4. ASSUME NEW i \in Offsets, i < dataAvailable
          PROVE  readOffset + i \in Offsets
      BY <3>4, CntBufferAssumption DEF Offsets, IInv, TypeOK, Layout
    <3>5. ASSUME NEW i \in Offsets
          PROVE  Moved(buf)[i] \in Bytes
      <4>1. buf \in [Offsets -> Bytes]
        BY DEF IInv, TypeOK
      <4>2. CASE i >= dataAvailable
        BY <4>1, <4>2 DEF Moved
      <4>3. CASE ~(i >= dataAvailable) /\ CopyBackward
        <5>1. i < dataAvailable
          BY <4>3 DEF Offsets, IInv, TypeOK
        <5> QED
          BY <3>3, <4>1, <4>3, <5>1 DEF Moved
      <4>4. CASE ~(i >= dataAvailable) /\ ~CopyBackward
        <5>1. i < dataAvailable
          BY <4>4 DEF Offsets, IInv, TypeOK
        <5> QED
          BY <3>4, <4>1, <4>4, <5>1 DEF Moved
      <4> QED
        BY <4>2, <4>3, <4>4
    <3> QED
      BY <3>5 DEF Moved
  <2>3. buf' \in [Offsets -> Bytes]
    BY <1>1, <1>5, <2>2, CntBufferAssumption
    DEF AddAtFront, Stored, Offsets, IInv, TypeOK
  <2> QED
    BY <1>1, <1>2, <1>3, <1>5, <2>1, <2>3, CntBufferAssumption
    DEF AddAtFront, IInv, TypeOK, Layout
<1>6. CASE Refuse(t, chunk)
  BY <1>3, <1>6 DEF Refuse, IInv, TypeOK, Layout
<1> QED
  BY <1>4, <1>5, <1>6

\* getData keeps the buffer in order: the callback's share is counted under the lock.
LEMMA GetInv ==
  ASSUME IInv, NEW t \in Threads,
         GetData(t) \/ Callback(t) \/ \E n \in 0 .. BufSz : Processed(t, n)
  PROVE  IInv'
<1>1. CASE GetData(t)
  BY <1>1 DEF GetData, IInv, TypeOK, Layout, CallbackHasData
<1>2. CASE Callback(t)
  <2>1. UNCHANGED <<buf, writeOffset, readOffset, dataAvailable, freeAtEnd, added>>
    BY <1>2 DEF Callback
  <2>2. WorkSpace \in Nat \ {0}
    BY CntBufferAssumption DEF WorkSpace
  <2>3. /\ processSz' = dataAvailable - WorkSpace + 1
        /\ \/ /\ processSz' > 0
              /\ pc' = [pc EXCEPT ![t] = "callback"]
              /\ lock' = t
           \/ /\ pc' = [pc EXCEPT ![t] = "idle"]
              /\ lock' = lock
    BY <1>2 DEF Callback, getAvailable
  <2>4. lock = NoOne /\ \A u \in Threads : pc[u] # "callback"
    BY <1>2, NoCallback DEF Callback
  <2>5. TypeOK' /\ Layout'
    BY <2>1, <2>2, <2>3, CntBufferAssumption DEF IInv, TypeOK, Layout
  <2>6. CallbackHasData'
    BY <2>1, <2>2, <2>3, <2>4, CntBufferAssumption DEF IInv, TypeOK, CallbackHasData
  <2> QED
    BY <2>5, <2>6 DEF IInv
<1>3. CASE \E n \in 0 .. BufSz : Processed(t, n)
  <2>1. PICK n \in 0 .. BufSz : Processed(t, n)
    BY <1>3
  <2>2. WorkSpace \in Nat \ {0}
    BY CntBufferAssumption DEF WorkSpace
  <2>3. lock = t /\ n <= dataAvailable
    BY <2>1, <2>2, CntBufferAssumption DEF Processed, IInv, TypeOK, CallbackHasData
  <2>4. TypeOK' /\ Layout'
    BY <2>1, <2>3, CntBufferAssumption DEF Processed, IInv, TypeOK, Layout
  <2>5. CallbackHasData'
    BY <2>1, <2>3, CntBufferAssumption DEF Processed, IInv, TypeOK, CallbackHasData
  <2> QED
    BY <2>4, <2>5 DEF IInv
<1> QED
  BY <1>1, <1>2, <1>3

\* Every step keeps the buffer in order.
LEMMA NextInv == IInv /\ [Next]_vars => IInv'
<1> SUFFICES ASSUME IInv, [Next]_vars PROVE IInv'
  OBVIOUS
<1>1. CASE Next
  BY <1>1, AddInv, GetInv DEF Next
<1>2. CASE UNCHANGED vars
  BY <1>2 DEF vars, IInv, TypeOK, Layout, CallbackHasData
<1> QED
  BY <1>1, <1>2

\* The counters describe one layout in every state, and a running callback has the
\* lock and the data it was promised, whatever the sizes and the number of threads.
THEOREM BufferInOrder == Spec => [](TypeOK /\ Layout /\ CallbackHasData)
<1>1. IInv => TypeOK /\ Layout /\ CallbackHasData
  BY DEF IInv
<1> QED
  BY <1>1, InitInv, NextInv, PTL DEF Spec

\* The four counters stay between 0 and the buffer's size, although the code lets one of
\* the terms it adds to two of them be negative.
COROLLARY TypeCorrect == Spec => []TypeOK
<1>1. TypeOK /\ Layout /\ CallbackHasData => TypeOK
  OBVIOUS
<1> QED
  BY <1>1, BufferInOrder, PTL

\* What getData shows a callback is in the buffer, although getData looked at
\* m_dataAvailable before it locked.
COROLLARY DataForCallback == Spec => []CallbackHasData
<1>1. TypeOK /\ Layout /\ CallbackHasData => CallbackHasData
  OBVIOUS
<1> QED
  BY <1>1, BufferInOrder, PTL

-----------------------------------------------------------------------------
\* While a callback runs, the bytes it was shown stay put.
THEOREM WindowIsStable == Spec => WindowStable
<1> DEFINE Stable ==
      \A t \in Threads : pc[t] = "callback" =>
        \A i \in readOffset .. readOffset + processSz - 1 : (buf')[i] = buf[i]
<1>1. IInv /\ [Next]_vars => [Stable]_vars
  <2> SUFFICES ASSUME IInv, Next, NEW t \in Threads, pc[t] = "callback"
               PROVE  buf' = buf
    OBVIOUS
  <2>1. lock # NoOne
    BY CntBufferAssumption DEF IInv, CallbackHasData
  <2> QED
    BY <2>1 DEF Next, AddAtEnd, AddAtFront, Refuse, Enter, GetData, Callback, Processed
<1>2. Spec => []IInv
  BY InitInv, NextInv, PTL DEF Spec
<1> QED
  BY <1>1, <1>2, PTL DEF Spec, WindowStable
-----------------------------------------------------------------------------
\* The bytes of a stretch of memory are a sequence.
LEMMA StretchSeq ==
  ASSUME NEW m \in [Offsets -> Bytes], NEW r \in Nat, NEW n \in Nat, r + n <= BufSz
  PROVE  LET s == [i \in 1 .. n |-> m[r + i - 1]]
         IN /\ s \in Seq(Bytes)
            /\ Len(s) = n
            /\ \A i \in 1 .. n : s[i] = m[r + i - 1]
<1>1. \A i \in 1 .. n : r + i - 1 \in Offsets
  BY CntBufferAssumption DEF Offsets
<1> QED
  BY <1>1

\* In a layout the data ends inside the buffer.
LEMMA DataInside ==
  ASSUME NEW r \in 0 .. BufSz, NEW d \in 0 .. BufSz,
         NEW w \in 0 .. BufSz, NEW e \in 0 .. BufSz,
         w = r + d, w + e = BufSz
  PROVE  r \in Nat /\ d \in Nat /\ r + d <= BufSz
  BY CntBufferAssumption

\* The unprocessed bytes are one, before a step ...
LEMMA UnprocessedSeq ==
  ASSUME IInv
  PROVE  /\ Unprocessed \in Seq(Bytes)
         /\ Len(Unprocessed) = dataAvailable
         /\ \A i \in 1 .. dataAvailable : Unprocessed[i] = buf[readOffset + i - 1]
<1>1. /\ buf \in [Offsets -> Bytes] /\ readOffset \in Nat /\ dataAvailable \in Nat
      /\ readOffset + dataAvailable <= BufSz
  BY CntBufferAssumption DEF IInv, TypeOK, Layout
<1> QED
  BY <1>1, StretchSeq DEF Unprocessed

\* ... and after it.
LEMMA NextUnprocessedSeq ==
  ASSUME IInv'
  PROVE  /\ Unprocessed' \in Seq(Bytes)
         /\ Len(Unprocessed') = dataAvailable'
         /\ \A i \in 1 .. dataAvailable' :
              (Unprocessed')[i] = (buf')[readOffset' + i - 1]
<1>1. buf' \in [Offsets -> Bytes]
  BY DEF IInv, TypeOK, Offsets
<1>2. /\ readOffset' \in 0 .. BufSz /\ dataAvailable' \in 0 .. BufSz
      /\ freeAtEnd' \in 0 .. BufSz /\ writeOffset' \in 0 .. BufSz
      /\ writeOffset' = readOffset' + dataAvailable'
      /\ writeOffset' + freeAtEnd' = BufSz
  BY DEF IInv, TypeOK, Layout
<1>3. /\ readOffset' \in Nat /\ dataAvailable' \in Nat
      /\ readOffset' + dataAvailable' <= BufSz
  BY <1>2, DataInside
<1> QED
  BY <1>1, <1>3, StretchSeq DEF Unprocessed

\* The chunk is stored right behind the bytes that were there, so it follows them.
LEMMA AppendAtEnd ==
  ASSUME IInv, IInv', NEW t \in Threads, NEW chunk \in Chunks, AddAtEnd(t, chunk)
  PROVE  Unprocessed' = Unprocessed \o chunk
<1>1. /\ chunk \in Seq(Bytes) /\ Len(chunk) \in Nat
      /\ dataAvailable \in Nat /\ readOffset \in Nat
  BY CntBufferAssumption DEF IInv, TypeOK
<1>2. /\ dataAvailable' = dataAvailable + Len(chunk)
      /\ readOffset' = readOffset
      /\ buf' = Stored(buf, writeOffset, chunk)
      /\ writeOffset = readOffset + dataAvailable
  BY DEF AddAtEnd, IInv, Layout
<1>3. /\ Unprocessed \in Seq(Bytes) /\ Len(Unprocessed) = dataAvailable
      /\ Unprocessed' \in Seq(Bytes) /\ Len(Unprocessed') = dataAvailable + Len(chunk)
      /\ \A i \in 1 .. dataAvailable : Unprocessed[i] = buf[readOffset + i - 1]
      /\ \A i \in 1 .. dataAvailable + Len(chunk) :
           (Unprocessed')[i] = (buf')[readOffset + i - 1]
  BY <1>2, UnprocessedSeq, NextUnprocessedSeq
<1>4. \A i \in 1 .. dataAvailable + Len(chunk) : readOffset + i - 1 \in Offsets
  BY <1>1, <1>2, CntBufferAssumption DEF IInv, TypeOK, Layout, Offsets
<1>5. /\ Unprocessed \o chunk \in Seq(Bytes)
      /\ Len(Unprocessed \o chunk) = dataAvailable + Len(chunk)
      /\ \A i \in 1 .. dataAvailable + Len(chunk) : (Unprocessed \o chunk)[i] =
           IF i <= dataAvailable THEN Unprocessed[i] ELSE chunk[i - dataAvailable]
  BY <1>1, <1>3, ConcatProperties
<1>6. ASSUME NEW i \in 1 .. dataAvailable + Len(chunk)
      PROVE  (Unprocessed')[i] = (Unprocessed \o chunk)[i]
  <2>1. CASE i <= dataAvailable
    <3>1. (buf')[readOffset + i - 1] = buf[readOffset + i - 1]
      BY <1>1, <1>2, <1>4, <2>1 DEF Stored
    <3> QED
      BY <1>1, <1>3, <1>5, <2>1, <3>1
  <2>2. CASE i > dataAvailable
    <3>1. (buf')[readOffset + i - 1] = chunk[i - dataAvailable]
      BY <1>1, <1>2, <1>4, <2>2 DEF Stored
    <3> QED
      BY <1>1, <1>3, <1>5, <2>2, <3>1
  <2>3. i <= dataAvailable \/ i > dataAvailable
    BY <1>1
  <2> QED
    BY <2>1, <2>2, <2>3
<1> QED
  BY <1>3, <1>5, <1>6, SeqEqual

\* Moving the bytes to the front first makes no difference to their order.
LEMMA AppendAtFront ==
  ASSUME IInv, IInv', ~CopyBackward,
         NEW t \in Threads, NEW chunk \in Chunks, AddAtFront(t, chunk)
  PROVE  Unprocessed' = Unprocessed \o chunk
<1>1. /\ chunk \in Seq(Bytes) /\ Len(chunk) \in Nat
      /\ dataAvailable \in Nat /\ readOffset \in Nat
  BY CntBufferAssumption DEF IInv, TypeOK
<1>2. /\ dataAvailable' = dataAvailable + Len(chunk)
      /\ readOffset' = 0
      /\ buf' = Stored(Moved(buf), dataAvailable, chunk)
      /\ dataAvailable' \in 0 .. BufSz
      /\ BufSz \in Nat
  BY CntBufferAssumption DEF AddAtFront, IInv, TypeOK
<1>3. /\ Unprocessed \in Seq(Bytes) /\ Len(Unprocessed) = dataAvailable
      /\ Unprocessed' \in Seq(Bytes) /\ Len(Unprocessed') = dataAvailable + Len(chunk)
      /\ \A i \in 1 .. dataAvailable : Unprocessed[i] = buf[readOffset + i - 1]
      /\ \A i \in 1 .. dataAvailable + Len(chunk) : (Unprocessed')[i] = (buf')[0 + i - 1]
  BY <1>2, UnprocessedSeq, NextUnprocessedSeq
<1>4. \A i \in 1 .. dataAvailable + Len(chunk) : i - 1 \in Offsets /\ 0 + i - 1 = i - 1
  BY <1>1, <1>2 DEF Offsets
<1>5. /\ Unprocessed \o chunk \in Seq(Bytes)
      /\ Len(Unprocessed \o chunk) = dataAvailable + Len(chunk)
      /\ \A i \in 1 .. dataAvailable + Len(chunk) : (Unprocessed \o chunk)[i] =
           IF i <= dataAvailable THEN Unprocessed[i] ELSE chunk[i - dataAvailable]
  BY <1>1, <1>3, ConcatProperties
<1>6. ASSUME NEW i \in 1 .. dataAvailable + Len(chunk)
      PROVE  (Unprocessed')[i] = (Unprocessed \o chunk)[i]
  <2>1. CASE i <= dataAvailable
    <3>1. Moved(buf)[i - 1] = buf[readOffset + i - 1]
      BY <1>1, <1>4, <2>1 DEF Moved
    <3>2. (buf')[i - 1] = Moved(buf)[i - 1]
      BY <1>1, <1>2, <1>4, <2>1 DEF Stored
    <3> QED
      BY <1>1, <1>3, <1>4, <1>5, <2>1, <3>1, <3>2
  <2>2. CASE i > dataAvailable
    <3>1. (buf')[i - 1] = chunk[i - dataAvailable]
      BY <1>1, <1>2, <1>4, <2>2 DEF Stored
    <3> QED
      BY <1>1, <1>3, <1>4, <1>5, <2>2, <3>1
  <2>3. i <= dataAvailable \/ i > dataAvailable
    BY <1>1
  <2> QED
    BY <2>1, <2>2, <2>3
<1> QED
  BY <1>3, <1>5, <1>6, SeqEqual

\* Processing n bytes drops the n oldest.
LEMMA DropProcessed ==
  ASSUME IInv, IInv', NEW t \in Threads, NEW n \in Nat, Processed(t, n)
  PROVE  /\ n <= dataAvailable
         /\ Unprocessed' = SubSeq(Unprocessed, n + 1, dataAvailable)
<1>1. WorkSpace \in Nat \ {0}
  BY CntBufferAssumption DEF WorkSpace
<1>2. n <= dataAvailable /\ dataAvailable \in Nat /\ readOffset \in Nat
  BY <1>1, CntBufferAssumption DEF Processed, IInv, TypeOK, CallbackHasData
<1>3. /\ dataAvailable' = dataAvailable - n
      /\ readOffset' = readOffset + n
      /\ buf' = buf
  BY DEF Processed
<1>4. /\ Unprocessed \in Seq(Bytes) /\ Len(Unprocessed) = dataAvailable
      /\ Unprocessed' \in Seq(Bytes) /\ Len(Unprocessed') = dataAvailable - n
      /\ \A i \in 1 .. dataAvailable : Unprocessed[i] = buf[readOffset + i - 1]
      /\ \A i \in 1 .. dataAvailable - n : (Unprocessed')[i] = buf[readOffset + n + i - 1]
  BY <1>3, UnprocessedSeq, NextUnprocessedSeq
<1>5. ASSUME NEW i \in 1 .. dataAvailable - n
      PROVE  (Unprocessed')[i] = Unprocessed[n + 1 + i - 1]
  <2>1. n + i \in 1 .. dataAvailable /\ n + 1 + i - 1 = n + i
    BY <1>2
  <2>2. readOffset + (n + i) - 1 = readOffset + n + i - 1
    BY <1>2
  <2> QED
    BY <1>4, <2>1, <2>2
<1>6. LET s == SubSeq(Unprocessed, n + 1, dataAvailable)
      IN /\ s \in Seq(Bytes)
         /\ Len(s) = dataAvailable - n
         /\ \A i \in 1 .. dataAvailable - n : s[i] = Unprocessed[n + 1 + i - 1]
  <2>1. \A i \in n + 1 .. dataAvailable : Unprocessed[i] \in Bytes
    BY <1>2, <1>4, ElementOfSeq
  <2>2. n + 1 \in Int /\ dataAvailable \in Int /\ dataAvailable - (n + 1) + 1 = dataAvailable - n
    BY <1>2
  <2> QED
    BY <1>2, <2>1, <2>2, SubSeqProperties
<1> QED
  BY <1>2, <1>4, <1>5, <1>6, SeqEqual

-----------------------------------------------------------------------------
\* Each step of the buffer is a step of the FIFO or none.
LEMMA FifoStep ==
  ASSUME IInv, IInv', ~CopyBackward, [Next]_vars
  PROVE  [Fifo!Next]_<<Unprocessed, added>>
<1>1. ASSUME NEW t \in Threads, NEW chunk \in Chunks,
             AddAtEnd(t, chunk) \/ AddAtFront(t, chunk) \/ Refuse(t, chunk)
      PROVE  Fifo!Offer(chunk)
  <2>1. Len(chunk) \in Nat /\ Len(chunk) + BufSz < Word
    BY ChunkType
  <2>2. Len(Unprocessed) = dataAvailable
    BY UnprocessedSeq
  <2>3. freeAtEnd >= Len(chunk) => dataAvailable + Len(chunk) <= BufSz
    BY <2>1, CntBufferAssumption DEF IInv, TypeOK, Layout
  <2>4. Fits(Len(chunk)) <=> dataAvailable + Len(chunk) <= BufSz
    BY <2>1, Sums
  <2>5. CASE AddAtEnd(t, chunk)
    BY <2>2, <2>3, <2>5, AppendAtEnd DEF Fifo!Offer, AddAtEnd
  <2>6. CASE AddAtFront(t, chunk)
    BY <2>2, <2>4, <2>6, AppendAtFront DEF Fifo!Offer, AddAtFront
  <2>7. CASE Refuse(t, chunk)
    BY <2>2, <2>4, <2>7 DEF Fifo!Offer, Refuse, Unprocessed
  <2> QED
    BY <1>1, <2>5, <2>6, <2>7
<1>2. ASSUME NEW t \in Threads, NEW n \in 0 .. BufSz, Processed(t, n)
      PROVE  Fifo!Next \/ UNCHANGED <<Unprocessed, added>>
  <2>1. /\ n <= dataAvailable
        /\ Unprocessed' = SubSeq(Unprocessed, n + 1, dataAvailable)
        /\ added' = added
    <3>1. n \in Nat
      BY CntBufferAssumption
    <3>2. added' = added
      BY <1>2 DEF Processed
    <3> QED
      BY <1>2, <3>1, <3>2, DropProcessed
  <2>2. Unprocessed \in Seq(Bytes) /\ Len(Unprocessed) = dataAvailable
    BY UnprocessedSeq
  <2>3. CASE n = 0
    <3>1. SubSeq(Unprocessed, 1, Len(Unprocessed)) = Unprocessed
      BY <2>2
    <3> QED
      BY <2>1, <2>2, <2>3, <3>1
  <2>4. CASE n # 0
    <3>1. n \in 1 .. Len(Unprocessed)
      BY <2>1, <2>2, <2>4
    <3>2. Fifo!Process(n)
      BY <2>1, <2>2 DEF Fifo!Process
    <3> QED
      BY <3>1, <3>2 DEF Fifo!Next
  <2> QED
    BY <2>3, <2>4
<1>3. ASSUME NEW t \in Threads, GetData(t) \/ Callback(t)
      PROVE  UNCHANGED <<Unprocessed, added>>
  BY <1>3 DEF GetData, Callback, Unprocessed
<1>4. ASSUME UNCHANGED vars
      PROVE  UNCHANGED <<Unprocessed, added>>
  BY <1>4 DEF vars, Unprocessed
<1> QED
  BY <1>1, <1>2, <1>3, <1>4 DEF Next, Fifo!Next

\* Where memcpy moves overlapping bytes the way the code means it to, a cntBuffer of
\* any size is a FIFO of bytes that refuses a chunk only when it does not fit.
THEOREM BufferIsFifo == ~CopyBackward => (Spec => ImplementsFifo)
<1> SUFFICES ASSUME ~CopyBackward PROVE Spec => ImplementsFifo
  OBVIOUS
<1>1. Init => Fifo!Init
  BY DEF Init, Fifo!Init, Unprocessed
<1>2. IInv /\ IInv' /\ [Next]_vars => [Fifo!Next]_<<Unprocessed, added>>
  BY FifoStep
<1> QED
  BY <1>1, <1>2, InitInv, NextInv, PTL DEF Spec, ImplementsFifo, Fifo!Spec
=============================================================================
