----------------------------- MODULE CntBuffer ------------------------------
(***************************************************************************)
(* class cntBuffer (cntBuffer/cntBuffer.cpp): a byte buffer whose          *)
(* unprocessed bytes are always contiguous.  addData appends a chunk after *)
(* them, moving them to the front first when the chunk does not fit at the *)
(* end; getData shows them to a callback, which says how many it has       *)
(* processed.                                                              *)
(*                                                                         *)
(* Grain.  m_lock covers addData from its first test of an offset to its   *)
(* return, so the call is one step.  getData looks at m_dataAvailable      *)
(* before it locks, and runs the callback inside the lock: three steps.    *)
(* A call that returns before it locks changes nothing and is a stutter.   *)
(***************************************************************************)
EXTENDS Integers, Sequences

CONSTANTS
  Bytes,              (* byte values                                        *)
  BufSz,              (* m_bufSz                                            *)
  WkSpace,            (* the constructor's wkSpace                          *)
  Chunks,             (* the data offered to addData                        *)
  Threads,            (* the threads that call it                           *)
  NoOne,              (* m_lock is free                                     *)
  Word,               (* 2^32: unsigned arithmetic is modulo Word           *)
  CopyBackward        (* does memcpy copy the last byte first?  It may copy *)
                      (* in any order, since its areas may not overlap      *)

\* The sizes are the caller's: no sum of two of them reaches Word.
ASSUME CntBufferAssumption ==
  /\ BufSz \in Nat /\ WkSpace \in Int /\ Word \in Nat
  /\ 2 * BufSz < Word
  /\ Chunks \subseteq Seq(Bytes)
  /\ \A chunk \in Chunks : Len(chunk) + BufSz < Word
  /\ NoOne \notin Threads
  /\ CopyBackward \in BOOLEAN

VARIABLES
  buf,                (* m_buf: the bytes at 0 .. BufSz - 1                 *)
  writeOffset,        (* m_writeOffset                                      *)
  readOffset,         (* m_readOffset                                       *)
  dataAvailable,      (* m_dataAvailable                                    *)
  freeAtEnd,          (* m_freeAtEnd                                        *)
  lock,               (* m_lock: who holds it                               *)
  pc,                 (* where each thread is in getData                    *)
  processSz,          (* getData's processSz, of the thread with the lock   *)
  added               (* what the last addData returned                     *)

vars == <<buf, writeOffset, readOffset, dataAvailable, freeAtEnd, lock, pc,
          processSz, added>>

Offsets == 0 .. BufSz - 1

\* m_workSpace
WorkSpace == IF WkSpace <= 0 THEN 1 ELSE WkSpace

\* The value of one unsigned addition or subtraction.
Wrap(n) == IF n < 0 THEN n + Word ELSE IF n >= Word THEN n - Word ELSE n

getAvailable == dataAvailable - WorkSpace + 1

\* A buffer whose memory was allocated: without it every call returns at once.
Init ==
  /\ buf \in [Offsets -> Bytes]
  /\ writeOffset = 0
  /\ readOffset = 0
  /\ dataAvailable = 0
  /\ freeAtEnd = BufSz
  /\ lock = NoOne
  /\ pc = [t \in Threads |-> "idle"]
  /\ processSz = 0
  /\ added = TRUE

-----------------------------------------------------------------------------
(* addData.                                                                 *)

Enter(t) == pc[t] = "idle" /\ lock = NoOne

\* memcpy(m_buf + at, chunk, sz) on memory m
Stored(m, at, chunk) ==
  [i \in Offsets |-> IF i >= at /\ i < at + Len(chunk) THEN chunk[i - at + 1] ELSE m[i]]

\* memcpy(m_buf, m_buf + m_readOffset, m_dataAvailable).  Copied backwards, a byte
\* that is overwritten before it is read comes from further up, a multiple of
\* m_readOffset further.
Moved(m) ==
  [i \in Offsets |->
     IF i >= dataAvailable THEN m[i]
     ELSE IF CopyBackward THEN m[dataAvailable + ((i - dataAvailable) % readOffset)]
     ELSE m[readOffset + i]]

Fits(sz) == Wrap(dataAvailable + sz) <= BufSz

\* The chunk fits after the data.
AddAtEnd(t, chunk) ==
  LET sz == Len(chunk)
  IN /\ Enter(t)
     /\ freeAtEnd >= sz
     /\ buf' = Stored(buf, writeOffset, chunk)
     /\ dataAvailable' = dataAvailable + sz
     /\ writeOffset' = Wrap(writeOffset + sz)
     /\ freeAtEnd' = Wrap(freeAtEnd - sz)
     /\ added' = TRUE
     /\ UNCHANGED <<readOffset, lock, pc, processSz>>

\* Mutant: sz is not reduced by the room that the move has made.
AddAtFront_KeepSz(t, chunk) ==
  LET sz == Len(chunk)
  IN /\ Enter(t)
     /\ freeAtEnd < sz
     /\ Fits(sz)
     /\ buf' = Stored(Moved(buf), dataAvailable, chunk)
     /\ dataAvailable' = dataAvailable + sz
     /\ readOffset' = 0
     /\ writeOffset' = Wrap(writeOffset + sz)
     /\ freeAtEnd' = Wrap(freeAtEnd - sz)
     /\ added' = TRUE
     /\ UNCHANGED <<lock, pc, processSz>>

\* Mutant: the read offset is not reset, though the bytes have moved.
AddAtFront_KeepRead(t, chunk) ==
  LET sz == Wrap(Len(chunk) - readOffset)
  IN /\ Enter(t)
     /\ freeAtEnd < Len(chunk)
     /\ Fits(Len(chunk))
     /\ buf' = Stored(Moved(buf), dataAvailable, chunk)
     /\ dataAvailable' = dataAvailable + Len(chunk)
     /\ writeOffset' = Wrap(writeOffset + sz)
     /\ freeAtEnd' = Wrap(freeAtEnd - sz)
     /\ added' = TRUE
     /\ UNCHANGED <<readOffset, lock, pc, processSz>>

\* Mutant: the lock is not taken.
AddAtFront_NoLock(t, chunk) ==
  LET sz == Wrap(Len(chunk) - readOffset)
  IN /\ pc[t] = "idle"
     /\ freeAtEnd < Len(chunk)
     /\ Fits(Len(chunk))
     /\ buf' = Stored(Moved(buf), dataAvailable, chunk)
     /\ dataAvailable' = dataAvailable + Len(chunk)
     /\ readOffset' = 0
     /\ writeOffset' = Wrap(writeOffset + sz)
     /\ freeAtEnd' = Wrap(freeAtEnd - sz)
     /\ added' = TRUE
     /\ UNCHANGED <<lock, pc, processSz>>

\* Mutant: the chunk is stored before the data is moved.
AddAtFront_StoreFirst(t, chunk) ==
  LET sz == Wrap(Len(chunk) - readOffset)
  IN /\ Enter(t)
     /\ freeAtEnd < Len(chunk)
     /\ Fits(Len(chunk))
     /\ buf' = Moved(Stored(buf, dataAvailable, chunk))
     /\ dataAvailable' = dataAvailable + Len(chunk)
     /\ readOffset' = 0
     /\ writeOffset' = Wrap(writeOffset + sz)
     /\ freeAtEnd' = Wrap(freeAtEnd - sz)
     /\ added' = TRUE
     /\ UNCHANGED <<lock, pc, processSz>>

\* It fits once the data is at the front: sz becomes what the offsets move by, which
\* may be negative and is then a large unsigned number.
AddAtFront(t, chunk) ==
  LET sz == Wrap(Len(chunk) - readOffset)
  IN /\ Enter(t)
     /\ freeAtEnd < Len(chunk)
     /\ Fits(Len(chunk))
     /\ buf' = Stored(Moved(buf), dataAvailable, chunk)
     /\ dataAvailable' = dataAvailable + Len(chunk)
     /\ readOffset' = 0
     /\ writeOffset' = Wrap(writeOffset + sz)
     /\ freeAtEnd' = Wrap(freeAtEnd - sz)
     /\ added' = TRUE
     /\ UNCHANGED <<lock, pc, processSz>>

\* It does not fit at all.
Refuse(t, chunk) ==
  /\ Enter(t)
  /\ freeAtEnd < Len(chunk)
  /\ ~Fits(Len(chunk))
  /\ added' = FALSE
  /\ UNCHANGED <<buf, writeOffset, readOffset, dataAvailable, freeAtEnd, lock, pc,
                 processSz>>

-----------------------------------------------------------------------------
(* getData.                                                                 *)

\* There is data, by a look outside the lock.
GetData(t) ==
  /\ pc[t] = "idle"
  /\ dataAvailable # 0
  /\ pc' = [pc EXCEPT ![t] = "getData"]
  /\ UNCHANGED <<buf, writeOffset, readOffset, dataAvailable, freeAtEnd, lock,
                 processSz, added>>

\* Mutant: the lock is not taken.
Callback_NoLock(t) ==
  /\ pc[t] = "getData"
  /\ processSz' = getAvailable
  /\ IF getAvailable > 0
       THEN /\ pc' = [pc EXCEPT ![t] = "callback"]
            /\ lock' = t
       ELSE /\ pc' = [pc EXCEPT ![t] = "idle"]
            /\ UNCHANGED lock
  /\ UNCHANGED <<buf, writeOffset, readOffset, dataAvailable, freeAtEnd, added>>

\* With the lock, look again: the callback runs if there is enough for it to work on.
Callback(t) ==
  /\ pc[t] = "getData"
  /\ lock = NoOne
  /\ processSz' = getAvailable
  /\ IF getAvailable > 0
       THEN /\ pc' = [pc EXCEPT ![t] = "callback"]
            /\ lock' = t
       ELSE /\ pc' = [pc EXCEPT ![t] = "idle"]
            /\ UNCHANGED lock
  /\ UNCHANGED <<buf, writeOffset, readOffset, dataAvailable, freeAtEnd, added>>

\* The callback returns how much it has processed, no more than it was given.
Processed(t, processedSz) ==
  /\ pc[t] = "callback"
  /\ processedSz \in 0 .. processSz
  /\ readOffset' = readOffset + processedSz
  /\ dataAvailable' = dataAvailable - processedSz
  /\ lock' = NoOne
  /\ pc' = [pc EXCEPT ![t] = "idle"]
  /\ UNCHANGED <<buf, writeOffset, freeAtEnd, processSz, added>>

Next ==
  \E t \in Threads :
    \/ \E chunk \in Chunks :
         AddAtEnd(t, chunk) \/ AddAtFront(t, chunk) \/ Refuse(t, chunk)
    \/ GetData(t)
    \/ Callback(t)
    \/ \E n \in 0 .. BufSz : Processed(t, n)

Spec == Init /\ [][Next]_vars

-----------------------------------------------------------------------------
(* Properties.                                                              *)

TypeOK ==
  /\ buf \in [Offsets -> Bytes]
  /\ writeOffset \in 0 .. BufSz
  /\ readOffset \in 0 .. BufSz
  /\ dataAvailable \in 0 .. BufSz
  /\ freeAtEnd \in 0 .. BufSz
  /\ lock \in Threads \cup {NoOne}
  /\ pc \in [Threads -> {"idle", "getData", "callback"}]
  /\ processSz \in Int
  /\ added \in BOOLEAN

\* The four counters, each updated by its own sum (two of them by the sz that line 58
\* may have made negative), go on describing one layout: the data ends where writing
\* begins, and writing begins where the free end does.
Layout ==
  /\ writeOffset = readOffset + dataAvailable
  /\ writeOffset + freeAtEnd = BufSz

\* The test outside the lock does no harm: a callback that runs has the buffer to
\* itself, and the work space it asked for is still there (cntBuffer.hpp:7-10, 37).
CallbackHasData ==
  \A t \in Threads : pc[t] = "callback" =>
    /\ lock = t
    /\ processSz > 0
    /\ processSz + WorkSpace - 1 <= dataAvailable

\* While a callback reads the buffer, no thread moves or overwrites what it was shown.
WindowStable ==
  [][\A t \in Threads : pc[t] = "callback" =>
       \A i \in readOffset .. readOffset + processSz - 1 : buf'[i] = buf[i]]_vars

\* The unprocessed bytes, oldest first.
Unprocessed == [i \in 1 .. dataAvailable |-> buf[readOffset + i - 1]]

Fifo == INSTANCE ByteFifo WITH
          Capacity <- BufSz,
          fifo     <- Unprocessed,
          taken    <- added

\* A cntBuffer is a FIFO of bytes: wherever the data is moved, every byte added comes
\* out once and in order, and a chunk is refused only when it truly does not fit.
ImplementsFifo == Fifo!Spec
=============================================================================
