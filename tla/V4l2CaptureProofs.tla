------------------------- MODULE V4l2CaptureProofs --------------------------
(***************************************************************************)
(* Proofs about V4l2Capture, for any number of buffers: a buffer the       *)
(* driver may write is nowhere else, a user never sleeps beside a buffer,  *)
(* and the class is a buffer pool.                                         *)
(***************************************************************************)
EXTENDS V4l2Capture, SequenceTheorems, TLAPS

\* Until the stream is on, nothing has left the driver.
Early ==
  apc \in {"new", "ready", "queue"} =>
    ~devOn /\ filled = <<>> /\ list = <<>> /\ chand = NoBuf /\ uhold = {}

\* From streaming(false) on the flag is down, and behind the join the thread is over.
Late ==
  /\ apc \in {"off", "destroy", "join", "stopped", "gone"} => ~streaming
  /\ apc \in {"stopped", "gone"} => cpc = "exit"
  /\ apc = "gone" => upc = "idle"

\* Who is about to hand a buffer on has one, and a user that is about to wait has seen
\* an empty list that nobody fills meanwhile.
Handing ==
  /\ cpc = "push" => chand # NoBuf
  /\ cpc # "push" => chand = NoBuf
  /\ upc = "put" => uput \in uhold
  /\ upc \in {"wait", "blocked"} => list = <<>>

IInv == TypeOK /\ OneOwner /\ Early /\ Late /\ Handing

-----------------------------------------------------------------------------
\* Appending a new element keeps a sequence without repetition.
LEMMA AppendDistinct ==
  ASSUME NEW S, NEW s \in Seq(S), NEW e \in S, Distinct(s), e \notin Elems(s)
  PROVE  /\ Append(s, e) \in Seq(S)
         /\ Distinct(Append(s, e))
         /\ Elems(Append(s, e)) = Elems(s) \cup {e}
<1>1. /\ Append(s, e) \in Seq(S)
      /\ Len(s) \in Nat
      /\ Len(Append(s, e)) = Len(s) + 1
      /\ \A i \in 1 .. Len(s) : Append(s, e)[i] = s[i]
      /\ Append(s, e)[Len(s) + 1] = e
  BY AppendProperties
<1> QED
  BY <1>1 DEF Distinct, Elems

\* So does taking its head off, which is then no longer in it.
LEMMA TailDistinct ==
  ASSUME NEW S, NEW s \in Seq(S), s # <<>>, Distinct(s)
  PROVE  /\ Tail(s) \in Seq(S)
         /\ Distinct(Tail(s))
         /\ Head(s) \in Elems(s) /\ Head(s) \in S
         /\ Elems(Tail(s)) = Elems(s) \ {Head(s)}
<1>1. /\ Tail(s) \in Seq(S)
      /\ Len(s) \in Nat /\ Len(s) > 0
      /\ Len(Tail(s)) = Len(s) - 1
      /\ \A i \in 1 .. Len(Tail(s)) : Tail(s)[i] = s[i + 1]
      /\ Head(s) = s[1] /\ Head(s) \in S
  BY HeadTailProperties, EmptySeq, LenProperties
<1>2. Distinct(Tail(s))
  BY <1>1 DEF Distinct
<1>3. Head(s) \in Elems(s)
  BY <1>1 DEF Elems
<1>4. Elems(Tail(s)) \subseteq Elems(s) \ {Head(s)}
  BY <1>1 DEF Distinct, Elems
<1>5. ASSUME NEW e \in Elems(s) \ {Head(s)}
      PROVE  e \in Elems(Tail(s))
  <2>1. PICK i \in 1 .. Len(s) : e = s[i]
    BY DEF Elems
  <2>2. i # 1 /\ i - 1 \in 1 .. Len(Tail(s)) /\ Tail(s)[i - 1] = s[i]
    BY <1>1, <1>5, <2>1
  <2> QED
    BY <2>1, <2>2 DEF Elems
<1> QED
  BY <1>1, <1>2, <1>3, <1>4, <1>5

\* An empty sequence has no element.
LEMMA EmptyElems == Elems(<<>>) = {} /\ Distinct(<<>>)
  BY DEF Elems, Distinct

-----------------------------------------------------------------------------
\* At the start everything is with nobody.
LEMMA InitInv == Init => IInv
<1> SUFFICES ASSUME Init PROVE IInv
  OBVIOUS
<1>0. <<>> \in Seq(Bufs)
  BY EmptySeq
<1>1. TypeOK
  BY <1>0 DEF Init, TypeOK, BufTypes, FlagTypes, PcTypes
<1>2. OneOwner
  BY EmptyElems, V4l2CaptureAssumption DEF Init, OneOwner
<1>3. Early /\ Late
  BY DEF Init, Early, Late
<1>4. Handing
  BY DEF Init, Handing
<1> QED
  BY <1>1, <1>2, <1>3, <1>4 DEF IInv

\* A step that moves no buffer keeps the buffers apart.
LEMMA StillApart ==
  ASSUME OneOwner, UNCHANGED <<queued, filled, list, chand, uhold>>
  PROVE  OneOwner'
  BY DEF OneOwner

\* Flags and program counters keep their types.
LEMMA PlainTypes ==
  ASSUME FlagTypes, PcTypes, [Next]_vars
  PROVE  FlagTypes' /\ PcTypes'
<1>1. CASE \/ InitV4l2 \/ StreamOn \/ QueueNext \/ Streamed
           \/ StreamOff \/ Streamoff \/ Destroy \/ Join \/ Delete
  <2>1. FlagTypes'
    BY <1>1
    DEF FlagTypes, InitV4l2, StreamOn, QueueNext, Streamed, StreamOff, Streamoff, Destroy,
        Join, Delete, devVars, confVars, lockVars
  <2>2. PcTypes'
    BY <1>1
    DEF PcTypes, InitV4l2, StreamOn, QueueNext, Streamed, StreamOff, Streamoff, Destroy,
        Join, Delete, userVars
  <2> QED
    BY <2>1, <2>2
<1>2. CASE Entry \/ Entered \/ Test \/ Loop \/ Dequeue \/ DequeueFails \/ Push \/ Last
  <2>1. FlagTypes'
    BY <1>2
    DEF FlagTypes, Entry, Entered, Test, Loop, Dequeue, DequeueFails, Push, Last, devVars,
        confVars, lockVars
  <2>2. PcTypes'
    BY <1>2
    DEF PcTypes, Entry, Entered, Test, Loop, Dequeue, DequeueFails, Push, Last, Signal,
        userVars
  <2> QED
    BY <2>1, <2>2
<1>3. CASE \/ GetBuffer \/ Look \/ Wait \/ Spurious \/ Woken \/ Qbuf \/ Fill
           \/ \E b \in Bufs : PutBuffer(b)
  <2>1. FlagTypes'
    BY <1>3
    DEF FlagTypes, GetBuffer, Look, Wait, Spurious, Woken, PutBuffer, Qbuf, Fill, devVars,
        confVars, lockVars
  <2>2. PcTypes'
    BY <1>3
    DEF PcTypes, GetBuffer, Look, Wait, Spurious, Woken, PutBuffer, Qbuf, Fill, Again,
        userVars
  <2> QED
    BY <2>1, <2>2
<1>4. CASE UNCHANGED vars
  BY <1>4 DEF vars, FlagTypes, PcTypes
<1> QED
  BY <1>1, <1>2, <1>3, <1>4 DEF Next

\* Who has what at which point of its code stays as described.
LEMMA PlacesInCode ==
  ASSUME IInv, [Next]_vars
  PROVE  Early' /\ Late' /\ Handing'
<1> USE DEF IInv, Early, Late, Handing
<1>1. CASE \/ InitV4l2 \/ StreamOn \/ QueueNext \/ Streamed
           \/ StreamOff \/ Streamoff \/ Destroy \/ Join \/ Delete
  BY <1>1
  DEF InitV4l2, StreamOn, QueueNext, Streamed, StreamOff, Streamoff, Destroy, Join, Delete,
      devVars, userVars
<1>2. CASE Entry \/ Entered \/ Test \/ Loop \/ DequeueFails \/ Push \/ Last
  BY <1>2
  DEF Entry, Entered, Test, Loop, DequeueFails, Push, Last, Signal, MutexFree, devVars,
      userVars
<1>3. CASE Dequeue
  <2>1. cpc' = "push" => chand' # NoBuf
    BY <1>3, V4l2CaptureAssumption, HeadTailProperties DEF Dequeue, TypeOK, BufTypes
  <2> QED
    BY <1>3, <2>1 DEF Dequeue, devVars, userVars
<1>4. CASE GetBuffer \/ Wait \/ Spurious \/ Qbuf \/ Fill \/ \E b \in Bufs : PutBuffer(b)
  BY <1>4 DEF GetBuffer, Wait, Spurious, Qbuf, Fill, PutBuffer, devVars, userVars
<1>5. CASE Look \/ Woken
  BY <1>5 DEF Look, Woken, Again, Take, devVars
<1>6. CASE UNCHANGED vars
  BY <1>6 DEF vars
<1> QED
  BY <1>1, <1>2, <1>3, <1>4, <1>5, <1>6 DEF Next

\* The buffers stay apart, and stay buffers.
LEMMA StaysApart ==
  ASSUME IInv, [Next]_vars
  PROVE  BufTypes' /\ OneOwner'
<1>1. BufTypes /\ OneOwner /\ Early /\ Handing
  BY DEF IInv, TypeOK
<1>2. <<>> \in Seq(Bufs) /\ Buffers \in Seq(Bufs)
  BY EmptySeq, V4l2CaptureAssumption
<1>3. CASE QueueNext
  <2>1. CASE queued' = queued /\ todo' = <<>>
    BY <1>1, <1>2, <1>3, <2>1, StillApart DEF QueueNext, BufTypes, userVars
  <2>2. ASSUME NEW b, b = Head(todo), todo' = Tail(todo), queued' = Append(queued, b),
               b \notin Elems(queued) \cup Elems(filled)
        PROVE  BufTypes' /\ OneOwner'
    <3>1. todo \in Seq(Bufs) /\ todo # <<>>
      BY <1>1, <1>3 DEF QueueNext, BufTypes
    <3>2. b \in Bufs /\ Tail(todo) \in Seq(Bufs)
      BY <2>2, <3>1, HeadTailProperties
    <3>3. queued \in Seq(Bufs) /\ Distinct(queued) /\ b \notin Elems(queued)
      BY <1>1, <2>2 DEF BufTypes, OneOwner
    <3>4. queued' \in Seq(Bufs) /\ Distinct(queued') /\ Elems(queued') = Elems(queued) \cup {b}
      BY <2>2, <3>2, <3>3, AppendDistinct
    <3>5. UNCHANGED <<filled, list, chand, uhold, uput>>
      BY <1>3 DEF QueueNext, userVars
    <3>6. Elems(list) = {} /\ chand \notin Bufs /\ uhold = {}
      BY <1>1, <1>3, EmptyElems, V4l2CaptureAssumption DEF QueueNext, Early
    <3>7. OneOwner'
      BY <1>1, <2>2, <3>2, <3>4, <3>5, <3>6 DEF OneOwner
    <3>8. BufTypes'
      BY <1>1, <2>2, <3>2, <3>4, <3>5 DEF BufTypes
    <3> QED
      BY <3>7, <3>8
  <2> QED
    BY <1>3, <2>1, <2>2 DEF QueueNext
<1>4. CASE Streamoff
  <2>1. queued' = <<>> /\ filled' = <<>> /\ UNCHANGED <<list, chand, uhold, uput, todo>>
    BY <1>4 DEF Streamoff, userVars
  <2> QED
    BY <1>1, <1>2, <2>1, EmptyElems DEF OneOwner, BufTypes
<1>5. CASE Dequeue
  <2>1. CASE UNCHANGED <<chand, filled>>
    BY <1>1, <1>5, <2>1, StillApart DEF Dequeue, BufTypes, userVars
  <2>2. CASE filled # <<>> /\ chand' = Head(filled) /\ filled' = Tail(filled)
    <3>1. /\ filled' \in Seq(Bufs) /\ Distinct(filled')
          /\ chand' \in Elems(filled) /\ chand' \in Bufs
          /\ Elems(filled') = Elems(filled) \ {chand'}
      BY <1>1, <2>2, TailDistinct DEF BufTypes, OneOwner
    <3>2. UNCHANGED <<queued, list, uhold, uput, todo>>
      BY <1>5 DEF Dequeue, userVars
    <3> QED
      BY <1>1, <3>1, <3>2 DEF OneOwner, BufTypes
  <2> QED
    BY <1>5, <2>1, <2>2 DEF Dequeue
<1>6. CASE Push
  <2>1. chand \in Bufs /\ chand \notin Elems(list)
    BY <1>1, <1>6 DEF Push, Handing, BufTypes, OneOwner
  <2>2. /\ list' \in Seq(Bufs) /\ Distinct(list')
        /\ Elems(list') = Elems(list) \cup {chand}
    BY <1>1, <1>6, <2>1, AppendDistinct DEF Push, BufTypes, OneOwner
  <2>3. UNCHANGED <<queued, filled, uhold, uput, todo>> /\ chand' = NoBuf
    BY <1>6 DEF Push, devVars
  <2>4. Elems(queued) \subseteq Bufs /\ Elems(filled) \subseteq Bufs /\ Elems(list) \subseteq Bufs
    BY <1>1 DEF BufTypes, Elems
  <2> QED
    BY <1>1, <2>1, <2>2, <2>3, <2>4, V4l2CaptureAssumption DEF OneOwner, BufTypes
<1>7. CASE Look \/ Woken
  <2>1. UNCHANGED <<queued, filled, chand, uput, todo>>
    BY <1>7 DEF Look, Woken, devVars
  <2>2. CASE UNCHANGED <<list, uhold>>
    BY <1>1, <2>1, <2>2, StillApart DEF BufTypes
  <2>3. CASE list # <<>> /\ uhold' = uhold \cup {Head(list)} /\ list' = Tail(list)
    <3>1. /\ list' \in Seq(Bufs) /\ Distinct(list')
          /\ Head(list) \in Elems(list) /\ Head(list) \in Bufs
          /\ Elems(list') = Elems(list) \ {Head(list)}
      BY <1>1, <2>3, TailDistinct DEF BufTypes, OneOwner
    <3>2. ASSUME NEW h, h = Head(list)
          PROVE  BufTypes' /\ OneOwner'
      BY <1>1, <2>1, <2>3, <3>1, <3>2 DEF OneOwner, BufTypes
    <3> QED
      BY <3>2
  <2> QED
    BY <1>7, <2>2, <2>3 DEF Look, Woken, Again, Take
<1>8. CASE Qbuf
  <2>1. UNCHANGED <<filled, list, chand, todo>> /\ uput' = NoBuf
    BY <1>8 DEF Qbuf
  <2>2. CASE UNCHANGED <<queued, uhold>>
    BY <1>1, <2>1, <2>2, StillApart DEF BufTypes
  <2>3. CASE queued' = Append(queued, uput) /\ uhold' = uhold \ {uput}
    <3>1. uput \in uhold /\ uput \in Bufs /\ uput \notin Elems(queued)
      BY <1>1, <1>8 DEF Qbuf, Handing, BufTypes, OneOwner
    <3>2. /\ queued' \in Seq(Bufs) /\ Distinct(queued')
          /\ Elems(queued') = Elems(queued) \cup {uput}
      BY <1>1, <2>3, <3>1, AppendDistinct DEF BufTypes, OneOwner
    <3> QED
      BY <1>1, <2>1, <2>3, <3>1, <3>2 DEF OneOwner, BufTypes
  <2> QED
    BY <1>8, <2>2, <2>3 DEF Qbuf
<1>9. CASE Fill
  <2>1. /\ queued' \in Seq(Bufs) /\ Distinct(queued')
        /\ Head(queued) \in Elems(queued) /\ Head(queued) \in Bufs
        /\ Elems(queued') = Elems(queued) \ {Head(queued)}
    BY <1>1, <1>9, TailDistinct DEF Fill, BufTypes, OneOwner
  <2>2. /\ filled' \in Seq(Bufs) /\ Distinct(filled')
        /\ Elems(filled') = Elems(filled) \cup {Head(queued)}
    BY <1>1, <1>9, <2>1, AppendDistinct DEF Fill, BufTypes, OneOwner
  <2>3. UNCHANGED <<list, chand, uhold, uput, todo>>
    BY <1>9 DEF Fill, userVars
  <2> QED
    BY <1>1, <2>1, <2>2, <2>3 DEF OneOwner, BufTypes
<1>10. CASE \E b \in Bufs : PutBuffer(b)
  <2>1. UNCHANGED <<queued, filled, list, chand, uhold, todo>> /\ uput' \in uhold
    BY <1>10 DEF PutBuffer, devVars
  <2> QED
    BY <1>1, <2>1, StillApart DEF BufTypes
<1>11. CASE StreamOn
  BY <1>1, <1>2, <1>11, StillApart DEF StreamOn, BufTypes, devVars, userVars
<1>12. CASE InitV4l2 \/ Streamed \/ StreamOff \/ Destroy \/ Join \/ Delete
  BY <1>1, <1>12, StillApart
  DEF InitV4l2, Streamed, StreamOff, Destroy, Join, Delete, BufTypes, devVars, userVars
<1>13. CASE Entry \/ Entered \/ Test \/ Loop \/ DequeueFails \/ Last
  BY <1>1, <1>13, StillApart
  DEF Entry, Entered, Test, Loop, DequeueFails, Last, BufTypes, devVars, userVars
<1>14. CASE GetBuffer \/ Wait \/ Spurious \/ UNCHANGED vars
  BY <1>1, <1>14, StillApart DEF GetBuffer, Wait, Spurious, BufTypes, devVars, vars
<1> QED
  BY <1>3, <1>4, <1>5, <1>6, <1>7, <1>8, <1>9, <1>10, <1>11, <1>12, <1>13, <1>14 DEF Next

\* IInv holds for ever.
LEMMA Invariance == Spec => []IInv
<1>1. IInv /\ [Next]_vars => IInv'
  BY PlainTypes, PlacesInCode, StaysApart DEF IInv, TypeOK
<1> QED
  BY <1>1, InitInv, PTL DEF Spec

\* V4l2MMap keeps its types, and no buffer that the driver may write is with the capture
\* thread, in the list or with the user, however many buffers there are.
THEOREM BuffersApart == Spec => [](TypeOK /\ OneOwner)
<1>1. IInv => TypeOK /\ OneOwner
  BY DEF IInv
<1> QED
  BY <1>1, Invariance, PTL

\* Every variable of the capture class, its thread and its driver keeps its type.
COROLLARY TypeCorrect == Spec => []TypeOK
<1>1. TypeOK /\ OneOwner => TypeOK
  OBVIOUS
<1> QED
  BY <1>1, BuffersApart, PTL

\* A user that sleeps in V4l2MMap::getBuffer has no buffer in the list.
THEOREM NoSleepBesideBuffer == Spec => []NoLostWakeup
<1>1. IInv => NoLostWakeup
  BY DEF IInv, Handing, NoLostWakeup
<1> QED
  BY <1>1, Invariance, PTL

-----------------------------------------------------------------------------
\* A buffer that alone changes its place, from a thread or to one, moves in the pool.
LEMMA PoolMove ==
  ASSUME NEW b \in Bufs, NEW to,
         apc # "gone", apc' = apc,
         PlaceOf(b)' = to,
         \/ PlaceOf(b) \in {"cap", "user"} /\ to \in {"free", "used"}
         \/ PlaceOf(b) \in {"free", "used"} /\ to \in {"cap", "user"},
         \A c \in Bufs \ {b} : PlaceOf(c)' = PlaceOf(c)
  PROVE  Pool!Next
<1>1. [c \in Bufs |-> PlaceOf(c)]' = [[c \in Bufs |-> PlaceOf(c)] EXCEPT ![b] = to]
  OBVIOUS
<1>2. Pool!Move(b, to)
  BY <1>1 DEF Pool!Move
<1> QED
  BY <1>2 DEF Pool!Next, Pool!Places

\* Where nothing that decides about the place changes, the pool does not see the step.
LEMMA PoolStutter ==
  ASSUME UNCHANGED <<list, chand, uhold>>, (apc' = "gone") <=> (apc = "gone")
  PROVE  UNCHANGED Pool!vars
  BY DEF Pool!vars, PlaceOf

\* Every step of V4l2MMap is a step of the pool or none at all.
LEMMA PoolStep ==
  ASSUME IInv, [Next]_vars
  PROVE  [Pool!Next]_(Pool!vars)
<1>1. OneOwner /\ BufTypes /\ PcTypes /\ Late /\ Handing /\ NoBuf \notin Bufs
  BY V4l2CaptureAssumption DEF IInv, TypeOK
<1>2. CASE Delete
  <2>1. UNCHANGED <<list, chand, uhold>> /\ apc # "gone" /\ apc' = "gone"
    BY <1>2 DEF Delete, userVars
  <2>2. Pool!Close
    BY <2>1 DEF Pool!Close, Pool!AllHome, PlaceOf
  <2> QED
    BY <2>2 DEF Pool!Next
<1>3. CASE Dequeue
  <2>1. CASE UNCHANGED <<chand, filled>>
    BY <1>3, <2>1, PoolStutter DEF Dequeue, userVars
  <2>2. CASE filled # <<>> /\ chand' = Head(filled)
    <3>1. chand' \in Elems(filled) /\ chand' \in Bufs
      BY <1>1, <2>2, TailDistinct DEF BufTypes, OneOwner
    <3>2. chand = NoBuf /\ UNCHANGED <<list, uhold, apc>> /\ apc # "gone"
      BY <1>1, <1>3 DEF Dequeue, userVars, Late, Handing
    <3>3. ASSUME NEW b, b = chand'
          PROVE  /\ PlaceOf(b) = "free" /\ PlaceOf(b)' = "cap"
                 /\ \A c \in Bufs \ {b} : PlaceOf(c)' = PlaceOf(c)
      BY <1>1, <3>1, <3>2, <3>3 DEF PlaceOf, OneOwner
    <3> QED
      BY <3>1, <3>2, <3>3, PoolMove
  <2> QED
    BY <1>3, <2>1, <2>2 DEF Dequeue
<1>4. CASE Push
  <2>1. chand \in Bufs /\ chand' = NoBuf /\ UNCHANGED <<uhold, apc>> /\ apc # "gone"
    BY <1>1, <1>4 DEF Push, Handing, BufTypes, Late
  <2>2. Elems(list') = Elems(list) \cup {chand}
    BY <1>1, <1>4, <2>1, AppendDistinct DEF Push, BufTypes, OneOwner
  <2>3. ASSUME NEW b, b = chand
        PROVE  PlaceOf(b) = "cap" /\ PlaceOf(b)' = "used"
    BY <1>1, <2>1, <2>2, <2>3 DEF PlaceOf, OneOwner
  <2>4. \A c \in Bufs \ {chand} : PlaceOf(c)' = PlaceOf(c)
    BY <1>1, <2>1, <2>2 DEF PlaceOf
  <2> QED
    BY <2>1, <2>3, <2>4, PoolMove
<1>5. CASE Look \/ Woken
  <2>1. UNCHANGED <<chand, apc>> /\ apc # "gone"
    BY <1>1, <1>5 DEF Look, Woken, Late
  <2>2. CASE UNCHANGED <<list, uhold>>
    BY <2>1, <2>2, PoolStutter
  <2>3. CASE list # <<>> /\ uhold' = uhold \cup {Head(list)} /\ list' = Tail(list)
    <3>1. /\ Head(list) \in Elems(list) /\ Head(list) \in Bufs
          /\ Elems(list') = Elems(list) \ {Head(list)}
      BY <1>1, <2>3, TailDistinct DEF BufTypes, OneOwner
    <3>2. ASSUME NEW b, b = Head(list)
          PROVE  /\ PlaceOf(b) = "used" /\ PlaceOf(b)' = "user"
                 /\ \A c \in Bufs \ {b} : PlaceOf(c)' = PlaceOf(c)
      BY <1>1, <2>1, <2>3, <3>1, <3>2 DEF PlaceOf, OneOwner
    <3> QED
      BY <2>1, <3>1, <3>2, PoolMove
  <2> QED
    BY <1>5, <2>2, <2>3 DEF Look, Woken, Again, Take
<1>6. CASE Qbuf
  <2>1. uput \in uhold /\ uput \in Bufs
    BY <1>1, <1>6 DEF Qbuf, Handing, BufTypes
  <2>2. UNCHANGED <<list, chand, apc>> /\ apc # "gone"
    BY <1>1, <1>6 DEF Qbuf, Late
  <2>3. CASE uhold' = uhold
    BY <2>2, <2>3, PoolStutter
  <2>4. CASE uhold' = uhold \ {uput}
    <3>1. ASSUME NEW b, b = uput
          PROVE  /\ PlaceOf(b) = "user" /\ PlaceOf(b)' = "free"
                 /\ \A c \in Bufs \ {b} : PlaceOf(c)' = PlaceOf(c)
      BY <1>1, <2>1, <2>2, <2>4, <3>1 DEF PlaceOf, OneOwner
    <3> QED
      BY <2>1, <2>2, <3>1, PoolMove
  <2> QED
    BY <1>6, <2>3, <2>4 DEF Qbuf
<1>7. CASE InitV4l2 \/ StreamOn \/ QueueNext \/ Streamed \/ StreamOff \/ Streamoff
  BY <1>7, PoolStutter
  DEF InitV4l2, StreamOn, QueueNext, Streamed, StreamOff, Streamoff, devVars, userVars
<1>8. CASE Destroy \/ Join \/ Entry \/ Entered \/ Test \/ Loop \/ DequeueFails \/ Last
  BY <1>8, PoolStutter
  DEF Destroy, Join, Entry, Entered, Test, Loop, DequeueFails, Last, userVars
<1>9. CASE GetBuffer \/ Wait \/ Spurious \/ Fill \/ \E b \in Bufs : PutBuffer(b)
  BY <1>9, PoolStutter DEF GetBuffer, Wait, Spurious, Fill, PutBuffer, userVars
<1>10. CASE UNCHANGED vars
  BY <1>10, PoolStutter DEF vars
<1> QED
  BY <1>2, <1>3, <1>4, <1>5, <1>6, <1>7, <1>8, <1>9, <1>10 DEF Next

\* V4l2MMap is a buffer pool: a buffer passes between the driver, the list, the capture
\* thread and the user only by being handed over, one at a time.
THEOREM CaptureIsPool == Spec => ImplementsPool
<1>1. Init => Pool!Init
  BY DEF Init, Pool!Init, Pool!Places, PlaceOf
<1>2. IInv /\ [Next]_vars => [Pool!Next]_(Pool!vars)
  BY PoolStep
<1> QED
  BY <1>1, <1>2, Invariance, PTL DEF Spec, ImplementsPool, Pool!Spec
=============================================================================
