---------------------------- MODULE V4l2Capture -----------------------------
(***************************************************************************)
(* class V4l2MMap (v4l2/V4l2MMap.cpp) on its bases V4l2Base and            *)
(* LinuxThread: a capture thread takes filled buffers from the driver and  *)
(* queues them in m_bufList, where a user fetches them, to give them back  *)
(* to the driver.  The application starts and stops the thread, which an   *)
(* init lock may keep from running before the stream is on.                *)
(*                                                                         *)
(* Actors: the application, the capture thread, one user (V4l2Base.h:      *)
(* "designed for SINGLE THREADING"), and the driver, modelled from the     *)
(* ioctls.                                                                 *)
(*                                                                         *)
(* Grain.  m_mutex is held by the capture thread for one step, and by the  *)
(* user from its look at the list to its wait (upc = "wait"): the last     *)
(* signal of the capture thread is sent without it.  m_streaming and       *)
(* m_toStop are read without any lock, each in a step of its own.          *)
(*                                                                         *)
(* Buffers.  V4l2MMap::initV4l2 passes its arguments on one place too far  *)
(* to the left: bufCount is taken for queryOnly, mmap for bufCount.  Only  *)
(* initV4l2 with bufCount = 0 allocates buffers, and then two of them;     *)
(* with another count streaming(true) uses a NULL array.  The model starts *)
(* from the former.                                                        *)
(***************************************************************************)
EXTENDS Integers, Sequences

CONSTANTS
  Buffers,      (* m_buffers                                                 *)
  NoBuf         (* NULL                                                      *)

Elems(s) == {s[i] : i \in 1 .. Len(s)}

\* No element comes twice.
Distinct(s) == \A i, j \in 1 .. Len(s) : s[i] = s[j] => i = j

Bufs == Elems(Buffers)

ASSUME V4l2CaptureAssumption ==
  /\ Buffers \in Seq(Bufs) \ {<<>>}
  /\ Distinct(Buffers)
  /\ NoBuf \notin Bufs

VARIABLES
  queued, filled,     (* the driver: buffers to fill, and filled ones        *)
  devOn,              (* the driver streams                                  *)
  list,               (* m_bufList; m_qCount is its length                   *)
  streaming,          (* m_streaming                                         *)
  blockUser,          (* m_blockUser                                         *)
  lockThread,         (* m_lockThread is not NULL                            *)
  initLock,           (* m_initLock is not NULL                              *)
  lock,               (* who holds that lock                                 *)
  toStop,             (* m_toStop                                            *)
  cpc, chand,         (* the capture thread, and the buffer it has           *)
  upc, uhold, uput,   (* the user, its buffers, and the one it is putting    *)
  apc, todo           (* the application, and what it has still to queue     *)

devVars  == <<queued, filled, devOn>>
confVars == <<blockUser, lockThread>>
lockVars == <<initLock, lock>>
userVars == <<upc, uhold, uput>>
vars == <<queued, filled, devOn, list, streaming, blockUser, lockThread, initLock, lock,
          toStop, cpc, chand, upc, uhold, uput, apc, todo>>

Init ==
  /\ queued = <<>> /\ filled = <<>> /\ devOn = FALSE
  /\ list = <<>>
  /\ streaming = FALSE
  /\ blockUser \in BOOLEAN
  /\ lockThread \in BOOLEAN
  /\ initLock = lockThread
  /\ lock = "free"
  /\ toStop = FALSE
  /\ cpc = "none" /\ chand = NoBuf
  /\ upc = "idle" /\ uhold = {} /\ uput = NoBuf
  /\ apc = "new" /\ todo = <<>>

\* pthread_cond_signal, as seen by the one user that waits
Signal == upc' = IF upc = "blocked" THEN "woken" ELSE upc

MutexFree == upc # "wait"

-----------------------------------------------------------------------------
(* The application.                                                         *)

\* initV4l2: the init lock is taken before the thread is made.
InitV4l2 ==
  /\ apc = "new"
  /\ lock' = IF lockThread THEN "app" ELSE lock
  /\ cpc' = "entry"
  /\ apc' = "ready"
  /\ UNCHANGED <<devVars, list, streaming, confVars, initLock, toStop, chand, userVars,
                 todo>>

\* streaming(true): the flag first ...
StreamOn ==
  /\ apc = "ready"
  /\ ~streaming
  /\ streaming' = TRUE
  /\ todo' = Buffers
  /\ apc' = "queue"
  /\ UNCHANGED <<devVars, list, confVars, lockVars, toStop, cpc, chand, userVars>>

\* ... then every buffer goes to the driver.  VIDIOC_QBUF may fail, and does so for
\* a buffer that the driver has from an earlier try: the flag is taken back.
QueueNext ==
  /\ apc = "queue"
  /\ todo # <<>>
  /\ \/ /\ Head(todo) \notin Elems(queued) \cup Elems(filled)
        /\ queued' = Append(queued, Head(todo))
        /\ todo' = Tail(todo)
        /\ UNCHANGED <<streaming, apc>>
     \/ /\ streaming' = FALSE
        /\ todo' = <<>>
        /\ apc' = "ready"
        /\ UNCHANGED queued
  /\ UNCHANGED <<filled, devOn, list, confVars, lockVars, toStop, cpc, chand, userVars>>

\* VIDIOC_STREAMON; the init lock is released only if it succeeds.
Streamed ==
  /\ apc = "queue"
  /\ todo = <<>>
  /\ \/ /\ devOn' = TRUE
        /\ lock' = IF lockThread THEN "free" ELSE lock
        /\ apc' = "on"
     \/ /\ apc' = "ready"
        /\ UNCHANGED <<devOn, lock>>
  /\ UNCHANGED <<queued, filled, list, streaming, confVars, initLock, toStop, cpc, chand,
                 userVars, todo>>

\* streaming(false), which the destructor calls as well
StreamOff ==
  /\ apc \in {"ready", "on"}
  /\ apc' = IF streaming THEN "off" ELSE "destroy"
  /\ streaming' = FALSE
  /\ UNCHANGED <<devVars, list, confVars, lockVars, toStop, cpc, chand, userVars, todo>>

\* VIDIOC_STREAMOFF: the driver lets go of all buffers.
Streamoff ==
  /\ apc = "off"
  /\ queued' = <<>> /\ filled' = <<>> /\ devOn' = FALSE
  /\ apc' = "destroy"
  /\ UNCHANGED <<list, streaming, confVars, lockVars, toStop, cpc, chand, userVars, todo>>

\* Mutant: the thread is joined without being told to stop.
Destroy_NoStop ==
  /\ apc = "destroy"
  /\ apc' = "join"
  /\ UNCHANGED <<devVars, list, streaming, confVars, lockVars, toStop, cpc, chand, userVars,
                 todo>>

\* LinuxThread::Destroy: Stop ...
Destroy ==
  /\ apc = "destroy"
  /\ toStop' = TRUE
  /\ apc' = "join"
  /\ UNCHANGED <<devVars, list, streaming, confVars, lockVars, cpc, chand, userVars, todo>>

\* ... and pthread_join, after which streaming(false) releases the init lock, once
\* more where streaming(true) has done so before.
Join ==
  /\ apc = "join"
  /\ cpc = "exit"
  /\ lock' = IF lockThread THEN "free" ELSE lock
  /\ apc' = "stopped"
  /\ UNCHANGED <<devVars, list, streaming, confVars, initLock, toStop, cpc, chand, userVars,
                 todo>>

\* The destructor's own streaming(false) finds nothing to do.  The user is out.
Delete ==
  /\ apc = "stopped"
  /\ upc = "idle"
  /\ apc' = "gone"
  /\ UNCHANGED <<devVars, list, streaming, confVars, lockVars, toStop, cpc, chand, userVars,
                 todo>>

-----------------------------------------------------------------------------
(* The capture thread.                                                      *)

\* ThreadEntry: with an init lock, Acquire it ...
Entry ==
  /\ cpc = "entry"
  /\ IF initLock
       THEN lock = "free" /\ lock' = "cap" /\ cpc' = "entered"
       ELSE cpc' = "loop" /\ UNCHANGED lock
  /\ UNCHANGED <<devVars, list, streaming, confVars, initLock, toStop, chand, userVars, apc,
                 todo>>

\* ... Release it, forget it ...
Entered ==
  /\ cpc = "entered"
  /\ lock' = "free"
  /\ initLock' = FALSE
  /\ cpc' = "test"
  /\ UNCHANGED <<devVars, list, streaming, confVars, toStop, chand, userVars, apc, todo>>

\* ... and do not run at all if it is to stop already.
Test ==
  /\ cpc = "test"
  /\ cpc' = IF toStop THEN "exit" ELSE "loop"
  /\ UNCHANGED <<devVars, list, streaming, confVars, lockVars, toStop, chand, userVars, apc,
                 todo>>

\* while( LinuxThread::isRunning() )
Loop ==
  /\ cpc = "loop"
  /\ cpc' = IF toStop THEN "last" ELSE "dq"
  /\ UNCHANGED <<devVars, list, streaming, confVars, lockVars, toStop, chand, userVars, apc,
                 todo>>

\* Mutant: a failed VIDIOC_DQBUF is not skipped.
Dequeue_NoCheck ==
  /\ cpc = "dq"
  /\ \/ /\ devOn
        /\ filled # <<>>
        /\ chand' = Head(filled)
        /\ filled' = Tail(filled)
     \/ /\ ~devOn
        /\ UNCHANGED <<chand, filled>>
  /\ cpc' = "push"
  /\ UNCHANGED <<queued, devOn, list, streaming, confVars, lockVars, toStop, userVars, apc,
                 todo>>

\* Mutant: the buffer is listed before the callback has seen it.
Dequeue_Direct ==
  /\ cpc = "dq"
  /\ \/ /\ devOn
        /\ filled # <<>>
        /\ MutexFree
        /\ list' = Append(list, Head(filled))
        /\ filled' = Tail(filled)
        /\ Signal
     \/ /\ ~devOn
        /\ UNCHANGED <<list, filled, upc>>
  /\ cpc' = "loop"
  /\ UNCHANGED <<queued, devOn, streaming, confVars, lockVars, toStop, chand, uhold, uput,
                 apc, todo>>

\* V4l2Base::getBuffer: VIDIOC_DQBUF waits for a filled buffer, which the callback then has,
\* and fails while the driver does not stream.
Dequeue ==
  /\ cpc = "dq"
  /\ \/ /\ devOn
        /\ filled # <<>>
        /\ chand' = Head(filled)
        /\ filled' = Tail(filled)
        /\ cpc' = "push"
     \/ /\ ~devOn
        /\ cpc' = "loop"
        /\ UNCHANGED <<chand, filled>>
  /\ UNCHANGED <<queued, devOn, list, streaming, confVars, lockVars, toStop, userVars, apc,
                 todo>>

\* VIDIOC_DQBUF may fail while the driver streams as well; the thread tries again.
DequeueFails ==
  /\ cpc = "dq"
  /\ devOn
  /\ cpc' = "loop"
  /\ UNCHANGED <<devVars, list, streaming, confVars, lockVars, toStop, chand, userVars, apc,
                 todo>>

\* Mutant: no signal.
Push_NoSignal ==
  /\ cpc = "push"
  /\ MutexFree
  /\ list' = Append(list, chand)
  /\ chand' = NoBuf
  /\ cpc' = "loop"
  /\ UNCHANGED <<devVars, streaming, confVars, lockVars, toStop, userVars, apc, todo>>

\* push_back and signal, in the mutex
Push ==
  /\ cpc = "push"
  /\ MutexFree
  /\ list' = Append(list, chand)
  /\ chand' = NoBuf
  /\ Signal
  /\ cpc' = "loop"
  /\ UNCHANGED <<devVars, streaming, confVars, lockVars, toStop, uhold, uput, apc, todo>>

\* Mutant: the thread ends without a signal.
Last_NoSignal ==
  /\ cpc = "last"
  /\ cpc' = "exit"
  /\ UNCHANGED <<devVars, list, streaming, confVars, lockVars, toStop, chand, userVars, apc,
                 todo>>

\* "make sure no block of user", not in the mutex
Last ==
  /\ cpc = "last"
  /\ Signal
  /\ cpc' = "exit"
  /\ UNCHANGED <<devVars, list, streaming, confVars, lockVars, toStop, chand, uhold, uput,
                 apc, todo>>

-----------------------------------------------------------------------------
(* The user.                                                                *)

\* getBuffer: m_streaming is read before the mutex is locked.
GetBuffer ==
  /\ upc = "idle"
  /\ streaming
  /\ upc' = "look"
  /\ UNCHANGED <<devVars, list, streaming, confVars, lockVars, toStop, cpc, chand, uhold,
                 uput, apc, todo>>

\* Mutant: the buffer that is handed out stays in the list.
Take_Keep(offList) ==
  /\ list # <<>>
  /\ uhold' = uhold \cup {Head(list)}
  /\ UNCHANGED list

\* The head of the list, taken or only shown (offList)
Take(offList) ==
  /\ list # <<>>
  /\ IF offList
       THEN uhold' = uhold \cup {Head(list)} /\ list' = Tail(list)
       ELSE UNCHANGED <<uhold, list>>

\* With the mutex: a buffer, or a wait, or NULL
Again ==
  \/ \E offList \in BOOLEAN : Take(offList) /\ upc' = "idle"
  \/ /\ list = <<>>
     /\ upc' = IF blockUser THEN "wait" ELSE "idle"
     /\ UNCHANGED <<uhold, list>>

Look ==
  /\ upc = "look"
  /\ Again
  /\ UNCHANGED <<devVars, streaming, confVars, lockVars, toStop, cpc, chand, uput, apc, todo>>

\* pthread_cond_wait: into the wait set, and the mutex is free.
Wait ==
  /\ upc = "wait"
  /\ upc' = "blocked"
  /\ UNCHANGED <<devVars, list, streaming, confVars, lockVars, toStop, cpc, chand, uhold,
                 uput, apc, todo>>

\* pthread_cond_wait may return without a signal.
Spurious ==
  /\ upc = "blocked"
  /\ upc' = "woken"
  /\ UNCHANGED <<devVars, list, streaming, confVars, lockVars, toStop, cpc, chand, uhold,
                 uput, apc, todo>>

\* Back in the mutex: look again if the thread is running, else return NULL.
Woken ==
  /\ upc = "woken"
  /\ IF toStop THEN upc' = "idle" /\ UNCHANGED <<uhold, list>> ELSE Again
  /\ UNCHANGED <<devVars, streaming, confVars, lockVars, toStop, cpc, chand, uput, apc, todo>>

\* putBuffer: m_streaming is read ...
PutBuffer(b) ==
  /\ upc = "idle"
  /\ b \in uhold
  /\ streaming
  /\ uput' = b
  /\ upc' = "put"
  /\ UNCHANGED <<devVars, list, streaming, confVars, lockVars, toStop, cpc, chand, uhold,
                 apc, todo>>

\* ... and then VIDIOC_QBUF, which the driver takes whether it streams or not.  If it fails,
\* the user keeps the buffer.
Qbuf ==
  /\ upc = "put"
  /\ \/ queued' = Append(queued, uput) /\ uhold' = uhold \ {uput}
     \/ UNCHANGED <<queued, uhold>>
  /\ uput' = NoBuf
  /\ upc' = "idle"
  /\ UNCHANGED <<filled, devOn, list, streaming, confVars, lockVars, toStop, cpc, chand, apc,
                 todo>>

-----------------------------------------------------------------------------
\* The driver fills the buffer that was queued first.
Fill ==
  /\ devOn
  /\ queued # <<>>
  /\ filled' = Append(filled, Head(queued))
  /\ queued' = Tail(queued)
  /\ UNCHANGED <<devOn, list, streaming, confVars, lockVars, toStop, cpc, chand, userVars,
                 apc, todo>>

Capture == Entry \/ Entered \/ Test \/ Loop \/ Dequeue \/ Push \/ Last

Next ==
  \/ InitV4l2 \/ StreamOn \/ QueueNext \/ Streamed
  \/ StreamOff \/ Streamoff \/ Destroy \/ Join \/ Delete
  \/ Entry \/ Entered \/ Test \/ Loop \/ Dequeue \/ DequeueFails \/ Push \/ Last
  \/ GetBuffer \/ Look \/ Wait \/ Spurious \/ Woken \/ Qbuf
  \/ \E b \in Bufs : PutBuffer(b)
  \/ Fill

Spec == Init /\ [][Next]_vars

\* The threads run: the capture thread where no ioctl or lock holds it, the application
\* inside streaming(false), the user inside its calls.  Nobody has to start a call, and
\* while it streams the driver need neither fill a buffer nor end a VIDIOC_DQBUF.
Fairness ==
  /\ WF_vars(Capture)
  /\ WF_vars(Streamoff \/ Destroy \/ Join)
  /\ WF_vars(Look \/ Wait \/ Woken \/ Qbuf)

FairSpec == Spec /\ Fairness

-----------------------------------------------------------------------------
(* Properties.                                                              *)

BufTypes ==
  /\ queued \in Seq(Bufs) /\ filled \in Seq(Bufs)
  /\ list \in Seq(Bufs) /\ todo \in Seq(Bufs)
  /\ chand \in Bufs \cup {NoBuf}
  /\ uhold \subseteq Bufs
  /\ uput \in uhold \cup {NoBuf}

FlagTypes ==
  /\ devOn \in BOOLEAN /\ streaming \in BOOLEAN /\ toStop \in BOOLEAN
  /\ blockUser \in BOOLEAN /\ lockThread \in BOOLEAN /\ initLock \in BOOLEAN
  /\ lock \in {"free", "app", "cap"}

PcTypes ==
  /\ cpc \in {"none", "entry", "entered", "test", "loop", "dq", "push", "last", "exit"}
  /\ upc \in {"idle", "look", "wait", "blocked", "woken", "put"}
  /\ apc \in {"new", "ready", "queue", "on", "off", "destroy", "join", "stopped", "gone"}

TypeOK == BufTypes /\ FlagTypes /\ PcTypes

\* A buffer that the driver may write is never at the same time in the list, with the
\* capture thread or with the user, however start, stop and late putBuffers interleave.
OneOwner ==
  /\ Distinct(queued) /\ Distinct(filled) /\ Distinct(list)
  /\ Elems(queued) \cap Elems(filled) = {}
  /\ (Elems(queued) \cup Elems(filled)) \cap (Elems(list) \cup {chand} \cup uhold) = {}
  /\ Elems(list) \cap ({chand} \cup uhold) = {}
  /\ chand \notin uhold

\* A user that sleeps for a buffer has none in the list.
NoLostWakeup == upc = "blocked" => list = <<>>

\* Once streaming(true) has succeeded, streaming(false) joins the thread: neither the
\* init lock nor an ioctl holds it.
JoinsIfStarted == apc = "join" /\ lock # "app" ~> apc = "stopped"

\* A user that sleeps while the stopped thread is still in its main is woken by it.
ReleasedIfAsleep ==
  toStop /\ upc = "blocked" /\ cpc \in {"loop", "dq", "push", "last"} /\ lock # "app"
    ~> upc # "blocked"

\* "make sure no block of user" (V4l2MMap.cpp:46): a user that sleeps when the thread is
\* stopped comes back.
UserReleased == toStop /\ upc = "blocked" /\ lock # "app" ~> upc # "blocked"

\* The class is a buffer pool: "each free buffer is submit to driver, so we maintain used
\* list only" (V4l2MMap.h:50-51).  Free is what nobody in the program has.
PlaceOf(b) ==
  CASE b = chand -> "cap"
    [] b \in uhold -> "user"
    [] b \in Elems(list) -> "used"
    [] OTHER -> "free"

Pool == INSTANCE BufferPool WITH
          Buffers <- Bufs,
          Threads <- {"cap", "user"},
          place   <- [b \in Bufs |-> PlaceOf(b)],
          home    <- {},
          dead    <- {},
          open    <- (apc # "gone")

ImplementsPool == Pool!Spec
=============================================================================
