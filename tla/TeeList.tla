------------------------------ MODULE TeeList -------------------------------
(***************************************************************************)
(* The tee of the media pipeline (buffer1/TeeInList.cpp, TeeOutList.cpp):  *)
(* one input list whose thread clones every frame it is sent to the active *)
(* outputs, keeps the source buffer lingering while clones of it are out,  *)
(* and returns it to the input's free side when they have come back.       *)
(*                                                                         *)
(* Actors: the upstream thread that fills and sends buffers, the tee       *)
(* thread (threadRun), one downstream thread per output, and the           *)
(* application that tears the tee down (Clean).  They start where          *)
(* Init(VideoBuffer **bufs) has returned true.                             *)
(*                                                                         *)
(* Grain.  As in BufferList a critical section is one action, except where *)
(* the tee thread holds the input's used mutex over several PutUsed calls  *)
(* (tpc = "clone"): every other section of that mutex then has to wait.    *)
(* A clone shares the memory of its source, so a picture is the number of  *)
(* the frame in the source's memory.                                       *)
(***************************************************************************)
EXTENDS Integers, Sequences, FiniteSets

CONSTANTS
  Parked,       (* the array of VideoBuffers given to Init                   *)
  NoBuf,        (* NULL                                                      *)
  TeeCount,     (* m_teeCount                                                *)
  MaxFrames,    (* bound: frames the upstream sends                          *)
  AnyRelease    (* may the last active output be released before the         *)
                (* upstream has stopped (against buffer1/README, "stop")?    *)

Elems(s) == {s[i] : i \in 1 .. Len(s)}

Bufs == Elems(Parked)

ASSUME TeeListAssumption ==
  /\ Parked \in Seq(Bufs)
  /\ \A i, j \in 1 .. Len(Parked) : Parked[i] = Parked[j] => i = j
  /\ NoBuf \notin Bufs
  /\ TeeCount \in Nat
  /\ MaxFrames \in Nat
  /\ AnyRelease \in BOOLEAN

Outputs == 0 .. TeeCount - 1

VARIABLES
  inFree, inUsed,     (* the input's two FIFOs                               *)
  linger,             (* m_lingerList: sources with clones out               *)
  clones,             (* m_cloneCount of every source                        *)
  active,             (* m_activeTee, as a set                               *)
  outUsed, outFree,   (* the two FIFOs of clones of every output             *)
  stop,               (* m_stopThread                                        *)
  tpc, ti,            (* the tee thread: where it is, its loop's index,      *)
  force, hand, made,  (* popLinger's argument, srcBuf, its cloneCount        *)
  upc, uhold,         (* the upstream thread, and the buffers it has         *)
  frame, sent,        (* the picture in every buffer (0: being written), the *)
                      (* number of frames sent                               *)
  dpc, held,          (* the thread of every output, and the clones it has   *)
  apc                 (* the application                                     *)

inVars  == <<inFree, inUsed>>
outVars == <<active, outUsed, outFree>>
teeVars == <<linger, clones, ti, force, hand, made>>
upVars  == <<upc, uhold, frame, sent>>
dnVars  == <<dpc, held>>
appVars == <<stop, apc>>
vars == <<inFree, inUsed, linger, clones, active, outUsed, outFree, stop, tpc, ti,
          force, hand, made, upc, uhold, frame, sent, dpc, held, apc>>

\* A TeeBuffer: its source and the picture it was made of.
Clone(b) == [buf |-> b, frame |-> frame[b]]

\* Init(bufs) has parked the buffers, made the outputs and started the thread.
Init ==
  /\ inFree = Parked
  /\ inUsed = <<>>
  /\ linger = <<>>
  /\ clones = [b \in Bufs |-> 0]
  /\ active = {}
  /\ outUsed = [o \in Outputs |-> <<>>]
  /\ outFree = [o \in Outputs |-> <<>>]
  /\ stop = FALSE
  /\ tpc = "check" /\ ti = 0 /\ force = FALSE /\ hand = NoBuf /\ made = 0
  /\ upc = "idle" /\ uhold = {}
  /\ frame = [b \in Bufs |-> 0] /\ sent = 0
  /\ dpc = [o \in Outputs |-> "away"]
  /\ held = [o \in Outputs |-> {}]
  /\ apc = "run"

\* The input's used mutex: who holds it over more than one step?
UsedMutexFree == tpc # "clone"

\* Mutant: the broadcast is forgotten.
WakeTee_NoBroadcast == tpc' = tpc

\* pthread_cond_broadcast on the input's used condition: the tee thread alone waits there.
WakeTee == tpc' = IF tpc = "blocked" THEN "woken" ELSE tpc

\* PutFree on the input side; the upstream thread alone waits for free buffers.
PutFreeIn(b) ==
  /\ inFree' = Append(inFree, b)
  /\ upc' = IF upc = "blocked" THEN "woken" ELSE upc

-----------------------------------------------------------------------------
(* The upstream thread.                                                     *)

\* A buffer it has got is being written from now on.
Fill ==
  /\ uhold' = uhold \cup {Head(inFree)}
  /\ frame' = [frame EXCEPT ![Head(inFree)] = 0]
  /\ inFree' = Tail(inFree)

\* GetFree(-1)
UpGet ==
  /\ upc = "idle"
  /\ sent < MaxFrames
  /\ IF inFree # <<>> THEN Fill /\ UNCHANGED upc
     ELSE upc' = "blocked" /\ UNCHANGED <<uhold, frame, inFree>>
  /\ UNCHANGED <<inUsed, teeVars, outVars, appVars, tpc, sent, dnVars>>

UpWake ==
  /\ upc = "woken"
  /\ upc' = "idle"
  /\ IF inFree # <<>> THEN Fill ELSE UNCHANGED <<uhold, frame, inFree>>
  /\ UNCHANGED <<inUsed, teeVars, outVars, appVars, tpc, sent, dnVars>>

\* PutUsed of a frame
UpSend(b) ==
  /\ upc = "idle"
  /\ b \in uhold
  /\ sent < MaxFrames
  /\ UsedMutexFree
  /\ sent' = sent + 1
  /\ frame' = [frame EXCEPT ![b] = sent + 1]
  /\ uhold' = uhold \ {b}
  /\ inUsed' = Append(inUsed, b)
  /\ WakeTee
  /\ UNCHANGED <<inFree, teeVars, outVars, appVars, upc, dnVars>>

\* README, "During pipe stop", step 1: stop sending, give back what is at hand, ack.
UpStop ==
  /\ upc = "idle"
  /\ upc' = "stopping"
  /\ UNCHANGED <<inVars, teeVars, outVars, appVars, tpc, uhold, frame, sent, dnVars>>

UpReturn(b) ==
  /\ upc = "stopping"
  /\ b \in uhold
  /\ uhold' = uhold \ {b}
  /\ PutFreeIn(b)
  /\ UNCHANGED <<inUsed, teeVars, outVars, appVars, tpc, frame, sent, dnVars>>

UpAck ==
  /\ upc = "stopping"
  /\ uhold = {}
  /\ upc' = "stopped"
  /\ UNCHANGED <<inVars, teeVars, outVars, appVars, tpc, uhold, frame, sent, dnVars>>

-----------------------------------------------------------------------------
(* The tee thread: threadRun, line by line.                                 *)

\* Mutant: the loop does not collect the clones that came back.
TeeCheck_NoClean ==
  /\ tpc = "check"
  /\ tpc' = IF stop THEN "lastClean" ELSE "arg"
  /\ ti' = 0
  /\ UNCHANGED <<inVars, outVars, appVars, linger, clones, force, hand, made, upVars,
                 dnVars>>

\* Mutant: at the end the thread returns the sources without collecting the clones.
TeeCheck_NoLastClean ==
  /\ tpc = "check"
  /\ tpc' = IF stop THEN "lastPop" ELSE "clean"
  /\ force' = stop
  /\ ti' = 0
  /\ UNCHANGED <<inVars, outVars, appVars, linger, clones, hand, made, upVars, dnVars>>

\* while( !m_stopThread ), read without the mutex
TeeCheck ==
  /\ tpc = "check"
  /\ tpc' = IF stop THEN "lastClean" ELSE "clean"
  /\ ti' = 0
  /\ UNCHANGED <<inVars, outVars, appVars, linger, clones, force, hand, made, upVars,
                 dnVars>>

\* cleanOutFree: GetFree(0) on every output in turn until it has no more; a clone
\* that came back is deleted and no longer counts for its source.
TeeClean ==
  /\ tpc \in {"clean", "lastClean"}
  /\ IF ti = TeeCount
       THEN /\ tpc' = IF tpc = "clean" THEN "arg" ELSE "lastPop"
            /\ force' = TRUE
            /\ UNCHANGED <<outFree, clones, ti>>
     ELSE IF outFree[ti] = <<>>
       THEN /\ ti' = ti + 1
            /\ UNCHANGED <<outFree, clones, tpc, force>>
     ELSE /\ clones' = [clones EXCEPT ![Head(outFree[ti]).buf] = @ - 1]
          /\ outFree' = [outFree EXCEPT ![ti] = Tail(@)]
          /\ UNCHANGED <<ti, tpc, force>>
  /\ UNCHANGED <<inVars, active, outUsed, appVars, linger, hand, made, upVars, dnVars>>

\* Mutant: the pop is forced as soon as one output is idle.
TeeArg_AnyIdle ==
  /\ tpc = "arg"
  /\ force' = (active # Outputs)
  /\ tpc' = "pop"
  /\ UNCHANGED <<inVars, outVars, appVars, linger, clones, ti, hand, made, upVars, dnVars>>

\* popLinger(0==m_activeTee): the mask is read without the mutex
TeeArg ==
  /\ tpc = "arg"
  /\ force' = (active = {})
  /\ tpc' = "pop"
  /\ UNCHANGED <<inVars, outVars, appVars, linger, clones, ti, hand, made, upVars, dnVars>>

\* Mutant: popLinger stays in its loop until the clones of the head are back.
TeePop_Spin ==
  /\ tpc \in {"pop", "lastPop"}
  /\ IF linger # <<>>
       THEN /\ force \/ clones[Head(linger)] = 0
            /\ linger' = Tail(linger)
            /\ PutFreeIn(Head(linger))
            /\ UNCHANGED tpc
       ELSE /\ tpc' = IF tpc = "pop" THEN "get" ELSE "exit"
            /\ UNCHANGED <<linger, inFree, upc>>
  /\ UNCHANGED <<inUsed, outVars, appVars, clones, ti, force, hand, made, uhold, frame,
                 sent, dnVars>>

\* popLinger: from the head, as far as clones are back, or all of it when forced
TeePop ==
  /\ tpc \in {"pop", "lastPop"}
  /\ IF linger # <<>> /\ (force \/ clones[Head(linger)] = 0)
       THEN /\ linger' = Tail(linger)
            /\ PutFreeIn(Head(linger))
            /\ UNCHANGED tpc
       ELSE /\ tpc' = IF tpc = "pop" THEN "get" ELSE "exit"
            /\ UNCHANGED <<linger, inFree, upc>>
  /\ UNCHANGED <<inUsed, outVars, appVars, clones, ti, force, hand, made, uhold, frame,
                 sent, dnVars>>

\* The frame at the head of the used side
Take ==
  /\ inUsed # <<>>
  /\ hand' = Head(inUsed)
  /\ inUsed' = Tail(inUsed)
  /\ tpc' = "got"

\* GetUsed(-1): one look, one wait, one look
TeeGet ==
  /\ tpc = "get"
  /\ \/ Take
     \/ /\ inUsed = <<>>
        /\ tpc' = "blocked"
        /\ UNCHANGED <<inUsed, hand>>
  /\ UNCHANGED <<inFree, outVars, appVars, linger, clones, ti, force, made, upVars, dnVars>>

TeeWake ==
  /\ tpc = "woken"
  /\ \/ Take
     \/ /\ inUsed = <<>>
        /\ tpc' = "check"
        /\ UNCHANGED <<inUsed, hand>>
  /\ UNCHANGED <<inFree, outVars, appVars, linger, clones, ti, force, made, upVars, dnVars>>

\* pthread_cond_wait may return without a broadcast.
TeeSpurious ==
  /\ tpc = "blocked"
  /\ tpc' = "woken"
  /\ UNCHANGED <<inVars, outVars, appVars, teeVars, upVars, dnVars>>

\* Mutant: the frame that came with the stop is forgotten.
TeeGot_Drop ==
  /\ tpc = "got"
  /\ IF stop
       THEN hand' = NoBuf /\ tpc' = "lastClean"
       ELSE tpc' = "clone" /\ UNCHANGED hand
  /\ ti' = 0
  /\ made' = 0
  /\ UNCHANGED <<inVars, outVars, appVars, clones, linger, force, upVars, dnVars>>

\* A frame that came with the stop is not cloned; otherwise lock the used mutex.
TeeGot ==
  /\ tpc = "got"
  /\ IF stop
       THEN /\ clones' = [clones EXCEPT ![hand] = 0]
            /\ linger' = Append(linger, hand)
            /\ hand' = NoBuf
            /\ tpc' = "lastClean"
       ELSE /\ tpc' = "clone"
            /\ UNCHANGED <<clones, linger, hand>>
  /\ ti' = 0
  /\ made' = 0
  /\ UNCHANGED <<inVars, outVars, appVars, force, upVars, dnVars>>

\* Mutant: the loop over the outputs takes one step too many.
TeeClone_OffByOne ==
  /\ tpc = "clone"
  /\ IF ti > TeeCount
       THEN tpc' = "settle" /\ UNCHANGED <<outUsed, made, ti, dpc>>
       ELSE /\ ti' = ti + 1
            /\ IF ti \in active
                 THEN /\ outUsed' = [outUsed EXCEPT ![ti] = Append(@, Clone(hand))]
                      /\ dpc' = [dpc EXCEPT ![ti] = IF @ = "blocked" THEN "woken" ELSE @]
                      /\ made' = made + 1
                 ELSE UNCHANGED <<outUsed, dpc, made>>
            /\ UNCHANGED tpc
  /\ UNCHANGED <<inVars, active, outFree, appVars, linger, clones, force, hand, upVars,
                 held>>

\* One clone for every active output, the mutex held throughout, then unlock.
TeeClone ==
  /\ tpc = "clone"
  /\ IF ti = TeeCount
       THEN tpc' = "settle" /\ UNCHANGED <<outUsed, made, ti, dpc>>
       ELSE /\ ti' = ti + 1
            /\ IF ti \in active
                 THEN /\ outUsed' = [outUsed EXCEPT ![ti] = Append(@, Clone(hand))]
                      /\ dpc' = [dpc EXCEPT ![ti] = IF @ = "blocked" THEN "woken" ELSE @]
                      /\ made' = made + 1
                 ELSE UNCHANGED <<outUsed, dpc, made>>
            /\ UNCHANGED tpc
  /\ UNCHANGED <<inVars, active, outFree, appVars, linger, clones, force, hand, upVars,
                 held>>

\* Mutant: the source is counted for every output, active or not.
TeeSettle_CountAll ==
  /\ tpc = "settle"
  /\ IF made > 0
       THEN /\ clones' = [clones EXCEPT ![hand] = TeeCount]
            /\ linger' = Append(linger, hand)
            /\ UNCHANGED <<inFree, upc>>
       ELSE /\ PutFreeIn(hand)
            /\ UNCHANGED <<clones, linger>>
  /\ hand' = NoBuf
  /\ tpc' = "check"
  /\ UNCHANGED <<inUsed, outVars, appVars, ti, force, made, uhold, frame, sent, dnVars>>

\* The source lingers with the number of its clones, or goes back at once.
TeeSettle ==
  /\ tpc = "settle"
  /\ IF made > 0
       THEN /\ clones' = [clones EXCEPT ![hand] = made]
            /\ linger' = Append(linger, hand)
            /\ UNCHANGED <<inFree, upc>>
       ELSE /\ PutFreeIn(hand)
            /\ UNCHANGED <<clones, linger>>
  /\ hand' = NoBuf
  /\ tpc' = "check"
  /\ UNCHANGED <<inUsed, outVars, appVars, ti, force, made, uhold, frame, sent, dnVars>>

TeeStep == \/ TeeCheck \/ TeeClean \/ TeeArg \/ TeePop \/ TeeGet \/ TeeWake \/ TeeGot
           \/ TeeClone \/ TeeSettle

-----------------------------------------------------------------------------
(* The thread of output o.                                                  *)

\* getTeeOutput
GetTeeOutput(o) ==
  /\ dpc[o] = "away"
  /\ apc = "run"
  /\ UsedMutexFree
  /\ o \notin active
  /\ active' = active \cup {o}
  /\ dpc' = [dpc EXCEPT ![o] = "on"]
  /\ UNCHANGED <<inVars, teeVars, tpc, outUsed, outFree, appVars, upVars, held>>

\* A clone goes from the head of the output's used side to its thread.
TakeClone(o) ==
  /\ outUsed[o] # <<>>
  /\ held' = [held EXCEPT ![o] = @ \cup {Head(outUsed[o])}]
  /\ outUsed' = [outUsed EXCEPT ![o] = Tail(@)]

\* GetUsed on the output: under the output's own used mutex
DownGet(o) ==
  /\ dpc[o] = "on"
  /\ \/ TakeClone(o) /\ UNCHANGED dpc
     \/ /\ outUsed[o] = <<>>
        /\ dpc' = [dpc EXCEPT ![o] = "blocked"]
        /\ UNCHANGED <<held, outUsed>>
  /\ UNCHANGED <<inVars, teeVars, tpc, active, outFree, appVars, upVars>>

\* woken by a clone, or by the time-out of its wait
DownWake(o) ==
  /\ dpc[o] \in {"woken", "blocked"}
  /\ \/ dpc[o] = "woken" /\ TakeClone(o)
     \/ UNCHANGED <<held, outUsed>> /\ (dpc[o] = "blocked" \/ outUsed[o] = <<>>)
  /\ dpc' = [dpc EXCEPT ![o] = "on"]
  /\ UNCHANGED <<inVars, teeVars, tpc, active, outFree, appVars, upVars>>

\* TeeOutList::PutFree: under the input's used mutex, and to the input's used condition
PutFreeOut(o, c) ==
  /\ UsedMutexFree
  /\ outFree' = [outFree EXCEPT ![o] = Append(@, c)]
  /\ held' = [held EXCEPT ![o] = @ \ {c}]
  /\ WakeTee

DownReturn(o) ==
  /\ dpc[o] = "on"
  /\ \E c \in held[o] : PutFreeOut(o, c)
  /\ UNCHANGED <<inVars, teeVars, active, outUsed, appVars, upVars, dpc>>

\* The user's side of putTeeOutput: every clone is back in the list (TeeInList.h:14),
\* and the last output is released only in the stop protocol (README).
MayRelease(o) ==
  /\ held[o] = {}
  /\ AnyRelease \/ upc = "stopped" \/ active \ {o} # {}

\* putTeeOutput: clear the bit ...
PutTeeOutput(o) ==
  /\ dpc[o] = "on"
  /\ MayRelease(o)
  /\ UsedMutexFree
  /\ active' = active \ {o}
  /\ dpc' = [dpc EXCEPT ![o] = "drain"]
  /\ UNCHANGED <<inVars, teeVars, tpc, outUsed, outFree, appVars, upVars, held>>

\* ... and, after the unlock, move every used clone to the free side, one by one
DownDrain(o) ==
  /\ dpc[o] = "drain"
  /\ \/ TakeClone(o) /\ dpc' = [dpc EXCEPT ![o] = "refree"]
     \/ /\ outUsed[o] = <<>>
        /\ dpc' = [dpc EXCEPT ![o] = "away"]
        /\ UNCHANGED <<held, outUsed>>
  /\ UNCHANGED <<inVars, teeVars, tpc, active, outFree, appVars, upVars>>

DownRefree(o) ==
  /\ dpc[o] = "refree"
  /\ \E c \in held[o] : PutFreeOut(o, c)
  /\ dpc' = [dpc EXCEPT ![o] = "drain"]
  /\ UNCHANGED <<inVars, teeVars, active, outUsed, appVars, upVars>>

-----------------------------------------------------------------------------
(* The application: the destructor, Clean and then BufferList's Clean.      *)

\* "Graph builder needs to make sure no down stream user" (TeeInList.cpp:175), and
\* the upstream has stopped (README).
CleanStop ==
  /\ apc = "run"
  /\ upc = "stopped"
  /\ \A o \in Outputs : dpc[o] = "away"
  /\ UsedMutexFree
  /\ stop' = TRUE
  /\ apc' = "stopping"
  /\ UNCHANGED <<inVars, teeVars, tpc, outVars, upVars, dnVars>>

\* Mutant: the thread is joined without a broadcast.
CleanBroadcast_None ==
  /\ apc = "stopping"
  /\ apc' = "joining"
  /\ UNCHANGED <<inVars, teeVars, tpc, stop, outVars, upVars, dnVars>>

\* pthread_cond_broadcast, outside the mutex
CleanBroadcast ==
  /\ apc = "stopping"
  /\ apc' = "joining"
  /\ WakeTee
  /\ UNCHANGED <<inVars, teeVars, stop, outVars, upVars, dnVars>>

\* pthread_join, then the outputs are deleted
CleanJoin ==
  /\ apc = "joining"
  /\ tpc = "exit"
  /\ apc' = "base"
  /\ UNCHANGED <<inVars, teeVars, tpc, stop, outVars, upVars, dnVars>>

\* BufferList::Clean with m_buffers already NULL: used to free, nothing to wait for.
\* Its usedBuf takes the place of the srcBuf of the thread that is gone.
BaseClean ==
  /\ apc = "base"
  /\ IF hand # NoBuf
       THEN PutFreeIn(hand) /\ hand' = NoBuf /\ UNCHANGED <<inUsed, apc>>
     ELSE IF inUsed # <<>>
       THEN hand' = Head(inUsed) /\ inUsed' = Tail(inUsed) /\ UNCHANGED <<inFree, upc, apc>>
     ELSE apc' = "gone" /\ UNCHANGED <<inFree, inUsed, hand, upc>>
  /\ UNCHANGED <<linger, clones, ti, force, made, tpc, stop, outVars, uhold, frame, sent,
                 dnVars>>

-----------------------------------------------------------------------------
Next ==
  \/ UpGet \/ UpWake \/ UpStop \/ UpAck
  \/ \E b \in Bufs : UpSend(b) \/ UpReturn(b)
  \/ TeeCheck \/ TeeClean \/ TeeArg \/ TeePop \/ TeeGet \/ TeeWake \/ TeeSpurious
  \/ TeeGot \/ TeeClone \/ TeeSettle
  \/ \E o \in Outputs :
       \/ GetTeeOutput(o) \/ DownGet(o) \/ DownWake(o) \/ DownReturn(o)
       \/ PutTeeOutput(o) \/ DownDrain(o) \/ DownRefree(o)
  \/ CleanStop \/ CleanBroadcast \/ CleanJoin \/ BaseClean

Spec == Init /\ [][Next]_vars

\* The tee thread runs, a downstream thread returns the clones it has got and finishes a
\* drain it began, and a teardown that has begun goes on.  Nobody has to send, to get or
\* to release an output, or to start the teardown.
Fairness ==
  /\ WF_vars(TeeStep)
  /\ \A o \in Outputs : WF_vars(DownReturn(o) \/ DownDrain(o) \/ DownRefree(o))
  /\ WF_vars(CleanBroadcast \/ CleanJoin \/ BaseClean)

FairSpec == Spec /\ Fairness

-----------------------------------------------------------------------------
(* Properties.                                                              *)

Clones == [buf : Bufs, frame : 0 .. MaxFrames]

InTypes ==
  /\ inFree \in Seq(Bufs) /\ inUsed \in Seq(Bufs) /\ linger \in Seq(Bufs)
  /\ hand \in Bufs \cup {NoBuf}
  /\ uhold \subseteq Bufs
  /\ frame \in [Bufs -> 0 .. MaxFrames]
  /\ sent \in 0 .. MaxFrames

OutTypes ==
  /\ clones \in [Bufs -> Int]
  /\ active \subseteq Outputs
  /\ outUsed \in [Outputs -> Seq(Clones)] /\ outFree \in [Outputs -> Seq(Clones)]
  /\ held \in [Outputs -> SUBSET Clones]

PcTypes ==
  /\ stop \in BOOLEAN
  /\ tpc \in {"check", "clean", "arg", "pop", "get", "blocked", "woken", "got", "clone",
              "settle", "lastClean", "lastPop", "exit"}
  /\ ti \in 0 .. TeeCount
  /\ force \in BOOLEAN
  /\ made \in 0 .. TeeCount
  /\ upc \in {"idle", "blocked", "woken", "stopping", "stopped"}
  /\ dpc \in [Outputs -> {"away", "on", "blocked", "woken", "drain", "refree"}]
  /\ apc \in {"run", "stopping", "joining", "base", "gone"}

\* The state is well formed: no list holds anything but buffers or clones of buffers, and
\* the loop over the outputs stays within them (threadRun).
TypeOK == InTypes /\ OutTypes /\ PcTypes

\* The clones at output o that have not come back: with its thread, or in its used side.
Out(o) == held[o] \cup Elems(outUsed[o])

ClonesOf(b) ==
  UNION {{<<o, c>> : c \in {d \in Out(o) \cup Elems(outFree[o]) : d.buf = b}} : o \in Outputs}

\* The tee never loses or doubles a clone: the count of a lingering source is the number
\* of its clones, and a buffer that is not lingering has none (once the upstream has
\* stopped, a forced pop may return a source before its last clones).
CountExact ==
  /\ \A b \in Elems(linger) : clones[b] = Cardinality(ClonesOf(b))
  /\ tpc \in {"clone", "settle"} => made = Cardinality(ClonesOf(hand))
  /\ upc # "stopped" =>
       \A b \in uhold \cup Elems(inFree) \cup Elems(inUsed) : ClonesOf(b) = {}

\* "buffers coming in from TeeInList [...] stay until all clone done" (TeeOutList.h:14):
\* the memory a clone shares holds the picture it was made of as long as the output is
\* in use and the clone is in its used side or with its thread.
PictureKept ==
  \A o \in active : \A c \in Out(o) : frame[c.buf] = c.frame

\* No lost wakeup on a queue: whoever sleeps has nothing to take.  (What the tee thread
\* sleeps through is a clone that came back, or the stop: see ReturnsIfSeen, StopJoins.)
NoLostWakeup ==
  /\ tpc = "blocked" => inUsed = <<>>
  /\ upc = "blocked" => inFree = <<>>
  /\ \A o \in Outputs : dpc[o] = "blocked" => outUsed[o] = <<>>

\* Every frame that is sent is taken up by the tee, whatever the outputs do.
EveryFrameTeed ==
  \A b \in Bufs : b \in Elems(inUsed) ~> b \notin Elems(inUsed)

AllBack(b) == \A o \in Outputs : \A c \in Out(o) : c.buf # b

HeadIsBack(b) == linger # <<>> /\ Head(linger) = b /\ AllBack(b)

\* Where the tee thread has looked at the stop flag or at the outputs and does not yet
\* sleep: what happens now it may miss.
Window == {"clean", "arg", "pop", "get"}

\* A source whose clones are back while the tee thread is before its look is returned.
ReturnsIfSeen ==
  \A b \in Bufs : HeadIsBack(b) /\ tpc \notin Window \cup {"blocked"}
                    ~> b \notin Elems(linger)

\* "1. stop thread" (TeeInList.cpp:176): a teardown that has begun ends.
StopJoins == apc = "stopping" ~> apc = "gone"

\* A teardown that finds the tee thread asleep, or before its look at the flag, ends.
StopsIfSeen == apc = "stopping" /\ tpc \notin Window ~> apc = "gone"

\* No clone outlives its output ("tout has used", "tout has free", TeeOutList.cpp:40):
\* when the outputs are deleted every clone has been collected by the tee thread.
NoCloneLeft ==
  apc \in {"base", "gone"} => \A o \in Outputs : outUsed[o] = <<>> /\ outFree[o] = <<>>

\* The input side is a buffer pool whose threads are the upstream and the tee: every
\* source is in one place, moves hand to hand, and the tee goes away with all of its
\* buffers in the free side.
PlaceOf(b) ==
  CASE b \in uhold -> "up"
    [] b \in Elems(linger) \/ hand = b -> "tee"
    [] b \in Elems(inFree) -> "free"
    [] b \in Elems(inUsed) -> "used"
    [] OTHER -> "new"

Pool == INSTANCE BufferPool WITH
          Buffers <- Bufs,
          Threads <- {"up", "tee"},
          place   <- [b \in Bufs |-> PlaceOf(b)],
          home    <- Bufs,
          dead    <- {},
          open    <- (apc # "gone")

ImplementsPool == Pool!Spec
=============================================================================
