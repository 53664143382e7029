--------------------------- MODULE TeeListProofs ----------------------------
(***************************************************************************)
(* Proofs about TeeList, for any number of buffers, outputs and frames:    *)
(*                                                                         *)
(*  - its state stays well formed, nobody sleeps beside a queue with       *)
(*    something in it, and no clone outlives its output;                   *)
(*  - its input side is a buffer pool (TeeIsPool).  All these hold with    *)
(*    every use of the outputs allowed (AnyRelease).                       *)
(*  - Where the last output is released only in the stop protocol          *)
(*    (~AnyRelease), its counts of clones are exact (CountsExact) and a    *)
(*    clone that is in use keeps its picture (PicturesKept).               *)
(***************************************************************************)
EXTENDS TeeList, SequenceTheorems, FiniteSetTheorems, TLAPS

\* The tee thread has a frame in hand where its code says so, and has made at most one clone
\* for each output it has been to.
InHand ==
  /\ tpc \in {"got", "clone", "settle"} => hand \in Bufs
  /\ tpc \in {"clone", "settle"} => made <= ti

\* An output is active while it has a user.  One without a user is empty, but for the clone
\* that its last user is moving.
OutputOf ==
  \A o \in Outputs :
    /\ o \in active <=> dpc[o] \in {"on", "blocked", "woken"}
    /\ dpc[o] = "away" => outUsed[o] = <<>>
    /\ dpc[o] \in {"away", "drain"} => held[o] = {}
    /\ dpc[o] = "refree" => \E c \in Clones : held[o] = {c}

\* What is over when the teardown has come so far: nobody returns clones any more, so that
\* what the tee thread has collected stays collected.
Stopping ==
  /\ stop <=> apc # "run"
  /\ stop => upc = "stopped" /\ \A o \in Outputs : dpc[o] = "away"
  /\ tpc \in {"lastClean", "lastPop", "exit"} => stop
  /\ tpc = "lastClean" => \A o \in Outputs : o < ti => outFree[o] = <<>>
  /\ tpc \in {"lastPop", "exit"} => \A o \in Outputs : outFree[o] = <<>>
  /\ apc \in {"base", "gone"} => tpc = "exit"

\* The inductive invariant
IInv == TypeOK /\ InHand /\ OutputOf /\ Stopping /\ NoLostWakeup

-----------------------------------------------------------------------------
(* Facts about the operators the actions are built from.                    *)

\* What pop_front takes, and what it leaves.
LEMMA HeadTail ==
  ASSUME NEW S, NEW s \in Seq(S), s # <<>>
  PROVE  Head(s) \in S /\ Tail(s) \in Seq(S)
  BY HeadTailProperties

\* What push_back leaves.
LEMMA AppendType ==
  ASSUME NEW S, NEW s \in Seq(S), NEW x \in S
  PROVE  Append(s, x) \in Seq(S) /\ Append(s, x) # <<>>
  BY AppendProperties

\* The loop's index is an output's number until the loop ends.
LEMMA OutputNumber == ASSUME NEW i \in 0 .. TeeCount PROVE i \in Outputs <=> i # TeeCount
  BY TeeListAssumption DEF Outputs

\* A clone is made of a buffer and its picture.
LEMMA CloneType == ASSUME InTypes, NEW b \in Bufs PROVE Clone(b) \in Clones
  BY DEF Clone, Clones, InTypes

-----------------------------------------------------------------------------
\* Where Init(VideoBuffer **bufs) has returned true the invariant holds.
LEMMA InitInv == Init => IInv
<1> SUFFICES ASSUME Init PROVE IInv
  OBVIOUS
<1>1. <<>> \in Seq(Bufs) /\ <<>> \in Seq(Clones) /\ Parked \in Seq(Bufs)
  BY EmptySeq, TeeListAssumption
<1>2. InTypes
  BY <1>1, TeeListAssumption DEF Init, InTypes
<1>3. OutTypes
  BY <1>1 DEF Init, OutTypes
<1>4. PcTypes
  <2>1. 0 \in 0 .. TeeCount
    BY TeeListAssumption
  <2> QED
    BY <2>1 DEF Init, PcTypes
<1>5. OutputOf /\ InHand /\ Stopping /\ NoLostWakeup
  BY DEF Init, OutputOf, InHand, Stopping, NoLostWakeup
<1> QED
  BY <1>2, <1>3, <1>4, <1>5 DEF IInv, TypeOK

\* The buffers of the input side, those in hand, and the pictures in them
LEMMA InTypesInv == IInv /\ [Next]_vars => InTypes'
<1> SUFFICES ASSUME IInv, [Next]_vars PROVE InTypes'
  OBVIOUS
<1>0. InTypes /\ InHand
  BY DEF IInv, TypeOK
<1>1. /\ inFree # <<>> => Head(inFree) \in Bufs /\ Tail(inFree) \in Seq(Bufs)
      /\ inUsed # <<>> => Head(inUsed) \in Bufs /\ Tail(inUsed) \in Seq(Bufs)
      /\ linger # <<>> => Head(linger) \in Bufs /\ Tail(linger) \in Seq(Bufs)
      /\ \A b \in Bufs : /\ Append(inFree, b) \in Seq(Bufs)
                         /\ Append(inUsed, b) \in Seq(Bufs)
                         /\ Append(linger, b) \in Seq(Bufs)
  BY <1>0, HeadTail, AppendType DEF InTypes
<1>2. CASE UpGet \/ UpWake
  <2>1. CASE Fill /\ inFree # <<>>
    <3>1. 0 \in 0 .. MaxFrames
      BY TeeListAssumption
    <3> QED
      BY <1>0, <1>1, <1>2, <2>1, <3>1 DEF InTypes, UpGet, UpWake, Fill, teeVars
  <2>2. CASE UNCHANGED <<uhold, frame, inFree>>
    BY <1>0, <1>2, <2>2 DEF InTypes, UpGet, UpWake, teeVars
  <2> QED
    BY <1>2, <2>1, <2>2 DEF UpGet, UpWake
<1>3. ASSUME NEW b \in Bufs, UpSend(b) PROVE InTypes'
  <2>1. sent + 1 \in 0 .. MaxFrames
    BY <1>0, <1>3, TeeListAssumption DEF UpSend, InTypes
  <2> QED
    BY <1>0, <1>1, <1>3, <2>1 DEF InTypes, UpSend, teeVars
<1>4. ASSUME NEW b \in Bufs, UpReturn(b) PROVE InTypes'
  BY <1>0, <1>1, <1>4 DEF InTypes, UpReturn, PutFreeIn, teeVars
<1>5. CASE UpStop \/ UpAck
  BY <1>0, <1>5 DEF InTypes, UpStop, UpAck, inVars, teeVars
<1>6. CASE TeeCheck \/ TeeClean \/ TeeArg \/ TeeSpurious \/ TeeClone
  BY <1>0, <1>6
  DEF InTypes, TeeCheck, TeeClean, TeeArg, TeeSpurious, TeeClone, inVars, upVars, teeVars
<1>7. CASE TeePop
  BY <1>0, <1>1, <1>7 DEF InTypes, TeePop, PutFreeIn
<1>8. CASE TeeGet \/ TeeWake
  BY <1>0, <1>1, <1>8 DEF InTypes, TeeGet, TeeWake, Take, upVars
<1>9. CASE TeeGot \/ TeeSettle
  BY <1>0, <1>1, <1>9 DEF InTypes, InHand, TeeGot, TeeSettle, PutFreeIn, inVars, upVars
<1>10. ASSUME NEW o \in Outputs,
              \/ GetTeeOutput(o) \/ DownGet(o) \/ DownWake(o) \/ DownReturn(o)
              \/ PutTeeOutput(o) \/ DownDrain(o) \/ DownRefree(o)
       PROVE  InTypes'
  BY <1>0, <1>10
  DEF InTypes, GetTeeOutput, DownGet, DownWake, DownReturn, PutTeeOutput, DownDrain,
      DownRefree, inVars, teeVars, upVars
<1>11. CASE CleanStop \/ CleanBroadcast \/ CleanJoin
  BY <1>0, <1>11 DEF InTypes, CleanStop, CleanBroadcast, CleanJoin, inVars, teeVars, upVars
<1>12. CASE BaseClean
  BY <1>0, <1>1, <1>12 DEF InTypes, BaseClean, PutFreeIn
<1>13. CASE UNCHANGED vars
  BY <1>0, <1>13 DEF InTypes, vars
<1> QED
  BY <1>2, <1>3, <1>4, <1>5, <1>6, <1>7, <1>8, <1>9, <1>10, <1>11, <1>12, <1>13 DEF Next

\* The clones at the outputs, and the counts of their sources
LEMMA OutTypesInv == IInv /\ [Next]_vars => OutTypes'
<1> SUFFICES ASSUME IInv, [Next]_vars PROVE OutTypes'
  OBVIOUS
<1>0. InTypes /\ OutTypes /\ PcTypes /\ InHand
  BY DEF IInv, TypeOK
<1>1. \A o \in Outputs :
        /\ outUsed[o] \in Seq(Clones) /\ outFree[o] \in Seq(Clones)
        /\ outUsed[o] # <<>> => Head(outUsed[o]) \in Clones /\ Tail(outUsed[o]) \in Seq(Clones)
        /\ outFree[o] # <<>> => Head(outFree[o]) \in Clones /\ Tail(outFree[o]) \in Seq(Clones)
        /\ \A c \in Clones : /\ Append(outUsed[o], c) \in Seq(Clones)
                             /\ Append(outFree[o], c) \in Seq(Clones)
  BY <1>0, HeadTail, AppendType DEF OutTypes
<1>2. CASE UpGet \/ UpWake \/ UpStop \/ UpAck
           \/ \E b \in Bufs : UpSend(b) \/ UpReturn(b)
  BY <1>0, <1>2
  DEF OutTypes, UpGet, UpWake, UpStop, UpAck, UpSend, UpReturn, teeVars, outVars, dnVars
<1>3. CASE TeeCheck \/ TeeArg \/ TeePop \/ TeeGet \/ TeeWake \/ TeeSpurious
  BY <1>0, <1>3
  DEF OutTypes, TeeCheck, TeeArg, TeePop, TeeGet, TeeWake, TeeSpurious, teeVars, outVars,
      dnVars
<1>4. CASE TeeClean
  <2>1. CASE ti = TeeCount \/ outFree[ti] = <<>>
    BY <1>0, <1>4, <2>1 DEF OutTypes, TeeClean, dnVars
  <2>2. CASE ti # TeeCount /\ outFree[ti] # <<>>
    <3>1. ti \in Outputs
      BY <1>0, <2>2, OutputNumber DEF PcTypes
    <3>2. Head(outFree[ti]) \in Clones /\ Tail(outFree[ti]) \in Seq(Clones)
      BY <1>1, <2>2, <3>1
    <3>3. Head(outFree[ti]).buf \in Bufs
      BY <3>2 DEF Clones
    <3>4. /\ clones' = [clones EXCEPT ![Head(outFree[ti]).buf] = @ - 1]
          /\ outFree' = [outFree EXCEPT ![ti] = Tail(@)]
      BY <1>4, <2>2 DEF TeeClean
    <3>5. clones' \in [Bufs -> Int]
      BY <1>0, <3>3, <3>4 DEF OutTypes
    <3>6. outFree' \in [Outputs -> Seq(Clones)]
      BY <1>0, <3>1, <3>2, <3>4 DEF OutTypes
    <3> QED
      BY <1>0, <1>4, <3>5, <3>6 DEF OutTypes, TeeClean, dnVars
  <2> QED
    BY <2>1, <2>2
<1>5. CASE TeeGot \/ TeeSettle
  <2>1. made \in Int
    BY <1>0, TeeListAssumption DEF PcTypes
  <2> QED
    BY <1>0, <1>5, <2>1 DEF OutTypes, TeeGot, TeeSettle, outVars, dnVars
<1>6. CASE TeeClone
  <2>1. hand \in Bufs
    BY <1>0, <1>6 DEF InHand, TeeClone
  <2>2. Clone(hand) \in Clones
    BY <1>0, <2>1, CloneType
  <2>3. outUsed' \in [Outputs -> Seq(Clones)]
    <3>1. CASE UNCHANGED outUsed
      BY <1>0, <3>1 DEF OutTypes
    <3>2. CASE ti \in active /\ outUsed' = [outUsed EXCEPT ![ti] = Append(@, Clone(hand))]
      <4>1. ti \in Outputs
        BY <1>0, <3>2 DEF OutTypes
      <4>2. Append(outUsed[ti], Clone(hand)) \in Seq(Clones)
        BY <1>1, <2>2, <4>1
      <4> QED
        BY <1>0, <3>2, <4>1, <4>2 DEF OutTypes
    <3> QED
      BY <1>6, <3>1, <3>2 DEF TeeClone
  <2> QED
    BY <1>0, <1>6, <2>3 DEF OutTypes, TeeClone
<1>7. ASSUME NEW o \in Outputs,
             GetTeeOutput(o) \/ DownGet(o) \/ DownWake(o) \/ PutTeeOutput(o) \/ DownDrain(o)
      PROVE  OutTypes'
  <2>1. CASE TakeClone(o)
    <3>1. Head(outUsed[o]) \in Clones /\ Tail(outUsed[o]) \in Seq(Clones)
      BY <1>1, <2>1 DEF TakeClone
    <3>2. held' \in [Outputs -> SUBSET Clones] /\ outUsed' \in [Outputs -> Seq(Clones)]
      BY <1>0, <2>1, <3>1 DEF OutTypes, TakeClone
    <3>3. UNCHANGED <<clones, outFree>> /\ active' \subseteq Outputs
      BY <1>0, <1>7
      DEF OutTypes, GetTeeOutput, DownGet, DownWake, PutTeeOutput, DownDrain, teeVars
    <3> QED
      BY <1>0, <3>2, <3>3 DEF OutTypes
  <2>2. CASE UNCHANGED <<held, outUsed>>
    BY <1>0, <1>7, <2>2
    DEF OutTypes, GetTeeOutput, DownGet, DownWake, PutTeeOutput, DownDrain, teeVars
  <2> QED
    BY <1>7, <2>1, <2>2 DEF GetTeeOutput, DownGet, DownWake, PutTeeOutput, DownDrain
<1>8. ASSUME NEW o \in Outputs, DownReturn(o) \/ DownRefree(o) PROVE OutTypes'
  <2>1. PICK c \in held[o] : PutFreeOut(o, c)
    BY <1>8 DEF DownReturn, DownRefree
  <2>2. c \in Clones
    BY <1>0 DEF OutTypes
  <2> QED
    BY <1>0, <1>1, <1>8, <2>1, <2>2 DEF OutTypes, DownReturn, DownRefree, PutFreeOut, teeVars
<1>9. CASE CleanStop \/ CleanBroadcast \/ CleanJoin \/ BaseClean
  BY <1>0, <1>9
  DEF OutTypes, CleanStop, CleanBroadcast, CleanJoin, BaseClean, teeVars, outVars, dnVars
<1>10. CASE UNCHANGED vars
  BY <1>0, <1>10 DEF OutTypes, vars
<1> QED
  BY <1>2, <1>3, <1>4, <1>5, <1>6, <1>7, <1>8, <1>9, <1>10 DEF Next

\* Flags, program counters and the index of the loop over the outputs
LEMMA PcTypesInv == IInv /\ [Next]_vars => PcTypes' /\ InHand'
<1> SUFFICES ASSUME IInv, [Next]_vars PROVE PcTypes' /\ InHand'
  OBVIOUS
<1>0. InTypes /\ OutTypes /\ PcTypes /\ InHand /\ Stopping
  BY DEF IInv, TypeOK
<1>1. TeeCount \in Nat /\ 0 \in 0 .. TeeCount
  BY TeeListAssumption
<1>2. CASE UpGet \/ UpWake \/ UpStop \/ UpAck
  BY <1>0, <1>2
  DEF PcTypes, InHand, UpGet, UpWake, UpStop, UpAck, teeVars, appVars, dnVars
<1>3. ASSUME NEW b \in Bufs, UpSend(b) \/ UpReturn(b) PROVE PcTypes' /\ InHand'
  BY <1>0, <1>3
  DEF PcTypes, InHand, UpSend, UpReturn, WakeTee, PutFreeIn, teeVars, appVars, dnVars
<1>4. CASE TeeCheck \/ TeeArg \/ TeePop \/ TeeSpurious
  <2>1. PcTypes'
    BY <1>0, <1>1, <1>4
    DEF PcTypes, TeeCheck, TeeArg, TeePop, TeeSpurious, PutFreeIn, teeVars, appVars, upVars,
        dnVars
  <2>2. tpc' \notin {"got", "clone", "settle"}
    BY <1>4 DEF TeeCheck, TeeArg, TeePop, TeeSpurious
  <2> QED
    BY <2>1, <2>2 DEF InHand
<1>5. CASE TeeGet \/ TeeWake
  <2>1. inUsed # <<>> => Head(inUsed) \in Bufs
    BY <1>0, HeadTail DEF InTypes
  <2> QED
    BY <1>0, <1>5, <2>1
    DEF PcTypes, InHand, TeeGet, TeeWake, Take, teeVars, appVars, upVars, dnVars
<1>6. CASE TeeClean
  <2>1. ti' \in 0 .. TeeCount
    BY <1>0, <1>1, <1>6 DEF PcTypes, TeeClean
  <2> QED
    BY <1>0, <1>6, <2>1 DEF PcTypes, InHand, TeeClean, appVars, upVars, dnVars
<1>7. CASE TeeGot \/ TeeSettle
  BY <1>0, <1>1, <1>7
  DEF PcTypes, InHand, TeeGot, TeeSettle, PutFreeIn, outVars, appVars, upVars, dnVars
<1>8. CASE TeeClone
  <2>1. ti' \in 0 .. TeeCount /\ made' \in 0 .. TeeCount /\ made' <= ti'
    BY <1>0, <1>1, <1>8 DEF PcTypes, InHand, TeeClone
  <2>2. dpc' \in [Outputs -> {"away", "on", "blocked", "woken", "drain", "refree"}]
    BY <1>0, <1>8 DEF PcTypes, TeeClone
  <2> QED
    BY <1>0, <1>8, <2>1, <2>2 DEF PcTypes, InHand, TeeClone, appVars, upVars
<1>9. ASSUME NEW o \in Outputs,
             GetTeeOutput(o) \/ DownGet(o) \/ DownWake(o) \/ PutTeeOutput(o) \/ DownDrain(o)
      PROVE  PcTypes' /\ InHand'
  BY <1>0, <1>9
  DEF PcTypes, InHand, GetTeeOutput, DownGet, DownWake, PutTeeOutput, DownDrain, TakeClone,
      teeVars, appVars, upVars
<1>10. ASSUME NEW o \in Outputs, DownReturn(o) \/ DownRefree(o) PROVE PcTypes' /\ InHand'
  BY <1>0, <1>10
  DEF PcTypes, InHand, DownReturn, DownRefree, PutFreeOut, WakeTee, teeVars, appVars, upVars
<1>11. CASE CleanStop \/ CleanBroadcast \/ CleanJoin
  BY <1>0, <1>11
  DEF PcTypes, InHand, CleanStop, CleanBroadcast, CleanJoin, WakeTee, teeVars, upVars, dnVars
<1>12. CASE BaseClean
  <2>1. tpc = "exit" /\ tpc' = tpc
    BY <1>0, <1>12 DEF Stopping, BaseClean
  <2> QED
    BY <1>0, <1>12, <2>1 DEF PcTypes, InHand, BaseClean, PutFreeIn, dnVars
<1>13. CASE UNCHANGED vars
  BY <1>0, <1>13 DEF PcTypes, InHand, vars
<1> QED
  BY <1>2, <1>3, <1>4, <1>5, <1>6, <1>7, <1>8, <1>9, <1>10, <1>11, <1>12, <1>13 DEF Next

-----------------------------------------------------------------------------
\* Who uses an output, and what it holds.  Only the tee thread puts clones in, and only
\* where the output is active.
LEMMA OutputOfInv == IInv /\ [Next]_vars => OutputOf'
<1> SUFFICES ASSUME IInv, [Next]_vars PROVE OutputOf'
  OBVIOUS
<1>0. OutTypes /\ PcTypes /\ OutputOf
  BY DEF IInv, TypeOK
<1>1. CASE UNCHANGED <<active, outUsed, held, dpc>>
  BY <1>0, <1>1 DEF OutputOf
<1>2. CASE TeeClone
  <2>1. SUFFICES ASSUME ti \in active,
                        outUsed' = [outUsed EXCEPT ![ti] = Append(@, Clone(hand))],
                        dpc' = [dpc EXCEPT ![ti] = IF @ = "blocked" THEN "woken" ELSE @],
                        UNCHANGED <<active, held>>
                 PROVE  OutputOf'
    BY <1>1, <1>2 DEF TeeClone
  <2>2. ti \in Outputs /\ dpc[ti] \in {"on", "blocked", "woken"}
    BY <1>0, <2>1 DEF OutTypes, OutputOf
  <2> QED
    BY <1>0, <2>1, <2>2 DEF OutTypes, PcTypes, OutputOf
<1>3. ASSUME NEW o \in Outputs,
             GetTeeOutput(o) \/ PutTeeOutput(o) \/ DownGet(o) \/ DownWake(o) \/ DownDrain(o)
      PROVE  OutputOf'
  <2>1. \A p \in Outputs \ {o} :
          /\ p \in active' <=> p \in active
          /\ dpc'[p] = dpc[p] /\ outUsed'[p] = outUsed[p] /\ held'[p] = held[p]
    BY <1>0, <1>3
    DEF OutTypes, PcTypes, GetTeeOutput, PutTeeOutput, DownGet, DownWake, DownDrain, TakeClone
  <2>2. /\ o \in active' <=> dpc'[o] \in {"on", "blocked", "woken"}
        /\ dpc'[o] = "away" => outUsed'[o] = <<>>
        /\ dpc'[o] \in {"away", "drain"} => held'[o] = {}
        /\ dpc'[o] = "refree" => \E c \in Clones : held'[o] = {c}
    <3>1. CASE GetTeeOutput(o) \/ PutTeeOutput(o)
      BY <1>0, <3>1 DEF OutTypes, PcTypes, OutputOf, GetTeeOutput, PutTeeOutput, MayRelease
    <3>2. CASE DownGet(o) \/ DownWake(o)
      BY <1>0, <3>2 DEF OutTypes, PcTypes, OutputOf, DownGet, DownWake, TakeClone
    <3>3. CASE DownDrain(o) /\ outUsed[o] # <<>>
      <4>1. Head(outUsed[o]) \in Clones
        BY <1>0, <3>3, HeadTail DEF OutTypes
      <4>2. held'[o] = {Head(outUsed[o])} /\ dpc'[o] = "refree" /\ active' = active
        BY <1>0, <3>3 DEF OutTypes, PcTypes, OutputOf, DownDrain, TakeClone
      <4> QED
        BY <1>0, <3>3, <4>1, <4>2 DEF OutputOf, DownDrain
    <3>4. CASE DownDrain(o) /\ outUsed[o] = <<>>
      BY <1>0, <3>4 DEF PcTypes, OutputOf, DownDrain, TakeClone
    <3> QED
      BY <1>3, <3>1, <3>2, <3>3, <3>4
  <2> QED
    BY <1>0, <2>1, <2>2 DEF OutputOf
<1>4. ASSUME NEW o \in Outputs, DownReturn(o) \/ DownRefree(o) PROVE OutputOf'
  <2>1. PICK c \in held[o] : PutFreeOut(o, c)
    BY <1>4 DEF DownReturn, DownRefree
  <2>2. held' = [held EXCEPT ![o] = @ \ {c}] /\ UNCHANGED <<active, outUsed>>
    BY <1>4, <2>1 DEF DownReturn, DownRefree, PutFreeOut
  <2>3. CASE DownReturn(o)
    BY <1>0, <2>2, <2>3 DEF OutTypes, PcTypes, OutputOf, DownReturn
  <2>4. CASE DownRefree(o)
    <3>1. held'[o] = {}
      BY <1>0, <2>2, <2>4 DEF OutTypes, OutputOf, DownRefree
    <3> QED
      BY <1>0, <2>2, <2>4, <3>1 DEF OutTypes, PcTypes, OutputOf, DownRefree
  <2> QED
    BY <1>4, <2>3, <2>4
<1>5. CASE \/ UpGet \/ UpWake \/ UpStop \/ UpAck
           \/ \E b \in Bufs : UpSend(b) \/ UpReturn(b)
  BY <1>1, <1>5 DEF UpGet, UpWake, UpStop, UpAck, UpSend, UpReturn, outVars, dnVars
<1>6. CASE \/ TeeCheck \/ TeeClean \/ TeeArg \/ TeePop \/ TeeGet \/ TeeWake \/ TeeSpurious
           \/ TeeGot \/ TeeSettle
  BY <1>1, <1>6
  DEF TeeCheck, TeeClean, TeeArg, TeePop, TeeGet, TeeWake, TeeSpurious, TeeGot, TeeSettle,
      outVars, dnVars
<1>7. CASE CleanStop \/ CleanBroadcast \/ CleanJoin \/ BaseClean
  BY <1>1, <1>7 DEF CleanStop, CleanBroadcast, CleanJoin, BaseClean, outVars, dnVars
<1>8. CASE UNCHANGED vars
  BY <1>1, <1>8 DEF vars
<1> QED
  BY <1>2, <1>3, <1>4, <1>5, <1>6, <1>7, <1>8 DEF Next

-----------------------------------------------------------------------------
\* The teardown begins with every output away and the upstream stopped, and they stay so:
\* the free sides of the outputs are only emptied, each for the last time by lastClean.
LEMMA StoppingInv == IInv /\ [Next]_vars => Stopping'
<1> SUFFICES ASSUME IInv, [Next]_vars PROVE Stopping'
  OBVIOUS
<1>0. OutTypes /\ PcTypes /\ OutputOf /\ Stopping
  BY DEF IInv, TypeOK
<1>1. TeeCount \in Nat /\ Outputs = 0 .. TeeCount - 1
  BY TeeListAssumption DEF Outputs
<1>2. CASE UpGet \/ UpWake \/ UpStop \/ UpAck
  BY <1>0, <1>2
  DEF Stopping, UpGet, UpWake, UpStop, UpAck, teeVars, outVars, appVars, dnVars
<1>3. ASSUME NEW b \in Bufs, UpSend(b) \/ UpReturn(b) PROVE Stopping'
  BY <1>0, <1>3
  DEF Stopping, UpSend, UpReturn, WakeTee, PutFreeIn, teeVars, outVars, appVars, dnVars
<1>4. CASE TeeCheck
  <2>1. tpc' = "lastClean" => \A o \in Outputs : ~ (o < ti')
    BY <1>1, <1>4 DEF TeeCheck
  <2> QED
    BY <1>0, <1>4, <2>1 DEF Stopping, TeeCheck, outVars, appVars, upVars, dnVars
<1>5. CASE TeeClean
  <2>1. stop' = stop /\ apc' = apc /\ upc' = upc /\ dpc' = dpc
    BY <1>5 DEF TeeClean, appVars, upVars, dnVars
  <2>2. CASE tpc = "clean"
    BY <1>0, <1>5, <2>1, <2>2 DEF Stopping, TeeClean
  <2>3. CASE tpc = "lastClean" /\ ti = TeeCount
    BY <1>0, <1>1, <1>5, <2>1, <2>3 DEF Stopping, TeeClean
  <2>4. CASE tpc = "lastClean" /\ ti # TeeCount /\ outFree[ti] = <<>>
    <3>1. \A o \in Outputs : o < ti + 1 => o < ti \/ o = ti
      BY <1>0, <1>1 DEF PcTypes
    <3> QED
      BY <1>0, <1>5, <2>1, <2>4, <3>1 DEF Stopping, TeeClean
  <2>5. CASE tpc = "lastClean" /\ ti # TeeCount /\ outFree[ti] # <<>>
    <3>1. \A o \in Outputs : o < ti => outFree'[o] = outFree[o]
      BY <1>0, <1>1, <1>5, <2>5 DEF OutTypes, PcTypes, TeeClean
    <3> QED
      BY <1>0, <1>5, <2>1, <2>5, <3>1 DEF Stopping, TeeClean
  <2> QED
    BY <1>5, <2>2, <2>3, <2>4, <2>5 DEF TeeClean
<1>6. CASE TeeArg \/ TeePop \/ TeeGet \/ TeeWake \/ TeeSpurious
  BY <1>0, <1>6
  DEF Stopping, TeeArg, TeePop, TeeGet, TeeWake, TeeSpurious, Take, PutFreeIn, teeVars,
      outVars, appVars, upVars, dnVars
<1>7. CASE TeeGot
  <2>1. tpc' = "lastClean" => \A o \in Outputs : ~ (o < ti')
    BY <1>1, <1>7 DEF TeeGot
  <2> QED
    BY <1>0, <1>7, <2>1 DEF Stopping, TeeGot, outVars, appVars, upVars, dnVars
<1>8. CASE TeeClone
  <2>1. tpc' \in {"clone", "settle"} /\ tpc = "clone"
    BY <1>8 DEF TeeClone
  <2>2. stop => dpc' = dpc
    <3>1. stop => active = {}
      BY <1>0 DEF Stopping, OutputOf, OutTypes
    <3> QED
      BY <1>8, <3>1 DEF TeeClone
  <2>3. UNCHANGED <<stop, apc, upc>>
    BY <1>8 DEF TeeClone, appVars, upVars
  <2> QED
    BY <1>0, <2>1, <2>2, <2>3 DEF Stopping
<1>9. CASE TeeSettle
  BY <1>0, <1>9 DEF Stopping, TeeSettle, PutFreeIn, outVars, appVars, upVars, dnVars
<1>10. ASSUME NEW o \in Outputs,
              \/ GetTeeOutput(o) \/ DownGet(o) \/ DownWake(o) \/ DownReturn(o)
              \/ PutTeeOutput(o) \/ DownDrain(o) \/ DownRefree(o)
       PROVE  Stopping'
  <2>1. ~stop
    BY <1>0, <1>10
    DEF Stopping, GetTeeOutput, DownGet, DownWake, DownReturn, PutTeeOutput, DownDrain,
        DownRefree
  <2>2. UNCHANGED <<stop, apc, upc>>
    BY <1>10
    DEF GetTeeOutput, DownGet, DownWake, DownReturn, PutTeeOutput, DownDrain, DownRefree,
        appVars, upVars
  <2>3. tpc' \notin {"lastClean", "lastPop", "exit"}
    BY <1>0, <1>10, <2>1
    DEF Stopping, GetTeeOutput, DownGet, DownWake, DownReturn, PutTeeOutput, DownDrain,
        DownRefree, PutFreeOut, WakeTee
  <2> QED
    BY <1>0, <2>1, <2>2, <2>3 DEF Stopping
<1>11. CASE CleanStop
  BY <1>0, <1>11 DEF Stopping, CleanStop, teeVars, outVars, upVars, dnVars
<1>12. CASE CleanBroadcast \/ CleanJoin
  BY <1>0, <1>12
  DEF Stopping, CleanBroadcast, CleanJoin, WakeTee, teeVars, outVars, upVars, dnVars
<1>13. CASE BaseClean
  BY <1>0, <1>13 DEF Stopping, BaseClean, PutFreeIn, outVars, dnVars
<1>14. CASE UNCHANGED vars
  BY <1>0, <1>14 DEF Stopping, vars
<1> QED
  BY <1>2, <1>3, <1>4, <1>5, <1>6, <1>7, <1>8, <1>9, <1>10, <1>11, <1>12, <1>13, <1>14
  DEF Next

-----------------------------------------------------------------------------
\* A queue is filled only by a step that wakes its sleeper, who has slept since it looked.
LEMMA WakeupInv == IInv /\ [Next]_vars => NoLostWakeup'
<1> SUFFICES ASSUME IInv, [Next]_vars PROVE NoLostWakeup'
  OBVIOUS
<1>1. InTypes /\ OutTypes /\ PcTypes /\ NoLostWakeup
  BY DEF IInv, TypeOK
<1>2. CASE UpGet \/ UpWake \/ UpStop \/ UpAck
  BY <1>1, <1>2
  DEF NoLostWakeup, UpGet, UpWake, UpStop, UpAck, Fill, inVars, teeVars, outVars, dnVars
<1>3. ASSUME NEW b \in Bufs, UpSend(b) \/ UpReturn(b) PROVE NoLostWakeup'
  BY <1>1, <1>3
  DEF NoLostWakeup, UpSend, UpReturn, WakeTee, PutFreeIn, teeVars, outVars, dnVars
<1>4. CASE TeeCheck \/ TeeClean \/ TeeArg \/ TeeSpurious \/ TeeGot
  BY <1>1, <1>4
  DEF NoLostWakeup, TeeCheck, TeeClean, TeeArg, TeeSpurious, TeeGot, inVars, teeVars,
      outVars, upVars, dnVars
<1>5. CASE TeePop \/ TeeSettle
  BY <1>1, <1>5
  DEF NoLostWakeup, TeePop, TeeSettle, PutFreeIn, outVars, upVars, dnVars
<1>6. CASE TeeGet \/ TeeWake
  BY <1>1, <1>6 DEF NoLostWakeup, TeeGet, TeeWake, Take, teeVars, outVars, upVars, dnVars
<1>7. CASE TeeClone
  <2>1. UNCHANGED <<inFree, inUsed, upc>> /\ tpc' # "blocked"
    BY <1>7 DEF TeeClone, inVars, upVars
  <2>2. \A o \in Outputs : dpc'[o] = "blocked" => outUsed'[o] = <<>>
    BY <1>1, <1>7 DEF NoLostWakeup, OutTypes, PcTypes, TeeClone
  <2> QED
    BY <1>1, <2>1, <2>2 DEF NoLostWakeup
<1>8. ASSUME NEW o \in Outputs,
             \/ GetTeeOutput(o) \/ DownGet(o) \/ DownWake(o) \/ DownReturn(o)
             \/ PutTeeOutput(o) \/ DownDrain(o) \/ DownRefree(o)
      PROVE  NoLostWakeup'
  <2>1. UNCHANGED <<inFree, inUsed, upc>> /\ (tpc' = tpc \/ tpc' = "woken")
    BY <1>8
    DEF GetTeeOutput, DownGet, DownWake, DownReturn, PutTeeOutput, DownDrain, DownRefree,
        PutFreeOut, WakeTee, inVars, upVars
  <2>2. \A p \in Outputs \ {o} : dpc'[p] = dpc[p] /\ outUsed'[p] = outUsed[p]
    BY <1>1, <1>8
    DEF OutTypes, PcTypes, GetTeeOutput, DownGet, DownWake, DownReturn, PutTeeOutput,
        DownDrain, DownRefree, TakeClone, PutFreeOut
  <2>3. dpc'[o] = "blocked" => outUsed'[o] = <<>>
    BY <1>1, <1>8
    DEF NoLostWakeup, OutTypes, PcTypes, GetTeeOutput, DownGet, DownWake, DownReturn,
        PutTeeOutput, DownDrain, DownRefree, TakeClone, PutFreeOut
  <2> QED
    BY <1>1, <2>1, <2>2, <2>3 DEF NoLostWakeup
<1>9. CASE CleanStop \/ CleanBroadcast \/ CleanJoin
  BY <1>1, <1>9
  DEF NoLostWakeup, CleanStop, CleanBroadcast, CleanJoin, WakeTee, inVars, outVars, upVars,
      dnVars
<1>10. CASE BaseClean
  <2>1. tpc = "exit" /\ tpc' = tpc
    BY <1>10 DEF IInv, Stopping, BaseClean
  <2> QED
    BY <1>1, <1>10, <2>1 DEF NoLostWakeup, BaseClean, PutFreeIn, outVars, dnVars
<1>11. CASE UNCHANGED vars
  BY <1>1, <1>11 DEF NoLostWakeup, vars
<1> QED
  BY <1>2, <1>3, <1>4, <1>5, <1>6, <1>7, <1>8, <1>9, <1>10, <1>11 DEF Next

-----------------------------------------------------------------------------
\* The lemmas above, one conjunct each, make the invariant inductive.
LEMMA Invariance == Spec => []IInv
<1>1. IInv /\ [Next]_vars => IInv'
  BY InTypesInv, OutTypesInv, PcTypesInv, OutputOfInv, StoppingInv, WakeupInv
  DEF IInv, TypeOK
<1> QED
  BY InitInv, <1>1, PTL DEF Spec

\* The tee's state is well formed, however many buffers, outputs and frames there are.
THEOREM TypeCorrect == Spec => []TypeOK
<1>1. IInv => TypeOK
  BY DEF IInv
<1> QED
  BY Invariance, <1>1, PTL

\* Neither the tee thread nor the upstream nor the thread of an output sleeps beside a
\* queue with something in it (GetUsed, GetFree, PutUsed, PutFree).
THEOREM NoSleepBesideBuffer == Spec => []NoLostWakeup
<1>1. IInv => NoLostWakeup
  BY DEF IInv
<1> QED
  BY Invariance, <1>1, PTL

\* When the outputs are deleted, there are no clones in them (Clean, threadRun's end): the
\* ones of a released output are in its free side, and the thread that was joined has
\* collected these after the last of them came.
THEOREM ClonesCollected == Spec => []NoCloneLeft
<1>1. IInv => NoCloneLeft
  <2> SUFFICES ASSUME IInv, apc \in {"base", "gone"}, NEW o \in Outputs
               PROVE  outUsed[o] = <<>> /\ outFree[o] = <<>>
    BY DEF NoCloneLeft
  <2>1. stop /\ tpc = "exit"
    BY DEF IInv, Stopping
  <2> QED
    BY <2>1 DEF IInv, Stopping, OutputOf
<1> QED
  BY Invariance, <1>1, PTL

-----------------------------------------------------------------------------
(* The buffers: the pool of the input side, the clones and their counts.     *)

\* No element is in q twice.
Distinct(q) == \A i, j \in 1 .. Len(q) : q[i] = q[j] => i = j

\* Every source is in one place of the input side.
Apart ==
  /\ Distinct(inFree) /\ Distinct(inUsed) /\ Distinct(linger)
  /\ Elems(inFree) \cap Elems(inUsed) = {}
  /\ Elems(linger) \cap (Elems(inFree) \cup Elems(inUsed)) = {}
  /\ uhold \cap (Elems(inFree) \cup Elems(inUsed) \cup Elems(linger)) = {}
  /\ hand \notin Elems(inFree) \cup Elems(inUsed) \cup Elems(linger) \cup uhold
  /\ Bufs = Elems(inFree) \cup Elems(inUsed) \cup Elems(linger) \cup uhold
              \cup ({hand} \ {NoBuf})

\* Where the tee thread has a source in hand, and whose hands are empty at the end.
Hands ==
  /\ hand # NoBuf => tpc \in {"got", "clone", "settle"} \/ apc = "base"
  /\ tpc = "lastPop" => force
  /\ tpc = "exit" => linger = <<>>
  /\ upc = "stopped" => uhold = {}
  /\ apc = "gone" => inUsed = <<>> /\ hand = NoBuf

SourceInv == IInv /\ Apart /\ Hands

-----------------------------------------------------------------------------
(* Sequences as sets.                                                       *)

\* pop_front takes one element out of the set, where none is twice.
LEMMA ElemsTail ==
  ASSUME NEW S, NEW q \in Seq(S), q # <<>>, Distinct(q)
  PROVE  /\ Head(q) \in Elems(q) /\ Elems(Tail(q)) = Elems(q) \ {Head(q)}
         /\ Distinct(Tail(q))
<1>1. /\ Len(q) \in Nat \ {0} /\ Head(q) = q[1]
      /\ Len(Tail(q)) = Len(q) - 1
      /\ \A i \in 1 .. Len(Tail(q)) : Tail(q)[i] = q[i + 1]
  BY HeadTailProperties
<1>2. ASSUME NEW b \in Elems(Tail(q)) PROVE b \in Elems(q) \ {Head(q)}
  <2>1. PICK i \in 1 .. Len(Tail(q)) : b = Tail(q)[i]
    BY DEF Elems
  <2>2. i + 1 \in 1 .. Len(q) /\ 1 \in 1 .. Len(q) /\ b = q[i + 1] /\ i + 1 # 1
    BY <1>1, <2>1
  <2> QED
    BY <1>1, <2>2 DEF Elems, Distinct
<1>3. ASSUME NEW b \in Elems(q) \ {Head(q)} PROVE b \in Elems(Tail(q))
  <2>1. PICK i \in 1 .. Len(q) : b = q[i]
    BY DEF Elems
  <2>2. i # 1
    BY <1>1, <2>1
  <2>3. i - 1 \in 1 .. Len(Tail(q)) /\ Tail(q)[i - 1] = q[i]
    BY <1>1, <2>2
  <2> QED
    BY <2>1, <2>3 DEF Elems
<1>4. Head(q) \in Elems(q)
  BY <1>1 DEF Elems
<1>5. Distinct(Tail(q))
  <2> SUFFICES ASSUME NEW i \in 1 .. Len(Tail(q)), NEW j \in 1 .. Len(Tail(q)),
                      Tail(q)[i] = Tail(q)[j]
               PROVE  i = j
    BY DEF Distinct
  <2>1. i + 1 \in 1 .. Len(q) /\ j + 1 \in 1 .. Len(q) /\ q[i + 1] = q[j + 1]
    BY <1>1
  <2>2. i + 1 = j + 1
    BY <2>1 DEF Distinct
  <2> QED
    BY <1>1, <2>2
<1> QED
  BY <1>2, <1>3, <1>4, <1>5

\* push_back puts one element into the set.
LEMMA ElemsAppend ==
  ASSUME NEW S, NEW q \in Seq(S), NEW b \in S
  PROVE  /\ Elems(Append(q, b)) = Elems(q) \cup {b}
         /\ Distinct(q) /\ b \notin Elems(q) => Distinct(Append(q, b))
<1>1. /\ Len(q) \in Nat /\ Len(Append(q, b)) = Len(q) + 1
      /\ \A i \in 1 .. Len(q) : Append(q, b)[i] = q[i]
      /\ Append(q, b)[Len(q) + 1] = b
  BY AppendProperties
<1>2. \A i : i \in 1 .. Len(q) + 1 <=> i \in 1 .. Len(q) \/ i = Len(q) + 1
  BY <1>1
<1>3. Elems(Append(q, b)) = Elems(q) \cup {b}
  BY <1>1, <1>2 DEF Elems
<1>4. ASSUME Distinct(q), b \notin Elems(q) PROVE Distinct(Append(q, b))
  <2>1. \A i \in 1 .. Len(q) : q[i] # b
    BY <1>4 DEF Elems
  <2> QED
    BY <1>1, <1>2, <1>4, <2>1 DEF Distinct
<1> QED
  BY <1>3, <1>4

\* An empty sequence has no elements, and only it has none.
LEMMA ElemsEmpty ==
  /\ Elems(<<>>) = {} /\ Distinct(<<>>)
  /\ \A S : \A q \in Seq(S) : q # <<>> => Head(q) \in Elems(q)
<1>1. ASSUME NEW S, NEW q \in Seq(S), q # <<>> PROVE Head(q) \in Elems(q)
  <2>1. Len(q) \in Nat \ {0} /\ Head(q) = q[1]
    BY <1>1, HeadTailProperties
  <2> QED
    BY <2>1 DEF Elems
<1>2. Len(<<>>) = 0
  OBVIOUS
<1> QED
  BY <1>1, <1>2 DEF Elems, Distinct

-----------------------------------------------------------------------------
(* The input side.                                                          *)

\* Init has parked every buffer on the free side.
LEMMA InitSources == Init => Apart /\ Hands
<1> SUFFICES ASSUME Init PROVE Apart /\ Hands
  OBVIOUS
<1>1. /\ Parked \in Seq(Bufs) /\ Distinct(Parked) /\ Elems(Parked) = Bufs /\ NoBuf \notin Bufs
  BY TeeListAssumption DEF Distinct, Bufs
<1>2. Apart
  BY <1>1, ElemsEmpty DEF Init, Apart
<1> QED
  BY <1>2 DEF Init, Hands

\* What is known of the heads and ends of the input's FIFOs.
LEMMA InputFifos ==
  ASSUME InTypes, Apart
  PROVE  /\ inFree # <<>> => /\ Head(inFree) \in Elems(inFree) /\ Distinct(Tail(inFree))
                             /\ Elems(Tail(inFree)) = Elems(inFree) \ {Head(inFree)}
         /\ inUsed # <<>> => /\ Head(inUsed) \in Elems(inUsed) /\ Distinct(Tail(inUsed))
                             /\ Elems(Tail(inUsed)) = Elems(inUsed) \ {Head(inUsed)}
         /\ linger # <<>> => /\ Head(linger) \in Elems(linger) /\ Distinct(Tail(linger))
                             /\ Elems(Tail(linger)) = Elems(linger) \ {Head(linger)}
         /\ \A b \in Bufs :
              /\ Elems(Append(inFree, b)) = Elems(inFree) \cup {b}
              /\ Elems(Append(inUsed, b)) = Elems(inUsed) \cup {b}
              /\ Elems(Append(linger, b)) = Elems(linger) \cup {b}
              /\ b \notin Elems(inFree) => Distinct(Append(inFree, b))
              /\ b \notin Elems(inUsed) => Distinct(Append(inUsed, b))
              /\ b \notin Elems(linger) => Distinct(Append(linger, b))
<1>1. /\ inFree \in Seq(Bufs) /\ inUsed \in Seq(Bufs) /\ linger \in Seq(Bufs)
      /\ Distinct(inFree) /\ Distinct(inUsed) /\ Distinct(linger)
  BY DEF InTypes, Apart
<1> QED
  BY <1>1, ElemsTail, ElemsAppend

\* Every step moves at most one source, from the end of one list to another's or to a hand.
LEMMA ApartInv == SourceInv /\ [Next]_vars => Apart'
<1> SUFFICES ASSUME SourceInv, [Next]_vars PROVE Apart'
  OBVIOUS
<1>0. InTypes /\ PcTypes /\ InHand /\ Stopping /\ Apart /\ Hands /\ NoBuf \notin Bufs
  BY TeeListAssumption DEF SourceInv, IInv, TypeOK
<1>1. CASE UNCHANGED <<inFree, inUsed, linger, hand, uhold>>
  BY <1>0, <1>1 DEF Apart
<1>2. CASE UpGet \/ UpWake
  <2>1. SUFFICES ASSUME Fill, inFree # <<>>, UNCHANGED <<inUsed, linger, hand>> PROVE Apart'
    BY <1>1, <1>2 DEF UpGet, UpWake, teeVars
  <2>2. /\ Elems(inFree') = Elems(inFree) \ {Head(inFree)} /\ Distinct(inFree')
        /\ Head(inFree) \in Elems(inFree) /\ uhold' = uhold \cup {Head(inFree)}
    BY <1>0, <2>1, InputFifos DEF Fill
  <2> QED
    BY <1>0, <2>1, <2>2 DEF Apart
<1>3. ASSUME NEW b \in Bufs, UpSend(b) PROVE Apart'
  <2>1. /\ b \in uhold /\ uhold' = uhold \ {b} /\ inUsed' = Append(inUsed, b)
        /\ UNCHANGED <<inFree, linger, hand>>
    BY <1>3 DEF UpSend, teeVars
  <2>2. Elems(inUsed') = Elems(inUsed) \cup {b} /\ Distinct(inUsed')
    BY <1>0, <2>1, InputFifos DEF Apart
  <2> QED
    BY <1>0, <2>1, <2>2 DEF Apart
<1>4. ASSUME NEW b \in Bufs, UpReturn(b) PROVE Apart'
  <2>1. /\ b \in uhold /\ uhold' = uhold \ {b} /\ inFree' = Append(inFree, b)
        /\ UNCHANGED <<inUsed, linger, hand>>
    BY <1>4 DEF UpReturn, PutFreeIn, teeVars
  <2>2. Elems(inFree') = Elems(inFree) \cup {b} /\ Distinct(inFree')
    BY <1>0, <2>1, InputFifos DEF Apart
  <2> QED
    BY <1>0, <2>1, <2>2 DEF Apart
<1>5. CASE TeePop
  <2>1. SUFFICES ASSUME linger # <<>>, linger' = Tail(linger),
                        inFree' = Append(inFree, Head(linger)),
                        UNCHANGED <<inUsed, hand, uhold>>
                 PROVE  Apart'
    BY <1>1, <1>5 DEF TeePop, PutFreeIn
  <2>2. Head(linger) \in Bufs
    BY <1>0, <2>1, HeadTail DEF InTypes
  <2>3. /\ Head(linger) \in Elems(linger) /\ Distinct(linger')
        /\ Elems(linger') = Elems(linger) \ {Head(linger)}
    BY <1>0, <2>1, InputFifos
  <2>4. Elems(inFree') = Elems(inFree) \cup {Head(linger)} /\ Distinct(inFree')
    BY <1>0, <2>1, <2>2, <2>3, InputFifos DEF Apart
  <2> QED
    BY <1>0, <2>1, <2>3, <2>4 DEF Apart
<1>6. ASSUME inUsed # <<>>, hand = NoBuf, hand' = Head(inUsed), inUsed' = Tail(inUsed),
             UNCHANGED <<inFree, linger, uhold>>
      PROVE  Apart'
  <2>1. /\ Head(inUsed) \in Elems(inUsed) /\ Distinct(inUsed')
        /\ Elems(inUsed') = Elems(inUsed) \ {Head(inUsed)} /\ Head(inUsed) # NoBuf
    <3>1. Head(inUsed) \in Bufs
      BY <1>0, <1>6, HeadTail DEF InTypes
    <3> QED
      BY <1>0, <1>6, <3>1, InputFifos
  <2> QED
    BY <1>0, <1>6, <2>1 DEF Apart
<1>7. CASE TeeGet \/ TeeWake
  <2>1. SUFFICES ASSUME Take, UNCHANGED <<inFree, linger, uhold>> PROVE Apart'
    BY <1>1, <1>7 DEF TeeGet, TeeWake, upVars
  <2>2. hand = NoBuf
    BY <1>0, <1>7 DEF Hands, Stopping, TeeGet, TeeWake
  <2> QED
    BY <1>6, <2>1, <2>2 DEF Take
<1>8. ASSUME hand \in Bufs, hand' = NoBuf, UNCHANGED <<inUsed, uhold>>,
             \/ inFree' = Append(inFree, hand) /\ linger' = linger
             \/ inFree' = inFree /\ linger' = Append(linger, hand)
      PROVE  Apart'
  <2>1. CASE inFree' = Append(inFree, hand) /\ linger' = linger
    <3>1. Elems(inFree') = Elems(inFree) \cup {hand} /\ Distinct(inFree')
      BY <1>0, <1>8, <2>1, InputFifos DEF Apart
    <3> QED
      BY <1>0, <1>8, <2>1, <3>1 DEF Apart
  <2>2. CASE inFree' = inFree /\ linger' = Append(linger, hand)
    <3>1. Elems(linger') = Elems(linger) \cup {hand} /\ Distinct(linger')
      BY <1>0, <1>8, <2>2, InputFifos DEF Apart
    <3> QED
      BY <1>0, <1>8, <2>2, <3>1 DEF Apart
  <2> QED
    BY <1>8, <2>1, <2>2
<1>9. CASE TeeGot \/ TeeSettle
  <2>1. hand \in Bufs
    BY <1>0, <1>9 DEF InHand, TeeGot, TeeSettle
  <2> QED
    BY <1>1, <1>8, <1>9, <2>1 DEF TeeGot, TeeSettle, PutFreeIn, inVars, upVars
<1>10. CASE BaseClean
  <2>1. UNCHANGED <<linger, uhold>>
    BY <1>10 DEF BaseClean
  <2>2. CASE hand # NoBuf
    <3>1. hand \in Bufs
      BY <1>0, <2>2 DEF InTypes
    <3> QED
      BY <1>8, <1>10, <2>1, <2>2, <3>1 DEF BaseClean, PutFreeIn
  <2>3. CASE hand = NoBuf /\ inUsed # <<>>
    BY <1>6, <1>10, <2>1, <2>3 DEF BaseClean
  <2>4. CASE hand = NoBuf /\ inUsed = <<>>
    BY <1>1, <1>10, <2>1, <2>4 DEF BaseClean
  <2> QED
    BY <2>2, <2>3, <2>4
<1>11. CASE \/ UpStop \/ UpAck \/ TeeCheck \/ TeeClean \/ TeeArg \/ TeeSpurious \/ TeeClone
            \/ CleanStop \/ CleanBroadcast \/ CleanJoin
  BY <1>1, <1>11
  DEF UpStop, UpAck, TeeCheck, TeeClean, TeeArg, TeeSpurious, TeeClone, CleanStop,
      CleanBroadcast, CleanJoin, inVars, teeVars, upVars
<1>12. ASSUME NEW o \in Outputs,
              \/ GetTeeOutput(o) \/ DownGet(o) \/ DownWake(o) \/ DownReturn(o)
              \/ PutTeeOutput(o) \/ DownDrain(o) \/ DownRefree(o)
       PROVE  Apart'
  BY <1>1, <1>12
  DEF GetTeeOutput, DownGet, DownWake, DownReturn, PutTeeOutput, DownDrain, DownRefree,
      inVars, teeVars, upVars
<1>13. CASE UNCHANGED vars
  BY <1>1, <1>13 DEF vars
<1> QED
  BY <1>2, <1>3, <1>4, <1>5, <1>7, <1>9, <1>10, <1>11, <1>12, <1>13 DEF Next

\* The tee thread parts with the source in hand where its loop ends, and with those that
\* linger before it exits.
LEMMA HandsInv == SourceInv /\ [Next]_vars => Hands'
<1> SUFFICES ASSUME SourceInv, [Next]_vars PROVE Hands'
  OBVIOUS
<1>0. PcTypes /\ Stopping /\ Hands
  BY DEF SourceInv, IInv, TypeOK
<1>1. CASE UpGet \/ UpWake \/ UpStop \/ UpAck
  BY <1>0, <1>1 DEF Hands, UpGet, UpWake, UpStop, UpAck, inVars, teeVars, appVars
<1>2. ASSUME NEW b \in Bufs, UpSend(b) \/ UpReturn(b) PROVE Hands'
  <2>1. apc = "gone" => upc = "stopped"
    BY <1>0 DEF Stopping
  <2> QED
    BY <1>0, <1>2, <2>1 DEF Hands, UpSend, UpReturn, WakeTee, PutFreeIn, teeVars, appVars
<1>3. CASE TeeCheck \/ TeeClean \/ TeeArg \/ TeeSpurious \/ TeeClone
  BY <1>0, <1>3
  DEF Hands, Stopping, TeeCheck, TeeClean, TeeArg, TeeSpurious, TeeClone, inVars, teeVars,
      appVars, upVars
<1>4. CASE TeePop
  BY <1>0, <1>4 DEF Hands, Stopping, TeePop, PutFreeIn, appVars
<1>5. CASE TeeGet \/ TeeWake
  BY <1>0, <1>5 DEF Hands, Stopping, TeeGet, TeeWake, Take, appVars, upVars
<1>6. CASE TeeGot \/ TeeSettle
  BY <1>0, <1>6 DEF Hands, Stopping, TeeGot, TeeSettle, PutFreeIn, inVars, appVars, upVars
<1>7. ASSUME NEW o \in Outputs,
             \/ GetTeeOutput(o) \/ DownGet(o) \/ DownWake(o) \/ DownReturn(o)
             \/ PutTeeOutput(o) \/ DownDrain(o) \/ DownRefree(o)
      PROVE  Hands'
  BY <1>0, <1>7
  DEF Hands, GetTeeOutput, DownGet, DownWake, DownReturn, PutTeeOutput, DownDrain,
      DownRefree, PutFreeOut, WakeTee, inVars, teeVars, appVars, upVars
<1>8. CASE CleanStop \/ CleanBroadcast \/ CleanJoin
  BY <1>0, <1>8
  DEF Hands, CleanStop, CleanBroadcast, CleanJoin, WakeTee, inVars, teeVars, upVars
<1>9. CASE BaseClean
  BY <1>0, <1>9 DEF Hands, Stopping, BaseClean, PutFreeIn
<1>10. CASE UNCHANGED vars
  BY <1>0, <1>10 DEF Hands, vars
<1> QED
  BY <1>1, <1>2, <1>3, <1>4, <1>5, <1>6, <1>7, <1>8, <1>9, <1>10 DEF Next

\* The two together, on top of the invariant of TeeListProofs
LEMMA SourceInvariance == (Init => SourceInv) /\ (SourceInv /\ [Next]_vars => SourceInv')
<1>1. IInv /\ [Next]_vars => IInv'
  BY InTypesInv, OutTypesInv, PcTypesInv, OutputOfInv, StoppingInv, WakeupInv
  DEF IInv, TypeOK
<1> QED
  BY <1>1, InitInv, InitSources, ApartInv, HandsInv DEF SourceInv

-----------------------------------------------------------------------------
(* The input side as a pool.                                                *)

\* A source's place is where it is found.
PlaceKnown ==
  \A b \in Bufs :
    /\ b \in uhold => PlaceOf(b) = "up"
    /\ b \in Elems(linger) \/ hand = b => PlaceOf(b) = "tee"
    /\ b \in Elems(inFree) => PlaceOf(b) = "free"
    /\ b \in Elems(inUsed) => PlaceOf(b) = "used"

\* Where every source is in one place, its place is known.
LEMMA PlacesKnown == Apart => PlaceKnown
<1> SUFFICES ASSUME Apart, NEW b \in Bufs
             PROVE  /\ b \in uhold => PlaceOf(b) = "up"
                    /\ b \in Elems(linger) \/ hand = b => PlaceOf(b) = "tee"
                    /\ b \in Elems(inFree) => PlaceOf(b) = "free"
                    /\ b \in Elems(inUsed) => PlaceOf(b) = "used"
  BY DEF PlaceKnown
<1>1. ASSUME b \in uhold PROVE PlaceOf(b) = "up"
  BY <1>1 DEF Apart, PlaceOf
<1>2. ASSUME b \in Elems(linger) \/ hand = b PROVE PlaceOf(b) = "tee"
  <2>1. b \notin uhold /\ b \notin Elems(inFree) /\ b \notin Elems(inUsed)
    BY <1>2 DEF Apart
  <2> QED
    BY <1>2, <2>1 DEF PlaceOf
<1>3. ASSUME b \in Elems(inFree) PROVE PlaceOf(b) = "free"
  <2>1. b \notin uhold /\ ~(b \in Elems(linger) \/ hand = b) /\ b \notin Elems(inUsed)
    BY <1>3 DEF Apart
  <2> QED
    BY <1>3, <2>1 DEF PlaceOf
<1>4. ASSUME b \in Elems(inUsed) PROVE PlaceOf(b) = "used"
  <2>1. b \notin uhold /\ ~(b \in Elems(linger) \/ hand = b) /\ b \notin Elems(inFree)
    BY <1>4 DEF Apart
  <2> QED
    BY <1>4, <2>1 DEF PlaceOf
<1> QED
  BY <1>1, <1>2, <1>3, <1>4

\* The same of the next state.
LEMMA PlacesKnownNext == Apart' => PlaceKnown'
  BY PlacesKnown, PTL

\* Two states that find b in the same place agree on it.
LEMMA PlaceKept ==
  ASSUME Apart, Apart', NEW b \in Bufs,
         b \in uhold => b \in uhold',
         b \in Elems(linger) \/ hand = b => b \in Elems(linger') \/ hand' = b,
         b \in Elems(inFree) => b \in Elems(inFree'),
         b \in Elems(inUsed) => b \in Elems(inUsed')
  PROVE  PlaceOf(b)' = PlaceOf(b)
<1>1. PlaceKnown /\ PlaceKnown'
  BY PlacesKnown, PlacesKnownNext
<1>2. \/ b \in uhold \/ b \in Elems(linger) \/ hand = b
      \/ b \in Elems(inFree) \/ b \in Elems(inUsed)
  BY DEF Apart
<1> QED
  BY <1>1, <1>2 DEF PlaceKnown

\* A source that changes hands, from or to one of the two FIFOs, is a move of the pool.
LEMMA PoolMove ==
  ASSUME Apart, Apart', NEW b \in Bufs, apc # "gone", apc' # "gone",
         \/ b \in uhold \cup Elems(linger) \cup {hand} /\ b \in Elems(inFree') \cup Elems(inUsed')
         \/ b \in Elems(inFree) \cup Elems(inUsed) /\ b \in uhold' \cup {hand'},
         \A c \in Bufs \ {b} :
           /\ c \in uhold => c \in uhold'
           /\ c \in Elems(linger) \/ hand = c => c \in Elems(linger') \/ hand' = c
           /\ c \in Elems(inFree) => c \in Elems(inFree')
           /\ c \in Elems(inUsed) => c \in Elems(inUsed')
  PROVE  Pool!Next
<1>1. PlaceKnown /\ PlaceKnown'
  BY PlacesKnown, PlacesKnownNext
<1>2. \A c \in Bufs \ {b} : PlaceOf(c)' = PlaceOf(c)
  BY PlaceKept
<1>3. \/ PlaceOf(b) \in {"up", "tee"} /\ PlaceOf(b)' \in {"free", "used"}
      \/ PlaceOf(b) \in {"free", "used"} /\ PlaceOf(b)' \in {"up", "tee"}
  BY <1>1 DEF PlaceKnown
<1>4. [c \in Bufs |-> PlaceOf(c)]' = [[c \in Bufs |-> PlaceOf(c)] EXCEPT ![b] = PlaceOf(b)']
  BY <1>2
<1>5. Pool!Move(b, PlaceOf(b)')
  BY <1>3, <1>4 DEF Pool!Move
<1> QED
  BY <1>3, <1>5 DEF Pool!Next, Pool!Places

\* A step on which no source changes hands is none of the pool's.
LEMMA PoolStutter ==
  ASSUME Apart, Apart', apc' = "gone" <=> apc = "gone",
         \A c \in Bufs :
           /\ c \in uhold => c \in uhold'
           /\ c \in Elems(linger) \/ hand = c => c \in Elems(linger') \/ hand' = c
           /\ c \in Elems(inFree) => c \in Elems(inFree')
           /\ c \in Elems(inUsed) => c \in Elems(inUsed')
  PROVE  UNCHANGED Pool!vars
<1>1. \A b \in Bufs : PlaceOf(b)' = PlaceOf(b)
  BY PlaceKept
<1> QED
  BY <1>1 DEF Pool!vars

\* Each action of the tee, or none, seen from the pool of its sources.
LEMMA PoolStep == SourceInv /\ Apart' /\ [Next]_vars => [Pool!Next]_(Pool!vars)
<1> SUFFICES ASSUME SourceInv, Apart', [Next]_vars PROVE [Pool!Next]_(Pool!vars)
  OBVIOUS
<1>0. InTypes /\ PcTypes /\ InHand /\ Stopping /\ Apart /\ Hands /\ NoBuf \notin Bufs
  BY TeeListAssumption DEF SourceInv, IInv, TypeOK
<1>1. CASE UNCHANGED <<inFree, inUsed, linger, hand, uhold>> /\ (apc' = "gone" <=> apc = "gone")
  BY <1>0, <1>1, PoolStutter
<1>2. CASE UpGet \/ UpWake
  <2>1. apc' = apc /\ (apc = "gone" => upc = "stopped")
    BY <1>0, <1>2 DEF UpGet, UpWake, appVars, Stopping
  <2>2. CASE Fill /\ inFree # <<>> /\ UNCHANGED <<inUsed, linger, hand>>
    <3>1. /\ Elems(inFree') = Elems(inFree) \ {Head(inFree)}
          /\ Head(inFree) \in Elems(inFree) /\ uhold' = uhold \cup {Head(inFree)}
      BY <1>0, <2>2, InputFifos DEF Fill
    <3>2. Head(inFree) \in Bufs
      BY <1>0, <2>2, HeadTail DEF InTypes
    <3>3. apc # "gone"
      BY <1>2, <2>1 DEF UpGet, UpWake
    <3> QED
      BY <1>0, <2>1, <2>2, <3>1, <3>2, <3>3, PoolMove
  <2> QED
    BY <1>1, <1>2, <2>1, <2>2 DEF UpGet, UpWake, teeVars
<1>3. ASSUME NEW b \in Bufs, UpSend(b) PROVE Pool!Next
  <2>1. /\ b \in uhold /\ uhold' = uhold \ {b} /\ inUsed' = Append(inUsed, b)
        /\ UNCHANGED <<inFree, linger, hand, apc>> /\ apc # "gone"
    BY <1>0, <1>3 DEF UpSend, teeVars, appVars, Stopping
  <2>2. Elems(inUsed') = Elems(inUsed) \cup {b}
    BY <1>0, <2>1, InputFifos
  <2> QED
    BY <1>0, <2>1, <2>2, PoolMove
<1>4. ASSUME NEW b \in Bufs, UpReturn(b) PROVE Pool!Next
  <2>1. /\ b \in uhold /\ uhold' = uhold \ {b} /\ inFree' = Append(inFree, b)
        /\ UNCHANGED <<inUsed, linger, hand, apc>> /\ apc # "gone"
    BY <1>0, <1>4 DEF UpReturn, PutFreeIn, teeVars, appVars, Stopping
  <2>2. Elems(inFree') = Elems(inFree) \cup {b}
    BY <1>0, <2>1, InputFifos
  <2> QED
    BY <1>0, <2>1, <2>2, PoolMove
<1>5. CASE TeePop
  <2>1. apc' = apc /\ apc # "gone" /\ UNCHANGED <<inUsed, hand, uhold>>
    BY <1>0, <1>5 DEF TeePop, appVars, Stopping
  <2>2. CASE linger # <<>> /\ linger' = Tail(linger) /\ inFree' = Append(inFree, Head(linger))
    <3>1. Head(linger) \in Bufs
      BY <1>0, <2>2, HeadTail DEF InTypes
    <3>2. /\ Head(linger) \in Elems(linger)
          /\ Elems(linger') = Elems(linger) \ {Head(linger)}
          /\ Elems(inFree') = Elems(inFree) \cup {Head(linger)}
      BY <1>0, <2>2, <3>1, InputFifos
    <3> QED
      BY <1>0, <2>1, <3>1, <3>2, PoolMove
  <2> QED
    BY <1>1, <1>5, <2>1, <2>2 DEF TeePop, PutFreeIn
<1>6. ASSUME inUsed # <<>>, hand = NoBuf, hand' = Head(inUsed), inUsed' = Tail(inUsed),
             UNCHANGED <<inFree, linger, uhold>>, apc # "gone", apc' # "gone"
      PROVE  Pool!Next
  <2>1. Head(inUsed) \in Bufs
    BY <1>0, <1>6, HeadTail DEF InTypes
  <2>2. Head(inUsed) \in Elems(inUsed) /\ Elems(inUsed') = Elems(inUsed) \ {Head(inUsed)}
    BY <1>0, <1>6, InputFifos
  <2> QED
    BY <1>0, <1>6, <2>1, <2>2, PoolMove
<1>7. CASE TeeGet \/ TeeWake
  <2>1. hand = NoBuf /\ apc # "gone" /\ apc' = apc
    BY <1>0, <1>7 DEF Hands, Stopping, TeeGet, TeeWake, appVars
  <2> QED
    BY <1>1, <1>6, <1>7, <2>1 DEF TeeGet, TeeWake, Take, upVars
<1>8. ASSUME hand \in Bufs, hand' = NoBuf, UNCHANGED <<inUsed, uhold>>,
             inFree' = Append(inFree, hand), linger' = linger, apc # "gone", apc' # "gone"
      PROVE  Pool!Next
  <2>1. Elems(inFree') = Elems(inFree) \cup {hand}
    BY <1>0, <1>8, InputFifos
  <2> QED
    BY <1>0, <1>8, <2>1, PoolMove
<1>9. CASE TeeGot \/ TeeSettle
  <2>1. hand \in Bufs /\ apc # "gone" /\ apc' = apc
    BY <1>0, <1>9 DEF InHand, Stopping, TeeGot, TeeSettle, appVars
  <2>2. CASE hand' = NoBuf /\ linger' = Append(linger, hand)
             /\ UNCHANGED <<inFree, inUsed, uhold>>
    <3>1. Elems(linger') = Elems(linger) \cup {hand}
      BY <1>0, <2>1, <2>2, InputFifos
    <3> QED
      BY <1>0, <2>1, <2>2, <3>1, PoolStutter
  <2> QED
    BY <1>1, <1>8, <1>9, <2>1, <2>2 DEF TeeGot, TeeSettle, PutFreeIn, inVars, upVars
<1>10. CASE BaseClean
  <2>1. UNCHANGED <<linger, uhold>> /\ apc = "base"
    BY <1>10 DEF BaseClean
  <2>2. CASE hand # NoBuf
    <3>1. hand \in Bufs
      BY <1>0, <2>2 DEF InTypes
    <3> QED
      BY <1>8, <1>10, <2>1, <2>2, <3>1 DEF BaseClean, PutFreeIn
  <2>3. CASE hand = NoBuf /\ inUsed # <<>>
    BY <1>6, <1>10, <2>1, <2>3 DEF BaseClean
  <2>4. CASE hand = NoBuf /\ inUsed = <<>>
    <3>1. apc' = "gone" /\ UNCHANGED <<inFree, inUsed, hand>>
      BY <1>10, <2>4 DEF BaseClean
    <3>2. linger = <<>> /\ uhold = {}
      BY <1>0, <2>1 DEF Hands, Stopping
    <3>3. \A b \in Bufs : b \in Elems(inFree)
      BY <1>0, <2>4, <3>2, ElemsEmpty DEF Apart
    <3>4. \A b \in Bufs : PlaceOf(b) = "free" /\ PlaceOf(b)' = PlaceOf(b)
      BY <1>0, <2>1, <3>1, <3>3, PlacesKnown, PlaceKept DEF PlaceKnown
    <3>5. Pool!Close
      BY <2>1, <3>1, <3>4 DEF Pool!Close, Pool!AllHome
    <3> QED
      BY <3>5 DEF Pool!Next
  <2> QED
    BY <2>2, <2>3, <2>4
<1>11. CASE \/ UpStop \/ UpAck \/ TeeCheck \/ TeeClean \/ TeeArg \/ TeeSpurious \/ TeeClone
            \/ CleanStop \/ CleanBroadcast \/ CleanJoin
  BY <1>1, <1>11
  DEF UpStop, UpAck, TeeCheck, TeeClean, TeeArg, TeeSpurious, TeeClone, CleanStop,
      CleanBroadcast, CleanJoin, inVars, teeVars, upVars, appVars
<1>12. ASSUME NEW o \in Outputs,
              \/ GetTeeOutput(o) \/ DownGet(o) \/ DownWake(o) \/ DownReturn(o)
              \/ PutTeeOutput(o) \/ DownDrain(o) \/ DownRefree(o)
       PROVE  [Pool!Next]_(Pool!vars)
  BY <1>1, <1>12
  DEF GetTeeOutput, DownGet, DownWake, DownReturn, PutTeeOutput, DownDrain, DownRefree,
      inVars, teeVars, upVars, appVars
<1>13. CASE UNCHANGED vars
  BY <1>1, <1>13 DEF vars
<1> QED
  BY <1>2, <1>3, <1>4, <1>5, <1>7, <1>9, <1>10, <1>11, <1>12, <1>13 DEF Next

\* A tee that is begun is a pool with every source free.
LEMMA PoolBegins == Init => Pool!Init
<1> SUFFICES ASSUME Init PROVE Pool!Init
  OBVIOUS
<1>1. Apart /\ apc = "run" /\ Elems(inFree) = Bufs
  BY InitSources DEF Init, Bufs
<1>2. \A b \in Bufs : PlaceOf(b) = "free"
  BY <1>1, PlacesKnown DEF PlaceKnown
<1> QED
  BY <1>1, <1>2 DEF Pool!Init, Pool!Places

\* The input side of the tee is a buffer pool: a source is handed from the upstream to the
\* tee and back through the two FIFOs and is never in two places, however the outputs are
\* used, and when the teardown is over every source is on the free side (threadRun, Clean).
THEOREM TeeIsPool == Spec => ImplementsPool
<1>1. SourceInv /\ SourceInv' /\ [Next]_vars => [Pool!Next]_(Pool!vars)
  BY PoolStep DEF SourceInv
<1> QED
  BY <1>1, SourceInvariance, PoolBegins, PTL DEF Spec, ImplementsPool, Pool!Spec

-----------------------------------------------------------------------------
(* The clones.                                                              *)

\* All clones at output o
At(o) == Out(o) \cup Elems(outFree[o])

\* Every clone of an output is in one place of it.
ClonesApart ==
  \A o \in Outputs :
    /\ Distinct(outUsed[o]) /\ Distinct(outFree[o])
    /\ held[o] \cap Elems(outUsed[o]) = {}
    /\ Out(o) \cap Elems(outFree[o]) = {}

\* The counts are right; while the thread clones, it has made clones only for the outputs
\* it has been to.
Counted ==
  /\ \A b \in Bufs : IsFiniteSet(ClonesOf(b))
  /\ \A b \in Elems(linger) : clones[b] = Cardinality(ClonesOf(b))
  /\ tpc \in {"clone", "settle"} => made = Cardinality(ClonesOf(hand))
  /\ tpc = "clone" => \A o \in Outputs : \A c \in At(o) : c.buf = hand => o < ti

\* A source that is sent, or may be written, has no clones.
Cloneless ==
  /\ \A b \in Elems(inUsed) : ClonesOf(b) = {}
  /\ tpc = "got" => ClonesOf(hand) = {}
  /\ upc # "stopped" => \A b \in uhold \cup Elems(inFree) : ClonesOf(b) = {}

\* Until the upstream has stopped, no output in use means no clones; so it was when the pop
\* was forced, and clones are made only behind the pop.
Unused ==
  upc # "stopped" /\ (active = {} \/ (tpc = "pop" /\ force)) => \A o \in Outputs : At(o) = {}

CloneInv == SourceInv /\ ClonesApart /\ Counted /\ Cloneless /\ Unused /\ PictureKept

\* A clone counts for its source wherever its output has it.
LEMMA ClonesIn ==
  \A b : ClonesOf(b) = UNION {{<<o, c>> : c \in {d \in At(o) : d.buf = b}} : o \in Outputs}
  BY DEF ClonesOf, At

\* A source has clones at an output if it has any, and none where there is none.
LEMMA NoClones ==
  ASSUME NEW b
  PROVE  ClonesOf(b) = {} <=> \A o \in Outputs : \A c \in At(o) : c.buf # b
<1>1. \A x : x \in ClonesOf(b) <=> \E o \in Outputs : \E c \in At(o) : c.buf = b /\ x = <<o, c>>
  BY ClonesIn
<1>2. ASSUME NEW o \in Outputs, NEW c \in At(o), c.buf = b PROVE <<o, c>> \in ClonesOf(b)
  BY <1>1, <1>2
<1>3. ASSUME \A o \in Outputs : \A c \in At(o) : c.buf # b PROVE ClonesOf(b) = {}
  BY <1>1, <1>3
<1> QED
  BY <1>2, <1>3

\* Where the outputs have the same clones, so have the sources.
LEMMA ClonesKept ==
  ASSUME \A o \in Outputs : At(o)' = At(o)
  PROVE  \A b : ClonesOf(b)' = ClonesOf(b)
<1>1. \A b : ClonesOf(b)' = UNION {{<<o, c>> : c \in {d \in At(o)' : d.buf = b}} : o \in Outputs}
  BY DEF ClonesOf, At
<1> QED
  BY <1>1, ClonesIn

\* One more clone at one output: one source has one clone more.
LEMMA CloneComes ==
  ASSUME NEW p \in Outputs, NEW d, d \notin At(p), At(p)' = At(p) \cup {d},
         \A o \in Outputs \ {p} : At(o)' = At(o)
  PROVE  /\ ClonesOf(d.buf)' = ClonesOf(d.buf) \cup {<<p, d>>}
         /\ <<p, d>> \notin ClonesOf(d.buf)
         /\ \A b : b # d.buf => ClonesOf(b)' = ClonesOf(b)
<1>1. \A b : ClonesOf(b)' = UNION {{<<o, c>> : c \in {e \in At(o)' : e.buf = b}} : o \in Outputs}
  BY DEF ClonesOf, At
<1>2. \A b, x : x \in ClonesOf(b) <=> \E o \in Outputs : \E c \in At(o) : c.buf = b /\ x = <<o, c>>
  BY ClonesIn
<1>3. \A b, x : x \in ClonesOf(b)' <=>
                  \E o \in Outputs : \E c \in At(o)' : c.buf = b /\ x = <<o, c>>
  BY <1>1
<1>4. \A b, x : x \in ClonesOf(b)' <=> x \in ClonesOf(b) \/ (b = d.buf /\ x = <<p, d>>)
  BY <1>2, <1>3
<1>5. <<p, d>> \notin ClonesOf(d.buf)
  BY <1>2
<1>6. \A b : b # d.buf => ClonesOf(b)' = ClonesOf(b)
  <2> SUFFICES ASSUME NEW b, b # d.buf PROVE ClonesOf(b)' = ClonesOf(b)
    OBVIOUS
  <2>1. \A x : x \in ClonesOf(b)' <=> x \in ClonesOf(b)
    BY <1>4
  <2> QED
    BY <2>1 DEF ClonesOf
<1>7. ClonesOf(d.buf)' = ClonesOf(d.buf) \cup {<<p, d>>}
  <2>1. \A x : x \in ClonesOf(d.buf)' <=> x \in ClonesOf(d.buf) \cup {<<p, d>>}
    BY <1>4
  <2> QED
    BY <2>1
<1> QED
  BY <1>5, <1>6, <1>7

\* One clone less at one output: one source has one clone less.
LEMMA CloneGoes ==
  ASSUME NEW p \in Outputs, NEW d \in At(p), At(p)' = At(p) \ {d},
         \A o \in Outputs \ {p} : At(o)' = At(o)
  PROVE  /\ ClonesOf(d.buf)' = ClonesOf(d.buf) \ {<<p, d>>}
         /\ <<p, d>> \in ClonesOf(d.buf)
         /\ \A b : b # d.buf => ClonesOf(b)' = ClonesOf(b)
<1>1. \A b : ClonesOf(b)' = UNION {{<<o, c>> : c \in {e \in At(o)' : e.buf = b}} : o \in Outputs}
  BY DEF ClonesOf, At
<1>2. \A b, x : x \in ClonesOf(b) <=> \E o \in Outputs : \E c \in At(o) : c.buf = b /\ x = <<o, c>>
  BY ClonesIn
<1>3. \A b, x : x \in ClonesOf(b)' <=>
                  \E o \in Outputs : \E c \in At(o)' : c.buf = b /\ x = <<o, c>>
  BY <1>1
<1>4. \A b, x : x \in ClonesOf(b)' <=> x \in ClonesOf(b) /\ ~(b = d.buf /\ x = <<p, d>>)
  BY <1>2, <1>3
<1>5. <<p, d>> \in ClonesOf(d.buf)
  BY <1>2
<1>6. \A b : b # d.buf => ClonesOf(b)' = ClonesOf(b)
  <2> SUFFICES ASSUME NEW b, b # d.buf PROVE ClonesOf(b)' = ClonesOf(b)
    OBVIOUS
  <2>1. \A x : x \in ClonesOf(b)' <=> x \in ClonesOf(b)
    BY <1>4
  <2> QED
    BY <2>1 DEF ClonesOf
<1>7. ClonesOf(d.buf)' = ClonesOf(d.buf) \ {<<p, d>>}
  <2>1. \A x : x \in ClonesOf(d.buf)' <=> x \in ClonesOf(d.buf) \ {<<p, d>>}
    BY <1>4
  <2> QED
    BY <2>1
<1> QED
  BY <1>5, <1>6, <1>7

\* A step that leaves the outputs' lists alone
LEMMA OutputsKept ==
  ASSUME ClonesApart, UNCHANGED <<outUsed, outFree, held>>
  PROVE  ClonesApart' /\ \A o \in Outputs : At(o)' = At(o) /\ Out(o)' = Out(o)
  BY DEF ClonesApart, At, Out

\* What the thread of an output does moves a clone at most within the output.
LEMMA OutputMoves ==
  ASSUME OutTypes, ClonesApart, NEW o \in Outputs,
         \/ GetTeeOutput(o) \/ DownGet(o) \/ DownWake(o) \/ DownReturn(o)
         \/ PutTeeOutput(o) \/ DownDrain(o) \/ DownRefree(o)
  PROVE  ClonesApart' /\ \A p \in Outputs : At(p)' = At(p) /\ Out(p)' \subseteq Out(p)
<1>1. CASE UNCHANGED <<outUsed, outFree, held>>
  BY <1>1, OutputsKept
<1>2. CASE TakeClone(o) /\ UNCHANGED outFree
  <2>1. /\ Head(outUsed[o]) \in Elems(outUsed[o]) /\ Distinct(Tail(outUsed[o]))
        /\ Elems(Tail(outUsed[o])) = Elems(outUsed[o]) \ {Head(outUsed[o])}
    BY <1>2, ElemsTail DEF OutTypes, ClonesApart, TakeClone
  <2>2. \A p \in Outputs :
          /\ outUsed'[p] = IF p = o THEN Tail(outUsed[p]) ELSE outUsed[p]
          /\ held'[p] = IF p = o THEN held[p] \cup {Head(outUsed[p])} ELSE held[p]
    BY <1>2 DEF OutTypes, TakeClone
  <2>3. \A p \in Outputs : /\ Distinct(outUsed'[p])
                           /\ held'[p] \cap Elems(outUsed'[p]) = {}
                           /\ held'[p] \cup Elems(outUsed'[p]) = held[p] \cup Elems(outUsed[p])
    BY <2>1, <2>2 DEF ClonesApart
  <2> QED
    BY <1>2, <2>3 DEF ClonesApart, At, Out
<1>3. ASSUME NEW c \in held[o], PutFreeOut(o, c), UNCHANGED outUsed
      PROVE  ClonesApart' /\ \A p \in Outputs : At(p)' = At(p) /\ Out(p)' \subseteq Out(p)
  <2>1. c \in Clones /\ outFree[o] \in Seq(Clones) /\ c \notin Elems(outFree[o])
    BY <1>3 DEF OutTypes, ClonesApart, Out
  <2>2. /\ Elems(Append(outFree[o], c)) = Elems(outFree[o]) \cup {c}
        /\ Distinct(Append(outFree[o], c))
    BY <2>1, ElemsAppend DEF ClonesApart
  <2>3. \A p \in Outputs :
          /\ outFree'[p] = IF p = o THEN Append(outFree[p], c) ELSE outFree[p]
          /\ held'[p] = IF p = o THEN held[p] \ {c} ELSE held[p]
    BY <1>3 DEF OutTypes, PutFreeOut
  <2>4. \A p \in Outputs :
          /\ Distinct(outFree'[p])
          /\ held'[p] \subseteq held[p]
          /\ (held'[p] \cup Elems(outUsed[p])) \cap Elems(outFree'[p]) = {}
          /\ held'[p] \cup Elems(outUsed[p]) \cup Elems(outFree'[p])
               = held[p] \cup Elems(outUsed[p]) \cup Elems(outFree[p])
    BY <1>3, <2>2, <2>3 DEF ClonesApart, Out
  <2> QED
    BY <1>3, <2>4 DEF ClonesApart, At, Out
<1> QED
  BY <1>1, <1>2, <1>3
  DEF GetTeeOutput, DownGet, DownWake, DownReturn, PutTeeOutput, DownDrain, DownRefree

\* cleanOutFree takes a clone off the free side of one output.
LEMMA CleanTakes ==
  ASSUME OutTypes, ClonesApart, NEW p \in Outputs, outFree[p] # <<>>,
         outFree' = [outFree EXCEPT ![p] = Tail(@)], UNCHANGED <<outUsed, held>>
  PROVE  /\ ClonesApart' /\ \A o \in Outputs : Out(o)' = Out(o)
         /\ Head(outFree[p]) \in At(p) /\ At(p)' = At(p) \ {Head(outFree[p])}
         /\ \A o \in Outputs \ {p} : At(o)' = At(o)
<1>1. /\ Head(outFree[p]) \in Elems(outFree[p]) /\ Distinct(Tail(outFree[p]))
      /\ Elems(Tail(outFree[p])) = Elems(outFree[p]) \ {Head(outFree[p])}
  BY ElemsTail DEF OutTypes, ClonesApart
<1>2. \A o \in Outputs : outFree'[o] = IF o = p THEN Tail(outFree[o]) ELSE outFree[o]
  BY DEF OutTypes
<1>3. Head(outFree[p]) \notin Out(p)
  BY <1>1 DEF ClonesApart
<1>4. \A o \in Outputs : /\ Distinct(outFree'[o])
                         /\ Out(o) \cap Elems(outFree'[o]) = {}
                         /\ o # p => Elems(outFree'[o]) = Elems(outFree[o])
  BY <1>1, <1>2 DEF ClonesApart
<1>5. \A o \in Outputs : Out(o)' = Out(o) /\ At(o)' = Out(o) \cup Elems(outFree'[o])
  BY DEF At, Out
<1>6. ClonesApart'
  BY <1>4, <1>5 DEF ClonesApart
<1>7. At(p)' = At(p) \ {Head(outFree[p])}
  BY <1>1, <1>2, <1>3, <1>5 DEF At
<1>8. \A o \in Outputs \ {p} : At(o)' = At(o)
  BY <1>4, <1>5 DEF At
<1> QED
  BY <1>1, <1>5, <1>6, <1>7, <1>8 DEF At

\* The loop of threadRun puts a clone that is not there yet into the used side of an output.
LEMMA CloneGives ==
  ASSUME OutTypes, ClonesApart, NEW p \in Outputs, NEW d \in Clones, d \notin At(p),
         outUsed' = [outUsed EXCEPT ![p] = Append(@, d)], UNCHANGED <<outFree, held>>
  PROVE  /\ ClonesApart'
         /\ At(p)' = At(p) \cup {d} /\ Out(p)' = Out(p) \cup {d}
         /\ \A o \in Outputs \ {p} : At(o)' = At(o) /\ Out(o)' = Out(o)
<1>1. /\ Elems(Append(outUsed[p], d)) = Elems(outUsed[p]) \cup {d}
      /\ Distinct(Append(outUsed[p], d))
  BY ElemsAppend DEF OutTypes, ClonesApart, At, Out
<1>2. \A o \in Outputs : outUsed'[o] = IF o = p THEN Append(outUsed[o], d) ELSE outUsed[o]
  BY DEF OutTypes
<1>3. /\ Distinct(outUsed'[p]) /\ Elems(outUsed'[p]) = Elems(outUsed[p]) \cup {d}
      /\ \A o \in Outputs \ {p} : outUsed'[o] = outUsed[o]
  BY <1>1, <1>2
<1>4. d \notin held[p] /\ d \notin Elems(outFree[p])
  BY DEF At, Out
<1>5. \A o \in Outputs :
        /\ Out(o)' = held[o] \cup Elems(outUsed'[o])
        /\ At(o)' = held[o] \cup Elems(outUsed'[o]) \cup Elems(outFree[o])
  BY DEF At, Out
<1>6. ASSUME NEW o \in Outputs
      PROVE  /\ Distinct(outUsed'[o]) /\ Distinct(outFree[o])
             /\ held[o] \cap Elems(outUsed'[o]) = {}
             /\ (held[o] \cup Elems(outUsed'[o])) \cap Elems(outFree[o]) = {}
  <2>1. CASE o = p
    BY <1>3, <1>4, <2>1 DEF ClonesApart, Out
  <2>2. CASE o # p
    BY <1>3, <2>2 DEF ClonesApart, Out
  <2> QED
    BY <2>1, <2>2
<1>7. ClonesApart'
  BY <1>5, <1>6 DEF ClonesApart
<1>8. At(p)' = At(p) \cup {d} /\ Out(p)' = Out(p) \cup {d}
  BY <1>3, <1>5 DEF At, Out
<1>9. \A o \in Outputs \ {p} : At(o)' = At(o) /\ Out(o)' = Out(o)
  BY <1>3, <1>5 DEF At, Out
<1> QED
  BY <1>7, <1>8, <1>9

-----------------------------------------------------------------------------
(* What each step does to the counts and to the pictures.                   *)

\* The two steps on which a clone comes or goes
Collects == TeeClean /\ ti # TeeCount /\ outFree[ti] # <<>>
MakesOne == TeeClone /\ ti # TeeCount /\ ti \in active

\* On all others every output keeps its clones, and none comes back out of its free side.
Quiet == \A o \in Outputs : At(o)' = At(o) /\ Out(o)' \subseteq Out(o)

\* Every step is quiet but those two.
LEMMA QuietSteps ==
  ASSUME OutTypes, ClonesApart, [Next]_vars, ~Collects, ~MakesOne
  PROVE  ClonesApart' /\ Quiet
<1>1. CASE UNCHANGED <<outUsed, outFree, held>>
  BY <1>1, OutputsKept DEF Quiet
<1>2. ASSUME NEW o \in Outputs,
             \/ GetTeeOutput(o) \/ DownGet(o) \/ DownWake(o) \/ DownReturn(o)
             \/ PutTeeOutput(o) \/ DownDrain(o) \/ DownRefree(o)
      PROVE  ClonesApart' /\ Quiet
  BY <1>2, OutputMoves DEF Quiet
<1>3. CASE TeeClean \/ TeeClone
  <2>1. UNCHANGED <<outUsed, outFree, held>>
    BY <1>3 DEF Collects, MakesOne, TeeClean, TeeClone, dnVars
  <2> QED
    BY <1>1, <2>1
<1>4. CASE \/ UpGet \/ UpWake \/ UpStop \/ UpAck
           \/ \E b \in Bufs : UpSend(b) \/ UpReturn(b)
  BY <1>1, <1>4 DEF UpGet, UpWake, UpStop, UpAck, UpSend, UpReturn, outVars, dnVars
<1>5. CASE \/ TeeCheck \/ TeeArg \/ TeePop \/ TeeGet \/ TeeWake \/ TeeSpurious
           \/ TeeGot \/ TeeSettle
  BY <1>1, <1>5
  DEF TeeCheck, TeeArg, TeePop, TeeGet, TeeWake, TeeSpurious, TeeGot, TeeSettle, outVars,
      dnVars
<1>6. CASE CleanStop \/ CleanBroadcast \/ CleanJoin \/ BaseClean
  BY <1>1, <1>6 DEF CleanStop, CleanBroadcast, CleanJoin, BaseClean, outVars, dnVars
<1>7. CASE UNCHANGED vars
  BY <1>1, <1>7 DEF vars
<1> QED
  BY <1>2, <1>3, <1>4, <1>5, <1>6, <1>7 DEF Next

\* The counts on a step that keeps the clones: only the thread's own loop touches them.
LEMMA QuietCounted ==
  ASSUME CloneInv, [Next]_vars, ~Collects, ~MakesOne, Quiet
  PROVE  Counted'
<1>0. InTypes /\ OutTypes /\ PcTypes /\ InHand /\ Stopping /\ Apart /\ Counted /\ Cloneless
  BY DEF CloneInv, SourceInv, IInv, TypeOK
<1>1. /\ \A b : ClonesOf(b)' = ClonesOf(b)
      /\ \A o \in Outputs : At(o)' = At(o)
  BY ClonesKept DEF Quiet
<1>2. ASSUME Elems(linger') \subseteq Elems(linger), clones' = clones,
             tpc' \in {"clone", "settle"} => made' = made /\ hand' = hand
                                              /\ tpc \in {"clone", "settle"},
             tpc' = "clone" => tpc = "clone" /\ ti' \in {ti, ti + 1}
      PROVE  Counted'
  <2>1. tpc' \in {"clone", "settle"} => made' = Cardinality(ClonesOf(hand)')
    BY <1>0, <1>1, <1>2 DEF Counted
  <2>2. tpc' = "clone" => \A o \in Outputs : \A c \in At(o)' : c.buf = hand' => o < ti'
    <3>1. ti \in Int /\ \A o \in Outputs : o \in Int /\ (o < ti => o < ti + 1)
      BY <1>0, TeeListAssumption DEF PcTypes, Outputs
    <3> QED
      BY <1>0, <1>1, <1>2, <3>1 DEF Counted
  <2>3. \A b \in Elems(linger') : clones'[b] = Cardinality(ClonesOf(b)')
    BY <1>0, <1>1, <1>2 DEF Counted
  <2> QED
    BY <1>0, <1>1, <2>1, <2>2, <2>3 DEF Counted
<1>3. CASE TeePop
  <2>1. Elems(linger') \subseteq Elems(linger)
    BY <1>0, <1>3, InputFifos DEF TeePop
  <2> QED
    BY <1>2, <1>3, <2>1 DEF TeePop
<1>4. CASE TeeGot
  <2>1. hand \in Bufs /\ ClonesOf(hand) = {} /\ Cardinality(ClonesOf(hand)) = 0
    BY <1>0, <1>4, FS_EmptySet DEF InHand, Cloneless, TeeGot
  <2>2. CASE stop
    <3>1. /\ clones' = [clones EXCEPT ![hand] = 0] /\ linger' = Append(linger, hand)
          /\ tpc' = "lastClean"
      BY <1>4, <2>2 DEF TeeGot
    <3>2. Elems(linger') = Elems(linger) \cup {hand} /\ hand \notin Elems(linger)
      BY <1>0, <2>1, <3>1, InputFifos DEF Apart
    <3>3. \A b \in Elems(linger') : b \in Bufs
      BY <1>0, <2>1, <3>2 DEF Apart
    <3>4. \A b \in Elems(linger') : clones'[b] = Cardinality(ClonesOf(b))
      BY <1>0, <2>1, <3>1, <3>2, <3>3 DEF Counted, OutTypes
    <3> QED
      BY <1>0, <1>1, <3>1, <3>4 DEF Counted
  <2>3. CASE ~stop
    <3>1. /\ UNCHANGED <<clones, linger, hand>>
          /\ tpc' = "clone" /\ ti' = 0 /\ made' = 0
      BY <1>4, <2>3 DEF TeeGot
    <3>2. made' = Cardinality(ClonesOf(hand)')
      BY <1>1, <2>1, <3>1
    <3>3. \A o \in Outputs : \A c \in At(o)' : c.buf # hand'
      BY <1>1, <2>1, <3>1, NoClones
    <3>4. \A b \in Elems(linger') : clones'[b] = Cardinality(ClonesOf(b)')
      BY <1>0, <1>1, <3>1 DEF Counted
    <3>5. \A b \in Bufs : IsFiniteSet(ClonesOf(b)')
      BY <1>0, <1>1 DEF Counted
    <3> QED
      BY <3>2, <3>3, <3>4, <3>5 DEF Counted
  <2> QED
    BY <2>2, <2>3
<1>5. CASE TeeSettle
  <2>1. hand \in Bufs /\ made = Cardinality(ClonesOf(hand)) /\ tpc' = "check"
    BY <1>0, <1>5 DEF InHand, Counted, TeeSettle
  <2>2. CASE made > 0
    <3>1. clones' = [clones EXCEPT ![hand] = made] /\ linger' = Append(linger, hand)
      BY <1>5, <2>2 DEF TeeSettle
    <3>2. Elems(linger') = Elems(linger) \cup {hand} /\ hand \notin Elems(linger)
      BY <1>0, <2>1, <3>1, InputFifos DEF Apart
    <3>3. \A b \in Elems(linger') : b \in Bufs
      BY <1>0, <2>1, <3>2 DEF Apart
    <3>4. \A b \in Elems(linger') : clones'[b] = Cardinality(ClonesOf(b))
      BY <1>0, <2>1, <3>1, <3>2, <3>3 DEF Counted, OutTypes
    <3> QED
      BY <1>0, <1>1, <2>1, <3>4 DEF Counted
  <2>3. CASE ~(made > 0)
    BY <1>2, <1>5, <2>1, <2>3 DEF TeeSettle
  <2> QED
    BY <2>2, <2>3
<1>6. CASE UpGet \/ UpWake \/ UpStop \/ UpAck \/ \E b \in Bufs : UpSend(b) \/ UpReturn(b)
  BY <1>2, <1>6
  DEF UpGet, UpWake, UpStop, UpAck, UpSend, UpReturn, WakeTee, teeVars
<1>7. CASE \/ TeeCheck \/ TeeClean \/ TeeArg \/ TeeGet \/ TeeWake \/ TeeSpurious
  BY <1>2, <1>7
  DEF Collects, TeeCheck, TeeClean, TeeArg, TeeGet, TeeWake, TeeSpurious, Take, teeVars
<1>8. CASE TeeClone
  BY <1>2, <1>8 DEF TeeClone, MakesOne
<1>9. ASSUME NEW o \in Outputs,
             \/ GetTeeOutput(o) \/ DownGet(o) \/ DownWake(o) \/ DownReturn(o)
             \/ PutTeeOutput(o) \/ DownDrain(o) \/ DownRefree(o)
      PROVE  Counted'
  BY <1>2, <1>9
  DEF GetTeeOutput, DownGet, DownWake, DownReturn, PutTeeOutput, DownDrain, DownRefree,
      PutFreeOut, WakeTee, teeVars
<1>10. CASE CleanStop \/ CleanBroadcast \/ CleanJoin
  BY <1>2, <1>10 DEF CleanStop, CleanBroadcast, CleanJoin, WakeTee, teeVars
<1>11. CASE BaseClean
  <2>1. tpc = "exit"
    BY <1>0, <1>11 DEF Stopping, BaseClean
  <2> QED
    BY <1>2, <1>11, <2>1 DEF BaseClean
<1>12. CASE UNCHANGED vars
  BY <1>2, <1>12 DEF vars
<1> QED
  BY <1>3, <1>4, <1>5, <1>6, <1>7, <1>8, <1>9, <1>10, <1>11, <1>12 DEF Next

\* A source goes where it may be written, or sent, only when its clones are back: the pop
\* looks at its count, or is forced where there are no clones at all.
LEMMA QuietCloneless ==
  ASSUME CloneInv, [Next]_vars, ~Collects, ~MakesOne, Quiet
  PROVE  Cloneless'
<1>0. InTypes /\ PcTypes /\ InHand /\ Stopping /\ Apart /\ Hands
  BY DEF CloneInv, SourceInv, IInv, TypeOK
<1>1. Counted /\ Cloneless /\ Unused
  BY DEF CloneInv
<1>2. \A b : ClonesOf(b)' = ClonesOf(b)
  BY ClonesKept DEF Quiet
<1>3. ASSUME Elems(inUsed') \subseteq Elems(inUsed),
             tpc' = "got" => tpc = "got" /\ hand' = hand,
             upc' # "stopped" => /\ upc # "stopped"
                                 /\ uhold' \cup Elems(inFree') \subseteq uhold \cup Elems(inFree)
      PROVE  Cloneless'
  BY <1>1, <1>2, <1>3 DEF Cloneless
<1>4. CASE UpGet \/ UpWake
  <2>1. upc' # "stopped" /\ upc # "stopped" /\ inUsed' = inUsed /\ UNCHANGED <<tpc, hand>>
    BY <1>4 DEF UpGet, UpWake, teeVars
  <2>2. uhold' \cup Elems(inFree') \subseteq uhold \cup Elems(inFree)
    BY <1>0, <1>4, InputFifos DEF UpGet, UpWake, Fill
  <2> QED
    BY <1>3, <2>1, <2>2
<1>5. ASSUME NEW b \in Bufs, UpSend(b) PROVE Cloneless'
  <2>1. /\ b \in uhold /\ upc # "stopped" /\ UNCHANGED <<upc, inFree>>
        /\ tpc' = "got" => tpc = "got" /\ hand' = hand
        /\ uhold' = uhold \ {b}
    BY <1>5 DEF UpSend, WakeTee, teeVars
  <2>2. Elems(inUsed') = Elems(inUsed) \cup {b}
    BY <1>0, <1>5, InputFifos DEF UpSend
  <2>3. ClonesOf(b) = {}
    BY <1>1, <2>1 DEF Cloneless
  <2> QED
    BY <1>1, <1>2, <2>1, <2>2, <2>3 DEF Cloneless
<1>6. ASSUME NEW b \in Bufs, UpReturn(b) PROVE Cloneless'
  <2>1. Elems(inFree') = Elems(inFree) \cup {b} /\ b \in uhold /\ uhold' = uhold \ {b}
    BY <1>0, <1>6, InputFifos DEF UpReturn, PutFreeIn
  <2>2. UNCHANGED <<inUsed, tpc, hand>> /\ upc = "stopping"
    BY <1>6 DEF UpReturn, teeVars
  <2> QED
    BY <1>3, <2>1, <2>2
<1>7. CASE UpStop \/ UpAck
  BY <1>3, <1>7 DEF UpStop, UpAck, inVars, teeVars
<1>8. ASSUME NEW b \in Bufs, ClonesOf(b) = {}, inFree' = Append(inFree, b),
             UNCHANGED <<inUsed, uhold>>, tpc' # "got", upc' # "stopped" => upc # "stopped"
      PROVE  Cloneless'
  <2>1. Elems(inFree') = Elems(inFree) \cup {b}
    BY <1>0, <1>8, InputFifos
  <2> QED
    BY <1>1, <1>2, <1>8, <2>1 DEF Cloneless
<1>9. CASE TeePop
  <2>1. UNCHANGED <<inUsed, uhold>> /\ tpc' # "got"
    BY <1>9 DEF TeePop
  <2>2. CASE UNCHANGED <<inFree, upc>>
    BY <1>3, <2>1, <2>2
  <2>3. CASE upc = "stopped"
    <3>1. upc' = "stopped"
      BY <1>9, <2>3 DEF TeePop, PutFreeIn
    <3> QED
      BY <1>3, <2>1, <3>1
  <2>4. CASE upc # "stopped" /\ linger # <<>> /\ inFree' = Append(inFree, Head(linger))
             /\ (force \/ clones[Head(linger)] = 0)
    <3>1. Head(linger) \in Bufs /\ Head(linger) \in Elems(linger)
      BY <1>0, <2>4, HeadTail, InputFifos DEF InTypes
    <3>2. tpc = "pop"
      BY <1>0, <1>9, <2>4 DEF TeePop, Stopping
    <3>3. ClonesOf(Head(linger)) = {}
      <4>1. CASE force
        BY <1>1, <2>4, <3>2, <4>1, NoClones DEF Unused
      <4>2. CASE clones[Head(linger)] = 0
        BY <1>1, <3>1, <4>2, FS_EmptySet DEF Counted
      <4> QED
        BY <2>4, <4>1, <4>2
    <3> QED
      BY <1>8, <2>1, <2>4, <3>1, <3>3
  <2> QED
    BY <1>9, <2>2, <2>3, <2>4 DEF TeePop, PutFreeIn
<1>10. CASE TeeGet \/ TeeWake
  <2>1. UNCHANGED <<inFree, uhold, upc>>
    BY <1>10 DEF TeeGet, TeeWake, upVars
  <2>2. CASE Take
    <3>1. /\ Elems(inUsed') \subseteq Elems(inUsed)
          /\ hand' = Head(inUsed) /\ Head(inUsed) \in Elems(inUsed)
      BY <1>0, <2>2, InputFifos DEF Take
    <3> QED
      BY <1>1, <1>2, <2>1, <3>1 DEF Cloneless
  <2>3. CASE ~Take
    BY <1>3, <1>10, <2>1, <2>3 DEF TeeGet, TeeWake
  <2> QED
    BY <2>2, <2>3
<1>11. CASE TeeSettle
  <2>1. UNCHANGED <<inUsed, uhold>> /\ tpc' # "got"
    BY <1>11 DEF TeeSettle
  <2>2. CASE made > 0
    BY <1>3, <1>11, <2>1, <2>2 DEF TeeSettle
  <2>3. CASE ~(made > 0)
    <3>1. hand \in Bufs /\ made = Cardinality(ClonesOf(hand)) /\ IsFiniteSet(ClonesOf(hand))
      BY <1>0, <1>1, <1>11 DEF InHand, Counted, TeeSettle
    <3>2. made = 0
      BY <1>0, <2>3, TeeListAssumption DEF PcTypes
    <3>3. ClonesOf(hand) = {}
      BY <3>1, <3>2, FS_EmptySet
    <3>4. inFree' = Append(inFree, hand) /\ (upc' # "stopped" => upc # "stopped")
      BY <1>11, <2>3 DEF TeeSettle, PutFreeIn
    <3> QED
      BY <1>8, <2>1, <3>1, <3>3, <3>4
  <2> QED
    BY <2>2, <2>3
<1>12. CASE \/ TeeCheck \/ TeeClean \/ TeeArg \/ TeeSpurious \/ TeeGot \/ TeeClone
  BY <1>3, <1>12
  DEF TeeCheck, TeeClean, TeeArg, TeeSpurious, TeeGot, TeeClone, inVars, upVars
<1>13. ASSUME NEW o \in Outputs,
              \/ GetTeeOutput(o) \/ DownGet(o) \/ DownWake(o) \/ DownReturn(o)
              \/ PutTeeOutput(o) \/ DownDrain(o) \/ DownRefree(o)
       PROVE  Cloneless'
  BY <1>3, <1>13
  DEF GetTeeOutput, DownGet, DownWake, DownReturn, PutTeeOutput, DownDrain, DownRefree,
      PutFreeOut, WakeTee, inVars, teeVars, upVars
<1>14. CASE CleanStop \/ CleanBroadcast \/ CleanJoin
  BY <1>3, <1>14 DEF CleanStop, CleanBroadcast, CleanJoin, WakeTee, inVars, teeVars, upVars
<1>15. CASE BaseClean
  <2>1. tpc = "exit" /\ tpc' = tpc /\ upc = "stopped" /\ upc' = upc
    BY <1>0, <1>15 DEF Stopping, BaseClean, PutFreeIn
  <2>2. Elems(inUsed') \subseteq Elems(inUsed)
    BY <1>0, <1>15, InputFifos DEF BaseClean
  <2> QED
    BY <1>3, <2>1, <2>2
<1>16. CASE UNCHANGED vars
  BY <1>3, <1>16 DEF vars
<1> QED
  BY <1>4, <1>5, <1>6, <1>7, <1>9, <1>10, <1>11, <1>12, <1>13, <1>14, <1>15, <1>16 DEF Next

\* An output that is in use stays so until the upstream has stopped, or another is in use.
LEMMA UnusedBefore ==
  ASSUME ~AnyRelease, TypeOK, [Next]_vars, upc' # "stopped",
         active' = {} \/ (tpc' = "pop" /\ force')
  PROVE  upc # "stopped" /\ (active = {} \/ (tpc = "pop" /\ force))
<1>1. CASE UpGet \/ UpWake \/ UpStop \/ UpAck \/ \E b \in Bufs : UpSend(b) \/ UpReturn(b)
  BY <1>1
  DEF UpGet, UpWake, UpStop, UpAck, UpSend, UpReturn, WakeTee, PutFreeIn, teeVars, outVars
<1>2. CASE \/ TeeCheck \/ TeeClean \/ TeeArg \/ TeePop \/ TeeGet \/ TeeWake \/ TeeSpurious
           \/ TeeGot \/ TeeClone \/ TeeSettle
  BY <1>2
  DEF TeeCheck, TeeClean, TeeArg, TeePop, TeeGet, TeeWake, TeeSpurious, TeeGot, TeeClone,
      TeeSettle, Take, PutFreeIn, teeVars, outVars, upVars
<1>3. ASSUME NEW o \in Outputs,
             \/ GetTeeOutput(o) \/ DownGet(o) \/ DownWake(o) \/ DownReturn(o)
             \/ PutTeeOutput(o) \/ DownDrain(o) \/ DownRefree(o)
      PROVE  upc # "stopped" /\ (active = {} \/ (tpc = "pop" /\ force))
  BY <1>3
  DEF GetTeeOutput, DownGet, DownWake, DownReturn, PutTeeOutput, DownDrain, DownRefree,
      MayRelease, PutFreeOut, WakeTee, teeVars, upVars
<1>4. CASE CleanStop \/ CleanBroadcast \/ CleanJoin \/ BaseClean
  BY <1>4
  DEF CleanStop, CleanBroadcast, CleanJoin, BaseClean, WakeTee, PutFreeIn, teeVars,
      outVars, upVars
<1>5. CASE UNCHANGED vars
  BY <1>5 DEF vars
<1> QED
  BY <1>1, <1>2, <1>3, <1>4, <1>5 DEF Next

\* A buffer is written only by the upstream, which has it without clones.
LEMMA QuietPictures ==
  ASSUME CloneInv, [Next]_vars, ~Collects, ~MakesOne, Quiet
  PROVE  PictureKept'
<1>0. InTypes /\ OutTypes /\ PcTypes /\ OutputOf /\ Apart
  BY DEF CloneInv, SourceInv, IInv, TypeOK
<1>1. PictureKept /\ Cloneless
  BY DEF CloneInv
<1>2. \A o \in Outputs : Out(o)' \subseteq Out(o) /\ Out(o) \subseteq At(o)
  BY DEF Quiet, At
<1>3. ASSUME active' \subseteq active, frame' = frame PROVE PictureKept'
  BY <1>0, <1>1, <1>2, <1>3 DEF PictureKept, OutTypes
<1>4. ASSUME NEW b \in Bufs, upc # "stopped", b \in uhold \cup Elems(inFree),
             NEW n, frame' = [frame EXCEPT ![b] = n], active' = active
      PROVE  PictureKept'
  <2>1. \A o \in Outputs : \A c \in At(o) : c.buf # b
    BY <1>1, <1>4, NoClones DEF Cloneless
  <2>2. \A o \in Outputs : \A c \in Out(o) : c \in Clones
    <3>1. \A o \in Outputs : held[o] \subseteq Clones /\ Elems(outUsed[o]) \subseteq Clones
      BY <1>0 DEF OutTypes, Elems
    <3> QED
      BY <3>1 DEF Out
  <2>3. \A o \in active : \A c \in Out(o) : frame'[c.buf] = frame[c.buf]
    BY <1>0, <1>2, <1>4, <2>1, <2>2 DEF InTypes, OutTypes, Clones
  <2>4. \A o \in active' : o \in active /\ o \in Outputs
    BY <1>0, <1>4 DEF OutTypes
  <2> QED
    BY <1>1, <1>2, <2>3, <2>4 DEF PictureKept
<1>5. CASE UpGet \/ UpWake
  <2>1. active' = active /\ upc # "stopped"
    BY <1>5 DEF UpGet, UpWake, outVars
  <2>2. CASE Fill /\ inFree # <<>>
    <3>1. Head(inFree) \in Bufs /\ Head(inFree) \in Elems(inFree)
      BY <1>0, <2>2, HeadTail, InputFifos DEF InTypes
    <3> QED
      BY <1>4, <2>1, <2>2, <3>1 DEF Fill
  <2> QED
    BY <1>3, <1>5, <2>1, <2>2 DEF UpGet, UpWake
<1>6. ASSUME NEW b \in Bufs, UpSend(b) PROVE PictureKept'
  <2>1. /\ active' = active /\ upc # "stopped" /\ b \in uhold
        /\ frame' = [frame EXCEPT ![b] = sent + 1]
    BY <1>6 DEF UpSend, outVars
  <2> QED
    BY <1>4, <2>1
<1>7. ASSUME NEW o \in Outputs, GetTeeOutput(o) PROVE PictureKept'
  <2>1. active' = active \cup {o} /\ frame' = frame /\ dpc[o] = "away"
    BY <1>7 DEF GetTeeOutput, upVars
  <2>2. Out(o) = {}
    BY <1>0, <2>1, ElemsEmpty DEF OutputOf, Out
  <2>3. Out(o)' = {}
    BY <1>2, <2>2
  <2>4. \A p \in active' : p \in Outputs /\ (p \in active \/ p = o)
    BY <1>0, <2>1 DEF OutTypes
  <2> QED
    BY <1>1, <1>2, <2>1, <2>3, <2>4 DEF PictureKept
<1>8. ASSUME NEW o \in Outputs,
             \/ DownGet(o) \/ DownWake(o) \/ DownReturn(o)
             \/ PutTeeOutput(o) \/ DownDrain(o) \/ DownRefree(o)
      PROVE  PictureKept'
  BY <1>3, <1>8
  DEF DownGet, DownWake, DownReturn, PutTeeOutput, DownDrain, DownRefree, upVars
<1>9. CASE UpStop \/ UpAck \/ \E b \in Bufs : UpReturn(b)
  BY <1>3, <1>9 DEF UpStop, UpAck, UpReturn, outVars
<1>10. CASE \/ TeeCheck \/ TeeClean \/ TeeArg \/ TeePop \/ TeeGet \/ TeeWake \/ TeeSpurious
            \/ TeeGot \/ TeeClone \/ TeeSettle
  BY <1>3, <1>10
  DEF TeeCheck, TeeClean, TeeArg, TeePop, TeeGet, TeeWake, TeeSpurious, TeeGot, TeeClone,
      TeeSettle, outVars, upVars
<1>11. CASE CleanStop \/ CleanBroadcast \/ CleanJoin \/ BaseClean
  BY <1>3, <1>11 DEF CleanStop, CleanBroadcast, CleanJoin, BaseClean, outVars, upVars
<1>12. CASE UNCHANGED vars
  BY <1>3, <1>12 DEF vars
<1> QED
  BY <1>5, <1>6, <1>7, <1>8, <1>9, <1>10, <1>11, <1>12 DEF Next

\* The clone that is collected no longer counts for its source.
LEMMA CollectsInv ==
  ASSUME CloneInv, Collects
  PROVE  ClonesApart' /\ Counted' /\ Cloneless' /\ PictureKept'
<1>0. /\ InTypes /\ OutTypes /\ PcTypes /\ Apart
      /\ ClonesApart /\ Counted /\ Cloneless /\ PictureKept
  BY DEF CloneInv, SourceInv, IInv, TypeOK
<1>1. SUFFICES ASSUME NEW p, p = ti, NEW d, d = Head(outFree[p])
               PROVE  ClonesApart' /\ Counted' /\ Cloneless' /\ PictureKept'
  OBVIOUS
<1>2. /\ p \in Outputs /\ outFree[p] # <<>> /\ outFree' = [outFree EXCEPT ![p] = Tail(@)]
      /\ clones' = [clones EXCEPT ![d.buf] = @ - 1]
      /\ UNCHANGED <<outUsed, held, active, linger, hand, made, ti, tpc, inUsed, inFree,
                     uhold, upc, frame>>
      /\ tpc \in {"clean", "lastClean"}
  <2>1. p \in Outputs
    BY <1>0, <1>1, OutputNumber DEF Collects, PcTypes
  <2> QED
    BY <1>1, <2>1 DEF Collects, TeeClean, dnVars, upVars, inVars
<1>3. /\ ClonesApart' /\ \A o \in Outputs : Out(o)' = Out(o)
      /\ d \in At(p) /\ At(p)' = At(p) \ {d} /\ \A o \in Outputs \ {p} : At(o)' = At(o)
  BY <1>0, <1>1, <1>2, CleanTakes
<1>4. /\ ClonesOf(d.buf)' = ClonesOf(d.buf) \ {<<p, d>>} /\ <<p, d>> \in ClonesOf(d.buf)
      /\ \A b : b # d.buf => ClonesOf(b)' = ClonesOf(b)
  BY <1>2, <1>3, CloneGoes
<1>5. d.buf \in Bufs
  <2>1. d \in Clones
    BY <1>0, <1>1, <1>2, HeadTail DEF OutTypes
  <2> QED
    BY <2>1 DEF Clones
<1>6. IsFiniteSet(ClonesOf(d.buf)')
      /\ Cardinality(ClonesOf(d.buf)') = Cardinality(ClonesOf(d.buf)) - 1
  BY <1>0, <1>4, <1>5, FS_RemoveElement DEF Counted
<1>7. Counted'
  <2>1. \A b \in Bufs : IsFiniteSet(ClonesOf(b)')
    BY <1>0, <1>4, <1>6 DEF Counted
  <2>2. \A b \in Elems(linger) : b \in Bufs
    BY <1>0 DEF Apart
  <2>3. \A b \in Elems(linger) : clones'[b] = Cardinality(ClonesOf(b)')
    BY <1>0, <1>2, <1>4, <1>5, <1>6, <2>2 DEF Counted, OutTypes
  <2> QED
    BY <1>2, <2>1, <2>3 DEF Counted
<1>8. Cloneless'
  <2>1. \A b : ClonesOf(b) = {} => ClonesOf(b)' = {}
    BY <1>4
  <2> QED
    BY <1>0, <1>2, <2>1 DEF Cloneless
<1>9. PictureKept'
  <2>1. \A o \in active : o \in Outputs
    BY <1>0 DEF OutTypes
  <2> QED
    BY <1>0, <1>2, <1>3, <2>1 DEF PictureKept
<1> QED
  BY <1>3, <1>7, <1>8, <1>9

\* The clone that is made is the only one of its source at its output, and is counted.
LEMMA MakesOneInv ==
  ASSUME CloneInv, MakesOne
  PROVE  ClonesApart' /\ Counted' /\ Cloneless' /\ PictureKept'
<1>0. /\ InTypes /\ OutTypes /\ PcTypes /\ InHand /\ Apart
      /\ ClonesApart /\ Counted /\ Cloneless /\ PictureKept
  BY DEF CloneInv, SourceInv, IInv, TypeOK
<1>1. SUFFICES ASSUME NEW p, p = ti, NEW h, h = hand, NEW d, d = Clone(h)
               PROVE  ClonesApart' /\ Counted' /\ Cloneless' /\ PictureKept'
  OBVIOUS
<1>2. /\ p \in Outputs /\ h \in Bufs /\ tpc = "clone" /\ tpc' = "clone"
      /\ outUsed' = [outUsed EXCEPT ![p] = Append(@, d)]
      /\ ti' = p + 1 /\ made' = made + 1
      /\ UNCHANGED <<outFree, held, active, clones, linger, hand, inUsed, inFree, uhold, upc,
                     frame>>
  <2>1. p \in Outputs /\ h \in Bufs
    BY <1>0, <1>1 DEF MakesOne, TeeClone, OutTypes, InHand
  <2> QED
    BY <1>1, <2>1 DEF MakesOne, TeeClone, inVars, upVars
<1>3. d \in Clones /\ d.buf = h /\ d.frame = frame[h]
  BY <1>0, <1>1, <1>2, CloneType DEF Clone
<1>4. \A o \in Outputs : \A c \in At(o) : c.buf = h => o < p
  BY <1>0, <1>1, <1>2 DEF Counted
<1>5. p \in Int /\ \A o \in Outputs : o \in Int
  BY <1>2, TeeListAssumption DEF Outputs
<1>6. d \notin At(p)
  BY <1>2, <1>3, <1>4, <1>5
<1>7. /\ ClonesApart' /\ At(p)' = At(p) \cup {d} /\ Out(p)' = Out(p) \cup {d}
      /\ \A o \in Outputs \ {p} : At(o)' = At(o) /\ Out(o)' = Out(o)
  BY <1>0, <1>2, <1>3, <1>6, CloneGives
<1>8. /\ ClonesOf(h)' = ClonesOf(h) \cup {<<p, d>>} /\ <<p, d>> \notin ClonesOf(h)
      /\ \A b : b # h => ClonesOf(b)' = ClonesOf(b)
  BY <1>2, <1>3, <1>6, <1>7, CloneComes
<1>9. IsFiniteSet(ClonesOf(h)') /\ Cardinality(ClonesOf(h)') = Cardinality(ClonesOf(h)) + 1
  BY <1>0, <1>2, <1>8, FS_AddElement DEF Counted
<1>10. h \notin Elems(linger) \cup Elems(inUsed) \cup Elems(inFree) \cup uhold
  BY <1>0, <1>1 DEF Apart
<1>11. Counted'
  <2>1. \A b \in Bufs : IsFiniteSet(ClonesOf(b)')
    BY <1>0, <1>8, <1>9 DEF Counted
  <2>2. \A b \in Elems(linger) : clones[b] = Cardinality(ClonesOf(b)')
    BY <1>0, <1>8, <1>10 DEF Counted
  <2>3. made + 1 = Cardinality(ClonesOf(h)')
    BY <1>0, <1>1, <1>2, <1>9 DEF Counted
  <2>4. \A o \in Outputs : \A c \in At(o)' : c.buf = h => o < p + 1
    BY <1>4, <1>5, <1>7
  <2> QED
    BY <1>1, <1>2, <2>1, <2>2, <2>3, <2>4 DEF Counted
<1>12. Cloneless'
  BY <1>0, <1>2, <1>8, <1>10 DEF Cloneless
<1>13. PictureKept'
  <2>1. \A o \in active : o \in Outputs
    BY <1>0 DEF OutTypes
  <2>2. \A o \in active : \A c \in Out(o)' : c \in Out(o) \/ c = d
    BY <1>7, <2>1
  <2> QED
    BY <1>0, <1>2, <1>3, <2>1, <2>2 DEF PictureKept
<1> QED
  BY <1>7, <1>11, <1>12, <1>13

\* No step makes a clone at outputs that nobody uses.
LEMMA UnusedInv ==
  ASSUME ~AnyRelease, CloneInv, [Next]_vars
  PROVE  Unused'
<1> SUFFICES ASSUME upc' # "stopped", active' = {} \/ (tpc' = "pop" /\ force')
             PROVE  \A o \in Outputs : At(o)' = {}
  BY DEF Unused
<1>0. OutTypes /\ PcTypes /\ TypeOK /\ ClonesApart /\ Unused
  BY DEF CloneInv, SourceInv, IInv, TypeOK
<1>1. (active = {} \/ (tpc = "pop" /\ force)) /\ \A o \in Outputs : At(o) = {}
  BY <1>0, UnusedBefore DEF Unused
<1>2. ~MakesOne
  BY <1>1 DEF MakesOne, TeeClone
<1>3. ~Collects
  <2> SUFFICES ASSUME Collects PROVE FALSE
    OBVIOUS
  <2>1. ti \in Outputs /\ outFree[ti] # <<>>
    BY <1>0, OutputNumber DEF Collects, PcTypes
  <2>2. Head(outFree[ti]) \in Elems(outFree[ti])
    BY <1>0, <2>1, ElemsEmpty DEF OutTypes
  <2> QED
    BY <1>1, <2>1, <2>2 DEF At
<1> QED
  BY <1>0, <1>1, <1>2, <1>3, QuietSteps DEF Quiet

\* A tee that is begun has no clones.
LEMMA InitClones == Init => CloneInv
<1> SUFFICES ASSUME Init PROVE CloneInv
  OBVIOUS
<1>1. SourceInv /\ active = {} /\ linger = <<>> /\ tpc = "check"
  BY SourceInvariance DEF Init
<1>2. \A o \in Outputs : /\ held[o] = {} /\ outUsed[o] = <<>> /\ outFree[o] = <<>>
                         /\ Out(o) = {} /\ At(o) = {}
  BY ElemsEmpty DEF Init, Out, At
<1>3. \A b : ClonesOf(b) = {}
  BY <1>2, NoClones
<1>4. ClonesApart
  BY <1>2, ElemsEmpty DEF ClonesApart
<1>5. Counted /\ Cloneless /\ Unused /\ PictureKept
  BY <1>1, <1>2, <1>3, ElemsEmpty, FS_EmptySet DEF Counted, Cloneless, Unused, PictureKept
<1> QED
  BY <1>1, <1>4, <1>5 DEF CloneInv

\* Each conjunct is kept by the two steps and by the quiet ones.
LEMMA CloneInvariance == ~AnyRelease => (Spec => []CloneInv)
<1> SUFFICES ASSUME ~AnyRelease PROVE Spec => []CloneInv
  OBVIOUS
<1>1. CloneInv /\ [Next]_vars => CloneInv'
  <2> SUFFICES ASSUME CloneInv, [Next]_vars PROVE CloneInv'
    OBVIOUS
  <2>1. SourceInv' /\ Unused'
    BY SourceInvariance, UnusedInv DEF CloneInv
  <2>2. ClonesApart' /\ Counted' /\ Cloneless' /\ PictureKept'
    <3>1. CASE Collects
      BY <3>1, CollectsInv
    <3>2. CASE MakesOne
      BY <3>2, MakesOneInv
    <3>3. CASE ~Collects /\ ~MakesOne
      <4>1. ClonesApart' /\ Quiet
        BY <3>3, QuietSteps DEF CloneInv, SourceInv, IInv, TypeOK
      <4> QED
        BY <3>3, <4>1, QuietCounted, QuietCloneless, QuietPictures
    <3> QED
      BY <3>1, <3>2, <3>3
  <2> QED
    BY <2>1, <2>2 DEF CloneInv
<1> QED
  BY <1>1, InitClones, PTL DEF Spec

\* Where the last output is released only in the stop protocol, the count of a lingering
\* source is the number of its clones (threadRun, cleanOutFree), and a source goes back to
\* be written only without any, until the upstream has stopped.
THEOREM CountsExact == ~AnyRelease => (Spec => []CountExact)
<1> SUFFICES ASSUME ~AnyRelease PROVE Spec => []CountExact
  OBVIOUS
<1>1. CloneInv => CountExact
  BY DEF CloneInv, Counted, Cloneless, CountExact
<1> QED
  BY <1>1, CloneInvariance, PTL

\* Under the same condition a clone in use at an output keeps the picture it was made of:
\* nobody writes the memory it shares with its source (popLinger, TeeOutList.h:14).
THEOREM PicturesKept == ~AnyRelease => (Spec => []PictureKept)
<1> SUFFICES ASSUME ~AnyRelease PROVE Spec => []PictureKept
  OBVIOUS
<1>1. CloneInv => PictureKept
  BY DEF CloneInv
<1> QED
  BY <1>1, CloneInvariance, PTL
=============================================================================
