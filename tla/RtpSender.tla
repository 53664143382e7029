----------------------------- MODULE RtpSender ------------------------------
(***************************************************************************)
(* class rtpStreamTask (rtpStreamTask.cpp): a thread that takes packets    *)
(* from its RTPparser and sends each when the clock of its RateCtrl has    *)
(* reached the packet's media time; and the owner of the thread, which     *)
(* uses it in one of the two ways of BaseThread.h: it waits until          *)
(* isRunning() is false, or does not, and then deletes the task.           *)
(*                                                                         *)
(* Actors: the sender's thread, its owner, the clock, which is external.   *)
(* The parser is the thread's alone, so its steps are the thread's.        *)
(***************************************************************************)
EXTENDS RtpParser, FiniteSetsExt

CONSTANTS
  TicksPerMS,   (* m_countPS / 1000                                          *)
  MaxTime       (* bound: the clock is watched up to here, in milliseconds   *)

ASSUME RtpSenderAssumption == TicksPerMS \in Nat \ {0} /\ MaxTime \in Nat

\* Where a packet begins
IsFront(c) == c.pkt > 0 /\ c.at = 0

\* From the first packet on, the headers of the source src are where packets begin and
\* nowhere else: no payload looks like one.
Tells(s, src) ==
  \A i \in 1 .. Len(s) - HdrSize + 1 :
    s[i].pkt > 0 => (s[i].version /\ s[i + HdrSize - 1].src = src <=> IsFront(s[i]))

\* s is what a source has recorded: cells of no packet, then packets 1, 2 and so on, each of
\* which has its whole header and its cells in their order, all with headers of one source.
PacketStream(s) ==
  \A i \in 1 .. Len(s) :
    /\ \A j \in 1 .. i - 1 :
         s[j].pkt <= s[i].pkt /\ (IsFront(s[i]) => s[j].pkt < s[i].pkt)
    /\ \A n \in 1 .. s[i].pkt - 1 : \E j \in 1 .. i : s[j].pkt = n
    /\ IsFront(s[i]) =>
         /\ i + HdrSize - 1 <= Len(s)
         /\ s[i + HdrSize - 1].pkt = s[i].pkt /\ s[i + HdrSize - 1].at = HdrSize - 1
         /\ Tells(s, s[i + HdrSize - 1].src)
    /\ s[i].pkt > 0 =>
         /\ s[i].at < i
         /\ \A d \in 0 .. s[i].at : s[i - d].pkt = s[i].pkt /\ s[i - d].at = s[i].at - d

ASSUME PacketStreams == \A s \in Streams : PacketStream(s)

VARIABLES
  tpc,          (* the thread                                                *)
  pkt,          (* rtpPkt and rtpPktSize; NULL where gotPkt is 0             *)
  mediaTime,    (* mediaTime, in ticks                                       *)
  now,          (* the time since timeReset(), in milliseconds               *)
  toStop,       (* m_toStop                                                  *)
  sent,         (* what went to the socket                                   *)
  sendFailed,   (* history: a sendto has failed                              *)
  opc           (* the owner                                                 *)

vars == <<parserVars, tpc, pkt, mediaTime, now, toStop, sent, sendFailed, opc>>

Init ==
  /\ ParserInit
  /\ tpc = "none" /\ pkt = NULL /\ mediaTime = 0 /\ now = 0
  /\ toStop = FALSE /\ sent = <<>> /\ sendFailed = FALSE
  /\ opc = "ready"

-----------------------------------------------------------------------------
(* ThreadMain.                                                              *)

\* The loop's test.  A packet that is still to be sent waits on: its time stamp is not
\* counted again (dTS = 0).
Top ==
  /\ tpc = "top"
  /\ IF toStop
       THEN tpc' = "over" /\ UNCHANGED parserVars
       ELSE IF pkt = NULL
         THEN tpc' = "parse" /\ GetPacket
         ELSE tpc' = "pace" /\ UNCHANGED parserVars
  /\ UNCHANGED <<pkt, mediaTime, now, toStop, sent, sendFailed, opc>>

\* Inside getPacket
Parsing ==
  /\ tpc = "parse"
  /\ Parse
  /\ UNCHANGED <<tpc, pkt, mediaTime, now, toStop, sent, sendFailed, opc>>

\* Mutant: the loop is left without the flag that tells the owner.
Got_NoStop ==
  /\ tpc = "parse"
  /\ ppc \in {"idle", "done"}
  /\ IF ret = NULL
       THEN tpc' = "over" /\ UNCHANGED <<pkt, mediaTime>>
       ELSE tpc' = "pace" /\ pkt' = ret /\ mediaTime' = mediaTime + ret.dTS
  /\ UNCHANGED <<parserVars, now, toStop, sent, sendFailed, opc>>

\* getPacket has returned; no packet ends the thread.
Got ==
  /\ tpc = "parse"
  /\ ppc \in {"idle", "done"}
  /\ IF ret = NULL
       THEN tpc' = "over" /\ toStop' = TRUE /\ UNCHANGED <<pkt, mediaTime>>
       ELSE tpc' = "pace" /\ pkt' = ret /\ mediaTime' = mediaTime + ret.dTS
                          /\ UNCHANGED toStop
  /\ UNCHANGED <<parserVars, now, sent, sendFailed, opc>>

\* The clock is read: too early for the packet, and the thread sleeps and starts over.
Pace ==
  /\ tpc = "pace"
  /\ tpc' = IF now < mediaTime \div TicksPerMS THEN "top" ELSE "send"
  /\ UNCHANGED <<parserVars, pkt, mediaTime, now, toStop, sent, sendFailed, opc>>

\* The bytes a packet of the parser's points to
Bytes(p) == [i \in 1 .. p.len |-> buffer[p.buf][p.at + i - 1]]

\* sendto.  If it fails the loop ends as well, without m_toStop.
SendTo ==
  /\ tpc = "send"
  /\ \/ /\ sent' = Append(sent, Bytes(pkt))
        /\ pkt' = NULL
        /\ tpc' = "top"
        /\ UNCHANGED sendFailed
     \/ /\ sendFailed' = TRUE
        /\ tpc' = "over"
        /\ UNCHANGED <<pkt, sent>>
  /\ UNCHANGED <<parserVars, mediaTime, now, toStop, opc>>

-----------------------------------------------------------------------------
(* The owner.                                                               *)

OwnerStep == UNCHANGED <<parserVars, pkt, mediaTime, now, sent, sendFailed>>

\* LinuxThread::Start.  If it fails the task is deleted.
Start ==
  /\ opc = "ready"
  /\ \/ tpc' = "top" /\ opc' = "watch"
     \/ tpc' = "none" /\ opc' = "close"
  /\ UNCHANGED toStop
  /\ OwnerStep

\* Usage 1: while( isRunning() ) is over.
Watched ==
  /\ opc = "watch"
  /\ toStop
  /\ opc' = "stop"
  /\ UNCHANGED <<tpc, toStop>>
  /\ OwnerStep

\* Usage 2: the owner does not wait for the end.
Leave ==
  /\ opc = "watch"
  /\ opc' = "stop"
  /\ UNCHANGED <<tpc, toStop>>
  /\ OwnerStep

\* ~rtpStreamTask: LinuxThread::Destroy, that is Stop ...
Stop ==
  /\ opc = "stop"
  /\ toStop' = TRUE
  /\ opc' = "join"
  /\ UNCHANGED tpc
  /\ OwnerStep

\* Mutant: the thread is not joined.
Join_NoWait ==
  /\ opc = "join"
  /\ opc' = "close"
  /\ UNCHANGED <<tpc, toStop>>
  /\ OwnerStep

\* ... and pthread_join;
Join ==
  /\ opc = "join"
  /\ tpc = "over"
  /\ opc' = "close"
  /\ UNCHANGED <<tpc, toStop>>
  /\ OwnerStep

\* then the socket is closed and the parser deleted.
Close ==
  /\ opc = "close"
  /\ opc' = "gone"
  /\ UNCHANGED <<tpc, toStop>>
  /\ OwnerStep

-----------------------------------------------------------------------------
Tick ==
  /\ now < MaxTime
  /\ now' = now + 1
  /\ UNCHANGED <<parserVars, tpc, pkt, mediaTime, toStop, sent, sendFailed, opc>>

Thread == Top \/ Parsing \/ Got \/ Pace \/ SendTo

Next ==
  \/ Top \/ Parsing \/ Got \/ Pace \/ SendTo
  \/ Start \/ Watched \/ Leave \/ Stop \/ Join \/ Close
  \/ Tick

Spec == Init /\ [][Next]_vars

\* The thread runs, and joins, deletions and the clock go on.  An owner has to start its
\* thread, and to look at isRunning() again, but not to leave.
Fairness ==
  /\ WF_vars(Thread)
  /\ WF_vars(Start \/ Watched \/ Stop \/ Join \/ Close)
  /\ WF_vars(Tick)

FairSpec == Spec /\ Fairness

-----------------------------------------------------------------------------
(* Properties.                                                              *)

\* Packets, as the stream holds them
Cells(n) == {i \in 1 .. Len(stream) : stream[i].pkt = n}

PacketCount == LET S == {stream[i].pkt : i \in 1 .. Len(stream)}
               IN IF S = {} THEN 0 ELSE Max(S)

Begin(n) == Least(Cells(n))

Packet(n) == SubSeq(stream, Begin(n), Max(Cells(n)))

Stamp(n) == stream[Begin(n)].ts

\* Types; the parser's offsets stay inside its buffers, and the packet that waits to be
\* sent is the one the parser returned last (rtp.cpp, rtpStreamTask.cpp).
TypeOK ==
  /\ InBuffer
  /\ tpc \in {"none", "top", "parse", "pace", "send", "over"}
  /\ pkt \in {NULL, ret}
  /\ mediaTime \in Nat /\ now \in 0 .. MaxTime
  /\ toStop \in BOOLEAN /\ sendFailed \in BOOLEAN
  /\ sent \in Seq(Seq(Cell))
  /\ opc \in {"ready", "watch", "stop", "join", "close", "gone"}

\* Nothing in front of the first packet passes for a header by its version alone, which is
\* all the first search looks at.  Where something does, the parser waits for a source that
\* may never come, sends nothing or the wrong cells, and nothing is promised.
StartsClean == \A i \in 1 .. Len(stream) : stream[i].pkt = 0 => ~stream[i].version

\* In a stream that starts clean, what is sent is its packets, whole and in their order,
\* although headers and packets lie across the ends of reads and a packet waits in the
\* parser's buffer until its time has come.  (The last packet, whose end no header tells, is
\* another matter.)
InOrder ==
  StartsClean => \A n \in 1 .. Len(sent) : n < PacketCount => sent[n] = Packet(n)

\* The buffer has room for every packet but the last one and for the header behind it, the
\* first time from where the stream begins, and one place more.
Fits ==
  \A n \in 1 .. PacketCount - 1 :
    (IF n = 1 THEN Begin(1) ELSE 0) + Len(Packet(n)) + HdrSize <= BufSize

\* If the stream starts clean, its packets fit and no read fails, all but the last one are
\* sent before the parser reports the end: no packet is missed at the end of a buffer, or of
\* the file, and payload with the version of a header, or of another source, is no header.
Complete ==
  ppc = "done" /\ ~readFailed /\ Fits /\ StartsClean => Len(sent) >= PacketCount - 1

\* When the n-th packet is due after the first, in ticks: the sum of the differences of
\* each packet's time stamp "to previous packet" (rtp.h), time stamps being numbers that wrap.
MediaTime[n \in 1 .. PacketCount] ==
  IF n = 1 THEN 0 ELSE MediaTime[n - 1] + ((Stamp(n) - Stamp(n - 1)) % Word)

FirstGap == MediaTime[2]

\* The thread does not wait until packets are due: the differences it adds up are those to
\* the next packet, and 0 for the first, so that the first difference is lost.  But this is
\* all that is lost: however often the thread has slept and time stamps have wrapped, no
\* packet is early by more than the time between the first two.
EarlyByFirstGap ==
  [][ StartsClean =>
        \A n \in Len(sent) + 1 .. Len(sent') :
          n < PacketCount => now >= (MediaTime[n] - FirstGap) \div TicksPerMS ]_vars

\* When the owner closes the socket and deletes the parser, the thread does not run.
ThreadOutlived == opc \in {"close", "gone"} => tpc \in {"none", "over"}

\* An owner that waits for the end of the stream returns, unless sendto fails.
OwnerReturns == <>(opc = "gone" \/ sendFailed)

\* What is sent comes from the stream once: m_bufSize "shrinks in the last read" (rtp.h),
\* so that the search ends where the stream does.
NothingAfterEnd == StartsClean => Len(sent) <= PacketCount
=============================================================================
