------------------------------ MODULE RtpProofs ------------------------------
(***************************************************************************)
(* Proofs about RtpParser and RtpSender, for every size of the buffers and *)
(* of a header and whatever the memory holds: the parser stays inside its  *)
(* buffers, its user too, and the thread that uses it is over when its     *)
(* owner deletes it; and, for any stream of packets with nothing in front  *)
(* of them that passes for a header, what is sent is the stream's packets, *)
(* each whole, in its turn, and early by the first two's distance at most. *)
(***************************************************************************)
EXTENDS RtpSender, WellFoundedInduction, TLAPS

\* A non-empty set of numbers has a least one: a search that finds a header finds a first.
LEMMA LeastInSet ==
  ASSUME NEW S \in SUBSET Nat, S # {}
  PROVE  Least(S) \in S /\ \A y \in S : Least(S) <= y
<1> DEFINE R == OpToRel(<, Nat)
<1>1. IsWellFoundedOn(R, Nat)
  BY NatLessThanWellFounded
<1>2. \A x, y \in Nat : <<y, x>> \in R <=> y < x
  BY DEF OpToRel
<1> HIDE DEF R
<1>3. \E x \in S : \A y \in S : x <= y
  <2>1. PICK x \in S : \A y \in S : ~ (<<y, x>> \in R)
    BY <1>1, WFMin
  <2>2. \A y \in S : ~ (y < x)
    BY <1>2, <2>1
  <2> QED
    BY <2>2
<1> QED
  BY <1>3 DEF Least

\* The remainder's range.
LEMMA ModRange == \A a \in Int, b \in Nat \ {0} : a % b \in 0 .. b - 1
  OBVIOUS

\* The inductive invariant of the parser.  InBuffer alone is not one: while nothing was
\* returned the buffer must still be empty, and m_EOF must end the calls, since after it
\* m_bufSize is no longer the size of the buffer that is filled next.
PInv ==
  /\ InBuffer
  /\ ppc = "idle" => ~eof
  /\ ppc = "idle" /\ ~started => writeOffset = 0
  /\ ppc = "first" => ~started /\ (eof => bufSize = 0)

\* The state of the buffers after a read into one of them
LEMMA ProduceDataInv ==
  ASSUME PInv, ~eof,
         NEW b \in {0, 1}, NEW cells \in [0 .. BufSize - 1 -> Cell], NEW w \in 0 .. BufSize,
         ProduceData(b, cells, w)
  PROVE  /\ stream' \in Streams /\ pos' \in 0 .. Len(stream') /\ readFailed' \in BOOLEAN
         /\ buffer' \in [{0, 1} -> [0 .. BufSize - 1 -> Cell]] /\ curBuf' \in {0, 1}
         /\ eof' \in BOOLEAN
         /\ bufSize' = IF eof' THEN w ELSE BufSize
         /\ writeOffset' \in 0 .. bufSize'
<1>1. bufSize = BufSize /\ BufSize \in Nat
  BY RtpParserAssumption DEF PInv, InBuffer
<1>2. stream \in Streams /\ stream \in Seq(Cell) /\ pos \in 0 .. Len(stream)
                         /\ Len(stream) \in Nat
  BY RtpParserAssumption DEF PInv, InBuffer
<1>3. PICK n \in ReadResults(bufSize - w) :
        LET got == IF n > 0 THEN n ELSE 0 IN
        /\ buffer' = [buffer EXCEPT ![b] = [p \in 0 .. BufSize - 1 |->
                        IF p \in w .. w + got - 1 THEN stream[pos + p - w + 1] ELSE cells[p]]]
        /\ curBuf' = b
        /\ pos' = pos + got
        /\ writeOffset' = w + got
        /\ eof' = (n <= 0)
        /\ bufSize' = IF n <= 0 THEN w ELSE bufSize
        /\ readFailed' = (readFailed \/ (n = -1 /\ w < bufSize))
        /\ UNCHANGED stream
  BY Zenon DEF ProduceData
<1> DEFINE got == IF n > 0 THEN n ELSE 0
<1>4. n \in Int /\ got \in Nat /\ got <= BufSize - w /\ got <= Len(stream) - pos
  BY <1>1, <1>2 DEF ReadResults
<1>5. \A p \in 0 .. BufSize - 1 : p \in w .. w + got - 1 => stream[pos + p - w + 1] \in Cell
  <2>1. SUFFICES ASSUME NEW p \in 0 .. BufSize - 1, p \in w .. w + got - 1
                 PROVE  stream[pos + p - w + 1] \in Cell
    OBVIOUS
  <2>2. pos + p - w + 1 \in 1 .. Len(stream)
    BY <1>1, <1>2, <1>4, <2>1
  <2> QED
    BY <1>2, <2>2
<1>6. [p \in 0 .. BufSize - 1 |->
         IF p \in w .. w + got - 1 THEN stream[pos + p - w + 1] ELSE cells[p]]
      \in [0 .. BufSize - 1 -> Cell]
  BY <1>5
<1>7. buffer' \in [{0, 1} -> [0 .. BufSize - 1 -> Cell]]
  BY <1>3, <1>6 DEF PInv, InBuffer
<1>8. eof' \in BOOLEAN /\ readFailed' \in BOOLEAN
  BY <1>3 DEF PInv, InBuffer
<1>9. eof' => got = 0
  <2>1. eof' <=> n <= 0
    BY <1>3
  <2> QED
    BY <2>1, <1>4
<1>10. pos' = pos + got /\ writeOffset' = w + got /\ curBuf' = b /\ stream' = stream
       /\ bufSize' = IF eof' THEN w ELSE BufSize
  BY <1>1, <1>3
<1> HIDE DEF got
<1>11. writeOffset' \in 0 .. bufSize'
  BY <1>1, <1>4, <1>9, <1>10
<1>12. stream' \in Streams /\ pos' \in 0 .. Len(stream')
  BY <1>2, <1>4, <1>10
<1> QED
  BY <1>7, <1>8, <1>10, <1>11, <1>12

\* A new parser
LEMMA ParserInitInv == ParserInit => PInv
<1> SUFFICES ASSUME ParserInit PROVE PInv
  OBVIOUS
<1>1. buffer \in [{0, 1} -> [0 .. BufSize - 1 -> Cell]]
  BY RtpParserAssumption DEF ParserInit
<1>2. stream \in Streams /\ pos \in 0 .. Len(stream)
  BY RtpParserAssumption DEF ParserInit
<1> QED
  BY RtpParserAssumption, <1>1, <1>2 DEF ParserInit, PInv, InBuffer

\* A call of getPacket
LEMMA GetPacketInv == PInv /\ GetPacket => PInv'
<1> SUFFICES ASSUME PInv, GetPacket PROVE PInv'
  OBVIOUS
<1>1. CASE started
  BY <1>1 DEF GetPacket, PInv, InBuffer, fileVars, bufVars
<1>2. CASE ~started
  <2>1. ~eof /\ writeOffset = 0 /\ curBuf \in {0, 1} /\ 0 \in 0 .. BufSize
        /\ buffer[curBuf] \in [0 .. BufSize - 1 -> Cell]
    BY <1>2, RtpParserAssumption DEF GetPacket, PInv, InBuffer
  <2>2. ProduceData(curBuf, buffer[curBuf], 0) /\ ppc' = "first"
        /\ UNCHANGED <<started, ssrc, readOffset, curPkt, curTS, ret>>
    BY <1>2, <2>1 DEF GetPacket
  <2>3. /\ stream' \in Streams /\ pos' \in 0 .. Len(stream') /\ readFailed' \in BOOLEAN
        /\ buffer' \in [{0, 1} -> [0 .. BufSize - 1 -> Cell]] /\ curBuf' \in {0, 1}
        /\ eof' \in BOOLEAN
        /\ bufSize' = IF eof' THEN 0 ELSE BufSize
        /\ writeOffset' \in 0 .. bufSize'
    BY <2>1, <2>2, ProduceDataInv
  <2> QED
    BY <1>2, <2>2, <2>3, RtpParserAssumption DEF PInv, InBuffer
<1> QED
  BY <1>1, <1>2

\* A packet that begins at p and ends where there is room for a header is in the buffer.
LEMMA ReportInv ==
  ASSUME PInv, ~eof, started', ssrc' \in Nat, NEW p \in 0 .. BufSize, NEW q \in 0 .. BufSize,
         NEW dTS \in 0 .. Word - 1,
         p + HdrSize <= q, q + HdrSize <= bufSize,
         Report(p, q, dTS), UNCHANGED <<fileVars, bufVars>>
  PROVE  PInv'
<1>1. bufSize = BufSize
  BY DEF PInv, InBuffer
<1>2. TS(q) \in 0 .. Word - 1
  <2>1. buffer[curBuf] \in [0 .. BufSize - 1 -> Cell] /\ q \in 0 .. BufSize - 1
    BY <1>1, RtpParserAssumption DEF PInv, InBuffer
  <2>2. buffer[curBuf][q] \in Cell
    BY <2>1
  <2> QED
    BY <2>2 DEF TS, Cell
<1>3. ret' \in [buf : {0, 1}, at : 0 .. BufSize, len : HdrSize .. BufSize, dTS : 0 .. Word - 1]
      /\ ret'.at + ret'.len <= BufSize
  BY <1>1, RtpParserAssumption DEF Report, PInv, InBuffer
<1> QED
  BY <1>1, <1>2, <1>3, RtpParserAssumption
  DEF Report, PInv, InBuffer, fileVars, bufVars

\* get1stPacket
LEMMA FirstInv == PInv /\ First => PInv'
<1> SUFFICES ASSUME PInv, First PROVE PInv'
  OBVIOUS
<1> DEFINE heads == {p \in 0 .. writeOffset - HdrSize : IsVersion(p)}
           nexts == {q \in Least(heads) + HdrSize .. bufSize - HdrSize - 1 :
                       IsPktMatch(q, Ssrc(Least(heads)))}
<1>1. CASE heads # {} /\ nexts # {}
  <2>1. Least(heads) \in heads
    <3>1. heads \in SUBSET Nat
      BY DEF PInv, InBuffer
    <3> QED
      BY <1>1, <3>1, LeastInSet
  <2>2. Least(heads) \in Nat /\ Least(heads) + HdrSize <= writeOffset
        /\ writeOffset \in Nat /\ writeOffset <= bufSize /\ bufSize \in Nat /\ HdrSize \in Nat
    BY <2>1, RtpParserAssumption DEF PInv, InBuffer
  <2>3. Least(nexts) \in nexts
    <3>1. nexts \in SUBSET Nat
      BY <2>2
    <3> QED
      BY <1>1, <3>1, LeastInSet
  <2>4. /\ Least(nexts) \in Nat /\ Least(heads) + HdrSize <= Least(nexts)
        /\ Least(nexts) + HdrSize <= bufSize
    BY <2>2, <2>3
  <2>5. ~eof
    BY <2>2, RtpParserAssumption DEF First, PInv
  <2>6. bufSize = BufSize
    BY <2>5 DEF PInv, InBuffer
  <2>7. /\ Report(Least(heads), Least(nexts), 0) /\ started' = TRUE
        /\ ssrc' = Ssrc(Least(heads))
        /\ UNCHANGED <<fileVars, bufVars>>
    BY <1>1, Zenon DEF First, fileVars, bufVars
  <2> HIDE DEF heads, nexts
  <2>8. ssrc' \in Nat
    <3>1. Least(heads) + HdrSize - 1 \in 0 .. BufSize - 1
      BY <2>2, <2>6, RtpParserAssumption
    <3>2. buffer[curBuf][Least(heads) + HdrSize - 1] \in Cell
      BY <3>1 DEF PInv, InBuffer
    <3> QED
      BY <2>7, <3>2 DEF Ssrc, Cell
  <2>9. Least(heads) \in 0 .. BufSize /\ Least(nexts) \in 0 .. BufSize /\ 0 \in 0 .. Word - 1
    BY <2>2, <2>4, <2>6, RtpParserAssumption
  <2> QED
    BY <2>4, <2>5, <2>7, <2>8, <2>9, ReportInv
<1>2. CASE ~(heads # {} /\ nexts # {})
  <2>1. Left /\ eof' = TRUE /\ UNCHANGED <<started, ssrc, readOffset, curPkt, curTS,
                                           fileVars, buffer, curBuf, bufSize, writeOffset>>
    BY <1>2, Zenon DEF First
  <2> QED
    BY <2>1 DEF Left, PInv, InBuffer, fileVars
<1> QED
  BY <1>1, <1>2

\* getPacket finds the next header.
LEMMA MatchInv == PInv /\ Match => PInv'
<1> SUFFICES ASSUME PInv, Match PROVE PInv'
  OBVIOUS
<1>1. ~eof /\ started /\ bufSize = BufSize
      /\ readOffset \in Nat /\ curPkt \in Nat /\ curPkt + HdrSize <= readOffset
  BY DEF Match, PInv, InBuffer
<1>2. Least(Headers) \in Headers
  <2>1. Headers \in SUBSET Nat
    BY <1>1 DEF Headers
  <2> QED
    BY <2>1, LeastInSet DEF Match
<1> DEFINE q == Least(Headers)
<1>3. q \in 0 .. BufSize /\ curPkt + HdrSize <= q /\ q + HdrSize <= bufSize
  BY <1>1, <1>2, RtpParserAssumption DEF Headers
<1>4. Report(curPkt, q, (TS(q) - curTS) % Word) /\ UNCHANGED <<started, ssrc>>
      /\ UNCHANGED <<fileVars, bufVars>>
  BY Zenon DEF Match
<1>5. (TS(q) - curTS) % Word \in 0 .. Word - 1
  <2>1. q \in 0 .. BufSize - 1
    BY <1>1, <1>3, RtpParserAssumption
  <2>2. buffer[curBuf][q] \in Cell
    BY <2>1 DEF PInv, InBuffer
  <2>3. TS(q) \in Int /\ curTS \in Int
    BY <2>2 DEF TS, PInv, InBuffer, Cell
  <2>4. TS(q) - curTS \in Int
    BY <2>3
  <2> QED
    BY <2>4, ModRange, RtpParserAssumption
<1>6. curPkt \in 0 .. BufSize /\ ssrc' \in Nat
  BY <1>4 DEF PInv, InBuffer
<1> HIDE DEF q
<1> QED
  BY <1>1, <1>3, <1>4, <1>5, <1>6, ReportInv

\* switchBuffer
LEMMA SwitchBufferInv == PInv /\ SwitchBuffer => PInv'
<1> SUFFICES ASSUME PInv, SwitchBuffer PROVE PInv'
  OBVIOUS
<1>1. /\ ~eof /\ started /\ bufSize = BufSize /\ BufSize \in Nat /\ HdrSize \in Nat
      /\ readOffset \in Nat /\ readOffset <= BufSize
      /\ curPkt \in Nat /\ curPkt + HdrSize <= readOffset
  BY RtpParserAssumption DEF SwitchBuffer, PInv, InBuffer
<1>2. Moved \in [0 .. BufSize - 1 -> Cell]
  <2>1. \A p \in 0 .. BufSize - 1 : p < bufSize - curPkt => curPkt + p \in 0 .. BufSize - 1
    BY <1>1
  <2>2. buffer[curBuf] \in [0 .. BufSize - 1 -> Cell]
        /\ buffer[1 - curBuf] \in [0 .. BufSize - 1 -> Cell]
    BY DEF PInv, InBuffer
  <2> QED
    BY <2>1, <2>2 DEF Moved
<1>3. bufSize - curPkt \in 0 .. BufSize /\ 1 - curBuf \in {0, 1}
  BY <1>1 DEF PInv, InBuffer
<1>4. /\ stream' \in Streams /\ pos' \in 0 .. Len(stream') /\ readFailed' \in BOOLEAN
      /\ buffer' \in [{0, 1} -> [0 .. BufSize - 1 -> Cell]] /\ curBuf' \in {0, 1}
      /\ eof' \in BOOLEAN
      /\ bufSize' = IF eof' THEN bufSize - curPkt ELSE BufSize
      /\ writeOffset' \in 0 .. bufSize'
  BY <1>1, <1>2, <1>3, ProduceDataInv DEF SwitchBuffer
<1>5. readOffset' \in 0 .. BufSize /\ HdrSize <= readOffset'
  <2>1. readOffset' = Searched - curPkt
    BY DEF SwitchBuffer
  <2>2. HdrSize >= 2
    BY RtpParserAssumption
  <2> QED
    BY <1>1, <2>1, <2>2 DEF Searched
<1>6. /\ curPkt' = 0 /\ UNCHANGED <<started, ssrc, curTS>>
      /\ ppc' = IF eof' THEN "done" ELSE ppc
      /\ ret' = IF eof' THEN NULL ELSE ret
      /\ ppc = "scan"
  BY DEF SwitchBuffer, Left
<1> QED
  BY SMTT(30), <1>1, <1>3, <1>4, <1>5, <1>6 DEF PInv, InBuffer

\* The parser's own steps, which are the three above.
LEMMA ParseInv == PInv /\ Parse => PInv'
  BY FirstInv, MatchInv, SwitchBufferInv DEF Parse

\* A step of somebody else's.
LEMMA ParserStutterInv == PInv /\ UNCHANGED parserVars => PInv'
  BY DEF PInv, InBuffer, parserVars

\* The parser never reads, copies or fills memory outside its buffers, and the packets it
\* returns lie in them, for any caller that stops at NULL (RTPparser).
THEOREM ParserInBuffer == ParserSpec => []InBuffer
<1>1. PInv /\ [GetPacket \/ Parse]_parserVars => PInv'
  BY GetPacketInv, ParseInv, ParserStutterInv
<1>2. PInv => InBuffer
  BY DEF PInv
<1> QED
  BY ParserInitInv, <1>1, <1>2, PTL DEF ParserSpec

-----------------------------------------------------------------------------
\* The inductive invariant of the sender: the packet at hand is the one the parser returned
\* last, as the parser is not called before it is sent, and no thread runs before Start or
\* after Join.
SInv ==
  /\ PInv
  /\ TypeOK
  /\ tpc = "parse" => pkt = NULL
  /\ tpc \in {"pace", "send"} => pkt # NULL
  /\ opc = "ready" => tpc = "none"
  /\ ThreadOutlived

\* The task is built.
LEMMA SenderInitInv == Init => SInv
<1> SUFFICES ASSUME Init PROVE SInv
  OBVIOUS
<1>1. PInv
  BY ParserInitInv DEF Init
<1>2. sent \in Seq(Seq(Cell))
  BY DEF Init
<1>3. InBuffer
  BY <1>1 DEF PInv
<1>4. /\ tpc = "none" /\ pkt = NULL /\ mediaTime = 0 /\ now = 0 /\ opc = "ready"
      /\ toStop \in BOOLEAN /\ sendFailed \in BOOLEAN
  BY DEF Init
<1>5. TypeOK
  BY <1>2, <1>3, <1>4, RtpSenderAssumption DEF TypeOK
<1> QED
  BY <1>1, <1>4, <1>5 DEF SInv, ThreadOutlived

\* The parser's steps leave the packet at hand alone: there is none.
LEMMA TopInv == SInv /\ Top => SInv'
<1> SUFFICES ASSUME SInv, Top PROVE SInv'
  OBVIOUS
<1>1. PInv'
  BY GetPacketInv, ParserStutterInv DEF Top, SInv
<1>2. pkt' \in {NULL, ret'}
  BY DEF Top, GetPacket, SInv, TypeOK, parserVars
<1> QED
  BY <1>1, <1>2 DEF Top, SInv, TypeOK, ThreadOutlived, PInv

\* While the parser runs, no packet is in the thread's hands but the one it returns.
LEMMA ParsingInv == SInv /\ Parsing => SInv'
<1> SUFFICES ASSUME SInv, Parsing PROVE SInv'
  OBVIOUS
<1>1. PInv'
  BY ParseInv DEF Parsing, SInv
<1>2. pkt' = NULL
  BY DEF Parsing, SInv
<1> QED
  BY <1>1, <1>2 DEF Parsing, SInv, TypeOK, ThreadOutlived, PInv

\* The parser has returned.
LEMMA GotInv == SInv /\ Got => SInv'
<1> SUFFICES ASSUME SInv, Got PROVE SInv'
  OBVIOUS
<1>1. PInv' /\ ret' = ret
  BY ParserStutterInv DEF Got, SInv, parserVars
<1>2. mediaTime' \in Nat
  <2>1. ret # NULL => ret.dTS \in Nat
    BY RtpParserAssumption DEF SInv, PInv, InBuffer
  <2> QED
    BY <2>1 DEF Got, SInv, TypeOK
<1>3. pkt' \in {NULL, ret'} /\ (tpc' = "pace" => pkt' # NULL)
  BY <1>1 DEF Got, SInv, TypeOK
<1> QED
  BY <1>1, <1>2, <1>3 DEF Got, SInv, TypeOK, ThreadOutlived, PInv

\* The paced wait touches neither the packet nor the parser.
LEMMA PaceInv == SInv /\ Pace => SInv'
<1> SUFFICES ASSUME SInv, Pace PROVE SInv'
  OBVIOUS
<1>1. PInv' /\ ret' = ret
  BY ParserStutterInv DEF Pace, SInv, parserVars
<1> QED
  BY <1>1 DEF Pace, SInv, TypeOK, ThreadOutlived, PInv

\* What is sent lies in the parser's buffer.
LEMMA SendToInv == SInv /\ SendTo => SInv'
<1> SUFFICES ASSUME SInv, SendTo PROVE SInv'
  OBVIOUS
<1>1. PInv' /\ ret' = ret
  BY ParserStutterInv DEF SendTo, SInv, parserVars
<1>2. sent' \in Seq(Seq(Cell))
  <2>1. /\ pkt.buf \in {0, 1} /\ pkt.at \in Nat /\ pkt.len \in Nat
        /\ pkt.at + pkt.len <= BufSize /\ BufSize \in Nat
    <3>1. pkt = ret /\ ret # NULL
      BY DEF SendTo, SInv, TypeOK
    <3>2. ret \in [buf : {0, 1}, at : 0 .. BufSize, len : HdrSize .. BufSize,
                   dTS : 0 .. Word - 1]
          /\ ret.at + ret.len <= BufSize
      BY <3>1 DEF SInv, PInv, InBuffer
    <3> QED
      BY <3>1, <3>2, RtpParserAssumption
  <2>2. buffer[pkt.buf] \in [0 .. BufSize - 1 -> Cell]
    BY <2>1 DEF SInv, PInv, InBuffer
  <2>3. \A i \in 1 .. pkt.len : buffer[pkt.buf][pkt.at + i - 1] \in Cell
    <3>1. \A i \in 1 .. pkt.len : pkt.at + i - 1 \in 0 .. BufSize - 1
      BY <2>1
    <3> QED
      BY <2>2, <3>1
  <2>4. Bytes(pkt) \in Seq(Cell)
    BY SMTT(30), <2>1, <2>3 DEF Bytes
  <2>5. sent' = Append(sent, Bytes(pkt)) \/ sent' = sent
    BY DEF SendTo
  <2>6. sent \in Seq(Seq(Cell))
    BY DEF SInv, TypeOK
  <2>7. ASSUME NEW S, NEW q \in Seq(S), NEW x \in S PROVE Append(q, x) \in Seq(S)
    OBVIOUS
  <2> QED
    BY <2>4, <2>5, <2>6, <2>7
<1>3. pkt' \in {NULL, ret'} /\ sendFailed' \in BOOLEAN /\ tpc' \in {"top", "over"}
  BY <1>1 DEF SendTo, SInv, TypeOK
<1> QED
  BY <1>1, <1>2, <1>3 DEF SendTo, SInv, TypeOK, ThreadOutlived, PInv

\* The owner.  Its deletion comes after its join, or after a start that failed.
LEMMA OwnerInv ==
  SInv /\ (Start \/ Watched \/ Leave \/ Stop \/ Join \/ Close) => SInv'
<1> SUFFICES ASSUME SInv, OwnerStep, Start \/ Watched \/ Leave \/ Stop \/ Join \/ Close
             PROVE  SInv'
  BY DEF Start, Watched, Leave, Stop, Join, Close
<1>1. PInv' /\ ret' = ret
  BY ParserStutterInv DEF OwnerStep, SInv, parserVars
<1>2. CASE Start
  BY <1>1, <1>2 DEF Start, OwnerStep, SInv, TypeOK, ThreadOutlived, PInv
<1>3. CASE Watched \/ Leave
  BY <1>1, <1>3 DEF Watched, Leave, OwnerStep, SInv, TypeOK, ThreadOutlived, PInv
<1>4. CASE Stop
  BY <1>1, <1>4 DEF Stop, OwnerStep, SInv, TypeOK, ThreadOutlived, PInv
<1>5. CASE Join
  BY <1>1, <1>5 DEF Join, OwnerStep, SInv, TypeOK, ThreadOutlived, PInv
<1>6. CASE Close
  BY <1>1, <1>6 DEF Close, OwnerStep, SInv, TypeOK, ThreadOutlived, PInv
<1> QED
  BY <1>2, <1>3, <1>4, <1>5, <1>6

\* Time passes up to its bound.
LEMMA TickInv == SInv /\ Tick => SInv'
<1> SUFFICES ASSUME SInv, Tick PROVE SInv'
  OBVIOUS
<1>1. PInv' /\ ret' = ret
  BY ParserStutterInv DEF Tick, SInv, parserVars
<1>2. now' \in 0 .. MaxTime
  BY RtpSenderAssumption DEF Tick, SInv, TypeOK
<1> QED
  BY <1>1, <1>2 DEF Tick, SInv, TypeOK, ThreadOutlived, PInv

\* Nothing happens.
LEMMA StutterInv == SInv /\ UNCHANGED vars => SInv'
<1> SUFFICES ASSUME SInv, UNCHANGED vars PROVE SInv'
  OBVIOUS
<1>1. PInv' /\ ret' = ret
  BY ParserStutterInv DEF vars, SInv, parserVars
<1> QED
  BY <1>1 DEF vars, SInv, TypeOK, ThreadOutlived, PInv

\* The lemmas above, one action each, make the invariant inductive.
LEMMA SenderInv == Spec => []SInv
<1>1. SInv /\ [Next]_vars => SInv'
  BY TopInv, ParsingInv, GotInv, PaceInv, SendToInv, OwnerInv, TickInv, StutterInv DEF Next
<1> QED
  BY SenderInitInv, <1>1, PTL DEF Spec

\* The sender's state is well formed: the packet that waits to be sent is one the parser
\* has returned last, inside its buffer (rtpStreamTask::ThreadMain, RTPparser).
THEOREM TypeCorrect == Spec => []TypeOK
<1>1. SInv => TypeOK
  BY DEF SInv
<1> QED
  BY SenderInv, <1>1, PTL

\* When the socket is closed and the parser deleted, the thread that uses both is over
\* (LinuxThread::Destroy in ~rtpStreamTask).
THEOREM OwnerOutlivesThread == Spec => []ThreadOutlived
<1>1. SInv => ThreadOutlived
  BY DEF SInv
<1> QED
  BY SenderInv, <1>1, PTL

-----------------------------------------------------------------------------
(* Packet streams.  Nothing is counted here: where a packet begins is the   *)
(* least place of a cell of its number.                                     *)

Recorded == stream \in Seq(Cell) /\ PacketStream(stream) /\ StartsClean

\* What PacketStream says of the cells before a cell and of its own packet
LEMMA CellsInOrder ==
  ASSUME Recorded, NEW i \in 1 .. Len(stream)
  PROVE  /\ stream[i].pkt \in Nat /\ stream[i].at \in Nat
         /\ \A j \in 1 .. i - 1 :
              /\ stream[j].pkt <= stream[i].pkt
              /\ IsFront(stream[i]) => stream[j].pkt < stream[i].pkt
         /\ \A n \in 1 .. stream[i].pkt - 1 : \E j \in 1 .. i : stream[j].pkt = n
         /\ IsFront(stream[i]) =>
              /\ i + HdrSize - 1 <= Len(stream)
              /\ stream[i + HdrSize - 1].pkt = stream[i].pkt
              /\ Tells(stream, stream[i + HdrSize - 1].src)
         /\ stream[i].pkt > 0 =>
              /\ i - stream[i].at \in 1 .. i
              /\ stream[i - stream[i].at].pkt = stream[i].pkt
              /\ IsFront(stream[i - stream[i].at])
<1> DEFINE c == stream[i]
<1>1. c.pkt \in Nat /\ c.at \in Nat
  <2>1. c \in Cell
    BY DEF Recorded
  <2> QED
    BY <2>1 DEF Cell
<1>2. /\ \A j \in 1 .. i - 1 :
           stream[j].pkt <= c.pkt /\ (IsFront(c) => stream[j].pkt < c.pkt)
      /\ \A n \in 1 .. c.pkt - 1 : \E j \in 1 .. i : stream[j].pkt = n
      /\ IsFront(c) =>
           /\ i + HdrSize - 1 <= Len(stream)
           /\ stream[i + HdrSize - 1].pkt = c.pkt
           /\ Tells(stream, stream[i + HdrSize - 1].src)
      /\ c.pkt > 0 =>
           /\ c.at < i
           /\ \A d \in 0 .. c.at : stream[i - d].pkt = c.pkt /\ stream[i - d].at = c.at - d
  BY DEF Recorded, PacketStream
<1> HIDE DEF c
<1>3. ASSUME c.pkt > 0
      PROVE  /\ i - c.at \in 1 .. i
             /\ stream[i - c.at].pkt = c.pkt /\ IsFront(stream[i - c.at])
  <2>1. c.at < i /\ c.at \in 0 .. c.at
    BY <1>1, <1>2, <1>3
  <2>2. stream[i - c.at].pkt = c.pkt /\ stream[i - c.at].at = c.at - c.at
    BY <1>2, <1>3, <2>1
  <2> QED
    BY <1>1, <1>3, <2>1, <2>2 DEF IsFront
<1> QED
  BY <1>1, <1>2, <1>3 DEF c

\* The last cell is one of the last packet.
LEMMA LastPacket ==
  ASSUME Recorded
  PROVE  /\ PacketCount \in Nat /\ Len(stream) \in Nat
         /\ \A i \in 1 .. Len(stream) : stream[i].pkt \in 0 .. PacketCount
         /\ PacketCount > 0 => Len(stream) > 0 /\ stream[Len(stream)].pkt = PacketCount
<1> DEFINE S == {stream[i].pkt : i \in 1 .. Len(stream)}
           top == stream[Len(stream)].pkt
<1>1. Len(stream) \in Nat
  BY DEF Recorded
<1>2. CASE Len(stream) = 0
  <2>1. S = {}
    BY <1>2
  <2> QED
    BY <1>1, <1>2, <2>1 DEF PacketCount
<1>3. CASE Len(stream) > 0
  <2>1. top \in S /\ top \in Nat
    BY <1>1, <1>3, CellsInOrder
  <2>2. \A i \in 1 .. Len(stream) : stream[i].pkt \in Nat /\ stream[i].pkt <= top
    <3>1. SUFFICES ASSUME NEW i \in 1 .. Len(stream)
                   PROVE  stream[i].pkt \in Nat /\ stream[i].pkt <= top
      OBVIOUS
    <3>2. stream[i].pkt \in Nat
      BY CellsInOrder
    <3>3. i < Len(stream) => stream[i].pkt <= top
      BY <1>1, <1>3, CellsInOrder
    <3>4. i = Len(stream) => stream[i].pkt = top
      OBVIOUS
    <3> QED
      BY <1>1, <2>1, <3>2, <3>3, <3>4
  <2>3. \A y \in S : y \in Nat /\ top >= y
    BY <2>1, <2>2
  <2>4. Max(S) = top
    <3> HIDE DEF top, S
    <3>1. \A x \in S : (\A y \in S : x >= y) => x = top
      BY <2>1, <2>3
    <3> QED
      BY <2>1, <2>3, <3>1, Zenon DEF Max
  <2>5. PacketCount = top
    BY <2>1, <2>4, Zenon DEF PacketCount
  <2> QED
    BY <1>1, <1>3, <2>1, <2>2, <2>5
<1> QED
  BY <1>1, <1>2, <1>3

\* Every packet begins with a header, behind the cells of those before it.
LEMMA PacketBegins ==
  ASSUME Recorded, NEW n \in 1 .. PacketCount
  PROVE  /\ Begin(n) \in 1 .. Len(stream)
         /\ stream[Begin(n)].pkt = n /\ IsFront(stream[Begin(n)])
         /\ \A i \in 1 .. Begin(n) - 1 : stream[i].pkt < n
         /\ Begin(n) + HdrSize - 1 <= Len(stream)
         /\ stream[Begin(n) + HdrSize - 1].pkt = n
         /\ Tells(stream, stream[Begin(n) + HdrSize - 1].src)
<1>1. PacketCount \in Nat /\ Len(stream) \in Nat
      /\ Len(stream) > 0 /\ stream[Len(stream)].pkt = PacketCount
  BY LastPacket
<1>2. Len(stream) \in 1 .. Len(stream)
  BY <1>1
<1>3. \E j \in 1 .. Len(stream) : stream[j].pkt = n
  <2>1. CASE n = PacketCount
    BY <1>1, <1>2, <2>1
  <2>2. CASE n # PacketCount
    <3>1. n \in 1 .. stream[Len(stream)].pkt - 1
      BY <1>1, <2>2
    <3>2. \A m \in 1 .. stream[Len(stream)].pkt - 1 :
            \E j \in 1 .. Len(stream) : stream[j].pkt = m
      BY <1>2, CellsInOrder
    <3> QED
      BY <3>1, <3>2
  <2> QED
    BY <2>1, <2>2
<1>4. PICK j \in 1 .. Len(stream) : stream[j].pkt = n
  BY <1>3
<1> DEFINE b == j - stream[j].at
<1>5. b \in 1 .. j /\ stream[b].pkt = n /\ IsFront(stream[b])
  BY <1>1, <1>4, CellsInOrder
<1> HIDE DEF b
<1>6. b \in 1 .. Len(stream)
  BY <1>1, <1>5
<1>7. \A i \in 1 .. b - 1 : stream[i].pkt < n
  BY <1>5, <1>6, CellsInOrder
<1>8. Begin(n) = b
  <2>1. Cells(n) \in SUBSET Nat /\ b \in Cells(n)
    BY <1>5, <1>6 DEF Cells
  <2>2. Begin(n) \in Cells(n) /\ Begin(n) <= b
    BY <2>1, LeastInSet DEF Begin
  <2>3. Begin(n) \in 1 .. Len(stream) /\ stream[Begin(n)].pkt = n
    BY <2>2 DEF Cells
  <2>4. ~(Begin(n) \in 1 .. b - 1)
    BY <1>7, <2>3
  <2> QED
    BY <1>1, <1>6, <2>2, <2>3, <2>4
<1>9. b + HdrSize - 1 <= Len(stream) /\ stream[b + HdrSize - 1].pkt = n
      /\ Tells(stream, stream[b + HdrSize - 1].src)
  BY <1>5, <1>6, CellsInOrder
<1> QED
  BY <1>5, <1>6, <1>7, <1>8, <1>9

\* A front is where the packet of its number begins.
LEMMA FrontBegins ==
  ASSUME Recorded, NEW i \in 1 .. Len(stream), IsFront(stream[i])
  PROVE  stream[i].pkt \in 1 .. PacketCount /\ Begin(stream[i].pkt) = i
<1> DEFINE n == stream[i].pkt
<1>1. n \in 1 .. PacketCount /\ \A j \in 1 .. i - 1 : stream[j].pkt < n
  <2>1. n \in Nat /\ n > 0 /\ \A j \in 1 .. i - 1 : stream[j].pkt < n
    BY CellsInOrder DEF IsFront
  <2>2. n \in 0 .. PacketCount
    BY LastPacket
  <2> QED
    BY <2>1, <2>2
<1> HIDE DEF n
<1>2. /\ Begin(n) \in 1 .. Len(stream) /\ stream[Begin(n)].pkt = n
      /\ \A j \in 1 .. Begin(n) - 1 : stream[j].pkt < n
  BY <1>1, PacketBegins
<1>3. ~(Begin(n) \in 1 .. i - 1)
  BY <1>1, <1>2
<1>4. ~(i \in 1 .. Begin(n) - 1)
  BY <1>1, <1>2 DEF n
<1>5. Begin(n) = i
  BY <1>2, <1>3, <1>4, LastPacket
<1> QED
  BY <1>1, <1>5 DEF n

\* A packet reaches up to where the next one begins, and has no other front in it.
LEMMA NextBegins ==
  ASSUME Recorded, NEW n \in 1 .. PacketCount - 1
  PROVE  /\ Begin(n) + HdrSize <= Begin(n + 1)
         /\ Packet(n) = SubSeq(stream, Begin(n), Begin(n + 1) - 1)
         /\ \A i \in Begin(n) + 1 .. Begin(n + 1) - 1 :
              stream[i].pkt = n /\ ~IsFront(stream[i])
<1>1. PacketCount \in Nat /\ Len(stream) \in Nat /\ HdrSize \in Nat /\ HdrSize >= 2
  BY LastPacket, RtpParserAssumption
<1>2. n \in 1 .. PacketCount /\ n + 1 \in 1 .. PacketCount
  BY <1>1
<1> DEFINE b == Begin(n)
           e == Begin(n + 1)
<1>3. /\ b \in 1 .. Len(stream) /\ stream[b].pkt = n
      /\ b + HdrSize - 1 <= Len(stream) /\ stream[b + HdrSize - 1].pkt = n
      /\ \A i \in 1 .. b - 1 : stream[i].pkt < n
  BY <1>2, PacketBegins
<1>4. /\ e \in 1 .. Len(stream) /\ stream[e].pkt = n + 1
      /\ \A i \in 1 .. e - 1 : stream[i].pkt < n + 1
  BY <1>2, PacketBegins
<1>5. \A i \in 1 .. Len(stream) : stream[i].pkt \in Nat
                                  /\ \A j \in 1 .. i - 1 : stream[j].pkt <= stream[i].pkt
  BY CellsInOrder
<1> HIDE DEF b, e
<1>6. b + HdrSize <= e
  <2>1. b + HdrSize - 1 \in 1 .. Len(stream)
    BY <1>1, <1>3
  <2>2. e # b + HdrSize - 1
    BY <1>2, <1>3, <1>4
  <2>3. ~(e \in 1 .. (b + HdrSize - 1) - 1)
    <3>1. ASSUME e \in 1 .. (b + HdrSize - 1) - 1 PROVE FALSE
      <4>1. stream[e].pkt <= stream[b + HdrSize - 1].pkt
        BY <1>5, <2>1, <3>1
      <4> QED
        BY <1>2, <1>3, <1>4, <4>1
    <3> QED
      BY <3>1
  <2> QED
    BY <1>1, <1>3, <1>4, <2>2, <2>3
<1>7. \A i \in 1 .. Len(stream) : stream[i].pkt = n <=> i \in b .. e - 1
  <2>1. SUFFICES ASSUME NEW i \in 1 .. Len(stream)
                 PROVE  stream[i].pkt = n <=> i \in b .. e - 1
    OBVIOUS
  <2>2. stream[i].pkt \in Nat
    BY <1>5
  <2>3. CASE i < b
    BY <1>3, <2>2, <2>3
  <2>4. CASE i \in b .. e - 1
    <3>1. stream[i].pkt < n + 1
      BY <1>3, <1>4, <2>4
    <3>2. b = i \/ b \in 1 .. i - 1
      BY <1>3, <2>4
    <3>3. stream[b].pkt <= stream[i].pkt
      BY <1>3, <1>5, <3>2
    <3> QED
      BY <1>2, <1>3, <2>2, <2>4, <3>1, <3>3
  <2>5. CASE i >= e
    <3>1. e = i \/ e \in 1 .. i - 1
      BY <1>4, <2>5
    <3>2. stream[e].pkt <= stream[i].pkt
      BY <1>4, <1>5, <3>1
    <3> QED
      BY <1>2, <1>3, <1>4, <2>2, <2>5, <3>2
  <2> QED
    BY <1>3, <1>4, <2>3, <2>4, <2>5
<1>8. Cells(n) = b .. e - 1
  <2>1. b .. e - 1 \subseteq 1 .. Len(stream)
    BY <1>1, <1>3, <1>4
  <2> QED
    BY <1>7, <2>1 DEF Cells
<1>9. Max(b .. e - 1) = e - 1
  <2>1. e - 1 \in b .. e - 1 /\ \A y \in b .. e - 1 : e - 1 >= y
    BY <1>1, <1>3, <1>4, <1>6
  <2>2. \A x \in b .. e - 1 : (\A y \in b .. e - 1 : x >= y) => x = e - 1
    BY <1>3, <1>4, <2>1
  <2> QED
    BY <2>1, <2>2, Zenon DEF Max
<1>10. Packet(n) = SubSeq(stream, b, e - 1)
  BY <1>8, <1>9 DEF Packet, b
<1>11. \A i \in b + 1 .. e - 1 : stream[i].pkt = n /\ ~IsFront(stream[i])
  <2>1. SUFFICES ASSUME NEW i \in b + 1 .. e - 1
                 PROVE  stream[i].pkt = n /\ ~IsFront(stream[i])
    OBVIOUS
  <2>2. i \in 1 .. Len(stream) /\ stream[i].pkt = n
    <3>1. i \in b .. e - 1 /\ i \in 1 .. Len(stream)
      BY <1>3, <1>4, <2>1
    <3> QED
      BY <1>7, <3>1
  <2>3. IsFront(stream[i]) => Begin(n) = i
    BY <2>2, FrontBegins
  <2> QED
    BY <1>3, <2>1, <2>2, <2>3 DEF b
<1> QED
  BY <1>6, <1>10, <1>11 DEF b, e

\* The file does not change, nor do its packets.
LEMMA StreamKept ==
  ASSUME stream' = stream
  PROVE  /\ Recorded' <=> Recorded
         /\ PacketCount' = PacketCount
         /\ \A n : Begin(n)' = Begin(n) /\ Packet(n)' = Packet(n) /\ Stamp(n)' = Stamp(n)
         /\ Fits' <=> Fits
         /\ MediaTime' = MediaTime
         /\ StartsClean' <=> StartsClean
<1>1. PacketCount' = PacketCount /\ \A n : Cells(n)' = Cells(n)
  BY DEF PacketCount, Cells
<1>2. \A n : Begin(n)' = Begin(n)
  BY <1>1 DEF Begin
<1>3. \A n : Packet(n)' = Packet(n) /\ Stamp(n)' = Stamp(n)
  BY <1>1, <1>2 DEF Packet, Stamp
<1>4. Fits' <=> Fits
  BY <1>1, <1>2, <1>3 DEF Fits
<1>5. MediaTime' = MediaTime
  BY <1>1, <1>3 DEF MediaTime
<1>6. (Recorded' <=> Recorded) /\ (StartsClean' <=> StartsClean)
  BY DEF Recorded, StartsClean
<1> QED
  BY <1>1, <1>2, <1>3, <1>4, <1>5, <1>6

-----------------------------------------------------------------------------
(* The search.                                                              *)

\* Where in the file the buffer begins
Base == pos - writeOffset

\* What was read lies in the buffer as it does in the file.
Window ==
  /\ 0 <= Base
  /\ \A p \in 0 .. writeOffset - 1 : buffer[curBuf][p] = stream[Base + p + 1]

\* k packets were returned and the next is under search: it begins where the parser believes,
\* and the one behind it has not been passed over; the parser knows the packets' source.  A
\* buffer that is not full ends with the file.
InStep(k) ==
  /\ Window
  /\ writeOffset < BufSize => pos = Len(stream)
  /\ k \in 1 .. PacketCount - 1
  /\ curPkt < writeOffset
  /\ Base + curPkt + 1 = Begin(k + 1)
  /\ curTS = Stamp(k + 1)
  /\ Tells(stream, ssrc)
  /\ k + 1 < PacketCount => Base + readOffset < Begin(k + 2)

\* Behind the last packet the search may find what it likes.
Searching(k) == k >= PacketCount \/ InStep(k)

\* What the parser returns k-th
Told(k) ==
  k < PacketCount =>
    /\ Bytes(ret) = Packet(k)
    /\ ret.dTS = IF k = 1 THEN 0 ELSE (Stamp(k + 1) - Stamp(k)) % Word

\* A read of got cells into buffer b, of which w cells are filled
Reads(b, cells, w, got) ==
  /\ stream' = stream /\ curBuf' = b /\ pos' = pos + got /\ writeOffset' = w + got
  /\ buffer'[b] = [p \in 0 .. BufSize - 1 |->
                     IF p \in w .. w + got - 1 THEN stream[pos + p - w + 1] ELSE cells[p]]
  /\ pos + got <= Len(stream)
  /\ eof' <=> got = 0
  /\ got = 0 => readFailed' \/ w = BufSize \/ pos = Len(stream)
  /\ got > 0 /\ w + got < BufSize => pos + got = Len(stream)

\* produceData reads what there is; nothing, if a read fails, there is no room, or the file
\* has ended.
LEMMA ReadAhead ==
  ASSUME PInv, ~eof, NEW b \in {0, 1}, NEW cells, NEW w \in 0 .. BufSize,
         ProduceData(b, cells, w)
  PROVE  \E got \in 0 .. BufSize - w : Reads(b, cells, w, got)
<1>1. /\ bufSize = BufSize /\ BufSize \in Nat
      /\ pos \in Nat /\ pos <= Len(stream) /\ Len(stream) \in Nat
      /\ buffer \in [{0, 1} -> [0 .. BufSize - 1 -> Cell]]
  BY RtpParserAssumption DEF PInv, InBuffer
<1>2. PICK n \in ReadResults(bufSize - w) :
        LET got == IF n > 0 THEN n ELSE 0 IN
        /\ buffer' = [buffer EXCEPT ![b] = [p \in 0 .. BufSize - 1 |->
                        IF p \in w .. w + got - 1 THEN stream[pos + p - w + 1] ELSE cells[p]]]
        /\ curBuf' = b
        /\ pos' = pos + got
        /\ writeOffset' = w + got
        /\ eof' = (n <= 0)
        /\ bufSize' = IF n <= 0 THEN w ELSE bufSize
        /\ readFailed' = (readFailed \/ (n = -1 /\ w < bufSize))
        /\ UNCHANGED stream
  BY Zenon DEF ProduceData
<1> DEFINE got == IF n > 0 THEN n ELSE 0
<1>3. n \in Int /\ got \in 0 .. BufSize - w /\ pos + got <= Len(stream)
  BY <1>1 DEF ReadResults
<1>4. got = 0 <=> n <= 0
  BY <1>3
<1>5. n <= 0 => n = -1 \/ pos = Len(stream)
  BY <1>1, <1>3 DEF ReadResults
<1>6. n = -1 => readFailed' \/ w = BufSize
  <2>1. readFailed' = (readFailed \/ (n = -1 /\ w < bufSize))
    BY <1>2
  <2>2. n = -1 /\ w < bufSize => readFailed'
    BY <2>1
  <2> QED
    BY <1>1, <2>2
<1>7. n > 0 /\ w + n < BufSize => pos + n = Len(stream)
  BY <1>1, <1>3 DEF ReadResults
<1>8. eof' <=> n <= 0
  BY <1>2
<1>9. buffer'[b] = [p \in 0 .. BufSize - 1 |->
                      IF p \in w .. w + got - 1 THEN stream[pos + p - w + 1] ELSE cells[p]]
  BY <1>1, <1>2
<1>10. stream' = stream /\ curBuf' = b /\ pos' = pos + got /\ writeOffset' = w + got
  BY <1>2
<1>11. got > 0 => got = n
  BY <1>3
<1> HIDE DEF got
<1> got \in 0 .. BufSize - w
  BY <1>3
<1> WITNESS got \in 0 .. BufSize - w
<1> QED
  BY <1>3, <1>4, <1>5, <1>6, <1>7, <1>8, <1>9, <1>10, <1>11 DEF Reads

\* If what was there lies as in the file, so does what the read adds.
LEMMA ReadWindow ==
  ASSUME PInv, ~eof, NEW b \in {0, 1}, NEW cells, NEW w \in 0 .. BufSize,
         ProduceData(b, cells, w),
         w <= pos, \A p \in 0 .. w - 1 : cells[p] = stream[pos - w + p + 1]
  PROVE  Window' /\ Base' = pos - w
<1>1. BufSize \in Nat /\ pos \in Nat
  BY RtpParserAssumption DEF PInv, InBuffer
<1>2. PICK got \in 0 .. BufSize - w : Reads(b, cells, w, got)
  BY ReadAhead
<1>3. Base' = pos - w /\ stream' = stream /\ curBuf' = b /\ writeOffset' = w + got
  BY <1>1, <1>2 DEF Base, Reads
<1>4. ASSUME NEW p \in 0 .. writeOffset' - 1
      PROVE  buffer'[curBuf'][p] = stream'[Base' + p + 1]
  <2>1. p \in 0 .. BufSize - 1 /\ p \in Nat /\ (p \in 0 .. w - 1 \/ p \in w .. w + got - 1)
    BY <1>1, <1>3, <1>4
  <2>2. buffer'[b][p] = IF p \in w .. w + got - 1 THEN stream[pos + p - w + 1] ELSE cells[p]
    BY <1>2, <2>1 DEF Reads
  <2>3. p \in 0 .. w - 1 => ~(p \in w .. w + got - 1)
    OBVIOUS
  <2>4. pos + p - w + 1 = pos - w + p + 1
    BY <1>1, <2>1
  <2>5. buffer'[b][p] = stream[pos - w + p + 1]
    BY <2>1, <2>2, <2>3, <2>4
  <2> QED
    BY <1>3, <2>5
<1> QED
  BY <1>1, <1>3, <1>4 DEF Window

\* A header that was read is found: its end was read, too.
LEMMA HeaderSeen ==
  ASSUME PInv, Recorded, Window, NEW src, Tells(stream, src),
         NEW t \in Nat, t + HdrSize <= writeOffset, IsFront(stream[Base + t + 1])
  PROVE  IsPktMatch(t, src)
<1>1. /\ HdrSize \in Nat /\ HdrSize >= 2 /\ Base \in Nat
      /\ pos <= Len(stream) /\ pos = Base + writeOffset /\ writeOffset \in Nat
      /\ Len(stream) \in Nat
  BY RtpParserAssumption DEF PInv, InBuffer, Window, Base
<1>2. t \in 0 .. writeOffset - 1 /\ t + HdrSize - 1 \in 0 .. writeOffset - 1
  BY <1>1
<1>3. Base + t + 1 \in 1 .. Len(stream) - HdrSize + 1
  BY <1>1
<1>4. stream[Base + t + 1].version /\ stream[(Base + t + 1) + HdrSize - 1].src = src
  BY <1>3 DEF Tells, IsFront
<1>5. (Base + t + 1) + HdrSize - 1 = Base + (t + HdrSize - 1) + 1
  BY <1>1
<1>6. /\ buffer[curBuf][t] = stream[Base + t + 1]
      /\ buffer[curBuf][t + HdrSize - 1] = stream[Base + (t + HdrSize - 1) + 1]
  BY <1>2 DEF Window
<1> QED
  BY <1>4, <1>5, <1>6 DEF IsPktMatch, IsVersion, Ssrc

\* And what is found behind the first front is where a packet begins.
LEMMA MatchIsFront ==
  ASSUME PInv, Recorded, Window, NEW src, Tells(stream, src),
         NEW q \in Nat, q + HdrSize <= writeOffset, IsPktMatch(q, src),
         stream[Base + q + 1].pkt > 0
  PROVE  IsFront(stream[Base + q + 1])
<1>1. /\ HdrSize \in Nat /\ HdrSize >= 2 /\ Base \in Nat
      /\ pos <= Len(stream) /\ pos = Base + writeOffset /\ writeOffset \in Nat
      /\ Len(stream) \in Nat
  BY RtpParserAssumption DEF PInv, InBuffer, Window, Base
<1>2. q \in 0 .. writeOffset - 1 /\ q + HdrSize - 1 \in 0 .. writeOffset - 1
  BY <1>1
<1>3. Base + q + 1 \in 1 .. Len(stream) - HdrSize + 1
  BY <1>1
<1>4. (Base + q + 1) + HdrSize - 1 = Base + (q + HdrSize - 1) + 1
  BY <1>1
<1>5. /\ buffer[curBuf][q] = stream[Base + q + 1]
      /\ buffer[curBuf][q + HdrSize - 1] = stream[Base + (q + HdrSize - 1) + 1]
  BY <1>2 DEF Window
<1>6. stream[Base + q + 1].version /\ stream[(Base + q + 1) + HdrSize - 1].src = src
  BY <1>4, <1>5 DEF IsPktMatch, IsVersion, Ssrc
<1> QED
  BY <1>3, <1>6 DEF Tells

\* Packet m begins at c, the next one at r or later.  The first match from r on, within what
\* the buffer can hold, is where the next packet begins.
LEMMA NextHeader ==
  ASSUME PInv, Recorded, Window, NEW src, Tells(stream, src),
         writeOffset < BufSize => pos = Len(stream),
         NEW m \in 1 .. PacketCount - 1, NEW c \in Nat, NEW r \in Nat, NEW q \in Nat,
         Base + c + 1 = Begin(m), c < r, Base + r < Begin(m + 1),
         r <= q, q + HdrSize <= BufSize, IsPktMatch(q, src),
         \A p \in r .. q - 1 : ~IsPktMatch(p, src)
  PROVE  q < writeOffset /\ Base + q + 1 = Begin(m + 1)
<1>1. /\ BufSize \in Nat /\ HdrSize \in Nat /\ HdrSize >= 2 /\ Base \in Nat
      /\ pos <= Len(stream) /\ pos = Base + writeOffset /\ writeOffset \in Nat
      /\ writeOffset <= BufSize
      /\ Len(stream) \in Nat /\ PacketCount \in Nat
  BY RtpParserAssumption, LastPacket DEF PInv, InBuffer, Window, Base
<1>2. m + 1 \in 1 .. PacketCount
  BY <1>1
<1>3. /\ Begin(m + 1) \in 1 .. Len(stream) /\ Begin(m + 1) + HdrSize - 1 <= Len(stream)
      /\ IsFront(stream[Begin(m + 1)])
  BY <1>2, PacketBegins
<1>4. \A i \in Begin(m) + 1 .. Begin(m + 1) - 1 : stream[i].pkt = m /\ ~IsFront(stream[i])
  BY NextBegins
<1> DEFINE t == Begin(m + 1) - Base - 1
<1>5. t \in Nat /\ r <= t /\ Begin(m + 1) = Base + t + 1
  <2>1. Begin(m + 1) \in Nat /\ Base \in Nat
    BY <1>1, <1>3
  <2> QED
    BY <2>1
<1> HIDE DEF t
<1>6. t + HdrSize <= writeOffset \/ writeOffset = BufSize
  BY <1>1, <1>3, <1>5
<1>7. ~(t < q)
  <2>1. SUFFICES ASSUME t < q PROVE FALSE
    OBVIOUS
  <2>2. t + HdrSize <= writeOffset
    BY <1>1, <1>5, <1>6, <2>1
  <2>3. IsPktMatch(t, src)
    BY <1>3, <1>5, <2>2, HeaderSeen
  <2> QED
    BY <1>5, <2>1, <2>3
<1>8. ~(q < t)
  <2>1. SUFFICES ASSUME q < t PROVE FALSE
    OBVIOUS
  <2>2. q + HdrSize <= writeOffset
    BY <1>1, <1>5, <1>6, <2>1
  <2>3. Base + q + 1 \in Begin(m) + 1 .. Begin(m + 1) - 1
    <3>1. Begin(m + 1) = Base + t + 1 /\ t \in Nat /\ Base \in Nat
      BY <1>1, <1>5
    <3> QED
      BY <2>1, <3>1
  <2>4. stream[Base + q + 1].pkt = m /\ ~IsFront(stream[Base + q + 1])
    BY <1>4, <2>3
  <2> QED
    BY <2>2, <2>4, MatchIsFront
<1>9. q = t
  BY <1>5, <1>7, <1>8
<1>10. t < writeOffset
  BY <1>1, <1>5, <1>6, <1>9
<1> QED
  BY <1>5, <1>9, <1>10

\* A packet is read whole from where it begins to where the next one does.
LEMMA PacketRead ==
  ASSUME PInv, Recorded, Window, NEW m \in 1 .. PacketCount - 1,
         NEW c \in Nat, NEW q \in Nat, q < writeOffset,
         Base + c + 1 = Begin(m), Base + q + 1 = Begin(m + 1)
  PROVE  [i \in 1 .. q - c |-> buffer[curBuf][c + i - 1]] = Packet(m)
<1>1. /\ Base \in Nat /\ writeOffset \in Nat /\ pos = Base + writeOffset /\ pos <= Len(stream)
      /\ Len(stream) \in Nat /\ HdrSize \in Nat
  BY RtpParserAssumption DEF PInv, InBuffer, Window, Base
<1>2. Packet(m) = SubSeq(stream, Base + c + 1, Base + q) /\ c < q
  <2>1. Begin(m) + HdrSize <= Begin(m + 1)
        /\ Packet(m) = SubSeq(stream, Begin(m), Begin(m + 1) - 1)
    BY NextBegins
  <2>2. Begin(m + 1) - 1 = Base + q /\ HdrSize > 0
    BY <1>1, RtpParserAssumption
  <2>3. c < q
    BY <1>1, <2>1, <2>2
  <2> QED
    BY <2>1, <2>2, <2>3
<1>3. \A i \in 1 .. q - c : buffer[curBuf][c + i - 1] = stream[Base + c + i]
  <2>1. SUFFICES ASSUME NEW i \in 1 .. q - c
                 PROVE  buffer[curBuf][c + i - 1] = stream[Base + c + i]
    OBVIOUS
  <2>2. c + i - 1 \in 0 .. writeOffset - 1
    BY <1>1
  <2>3. buffer[curBuf][c + i - 1] = stream[Base + (c + i - 1) + 1]
    BY <2>2 DEF Window
  <2>4. Base + (c + i - 1) + 1 = Base + c + i
    BY <1>1
  <2> QED
    BY <2>3, <2>4
<1>4. SubSeq(stream, Base + c + 1, Base + q) = [i \in 1 .. q - c |-> stream[Base + c + i]]
  <2>1. \A i \in 1 .. q - c : Base + c + 1 + i - 1 = Base + c + i
    BY <1>1
  <2>2. Base + q - (Base + c + 1) + 1 = q - c
    BY <1>1
  <2> QED
    BY <1>1, <1>2, <2>1, <2>2 DEF Recorded
<1> QED
  BY <1>2, <1>3, <1>4

\* When packet m, at c, is returned where the next one begins, it is packet m that is
\* returned, and the search is in step.
LEMMA ReportTells ==
  ASSUME PInv, Recorded, Window, writeOffset < BufSize => pos = Len(stream),
         NEW m \in 1 .. PacketCount - 1, NEW c \in Nat, NEW q \in Nat, q < writeOffset,
         Base + c + 1 = Begin(m), Base + q + 1 = Begin(m + 1),
         NEW dTS, dTS = IF m = 1 THEN 0 ELSE (Stamp(m + 1) - Stamp(m)) % Word,
         Tells(stream, ssrc'),
         Report(c, q, dTS), UNCHANGED <<stream, pos, buffer, curBuf, writeOffset>>
  PROVE  Searching(m)' /\ Told(m)'
<1>1. /\ Base \in Nat /\ writeOffset \in Nat /\ HdrSize \in Nat /\ PacketCount \in Nat
  BY RtpParserAssumption, LastPacket DEF PInv, InBuffer, Window, Base
<1>2. /\ ret' = [buf |-> curBuf, at |-> c, len |-> q - c, dTS |-> dTS]
      /\ curPkt' = q /\ readOffset' = q + HdrSize /\ curTS' = TS(q)
  BY DEF Report
<1>3. /\ PacketCount' = PacketCount /\ Base' = Base
      /\ \A n : Begin(n)' = Begin(n) /\ Packet(n)' = Packet(n) /\ Stamp(n)' = Stamp(n)
  BY StreamKept DEF Base
<1>4. Told(m)'
  <2>1. [i \in 1 .. q - c |-> buffer[curBuf][c + i - 1]] = Packet(m)
    BY PacketRead
  <2>2. Bytes(ret)' = [i \in 1 .. q - c |-> buffer[curBuf][c + i - 1]]
    BY <1>2 DEF Bytes
  <2>3. ret'.dTS = dTS
    BY <1>2
  <2> QED
    BY <1>3, <2>1, <2>2, <2>3 DEF Told
<1>5. curTS' = Stamp(m + 1)
  <2>1. buffer[curBuf][q] = stream[Base + q + 1]
    BY <1>1 DEF Window
  <2> QED
    BY <1>2, <2>1 DEF TS, Stamp
<1>6. m + 1 < PacketCount => Base + (q + HdrSize) < Begin(m + 2)
  <2>1. SUFFICES ASSUME m + 1 < PacketCount PROVE Base + (q + HdrSize) < Begin(m + 2)
    OBVIOUS
  <2>2. m + 1 \in 1 .. PacketCount - 1 /\ (m + 1) + 1 = m + 2
    BY <1>1, <2>1
  <2>3. Begin(m + 1) + HdrSize <= Begin((m + 1) + 1)
    BY <2>2, NextBegins
  <2>4. Begin(m + 2) \in Nat
    <3>1. m + 2 \in 1 .. PacketCount
      BY <1>1, <2>1
    <3> QED
      BY <3>1, PacketBegins
  <2> QED
    BY <1>1, <2>2, <2>3, <2>4
<1>7. Window'
  BY <1>3 DEF Window
<1> QED
  BY <1>2, <1>3, <1>4, <1>5, <1>6, <1>7 DEF Searching, InStep

\* What the first read brings
FirstRead ==
  /\ Window /\ Base = 0
  /\ eof => readFailed \/ Len(stream) = 0
  /\ ~eof /\ writeOffset < BufSize => pos = Len(stream)

\* get1stPacket finds the first packet and the header of the second, if the buffer can
\* hold both.
LEMMA FirstFinds ==
  ASSUME PInv, Recorded, First, FirstRead
  PROVE  /\ ppc' = "idle" => started' /\ ret' # NULL /\ Searching(1)' /\ Told(1)'
         /\ ppc' = "done" => (~readFailed /\ Fits => PacketCount <= 1)
         /\ ppc' \in {"idle", "done"}
<1> DEFINE heads == {p \in 0 .. writeOffset - HdrSize : IsVersion(p)}
           nexts == {q \in Least(heads) + HdrSize .. bufSize - HdrSize - 1 :
                       IsPktMatch(q, Ssrc(Least(heads)))}
<1>1. /\ writeOffset \in Nat /\ writeOffset <= bufSize /\ bufSize \in Nat
      /\ HdrSize \in Nat /\ HdrSize >= 2 /\ Base = 0 /\ pos = writeOffset /\ pos <= Len(stream)
      /\ Len(stream) \in Nat /\ PacketCount \in Nat /\ BufSize \in Nat
      /\ eof => bufSize = 0
      /\ ~eof => bufSize = BufSize
  BY RtpParserAssumption, LastPacket DEF PInv, InBuffer, First, FirstRead, Base
<1>2. heads \in SUBSET Nat
  BY <1>1
<1>3. heads # {} => Least(heads) \in heads /\ \A y \in heads : Least(heads) <= y
  BY <1>2, LeastInSet
\* If there are two packets, the first head is where packet 1 begins, and its source theirs.
<1>4. ASSUME PacketCount > 1, Begin(1) - 1 \in heads \/ heads # {}
      PROVE  /\ heads # {} /\ Least(heads) = Begin(1) - 1
             /\ Tells(stream, Ssrc(Least(heads)))
  <2>1. /\ Begin(1) \in 1 .. Len(stream) /\ IsFront(stream[Begin(1)])
        /\ Begin(1) + HdrSize - 1 <= Len(stream)
        /\ Tells(stream, stream[Begin(1) + HdrSize - 1].src)
        /\ \A i \in 1 .. Begin(1) - 1 : stream[i].pkt < 1
    BY <1>1, <1>4, PacketBegins
  <2>2. \A p \in heads : Begin(1) - 1 <= p
    <3>1. SUFFICES ASSUME NEW p \in heads PROVE Begin(1) - 1 <= p
      OBVIOUS
    <3>2. p \in 0 .. writeOffset - 1 /\ p + 1 \in 1 .. Len(stream)
      BY <1>1
    <3>3. stream[p + 1].version
      <4>1. buffer[curBuf][p] = stream[Base + p + 1]
        BY <3>2 DEF FirstRead, Window
      <4>2. Base + p + 1 = p + 1
        BY <1>1, <3>2
      <4> QED
        BY <4>1, <4>2 DEF IsVersion
    <3>4. stream[p + 1].pkt \in Nat /\ stream[p + 1].pkt # 0
      BY <3>2, <3>3, CellsInOrder DEF Recorded, StartsClean
    <3>5. ~(p + 1 \in 1 .. Begin(1) - 1)
      BY <2>1, <3>4
    <3> HIDE DEF heads
    <3> QED
      BY <2>1, <3>2, <3>5
  <2>3. Begin(1) - 1 \in heads
    <3>1. SUFFICES ASSUME heads # {} PROVE Begin(1) - 1 \in heads
      BY <1>4
    <3>2. Begin(1) - 1 \in 0 .. writeOffset - HdrSize
      BY <1>1, <1>3, <2>1, <2>2, <3>1
    <3>3. Begin(1) - 1 \in 0 .. writeOffset - 1
      BY <1>1, <3>2
    <3>4. buffer[curBuf][Begin(1) - 1] = stream[Base + (Begin(1) - 1) + 1]
      BY <3>3 DEF FirstRead, Window
    <3>5. Base + (Begin(1) - 1) + 1 = Begin(1)
      BY <1>1, <2>1
    <3>6. stream[Begin(1)].version
      <4>1. Begin(1) \in 1 .. Len(stream) - HdrSize + 1
        BY <1>1, <2>1
      <4> QED
        BY <2>1, <4>1 DEF Tells, IsFront
    <3> QED
      BY <3>2, <3>4, <3>5, <3>6 DEF IsVersion
  <2>5. Ssrc(Begin(1) - 1) = stream[Begin(1) + HdrSize - 1].src
    <3>1. Begin(1) - 1 + HdrSize - 1 \in 0 .. writeOffset - 1
      BY <1>1, <2>3
    <3>2. buffer[curBuf][Begin(1) - 1 + HdrSize - 1]
            = stream[Base + (Begin(1) - 1 + HdrSize - 1) + 1]
      BY <3>1 DEF FirstRead, Window
    <3>3. Base + (Begin(1) - 1 + HdrSize - 1) + 1 = Begin(1) + HdrSize - 1
      BY <1>1, <2>1
    <3> QED
      BY <3>2, <3>3 DEF Ssrc
  <2> HIDE DEF heads
  <2>4. Least(heads) \in Nat /\ Least(heads) <= Begin(1) - 1 /\ Begin(1) - 1 <= Least(heads)
    BY <1>2, <1>3, <2>2, <2>3
  <2> QED
    BY <2>1, <2>3, <2>4, <2>5
<1>5. CASE heads # {} /\ nexts # {}
  <2>1. Least(heads) \in Nat /\ Least(heads) + HdrSize <= writeOffset
    BY <1>1, <1>3, <1>5
  <2>2. Least(nexts) \in nexts /\ \A y \in nexts : Least(nexts) <= y
    <3> HIDE DEF heads
    <3>1. nexts \in SUBSET Nat
      BY <1>1, <2>1
    <3> HIDE DEF nexts
    <3> QED
      BY <1>5, <3>1, LeastInSet
  <2>3. ~eof /\ bufSize = BufSize
    BY <1>1, <2>1
  <2>4. /\ Report(Least(heads), Least(nexts), 0) /\ started' = TRUE
        /\ ssrc' = Ssrc(Least(heads))
        /\ UNCHANGED <<fileVars, buffer, curBuf, bufSize, writeOffset>>
    BY <1>5, Zenon DEF First
  <2>5. CASE PacketCount <= 1
    <3>1. PacketCount' = PacketCount
      BY <2>4, StreamKept DEF fileVars
    <3> HIDE DEF heads, nexts
    <3>2. ppc' = "idle" /\ ret' # NULL
      BY <2>4 DEF Report, NULL
    <3> QED
      BY <1>1, <2>4, <2>5, <3>1, <3>2 DEF Searching, Told
  <2>6. CASE PacketCount > 1
    <3> DEFINE c == Least(heads)
               q == Least(nexts)
               src == Ssrc(Least(heads))
    <3>1. c = Begin(1) - 1 /\ Tells(stream, src) /\ ssrc' = src
      BY <1>4, <1>5, <2>4, <2>6
    <3>2. q \in Nat /\ c + HdrSize <= q /\ q + HdrSize <= BufSize /\ IsPktMatch(q, src)
      BY <1>1, <2>1, <2>2, <2>3
    <3>3. \A p \in c + HdrSize .. q - 1 : ~IsPktMatch(p, src)
      <4>1. SUFFICES ASSUME NEW p \in c + HdrSize .. q - 1, IsPktMatch(p, src) PROVE FALSE
        OBVIOUS
      <4>2. q \in c + HdrSize .. bufSize - HdrSize - 1
        BY <2>2
      <4>3. p \in nexts
        BY <1>1, <2>1, <4>1, <4>2
      <4> HIDE DEF nexts, heads
      <4> QED
        BY <1>1, <2>1, <2>2, <3>2, <4>1, <4>3
    <3> HIDE DEF heads, nexts
    <3>4. c \in Nat
      BY <2>1
    <3> HIDE DEF c, q, src
    <3>5. 1 \in 1 .. PacketCount - 1 /\ 1 + 1 \in 1 .. PacketCount
      BY <1>1, <2>6
    <3>6. Begin(1) + HdrSize <= Begin(1 + 1) /\ Begin(1) \in Nat /\ Begin(1 + 1) \in Nat
      BY <1>1, <2>6, <3>5, NextBegins, PacketBegins
    <3>7. Base + c + 1 = Begin(1) /\ Base + (c + HdrSize) < Begin(1 + 1)
      BY <1>1, <3>1, <3>4, <3>6
    <3>8. Window /\ (writeOffset < BufSize => pos = Len(stream))
      BY <2>3 DEF FirstRead
    <3>9. q < writeOffset /\ Base + q + 1 = Begin(1 + 1)
      <4>1. c + HdrSize \in Nat /\ c < c + HdrSize
        BY <1>1, <3>4
      <4> QED
        BY <3>1, <3>2, <3>3, <3>4, <3>5, <3>7, <3>8, <4>1, NextHeader
    <3>10. Report(c, q, 0) /\ UNCHANGED <<stream, pos, buffer, curBuf, writeOffset>>
      BY <2>4 DEF c, q, fileVars
    <3>11. Searching(1)' /\ Told(1)'
      BY <3>1, <3>2, <3>4, <3>5, <3>7, <3>8, <3>9, <3>10, ReportTells
    <3>12. ppc' = "idle" /\ ret' # NULL
      BY <3>10 DEF Report, NULL
    <3> QED
      BY <2>4, <3>11, <3>12
  <2> QED
    BY <1>1, <2>5, <2>6
<1>6. CASE ~(heads # {} /\ nexts # {})
  <2>1. Left
    BY <1>6, Zenon DEF First
  <2>2. ASSUME ~readFailed, Fits, PacketCount > 1 PROVE FALSE
    <3>1. 1 \in 1 .. PacketCount - 1 /\ 1 \in 1 .. PacketCount /\ 1 + 1 \in 1 .. PacketCount
      BY <1>1, <2>2
    <3>2. /\ Begin(1) \in Nat /\ Begin(1) >= 1 /\ Begin(1 + 1) \in Nat
          /\ Begin(1) + HdrSize <= Begin(1 + 1)
          /\ Packet(1) = SubSeq(stream, Begin(1), Begin(1 + 1) - 1)
          /\ Begin(1 + 1) + HdrSize - 1 <= Len(stream)
          /\ IsFront(stream[Begin(1)]) /\ IsFront(stream[Begin(1 + 1)])
          /\ Tells(stream, stream[Begin(1) + HdrSize - 1].src)
      BY <3>1, NextBegins, PacketBegins
    <3>3. ~eof /\ bufSize = BufSize
      BY <1>1, <2>2, <3>2 DEF FirstRead
    <3>4. Begin(1 + 1) + HdrSize <= BufSize
      <4>1. Begin(1) + Len(Packet(1)) + HdrSize <= BufSize
        BY <2>2, <3>1 DEF Fits
      <4>2. Begin(1) \in Nat /\ Begin(1) >= 1 /\ Begin(1 + 1) \in Nat
            /\ Begin(1) + HdrSize <= Begin(1 + 1) /\ Begin(1 + 1) - 1 <= Len(stream)
            /\ HdrSize \in Nat /\ BufSize \in Nat /\ Len(stream) \in Nat
        <5>1. HdrSize \in Nat /\ BufSize \in Nat /\ Len(stream) \in Nat /\ HdrSize >= 2
          BY <1>1
        <5>2. Begin(1) \in Nat /\ Begin(1) >= 1 /\ Begin(1 + 1) \in Nat
              /\ Begin(1) + HdrSize <= Begin(1 + 1)
              /\ Begin(1 + 1) + HdrSize - 1 <= Len(stream)
          BY <3>2
        <5> QED
          BY <5>1, <5>2
      <4>3. Packet(1) = SubSeq(stream, Begin(1), Begin(1 + 1) - 1)
        BY <3>2
      <4>4. Len(Packet(1)) = Begin(1 + 1) - Begin(1)
        BY <4>2, <4>3 DEF Recorded
      <4> QED
        BY <4>1, <4>2, <4>4
    <3>5. (Begin(1 + 1) - 1) + HdrSize <= writeOffset
      <4> HIDE DEF heads, nexts
      <4>1. writeOffset < BufSize => writeOffset = Len(stream)
        BY <1>1, <3>3 DEF FirstRead
      <4>2. Begin(1 + 1) \in Nat /\ Begin(1 + 1) + HdrSize - 1 <= Len(stream)
        BY <3>2
      <4> QED
        BY <1>1, <3>4, <4>1, <4>2
    <3>6. (Begin(1) - 1) + HdrSize <= writeOffset /\ Begin(1) - 1 \in Nat
          /\ Begin(1 + 1) - 1 \in Nat
          /\ Base + (Begin(1) - 1) + 1 = Begin(1)
          /\ Base + (Begin(1 + 1) - 1) + 1 = Begin(1 + 1)
      <4> HIDE DEF heads, nexts
      <4>1. Base = 0 /\ HdrSize \in Nat /\ writeOffset \in Nat
        BY <1>1
      <4>2. Begin(1) + HdrSize <= Begin(1 + 1) /\ Begin(1) \in Nat /\ Begin(1 + 1) \in Nat
            /\ Begin(1) >= 1
        BY <3>2
      <4>3. Begin(1) - 1 \in Nat /\ Begin(1 + 1) - 1 \in Nat
        BY <4>1, <4>2
      <4>4. (Begin(1) - 1) + HdrSize <= writeOffset
        BY <3>5, <4>1, <4>2
      <4>5. Base + (Begin(1) - 1) + 1 = Begin(1)
            /\ Base + (Begin(1 + 1) - 1) + 1 = Begin(1 + 1)
        BY <4>1, <4>2
      <4> QED
        BY <4>3, <4>4, <4>5
    <3>7. IsVersion(Begin(1) - 1)
      BY <3>2, <3>5, <3>6, HeaderSeen DEF FirstRead, IsPktMatch
    <3>8. Begin(1) - 1 \in heads
      BY <1>1, <3>6, <3>7
    <3>9. heads # {} /\ Least(heads) = Begin(1) - 1 /\ Tells(stream, Ssrc(Least(heads)))
      BY <1>4, <2>2, <3>8
    <3>10. IsPktMatch(Begin(1 + 1) - 1, Ssrc(Least(heads)))
      <4> HIDE DEF heads, nexts
      <4> QED
        BY <3>2, <3>5, <3>6, <3>9, HeaderSeen DEF FirstRead
    <3>11. Begin(1 + 1) - 1 \in nexts
      <4> HIDE DEF heads
      <4>1. Begin(1) + HdrSize <= Begin(1 + 1) /\ Begin(1) \in Nat /\ Begin(1 + 1) \in Nat
        BY <3>2
      <4>2. Begin(1 + 1) - 1 \in (Begin(1) - 1) + HdrSize .. BufSize - HdrSize - 1
        BY <1>1, <3>4, <4>1
      <4> QED
        BY <3>3, <3>9, <3>10, <4>2
    <3> QED
      BY <1>6, <3>9, <3>11
  <2>3. ppc' = "done"
    BY <2>1 DEF Left
  <2> QED
    BY <1>1, <2>2, <2>3
<1> QED
  BY <1>5, <1>6

\* getPacket returns the packet under search, whole, when it finds the next header.
LEMMA MatchFinds ==
  ASSUME PInv, Recorded, Match, NEW k \in Nat, Searching(k)
  PROVE  ppc' = "idle" /\ ret' # NULL /\ Searching(k + 1)' /\ Told(k + 1)'
<1> DEFINE q == Least(Headers)
<1>1. /\ ~eof /\ started /\ bufSize = BufSize /\ BufSize \in Nat
      /\ readOffset \in Nat /\ curPkt \in Nat /\ curPkt + HdrSize <= readOffset
      /\ HdrSize \in Nat /\ HdrSize >= 2 /\ PacketCount \in Nat
  BY RtpParserAssumption, LastPacket DEF Match, PInv, InBuffer
<1>2. q \in Headers /\ \A y \in Headers : q <= y
  <2>1. Headers \in SUBSET Nat
    BY <1>1 DEF Headers
  <2> QED
    BY <2>1, LeastInSet DEF Match
<1> HIDE DEF q
<1>3. q \in Nat /\ readOffset <= q /\ q + HdrSize <= BufSize /\ IsPktMatch(q, ssrc)
  BY <1>1, <1>2 DEF Headers
<1>4. \A p \in readOffset .. q - 1 : ~IsPktMatch(p, ssrc)
  <2>1. SUFFICES ASSUME NEW p \in readOffset .. q - 1, IsPktMatch(p, ssrc) PROVE FALSE
    OBVIOUS
  <2>2. p \in Headers
    BY <1>1, <1>3, <2>1 DEF Headers
  <2> QED
    BY <1>1, <1>2, <1>3, <2>2
<1>5. /\ Report(curPkt, q, (TS(q) - curTS) % Word)
      /\ UNCHANGED <<fileVars, bufVars>> /\ ssrc' = ssrc
  BY Zenon DEF Match, q
<1>6. ppc' = "idle" /\ ret' # NULL
  BY <1>5 DEF Report, NULL
<1>7. CASE k + 1 >= PacketCount
  <2>1. PacketCount' = PacketCount
    BY <1>5, StreamKept DEF fileVars
  <2> QED
    BY <1>1, <1>6, <1>7, <2>1 DEF Searching, Told
<1>8. CASE k + 1 < PacketCount
  <2>1. InStep(k)
    BY <1>1, <1>8 DEF Searching
  <2>2. /\ Window /\ (writeOffset < BufSize => pos = Len(stream))
        /\ Base + curPkt + 1 = Begin(k + 1) /\ curTS = Stamp(k + 1)
        /\ Base + readOffset < Begin((k + 1) + 1) /\ Tells(stream, ssrc)
    <3>1. k + 2 = (k + 1) + 1
      OBVIOUS
    <3> QED
      BY <1>8, <2>1, <3>1 DEF InStep
  <2>3. k + 1 \in 1 .. PacketCount - 1 /\ k + 1 # 1 /\ curPkt < readOffset
    <3>1. k >= 1
      BY <2>1 DEF InStep
    <3> QED
      BY <1>1, <1>8, <3>1
  <2>4. q < writeOffset /\ Base + q + 1 = Begin((k + 1) + 1)
    BY <1>1, <1>3, <1>4, <2>2, <2>3, NextHeader
  <2>5. TS(q) = Stamp((k + 1) + 1)
    <3>1. q \in 0 .. writeOffset - 1
      BY <1>3, <2>4 DEF PInv, InBuffer
    <3>2. buffer[curBuf][q] = stream[Base + q + 1]
      BY <2>2, <3>1 DEF Window
    <3> QED
      BY <2>4, <3>2 DEF TS, Stamp
  <2> DEFINE d == (TS(q) - curTS) % Word
  <2>6. d = IF k + 1 = 1 THEN 0 ELSE (Stamp((k + 1) + 1) - Stamp(k + 1)) % Word
    BY <2>2, <2>3, <2>5
  <2>7. Report(curPkt, q, d) /\ UNCHANGED <<stream, pos, buffer, curBuf, writeOffset>>
    BY <1>5 DEF fileVars, bufVars
  <2> HIDE DEF d
  <2>8. Searching(k + 1)' /\ Told(k + 1)'
    BY <1>1, <1>3, <1>5, <2>2, <2>3, <2>4, <2>6, <2>7, ReportTells
  <2> QED
    BY <1>6, <2>8
<1> QED
  BY <1>1, <1>7, <1>8

\* switchBuffer keeps the search in step as long as something can be read; when nothing can,
\* and the packets fit, the packet under search is the last.
LEMMA SwitchFinds ==
  ASSUME PInv, Recorded, SwitchBuffer, NEW k \in Nat, Searching(k)
  PROVE  /\ ppc' = IF eof' THEN "done" ELSE "scan"
         /\ ~eof' => Searching(k)'
         /\ eof' => (~readFailed' /\ Fits => k >= PacketCount - 1)
<1> DEFINE w == bufSize - curPkt
<1>1. /\ ~eof /\ started /\ bufSize = BufSize /\ BufSize \in Nat
      /\ readOffset \in Nat /\ readOffset <= BufSize
      /\ curPkt \in Nat /\ curPkt + HdrSize <= readOffset
      /\ HdrSize \in Nat /\ HdrSize >= 2 /\ PacketCount \in Nat
      /\ writeOffset \in Nat /\ writeOffset <= BufSize /\ pos \in Nat /\ pos <= Len(stream)
      /\ Len(stream) \in Nat
  BY RtpParserAssumption, LastPacket DEF SwitchBuffer, PInv, InBuffer
<1>2. ProduceData(1 - curBuf, Moved, w) /\ 1 - curBuf \in {0, 1} /\ w \in 0 .. BufSize
      /\ w = BufSize - curPkt
  BY <1>1 DEF SwitchBuffer, PInv, InBuffer
<1> HIDE DEF w
<1>3. PICK got \in 0 .. BufSize - w : Reads(1 - curBuf, Moved, w, got)
  BY <1>1, <1>2, ReadAhead
<1>4. PacketCount' = PacketCount /\ \A n : Begin(n)' = Begin(n) /\ Stamp(n)' = Stamp(n)
  BY <1>3, StreamKept DEF Reads
<1>5. /\ ppc' = IF eof' THEN "done" ELSE "scan"
      /\ readOffset' = Searched - curPkt /\ curPkt' = 0 /\ UNCHANGED <<curTS, ssrc>>
  BY DEF SwitchBuffer, Left
<1>6. CASE k >= PacketCount
  BY <1>1, <1>4, <1>5, <1>6 DEF Searching
<1>7. CASE InStep(k)
  <2> USE <1>7
  <2>1. /\ Window /\ Base \in Nat /\ pos = Base + writeOffset
        /\ k \in 1 .. PacketCount - 1 /\ curPkt < writeOffset
        /\ Base + curPkt + 1 = Begin(k + 1) /\ curTS = Stamp(k + 1) /\ Tells(stream, ssrc)
        /\ writeOffset < BufSize => pos = Len(stream)
    <3>1. /\ Window /\ k \in 1 .. PacketCount - 1 /\ curPkt < writeOffset
          /\ Base + curPkt + 1 = Begin(k + 1) /\ curTS = Stamp(k + 1) /\ Tells(stream, ssrc)
          /\ writeOffset < BufSize => pos = Len(stream)
      BY Zenon DEF InStep
    <3>2. Base \in Nat /\ pos = Base + writeOffset
      BY <1>1, <3>1 DEF Window, Base
    <3> QED
      BY <3>1, <3>2
  \* The next packet's header is not in the buffer as a whole.
  <2>2. ASSUME k + 1 < PacketCount
        PROVE  /\ Begin((k + 1) + 1) \in Nat
               /\ Base + readOffset < Begin((k + 1) + 1)
               /\ writeOffset < Begin((k + 1) + 1) - Base - 1 + HdrSize
               /\ Begin((k + 1) + 1) + HdrSize - 1 <= Len(stream)
    <3> DEFINE t == Begin((k + 1) + 1) - Base - 1
    <3>1. (k + 1) + 1 \in 1 .. PacketCount /\ k + 2 = (k + 1) + 1
      BY <1>1, <2>1, <2>2
    <3>2. /\ Begin((k + 1) + 1) \in Nat /\ IsFront(stream[Begin((k + 1) + 1)])
          /\ Begin((k + 1) + 1) + HdrSize - 1 <= Len(stream)
      BY <3>1, PacketBegins
    <3>3. Base + readOffset < Begin((k + 1) + 1)
      BY <2>2, <3>1 DEF InStep
    <3>4. t \in Nat /\ readOffset <= t /\ Base + t + 1 = Begin((k + 1) + 1)
      <4>1. \A b, c, r \in Nat : c + r < b => /\ b - c - 1 \in Nat /\ r <= b - c - 1
                                            /\ c + (b - c - 1) + 1 = b
        OBVIOUS
      <4>2. Begin((k + 1) + 1) \in Nat /\ Base \in Nat /\ readOffset \in Nat
        BY <1>1, <2>1, <3>2
      <4> QED
        BY <3>3, <4>1, <4>2, Zenon
    <3> HIDE DEF t
    <3>5. ~(t + HdrSize <= writeOffset)
      <4>1. SUFFICES ASSUME t + HdrSize <= writeOffset PROVE FALSE
        OBVIOUS
      <4>2. IsPktMatch(t, ssrc)
        BY <2>1, <3>2, <3>4, <4>1, HeaderSeen
      <4>3. t \in Headers
        BY <1>1, <3>4, <4>1, <4>2 DEF Headers
      <4> QED
        BY <4>3 DEF SwitchBuffer
    <3> QED
      BY <1>1, <3>2, <3>3, <3>4, <3>5 DEF t
  <2>3. CASE eof'
    <3>1. ASSUME ~readFailed', Fits, k + 1 < PacketCount PROVE FALSE
      <4>1. w = BufSize \/ pos = Len(stream)
        BY <1>3, <2>3, <3>1 DEF Reads
      <4>2. pos # Len(stream)
        <5>1. writeOffset < Begin((k + 1) + 1) - Base - 1 + HdrSize
              /\ Begin((k + 1) + 1) \in Nat /\ Begin((k + 1) + 1) + HdrSize - 1 <= Len(stream)
          BY <2>2, <3>1
        <5>2. pos = Base + writeOffset /\ Base \in Nat /\ writeOffset \in Nat /\ HdrSize \in Nat
              /\ Len(stream) \in Nat
          BY <1>1, <2>1
        <5> QED
          BY <5>1, <5>2
      <4>3. curPkt = 0 /\ writeOffset = BufSize
        BY <1>1, <1>2, <2>1, <4>1, <4>2
      <4>4. k + 1 \in 1 .. PacketCount - 1
        BY <1>1, <2>1, <3>1
      <4>5. /\ Begin(k + 1) + HdrSize <= Begin((k + 1) + 1)
            /\ Packet(k + 1) = SubSeq(stream, Begin(k + 1), Begin((k + 1) + 1) - 1)
        BY <4>4, NextBegins
      <4>6. Begin(k + 1) \in Nat /\ Begin(k + 1) >= 1
        BY <2>1, <4>3
      <4>7. Len(Packet(k + 1)) = Begin((k + 1) + 1) - Begin(k + 1)
        <5>1. Begin((k + 1) + 1) \in Nat /\ Begin((k + 1) + 1) + HdrSize - 1 <= Len(stream)
          BY <2>2, <3>1
        <5>2. Begin((k + 1) + 1) - 1 \in Nat /\ Begin((k + 1) + 1) - 1 <= Len(stream)
              /\ Begin(k + 1) <= Begin((k + 1) + 1)
          <6>1. HdrSize \in Nat /\ HdrSize >= 2 /\ Len(stream) \in Nat
            BY <1>1
          <6> QED
            BY <4>5, <4>6, <5>1, <6>1
        <5> QED
          BY <4>5, <4>6, <5>1, <5>2 DEF Recorded
      <4>8. 0 + Len(Packet(k + 1)) + HdrSize <= BufSize
        <5>1. (IF k + 1 = 1 THEN Begin(1) ELSE 0) + Len(Packet(k + 1)) + HdrSize <= BufSize
          BY <3>1, <4>4 DEF Fits
        <5>2. k + 1 # 1
          BY <2>1
        <5> QED
          BY <5>1, <5>2
      <4>9. writeOffset < Begin((k + 1) + 1) - Base - 1 + HdrSize
            /\ Begin((k + 1) + 1) \in Nat
        BY <2>2, <3>1
      <4>10. Base = Begin(k + 1) - 1
        BY <2>1, <4>3, <4>6
      <4>11. (Begin((k + 1) + 1) - Begin(k + 1)) + HdrSize <= BufSize
        <5>1. Begin((k + 1) + 1) - Begin(k + 1) \in Int /\ HdrSize \in Int
          BY <1>1, <4>6, <4>9
        <5>2. 0 + (Begin((k + 1) + 1) - Begin(k + 1)) + HdrSize <= BufSize
          BY <4>7, <4>8
        <5> QED
          BY <5>1, <5>2
      <4>12. HdrSize \in Nat /\ BufSize \in Nat
        BY <1>1
      <4> QED
        BY <4>3, <4>6, <4>9, <4>10, <4>11, <4>12
    <3> QED
      BY <1>1, <1>5, <2>1, <2>3, <3>1
  <2>4. CASE ~eof'
    <3>1. writeOffset = BufSize /\ got > 0
      <4>1. got # 0 /\ pos + got <= Len(stream)
        BY <1>3, <2>4 DEF Reads
      <4>2. got \in Nat /\ pos \in Nat /\ Len(stream) \in Nat
            /\ writeOffset \in Nat /\ BufSize \in Nat /\ writeOffset <= BufSize
        BY <1>1, <1>2
      <4>3. writeOffset < BufSize => pos = Len(stream)
        BY <2>1
      <4> QED
        BY <4>1, <4>2, <4>3
    <3>2. \A p \in 0 .. w - 1 : Moved[p] = stream[pos - w + p + 1]
      <4>1. SUFFICES ASSUME NEW p \in 0 .. w - 1 PROVE Moved[p] = stream[pos - w + p + 1]
        OBVIOUS
      <4>2. p \in 0 .. BufSize - 1 /\ p < bufSize - curPkt
            /\ curPkt + p \in 0 .. writeOffset - 1
        BY <1>1, <1>2, <3>1
      <4>3. Moved[p] = buffer[curBuf][curPkt + p]
        BY <4>2 DEF Moved
      <4>4. buffer[curBuf][curPkt + p] = stream[Base + (curPkt + p) + 1]
        BY <2>1, <4>2 DEF Window
      <4>5. Base + (curPkt + p) + 1 = pos - w + p + 1
        BY <1>1, <1>2, <2>1, <3>1
      <4> QED
        BY <4>3, <4>4, <4>5
    <3>3. Window' /\ Base' = pos - w
      <4>1. w <= pos
        BY <1>1, <1>2, <2>1, <3>1
      <4> QED
        BY <1>1, <1>2, <3>2, <4>1, ReadWindow
    <3>4. Base' = Base + curPkt
      <4>1. pos - w = Base + curPkt
        BY <1>1, <1>2, <2>1, <3>1
      <4> QED
        BY <3>3, <4>1
    <3>5. (writeOffset < BufSize => pos = Len(stream))' /\ curPkt' < writeOffset'
      <4>1. writeOffset' = w + got /\ w + got > 0 /\ pos' = pos + got /\ stream' = stream
            /\ (w + got < BufSize => pos + got = Len(stream))
        BY <1>1, <1>2, <1>3, <3>1 DEF Reads
      <4> QED
        BY <1>5, <4>1
    <3>6. k + 1 < PacketCount => Base' + readOffset' < Begin(k + 2)
      <4>1. SUFFICES ASSUME k + 1 < PacketCount PROVE Base' + readOffset' < Begin(k + 2)
        OBVIOUS
      <4>2. k + 2 = (k + 1) + 1
        OBVIOUS
      <4>3. Base + Searched < Begin((k + 1) + 1)
        <5>1. /\ Begin((k + 1) + 1) \in Nat /\ Base + readOffset < Begin((k + 1) + 1)
              /\ writeOffset < Begin((k + 1) + 1) - Base - 1 + HdrSize
          BY <2>2, <4>1
        <5>2. Base \in Nat /\ readOffset \in Nat /\ HdrSize \in Nat /\ BufSize \in Nat
              /\ writeOffset = BufSize /\ bufSize = BufSize
          BY <1>1, <2>1, <3>1
        <5> QED
          BY <5>1, <5>2 DEF Searched
      <4>4. Searched \in Nat
        BY <1>1 DEF Searched
      <4> QED
        BY <1>1, <1>5, <2>1, <3>4, <4>2, <4>3, <4>4
    <3>7. Base' + curPkt' + 1 = Begin(k + 1) /\ curTS' = Stamp(k + 1)
      BY <1>1, <1>5, <2>1, <3>4
    <3>8. Tells(stream, ssrc)'
      BY <1>3, <1>5, <2>1 DEF Reads
    <3>9. InStep(k)'
      BY <1>4, <2>1, <3>3, <3>5, <3>6, <3>7, <3>8 DEF InStep
    <3> QED
      BY <1>5, <2>4, <3>9 DEF Searching
  <2> QED
    BY <2>3, <2>4
<1> QED
  BY <1>6, <1>7 DEF Searching

-----------------------------------------------------------------------------
(* The sender.                                                              *)

\* Time stamps are numbers.
LEMMA StampType ==
  ASSUME Recorded, NEW n \in 1 .. PacketCount
  PROVE  Stamp(n) \in Int
<1>1. Begin(n) \in 1 .. Len(stream)
  BY PacketBegins
<1>2. stream[Begin(n)] \in Cell
  BY <1>1 DEF Recorded
<1> QED
  BY <1>2 DEF Stamp, Cell

\* The media time is well defined: there is a function that adds the steps up.
LEMMA MediaTimeSteps ==
  ASSUME Recorded, NEW n \in 1 .. PacketCount
  PROVE  /\ MediaTime[n] = IF n = 1 THEN 0
                           ELSE MediaTime[n - 1] + ((Stamp(n) - Stamp(n - 1)) % Word)
         /\ n # 1 => (Stamp(n) - Stamp(n - 1)) % Word \in Nat
<1> DEFINE D == 1 .. PacketCount
           step(g, m) == IF m = 1 THEN 0 ELSE g[m - 1] + ((Stamp(m) - Stamp(m - 1)) % Word)
           Upto(k) == \E g \in [D -> Nat] : \A m \in D : m <= k => g[m] = step(g, m)
           S == {k \in Nat : ~Upto(k)}
<1>1. PacketCount \in Nat
  BY LastPacket
<1>2. \A m \in D : m # 1 => (Stamp(m) - Stamp(m - 1)) % Word \in Nat
  <2>1. SUFFICES ASSUME NEW m \in D, m # 1 PROVE (Stamp(m) - Stamp(m - 1)) % Word \in Nat
    OBVIOUS
  <2>2. m \in 1 .. PacketCount /\ m - 1 \in 1 .. PacketCount
    BY <1>1, <2>1
  <2>3. Stamp(m) \in Int /\ Stamp(m - 1) \in Int
    BY <2>2, StampType
  <2> DEFINE d == Stamp(m) - Stamp(m - 1)
  <2>4. d \in Int /\ Word \in Nat \ {0}
    BY <2>3, RtpParserAssumption
  <2> HIDE DEF d
  <2>5. d % Word \in Nat
    BY <2>4, ModRange
  <2> QED
    BY <2>5 DEF d
<1>3. Upto(0)
  <2>1. [m \in D |-> 0] \in [D -> Nat]
    OBVIOUS
  <2>2. \A m \in D : ~(m <= 0)
    OBVIOUS
  <2> QED
    BY <2>1, <2>2
<1>4. ASSUME NEW k \in Nat, Upto(k) PROVE Upto(k + 1)
  <2>1. PICK g \in [D -> Nat] : \A m \in D : m <= k => g[m] = step(g, m)
    BY <1>4
  <2> DEFINE h == [m \in D |-> IF m <= k THEN g[m] ELSE step(g, m)]
  <2>2. \A m \in D : m # 1 => m - 1 \in D
    BY <1>1
  <2>3. h \in [D -> Nat]
    <3>1. \A m \in D : step(g, m) \in Nat
      BY <1>2, <2>2
    <3> HIDE DEF step
    <3> QED
      BY <3>1
  <2>4. \A m \in D : m <= k => h[m] = g[m]
    BY DEF h
  <2>5. ASSUME NEW m \in D, m <= k + 1 PROVE h[m] = step(h, m)
    <3>1. h[m] = step(g, m)
      <4> HIDE DEF step
      <4> QED
        BY <2>1
    <3>2. m # 1 => h[m - 1] = g[m - 1]
      <4>1. m # 1 => m - 1 \in D /\ m - 1 <= k
        BY <2>2, <2>5
      <4> QED
        BY <2>4, <4>1
    <3> HIDE DEF h
    <3> QED
      BY <3>1, <3>2
  <2> HIDE DEF h, step
  <2> QED
    BY <2>3, <2>5
<1>5. S = {}
  <2>1. SUFFICES ASSUME S # {} PROVE FALSE
    OBVIOUS
  <2> DEFINE k == Least(S)
  <2>2. k \in Nat /\ ~Upto(k) /\ \A y \in S : k <= y
    <3>1. S \in SUBSET Nat
      OBVIOUS
    <3>2. k \in S /\ \A y \in S : k <= y
      <4> HIDE DEF S
      <4> QED
        BY <2>1, <3>1, LeastInSet
    <3> HIDE DEF k
    <3> QED
      BY <3>2
  <2> HIDE DEF k, Upto
  <2>3. k # 0
    BY <1>3, <2>2
  <2>4. k - 1 \in Nat /\ (k - 1) + 1 = k
    BY <2>2, <2>3
  <2>5. Upto(k - 1)
    <3>1. ~(k - 1 \in S)
      BY <2>2, <2>4
    <3> QED
      BY <2>4, <3>1
  <2> QED
    BY <1>4, <2>2, <2>4, <2>5
<1>6. Upto(PacketCount)
  <2> HIDE DEF Upto
  <2> QED
    BY <1>1, <1>5
<1>7. \E g : g = [m \in D |-> step(g, m)]
  <2>1. PICK g \in [D -> Nat] : \A m \in D : m <= PacketCount => g[m] = step(g, m)
    BY <1>6
  <2>2. \A m \in D : g[m] = step(g, m)
    <3>1. \A m \in D : m <= PacketCount
      BY <1>1
    <3> HIDE DEF step
    <3> QED
      BY <2>1, <3>1
  <2>3. g = [m \in D |-> step(g, m)]
    <3> HIDE DEF step
    <3> QED
      BY <2>2
  <2> QED
    BY <2>3
<1>8. MediaTime = CHOOSE g : g = [m \in D |-> step(g, m)]
  BY Zenon DEF MediaTime
<1>9. MediaTime = [m \in D |-> step(MediaTime, m)]
  <2> HIDE DEF D, step
  <2> QED
    BY <1>7, <1>8, Zenon
<1>10. MediaTime[n] = step(MediaTime, n)
  <2> HIDE DEF step
  <2> QED
    BY <1>9
<1> QED
  BY <1>2, <1>10

\* Media times are numbers, and never fall.
LEMMA MediaTimeGrows ==
  ASSUME Recorded
  PROVE  /\ \A n \in 1 .. PacketCount : MediaTime[n] \in Nat
         /\ \A n \in 1 .. PacketCount - 1 : MediaTime[n] <= MediaTime[n + 1]
<1> DEFINE D == 1 .. PacketCount
           S == {n \in D : ~(MediaTime[n] \in Nat)}
<1>1. PacketCount \in Nat
  BY LastPacket
<1>2. ASSUME S # {} PROVE FALSE
  <2> DEFINE n == Least(S)
  <2>1. n \in S /\ \A y \in S : n <= y
    <3>1. S \in SUBSET Nat
      OBVIOUS
    <3> HIDE DEF S
    <3> QED
      BY <1>2, <3>1, LeastInSet
  <2> HIDE DEF n
  <2>2. n \in D /\ ~(MediaTime[n] \in Nat)
    BY <2>1
  <2>3. n # 1
    BY <2>2, MediaTimeSteps
  <2>4. n - 1 \in D /\ MediaTime[n - 1] \in Nat
    BY <1>1, <2>1, <2>2, <2>3
  <2>5. /\ MediaTime[n] = MediaTime[n - 1] + ((Stamp(n) - Stamp(n - 1)) % Word)
        /\ (Stamp(n) - Stamp(n - 1)) % Word \in Nat
    BY <2>2, <2>3, MediaTimeSteps
  <2> QED
    BY <2>2, <2>4, <2>5
<1>3. \A n \in D : MediaTime[n] \in Nat
  BY <1>2
<1>4. ASSUME NEW n \in 1 .. PacketCount - 1 PROVE MediaTime[n] <= MediaTime[n + 1]
  <2>1. n \in D /\ n + 1 \in D /\ n + 1 # 1 /\ (n + 1) - 1 = n
    BY <1>1
  <2>2. /\ MediaTime[n + 1] = MediaTime[(n + 1) - 1] + ((Stamp(n + 1) - Stamp((n + 1) - 1)) % Word)
        /\ (Stamp(n + 1) - Stamp((n + 1) - 1)) % Word \in Nat
    BY <2>1, MediaTimeSteps
  <2> QED
    BY <1>3, <2>1, <2>2
<1> QED
  BY <1>3, <1>4

\* A quotient does not fall when the dividend grows.
LEMMA DivGrows ==
  ASSUME NEW a \in Int, NEW b \in Int, a <= b, NEW d \in Nat \ {0}
  PROVE  a \div d <= b \div d /\ a \div d \in Int /\ b \div d \in Int
<1>1. /\ a \div d \in Int /\ b \div d \in Int /\ a % d \in 0 .. d - 1 /\ b % d \in 0 .. d - 1
      /\ a = d * (a \div d) + (a % d) /\ b = d * (b \div d) + (b % d)
  OBVIOUS
<1> DEFINE x == a \div d
           y == b \div d
<1>2. x \in Int /\ y \in Int /\ d * x < d * y + d
  BY <1>1
<1> HIDE DEF x, y
<1>3. ASSUME y < x PROVE FALSE
  <2>1. PICK k \in Nat : x = y + 1 + k
    BY <1>2, <1>3
  <2>2. d * x = d * y + d + d * k /\ d * k >= 0
    BY <1>2, <2>1
  <2> QED
    BY <1>2, <2>2
<1> QED
  BY <1>2, <1>3 DEF x, y

\* The packets whose time was told, and those the parser has returned
Paced    == Len(sent) + (IF pkt = NULL THEN 0 ELSE 1)
Pending  == pkt # NULL \/ (tpc = "parse" /\ ppc = "idle")
Reported == Len(sent) + (IF Pending THEN 1 ELSE 0)

\* The inductive invariant of what is sent and when, in a clean stream: the thread, its parser and the stream
\* are in step, whichever of them has moved last.
InvStep ==
  /\ Recorded
  /\ ppc \in {"first", "scan"} => tpc = "parse"
  /\ tpc = "parse" /\ ppc = "idle" => started /\ ret # NULL
  /\ eof => ppc \in {"first", "done"}
  /\ ppc = "idle" /\ ~started => pos = 0 /\ Len(sent) = 0 /\ pkt = NULL
  /\ ppc = "first" => Len(sent) = 0 /\ pkt = NULL /\ FirstRead
  /\ ppc = "done" => /\ tpc \in {"parse", "over"} /\ pkt = NULL /\ ret = NULL
                     /\ ~readFailed /\ Fits => Len(sent) >= PacketCount - 1
  /\ started /\ ~eof => Searching(Reported)
  /\ Pending => Told(Reported)

InvTime ==
  /\ Paced = 0 => mediaTime = 0
  /\ Paced \in 1 .. PacketCount - 1 => mediaTime = MediaTime[Paced + 1] - FirstGap
  /\ tpc = "send" => now >= mediaTime \div TicksPerMS

TInv == SInv /\ InvStep /\ InvTime /\ InOrder

\* What is said of the parser stays true as long as it rests.
LEMMA ParserKept ==
  ASSUME UNCHANGED parserVars
  PROVE  /\ Recorded' <=> Recorded
         /\ PacketCount' = PacketCount /\ MediaTime' = MediaTime
         /\ StartsClean' <=> StartsClean
         /\ Fits' <=> Fits
         /\ FirstRead' <=> FirstRead
         /\ \A k : /\ Packet(k)' = Packet(k)
                   /\ Searching(k)' <=> Searching(k)
                   /\ Told(k)' <=> Told(k)
<1> USE DEF parserVars
<1>1. /\ Recorded' <=> Recorded
      /\ PacketCount' = PacketCount /\ MediaTime' = MediaTime
      /\ StartsClean' <=> StartsClean
      /\ Fits' <=> Fits
      /\ \A n : Begin(n)' = Begin(n) /\ Packet(n)' = Packet(n) /\ Stamp(n)' = Stamp(n)
  BY StreamKept
<1>2. (Window' <=> Window) /\ Base' = Base
  BY DEF Window, Base
<1>3. FirstRead' <=> FirstRead
  BY <1>2 DEF FirstRead
<1>4. \A k : InStep(k)' <=> InStep(k)
  BY <1>1, <1>2 DEF InStep
<1>5. \A k : Searching(k)' <=> Searching(k)
  BY <1>1, <1>4 DEF Searching
<1>6. Bytes(ret)' = Bytes(ret)
  BY DEF Bytes
<1>7. \A k : Told(k)' <=> Told(k)
  BY <1>1, <1>6 DEF Told
<1> QED
  BY <1>1, <1>3, <1>5, <1>7

\* The task is built.
LEMMA InitStep == Init /\ StartsClean => InvStep /\ InvTime /\ InOrder
<1> SUFFICES ASSUME Init, StartsClean PROVE InvStep /\ InvTime /\ InOrder
  OBVIOUS
<1>1. /\ ppc = "idle" /\ ret = NULL /\ pkt = NULL /\ tpc = "none" /\ ~eof /\ ~started /\ pos = 0
      /\ Len(sent) = 0 /\ mediaTime = 0
  BY DEF Init, ParserInit
<1>2. Recorded
  BY RtpParserAssumption, PacketStreams DEF Init, ParserInit, Recorded
<1>3. Paced = 0
  BY <1>1 DEF Paced
<1>4. InOrder
  BY <1>1 DEF InOrder
<1> QED
  BY <1>1, <1>2, <1>3, <1>4 DEF InvStep, InvTime, Pending

\* A step in which neither the parser moves nor a packet is told, sent or taken
LEMMA RestStep ==
  ASSUME TInv, UNCHANGED <<parserVars, pkt, mediaTime, sent>>, now' \in Nat, now' >= now,
         tpc' = tpc \/ (tpc \notin {"parse", "over"} /\ tpc' # "parse"),
         tpc' = "send" => tpc = "send" \/ now >= mediaTime \div TicksPerMS
  PROVE  InvStep' /\ InvTime' /\ InOrder'
<1>1. /\ Recorded' <=> Recorded
      /\ PacketCount' = PacketCount /\ MediaTime' = MediaTime
      /\ StartsClean' <=> StartsClean
      /\ Fits' <=> Fits
      /\ FirstRead' <=> FirstRead
      /\ \A k : /\ Packet(k)' = Packet(k)
                /\ Searching(k)' <=> Searching(k)
                /\ Told(k)' <=> Told(k)
  BY ParserKept
<1>2. /\ ppc' = ppc /\ started' = started /\ eof' = eof /\ ret' = ret /\ pos' = pos
      /\ pkt' = pkt /\ readFailed' = readFailed /\ sent' = sent /\ mediaTime' = mediaTime
  BY DEF parserVars
<1>3. (Pending' <=> Pending) /\ Paced' = Paced
  BY <1>2 DEF Pending, Paced
<1>4. Reported' = Reported
  BY <1>2, <1>3 DEF Reported
<1>5. InvStep'
  BY <1>1, <1>2, <1>3, <1>4 DEF TInv, InvStep
<1>6. InvTime'
  <2>1. tpc' = "send" => now' >= mediaTime' \div TicksPerMS
    <3>1. SUFFICES ASSUME tpc' = "send" PROVE now' >= mediaTime \div TicksPerMS
      BY <1>2
    <3>2. now >= mediaTime \div TicksPerMS
      BY <3>1 DEF TInv, InvTime
    <3>3. mediaTime \div TicksPerMS \in Int /\ now \in Int
      BY RtpSenderAssumption DEF TInv, SInv, TypeOK
    <3> QED
      BY <3>2, <3>3
  <2> QED
    BY <1>1, <1>2, <1>3, <2>1 DEF TInv, InvTime, FirstGap
<1>7. InOrder'
  BY <1>1, <1>2 DEF TInv, InOrder
<1> QED
  BY <1>5, <1>6, <1>7

\* The loop's test: the parser is called for the first time, and reads; or again.
LEMMA TopStep == TInv /\ Top => InvStep' /\ InvTime' /\ InOrder'
<1> SUFFICES ASSUME TInv, Top PROVE InvStep' /\ InvTime' /\ InOrder'
  OBVIOUS
<1>1. /\ tpc = "top" /\ UNCHANGED <<pkt, mediaTime, now, sent>> /\ now \in Nat
  BY DEF Top, TInv, SInv, TypeOK
<1>2. CASE UNCHANGED parserVars /\ tpc' \in {"over", "pace"}
  BY <1>1, <1>2, RestStep
<1>3. CASE pkt = NULL /\ tpc' = "parse" /\ GetPacket
  <2>1. ppc = "idle" /\ ~eof /\ PInv
    BY <1>3 DEF GetPacket, TInv, SInv, PInv
  <2>2. ~Pending /\ Reported = Len(sent) /\ Paced = 0 + Len(sent)
        /\ (ppc' # "idle" => ~Pending' /\ Reported' = Len(sent)) /\ Paced' = Paced
    <3>1. Len(sent) \in Nat
      BY DEF TInv, SInv, TypeOK
    <3> QED
      BY <1>1, <1>3, <3>1 DEF Pending, Reported, Paced
  <2>3. CASE started
    <3>1. ppc' = "scan" /\ UNCHANGED <<fileVars, bufVars, started, ssrc, readOffset,
                                         curPkt, curTS, ret>>
      BY <1>3, <2>3 DEF GetPacket
    <3>2. PacketCount' = PacketCount /\ MediaTime' = MediaTime /\ (Recorded' <=> Recorded)
          /\ (StartsClean' <=> StartsClean)
          /\ \A n : Begin(n)' = Begin(n) /\ Packet(n)' = Packet(n) /\ Stamp(n)' = Stamp(n)
      BY <3>1, StreamKept DEF fileVars
    <3>3. (Window' <=> Window) /\ Base' = Base
      BY <3>1 DEF Window, Base, fileVars, bufVars
    <3>4. \A k : InStep(k)' <=> InStep(k)
      BY <3>1, <3>2, <3>3 DEF InStep, fileVars, bufVars
    <3>5. Searching(Reported)'
      <4>1. Searching(Len(sent))
        BY <2>1, <2>2, <2>3 DEF TInv, InvStep
      <4>2. Searching(Len(sent))'
        BY <1>1, <3>2, <3>4, <4>1 DEF Searching
      <4> QED
        BY <1>1, <2>2, <3>1, <4>2
    <3>6. InvStep'
      BY <1>3, <2>1, <2>2, <2>3, <3>1, <3>2, <3>5 DEF TInv, InvStep, bufVars
    <3>7. InvTime'
      BY <1>1, <1>3, <2>2, <3>2 DEF TInv, InvTime, FirstGap
    <3>8. InOrder'
      BY <1>1, <3>2 DEF TInv, InOrder
    <3> QED
      BY <3>6, <3>7, <3>8
  <2>4. CASE ~started
    <3>1. ProduceData(curBuf, buffer[curBuf], 0) /\ ppc' = "first" /\ started' = started
          /\ pos = 0 /\ curBuf \in {0, 1} /\ 0 \in 0 .. BufSize /\ BufSize # 0 /\ Len(sent) = 0
      BY <1>3, <2>1, <2>4, RtpParserAssumption DEF GetPacket, TInv, InvStep, PInv, InBuffer
    <3>2. PICK got \in 0 .. BufSize - 0 : Reads(curBuf, buffer[curBuf], 0, got)
      BY <2>1, <3>1, ReadAhead
    <3>3. Window' /\ Base' = 0
      <4>1. 0 <= pos /\ pos - 0 = 0 /\ \A p \in 0 .. 0 - 1 : FALSE
        BY <3>1
      <4> QED
        BY <2>1, <3>1, <4>1, ReadWindow
    <3>4. /\ stream' = stream /\ pos' = pos + got /\ writeOffset' = 0 + got
          /\ eof' <=> got = 0
          /\ got = 0 => readFailed' \/ 0 = BufSize \/ pos = Len(stream)
          /\ got > 0 /\ 0 + got < BufSize => pos + got = Len(stream)
      BY <3>2 DEF Reads
    <3>5. FirstRead'
      BY <3>1, <3>2, <3>3, <3>4, RtpParserAssumption DEF FirstRead
    <3>6. PacketCount' = PacketCount /\ MediaTime' = MediaTime /\ (Recorded' <=> Recorded)
          /\ (StartsClean' <=> StartsClean)
          /\ \A n : Packet(n)' = Packet(n)
      BY <3>4, StreamKept
    <3>7. InvStep'
      BY <1>1, <1>3, <2>2, <2>4, <3>1, <3>5, <3>6 DEF TInv, InvStep
    <3>8. InvTime'
      BY <1>1, <1>3, <2>2, <3>6 DEF TInv, InvTime, FirstGap
    <3>9. InOrder'
      BY <1>1, <3>6 DEF TInv, InOrder
    <3> QED
      BY <3>7, <3>8, <3>9
  <2> QED
    BY <2>3, <2>4
<1> QED
  BY <1>2, <1>3 DEF Top

\* The parser's own steps
LEMMA ParsingStep == TInv /\ Parsing => InvStep' /\ InvTime' /\ InOrder'
<1> SUFFICES ASSUME TInv, Parsing PROVE InvStep' /\ InvTime' /\ InOrder'
  OBVIOUS
<1>1. /\ tpc = "parse" /\ pkt = NULL /\ UNCHANGED <<tpc, pkt, mediaTime, now, sent>>
      /\ PInv /\ Recorded /\ Len(sent) \in Nat
  BY DEF Parsing, TInv, SInv, InvStep, TypeOK
<1>2. stream' = stream
  BY DEF Parsing, Parse, First, Match, SwitchBuffer, ProduceData, fileVars
<1>3. /\ PacketCount' = PacketCount /\ MediaTime' = MediaTime /\ Recorded' /\ (Fits' <=> Fits)
      /\ (StartsClean' <=> StartsClean)
      /\ PacketCount \in Nat
      /\ \A n : Packet(n)' = Packet(n)
  BY <1>1, <1>2, StreamKept, LastPacket
<1>4. Paced' = Paced
  BY <1>1 DEF Paced
<1>5. InvTime'
  BY <1>1, <1>3, <1>4 DEF TInv, InvTime, FirstGap
<1>6. InOrder'
  BY <1>1, <1>3 DEF TInv, InOrder
<1>7. /\ ppc' = "idle" => Pending' /\ Reported' = Len(sent) + 1
      /\ ppc' # "idle" => ~Pending' /\ Reported' = Len(sent)
      /\ ppc # "idle" => Reported = Len(sent)
  BY <1>1 DEF Pending, Reported
<1>8. CASE First
  <2>1. ppc = "first" /\ Len(sent) = 0 /\ FirstRead
    BY <1>8 DEF First, TInv, InvStep
  <2>2. /\ ppc' = "idle" => started' /\ ret' # NULL /\ Searching(1)' /\ Told(1)'
        /\ ppc' = "done" => (~readFailed /\ Fits => PacketCount <= 1)
        /\ ppc' \in {"idle", "done"}
    BY <1>1, <1>8, <2>1, FirstFinds
  <2>3. readFailed' = readFailed
    BY <1>8 DEF First, fileVars
  <2>4. PInv'
    BY <1>1, <1>8, FirstInv
  <2>5. CASE ppc' = "idle"
    <3>1. Reported' = 1 /\ Pending' /\ ~eof'
      BY <1>7, <2>1, <2>4, <2>5 DEF PInv
    <3> QED
      BY <1>1, <1>3, <1>5, <1>6, <2>2, <2>5, <3>1 DEF InvStep
  <2>6. CASE ppc' = "done"
    <3>1. ret' = NULL /\ ~Pending' /\ eof'
      BY <1>7, <1>8, <2>6 DEF First, Left, Report
    <3>2. ~readFailed' /\ Fits' => Len(sent)' >= PacketCount' - 1
      BY <1>1, <1>3, <2>1, <2>2, <2>3, <2>6
    <3> QED
      BY <1>1, <1>3, <1>5, <1>6, <2>6, <3>1, <3>2 DEF InvStep
  <2> QED
    BY <2>2, <2>5, <2>6
<1>9. CASE Match
  <2>1. ppc = "scan" /\ started /\ ~eof
    BY <1>1, <1>9 DEF Match, PInv, InBuffer
  <2>2. Searching(Len(sent))
    BY <1>7, <2>1 DEF TInv, InvStep
  <2>3. ppc' = "idle" /\ ret' # NULL /\ Searching(Len(sent) + 1)' /\ Told(Len(sent) + 1)'
    <3> DEFINE k == Len(sent)
    <3>1. k \in Nat /\ Searching(k)
      BY <1>1, <2>2
    <3>2. k' = k
      BY <1>1
    <3> HIDE DEF k
    <3>3. PICK j \in Nat : j = k
      BY <3>1
    <3>4. ppc' = "idle" /\ ret' # NULL /\ Searching(j + 1)' /\ Told(j + 1)'
      BY <1>1, <1>9, <3>1, <3>3, MatchFinds
    <3> QED
      BY <3>2, <3>3, <3>4 DEF k
  <2>4. started' /\ ~eof'
    BY <1>9, <2>1 DEF Match, bufVars
  <2>5. Searching(Reported)' /\ Told(Reported)'
    BY <1>1, <1>7, <2>3
  <2> QED
    BY <1>1, <1>3, <1>5, <1>6, <2>3, <2>4, <2>5 DEF InvStep
<1>10. CASE SwitchBuffer
  <2>1. ppc = "scan" /\ started /\ ~eof
    BY <1>1, <1>10 DEF SwitchBuffer, PInv, InBuffer
  <2>2. Searching(Len(sent))
    BY <1>7, <2>1 DEF TInv, InvStep
  <2>3. /\ ppc' = IF eof' THEN "done" ELSE "scan"
        /\ ~eof' => Searching(Len(sent))'
        /\ eof' => (~readFailed' /\ Fits => Len(sent) >= PacketCount - 1)
    <3> DEFINE k == Len(sent)
    <3>1. k \in Nat /\ Searching(k)
      BY <1>1, <2>2
    <3>2. k' = k
      BY <1>1
    <3> HIDE DEF k
    <3>3. PICK j \in Nat : j = k
      BY <3>1
    <3>4. /\ ppc' = IF eof' THEN "done" ELSE "scan"
          /\ ~eof' => Searching(j)'
          /\ eof' => (~readFailed' /\ Fits => j >= PacketCount - 1)
      BY <1>1, <1>10, <3>1, <3>3, SwitchFinds
    <3> QED
      BY <3>2, <3>3, <3>4 DEF k
  <2>4. started' = started /\ (eof' => ret' = NULL)
    BY <1>10 DEF SwitchBuffer, Left
  <2>5. ~Pending' /\ Reported' = Len(sent)
    BY <1>7, <2>3
  <2>6. ~eof' => Searching(Reported)'
    BY <1>1, <2>3, <2>5
  <2> QED
    BY <1>1, <1>3, <1>5, <1>6, <2>3, <2>4, <2>5, <2>6 DEF InvStep
<1> QED
  BY <1>8, <1>9, <1>10 DEF Parsing, Parse

\* The parser has returned: the packet's time is that of the one before it and what has
\* passed between the two headers.
LEMMA GotStep == TInv /\ Got => InvStep' /\ InvTime' /\ InOrder'
<1> SUFFICES ASSUME TInv, Got PROVE InvStep' /\ InvTime' /\ InOrder'
  OBVIOUS
<1>1. /\ tpc = "parse" /\ pkt = NULL /\ UNCHANGED <<parserVars, sent, now>>
      /\ Recorded /\ Len(sent) \in Nat
  BY DEF Got, TInv, SInv, InvStep, TypeOK
<1>2. /\ Recorded' <=> Recorded
      /\ PacketCount' = PacketCount /\ MediaTime' = MediaTime
      /\ StartsClean' <=> StartsClean
      /\ Fits' <=> Fits
      /\ FirstRead' <=> FirstRead
      /\ \A k : /\ Packet(k)' = Packet(k)
                /\ Searching(k)' <=> Searching(k)
                /\ Told(k)' <=> Told(k)
  BY <1>1, ParserKept
<1>3. /\ ppc' = ppc /\ started' = started /\ eof' = eof /\ ret' = ret /\ pos' = pos
      /\ readFailed' = readFailed
  BY <1>1 DEF parserVars
<1>4. InOrder'
  BY <1>1, <1>2 DEF TInv, InOrder
<1>5. CASE ret = NULL
  <2>1. ppc = "done" /\ tpc' = "over" /\ pkt' = NULL /\ mediaTime' = mediaTime
    BY <1>1, <1>5 DEF Got, TInv, InvStep
  <2>2. ~Pending' /\ ~Pending /\ Reported' = Reported /\ Paced' = Paced
    BY <1>1, <1>3, <2>1 DEF Pending, Reported, Paced
  <2>3. InvStep'
    BY <1>1, <1>2, <1>3, <2>1, <2>2 DEF TInv, InvStep
  <2>4. InvTime'
    BY <1>1, <1>2, <2>1, <2>2 DEF TInv, InvTime, FirstGap
  <2> QED
    BY <1>4, <2>3, <2>4
<1>6. CASE ret # NULL
  <2>1. /\ ppc = "idle" /\ tpc' = "pace" /\ pkt' = ret /\ mediaTime' = mediaTime + ret.dTS
    BY <1>1, <1>6 DEF Got, TInv, InvStep
  <2>2. /\ Pending' /\ Pending /\ Reported = Len(sent) + 1 /\ Reported' = Reported
        /\ Paced = Len(sent) /\ Paced' = Len(sent) + 1
    BY <1>1, <1>3, <1>6, <2>1 DEF Pending, Reported, Paced
  <2>3. InvStep'
    BY <1>1, <1>2, <1>3, <1>6, <2>1, <2>2 DEF TInv, InvStep
  <2> DEFINE k == Len(sent) + 1
  <2>4. ASSUME k \in 1 .. PacketCount - 1 PROVE mediaTime' = MediaTime[k + 1] - FirstGap
    <3>1. Told(k)
      BY <2>2 DEF TInv, InvStep
    <3>2. ret.dTS = IF k = 1 THEN 0 ELSE (Stamp(k + 1) - Stamp(k)) % Word
      BY <2>4, <3>1, LastPacket, <1>1 DEF Told
    <3>3. /\ k \in 1 .. PacketCount /\ k + 1 \in 1 .. PacketCount /\ 2 \in 1 .. PacketCount
          /\ k + 1 # 1 /\ (k + 1) - 1 = k
      BY <1>1, <2>4, LastPacket
    <3>4. CASE k = 1
      <4>1. mediaTime' = 0 /\ k + 1 = 2
        BY <1>1, <2>1, <2>2, <3>2, <3>4 DEF TInv, InvTime
      <4>2. MediaTime[2] \in Nat
        BY <1>1, <3>3, MediaTimeGrows
      <4> HIDE DEF k
      <4> QED
        BY <4>1, <4>2 DEF FirstGap
    <3>5. CASE k # 1
      <4>1. Paced \in 1 .. PacketCount - 1 /\ Paced + 1 = k
        BY <1>1, <2>2, <2>4, <3>5, LastPacket
      <4>2. mediaTime = MediaTime[k] - FirstGap
        BY <4>1 DEF TInv, InvTime
      <4> HIDE DEF k
      <4>3. MediaTime[k + 1] = MediaTime[k] + ((Stamp(k + 1) - Stamp(k)) % Word)
            /\ (Stamp(k + 1) - Stamp(k)) % Word \in Nat
        BY <1>1, <3>3, MediaTimeSteps
      <4>4. MediaTime[k] \in Nat /\ FirstGap \in Nat
        BY <1>1, <3>3, MediaTimeGrows DEF FirstGap
      <4> QED
        BY <2>1, <3>2, <3>5, <4>2, <4>3, <4>4
    <3> QED
      BY <3>4, <3>5
  <2>5. InvTime'
    BY <1>1, <1>2, <2>1, <2>2, <2>4 DEF InvTime, FirstGap
  <2> QED
    BY <1>4, <2>3, <2>5
<1> QED
  BY <1>5, <1>6

\* A packet is sent: the one whose turn it is.
LEMMA SendToStep == TInv /\ SendTo => InvStep' /\ InvTime' /\ InOrder'
<1> SUFFICES ASSUME TInv, SendTo PROVE InvStep' /\ InvTime' /\ InOrder'
  OBVIOUS
<1>1. /\ tpc = "send" /\ pkt # NULL /\ pkt = ret /\ UNCHANGED <<parserVars, mediaTime, now>>
      /\ sent \in Seq(Seq(Cell)) /\ Len(sent) \in Nat /\ Recorded
  BY DEF SendTo, TInv, SInv, InvStep, TypeOK
<1>2. /\ Recorded' <=> Recorded
      /\ PacketCount' = PacketCount /\ MediaTime' = MediaTime
      /\ StartsClean' <=> StartsClean
      /\ Fits' <=> Fits
      /\ FirstRead' <=> FirstRead
      /\ \A k : /\ Packet(k)' = Packet(k)
                /\ Searching(k)' <=> Searching(k)
                /\ Told(k)' <=> Told(k)
  BY <1>1, ParserKept
<1>3. /\ ppc' = ppc /\ started' = started /\ eof' = eof /\ ret' = ret /\ pos' = pos
      /\ readFailed' = readFailed
  BY <1>1 DEF parserVars
<1>4. ppc = "idle" /\ started /\ Pending /\ Reported = Len(sent) + 1 /\ Paced = Len(sent) + 1
  <2>1. ppc \in {"idle", "first", "scan", "done"}
    BY DEF TInv, SInv, PInv, InBuffer
  <2> QED
    BY <1>1, <2>1 DEF TInv, InvStep, Pending, Reported, Paced
<1>5. CASE sendFailed' = TRUE /\ tpc' = "over" /\ UNCHANGED <<pkt, sent>>
  BY <1>1, <1>5, RestStep DEF TInv, SInv, TypeOK
<1>6. CASE sent' = Append(sent, Bytes(pkt)) /\ pkt' = NULL /\ tpc' = "top"
  <2>1. /\ Len(sent') = Len(sent) + 1 /\ sent'[Len(sent) + 1] = Bytes(pkt)
        /\ \A n \in 1 .. Len(sent) : sent'[n] = sent[n]
    BY <1>1, <1>6
  <2>2. ~Pending' /\ Reported' = Reported /\ Paced' = Paced
    BY <1>1, <1>4, <1>6, <2>1 DEF Pending, Reported, Paced
  <2>3. InvStep'
    BY <1>1, <1>2, <1>3, <1>4, <1>6, <2>2 DEF TInv, InvStep
  <2>4. InvTime'
    BY <1>1, <1>2, <1>6, <2>2 DEF TInv, InvTime, FirstGap
  <2>5. InOrder'
    <3>1. SUFFICES ASSUME NEW n \in 1 .. Len(sent'), n < PacketCount
                   PROVE  sent'[n] = Packet(n)
      BY <1>2, Zenon DEF InOrder
    <3>2. CASE n = Len(sent) + 1
      <4>1. Told(Len(sent) + 1)
        BY <1>4 DEF TInv, InvStep
      <4> QED
        BY <1>1, <2>1, <3>1, <3>2, <4>1 DEF Told
    <3>3. CASE n \in 1 .. Len(sent)
      BY <1>1, <2>1, <3>1, <3>3 DEF TInv, InOrder, Recorded
    <3> QED
      BY <1>1, <2>1, <3>2, <3>3
  <2> QED
    BY <2>3, <2>4, <2>5
<1> QED
  BY <1>5, <1>6 DEF SendTo

\* The paced wait, the owner and the clock leave the parser, the packet and its time alone.
LEMMA OtherStep ==
  TInv /\ (Pace \/ Start \/ Watched \/ Leave \/ Stop \/ Join \/ Close \/ Tick \/ UNCHANGED vars)
    => InvStep' /\ InvTime' /\ InOrder'
<1> SUFFICES ASSUME TInv,
                    Pace \/ Start \/ Watched \/ Leave \/ Stop \/ Join \/ Close \/ Tick
                         \/ UNCHANGED vars
             PROVE  InvStep' /\ InvTime' /\ InOrder'
  OBVIOUS
<1>1. now \in Nat /\ mediaTime \div TicksPerMS \in Int /\ (opc = "ready" => tpc = "none")
  BY RtpSenderAssumption DEF TInv, SInv, TypeOK
<1>2. UNCHANGED <<parserVars, pkt, mediaTime, sent>>
  BY DEF Pace, Start, Watched, Leave, Stop, Join, Close, Tick, OwnerStep, vars, parserVars
<1>3. now' \in Nat /\ now' >= now
  BY <1>1 DEF Pace, Start, Watched, Leave, Stop, Join, Close, Tick, OwnerStep, vars
<1>4. tpc' = tpc \/ (tpc \notin {"parse", "over"} /\ tpc' # "parse")
  BY <1>1 DEF Pace, Start, Watched, Leave, Stop, Join, Close, Tick, vars
<1>5. tpc' = "send" => tpc = "send" \/ now >= mediaTime \div TicksPerMS
  BY <1>1 DEF Pace, Start, Watched, Leave, Stop, Join, Close, Tick, vars
<1> QED
  BY <1>2, <1>3, <1>4, <1>5, RestStep

\* The lemmas above make the invariant of a clean stream inductive; the file does not change.
CleanInv == SInv /\ (StartsClean => TInv)

LEMMA SenderStep == Spec => []CleanInv
<1>1. Init => CleanInv
  BY SenderInitInv, InitStep DEF TInv, CleanInv
<1>2. CleanInv /\ [Next]_vars => CleanInv'
  <2>1. SInv /\ [Next]_vars => SInv'
    BY TopInv, ParsingInv, GotInv, PaceInv, SendToInv, OwnerInv, TickInv, StutterInv DEF Next
  <2>2. TInv /\ [Next]_vars => InvStep' /\ InvTime' /\ InOrder'
    BY TopStep, ParsingStep, GotStep, SendToStep, OtherStep DEF Next
  <2>3. [Next]_vars => stream' = stream
    BY DEF Next, Top, GetPacket, Parsing, Parse, First, Match, SwitchBuffer, ProduceData, Got,
           Pace, SendTo, Start, Watched, Leave, Stop, Join, Close, OwnerStep, Tick,
           vars, parserVars, fileVars
  <2>4. [Next]_vars => (StartsClean' <=> StartsClean)
    BY <2>3, StreamKept
  <2> QED
    BY <2>1, <2>2, <2>4 DEF TInv, CleanInv
<1> QED
  BY <1>1, <1>2, PTL DEF Spec

\* Every packet but the last is sent whole and in its turn, for any stream of packets that
\* starts clean, size of the buffers and content of their memory (RTPparser,
\* rtpStreamTask::ThreadMain).
THEOREM SendsInOrder == Spec => []InOrder
<1>1. CleanInv => InOrder
  BY DEF CleanInv, TInv, InOrder
<1> QED
  BY SenderStep, <1>1, PTL

\* Packets that fit the buffer are not missed, at the end of a buffer or of the file, if
\* nothing in front of the first has the version of a header: what else the stream holds, the
\* parser is not misled by (RTPparser::get1stPacket, getPacket, switchBuffer).
THEOREM SendsAll == Spec => []Complete
<1>1. CleanInv => Complete
  BY DEF CleanInv, TInv, InvStep, Complete
<1> QED
  BY SenderStep, <1>1, PTL

\* A step that sends: the clock has reached the packet's time, less the first gap.
LEMMA SendStep ==
  ASSUME TInv, Next, sent' # sent
  PROVE  /\ Len(sent) \in Nat /\ Len(sent') = Len(sent) + 1
         /\ Len(sent) + 1 < PacketCount =>
              now >= (MediaTime[Len(sent) + 1] - FirstGap) \div TicksPerMS
<1>1. SendTo
  BY DEF Next, Top, Parsing, Got, Pace, Start, Watched, Leave, Stop, Join, Close, OwnerStep, Tick
<1>2. sent \in Seq(Seq(Cell)) /\ Len(sent) \in Nat /\ Recorded /\ now \in Int
  BY DEF TInv, SInv, TypeOK, InvStep
<1>3. PacketCount \in Nat
  BY <1>2, LastPacket
<1>4. sent' = Append(sent, Bytes(pkt)) /\ tpc = "send"
  BY <1>1 DEF SendTo
<1>5. pkt # NULL
  BY <1>4 DEF TInv, SInv
<1>6. Paced = Len(sent) + 1
  BY <1>5 DEF Paced
<1>7. now >= mediaTime \div TicksPerMS
  BY <1>4 DEF TInv, InvTime
<1>8. ASSUME Len(sent) + 1 < PacketCount
      PROVE  now >= (MediaTime[Len(sent) + 1] - FirstGap) \div TicksPerMS
  <2> DEFINE n == Len(sent) + 1
  <2>1. /\ n \in 1 .. PacketCount - 1 /\ n \in 1 .. PacketCount
        /\ n + 1 \in 1 .. PacketCount /\ 2 \in 1 .. PacketCount
    BY <1>2, <1>3, <1>8
  <2>2. mediaTime = MediaTime[n + 1] - FirstGap
    BY <1>6, <2>1 DEF TInv, InvTime
  <2> HIDE DEF n
  <2>3. /\ MediaTime[n] \in Nat /\ MediaTime[n + 1] \in Nat /\ FirstGap \in Nat
        /\ MediaTime[n] <= MediaTime[n + 1]
    BY <1>2, <2>1, MediaTimeGrows DEF FirstGap
  <2>4. /\ MediaTime[n] - FirstGap \in Int /\ mediaTime \in Int
        /\ MediaTime[n] - FirstGap <= mediaTime
    BY <2>2, <2>3
  <2>5. /\ (MediaTime[n] - FirstGap) \div TicksPerMS <= mediaTime \div TicksPerMS
        /\ (MediaTime[n] - FirstGap) \div TicksPerMS \in Int /\ mediaTime \div TicksPerMS \in Int
    BY <2>4, DivGrows, RtpSenderAssumption
  <2>6. now >= (MediaTime[n] - FirstGap) \div TicksPerMS
    BY <1>2, <1>7, <2>5
  <2> QED
    BY <2>6 DEF n
<1> QED
  BY <1>2, <1>4, <1>8

\* Although the thread loses the difference between the first two packets, no packet is early
\* by more than that, whatever the time stamps are and however they wrap
\* (RTPparser::get1stPacket, rtpStreamTask::ThreadMain).
THEOREM SendsPaced == Spec => EarlyByFirstGap
<1> DEFINE A == StartsClean =>
                  \A n \in Len(sent) + 1 .. Len(sent') :
                    n < PacketCount => now >= (MediaTime[n] - FirstGap) \div TicksPerMS
<1>1. ASSUME CleanInv, Next PROVE A \/ UNCHANGED vars
  <2>1. SUFFICES ASSUME StartsClean PROVE A
    OBVIOUS
  <2>2. TInv /\ Len(sent) \in Nat
    BY <1>1, <2>1 DEF CleanInv, SInv, TypeOK
  <2>3. CASE sent' = sent
    BY <2>2, <2>3
  <2>4. CASE sent' # sent
    <3>1. /\ Len(sent') = Len(sent) + 1
          /\ Len(sent) + 1 < PacketCount =>
               now >= (MediaTime[Len(sent) + 1] - FirstGap) \div TicksPerMS
      BY <1>1, <2>2, <2>4, SendStep
    <3>2. \A n \in Len(sent) + 1 .. Len(sent') : n = Len(sent) + 1
      BY <2>2, <3>1
    <3> QED
      BY <3>1, <3>2
  <2> QED
    BY <2>3, <2>4
<1>2. Spec => [][A]_vars
  <2> HIDE DEF A
  <2>1. CleanInv /\ [Next]_vars => [A]_vars
    BY <1>1
  <2> QED
    BY SenderStep, <2>1, PTL DEF Spec
<1> QED
  BY <1>2 DEF EarlyByFirstGap
=============================================================================
