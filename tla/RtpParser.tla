----------------------------- MODULE RtpParser ------------------------------
(***************************************************************************)
(* class RTPparser (rtp.cpp): finds the packets in a byte stream that does *)
(* not tell where they begin.  A packet ends where the next header is; it  *)
(* is reported where it lies, in one of two buffers.  When no header is    *)
(* left in the buffer, the unfinished packet moves to the front of the     *)
(* other buffer and the rest of that one is read anew.                     *)
(*                                                                         *)
(* Bytes are cells.  What the parser can see of a cell is what a header    *)
(* that began there would tell, whether its version is 2 and its time      *)
(* stamp, and what one that ended there would, its source (ssrc).  Any     *)
(* cell may have any of these.  pkt and at, its packet (0: none) and its   *)
(* place in it, are for the properties.  Of the HdrSize cells of a header  *)
(* the first stands for version, sequence number and time stamp, the last  *)
(* for the source.                                                         *)
(*                                                                         *)
(* The stream is a FileStream, whose read returns less than it was asked   *)
(* for at the end of the file only.  The last call is the one that returns *)
(* NULL: rtpStreamTask, the one caller, stops then.                        *)
(***************************************************************************)
EXTENDS Integers, Sequences

CONSTANTS
  BufSize,    (* the size of a buffer: 65536                                 *)
  HdrSize,    (* RTP_HDR_SIZE: 12                                            *)
  Word,       (* time stamps are below it: 2^32                              *)
  Streams,    (* what the file may hold                                      *)
  Memory      (* what new memory may hold                                    *)

Cell == [pkt : Nat, at : Nat, version : BOOLEAN, ts : 0 .. Word - 1, src : Nat]

ASSUME RtpParserAssumption ==
  /\ HdrSize \in Nat /\ HdrSize >= 2
  /\ BufSize \in Nat /\ BufSize >= HdrSize
  /\ Word \in Nat \ {0}
  /\ Streams \subseteq Seq(Cell)
  /\ Memory \subseteq [0 .. BufSize - 1 -> Cell]

VARIABLES
  stream, pos,    (* the file, and how much of it was read                   *)
  readFailed,     (* history: a read has failed                              *)
  buffer, curBuf, (* m_buffer, m_curBuf                                      *)
  eof, bufSize,   (* m_EOF; m_bufSize, which shrinks in the last read        *)
  started,        (* m_1stAttrib.version is not 0                            *)
  ssrc,           (* m_ssrc, of the first header                             *)
  readOffset,     (* m_readOffset: where the search for a header goes on     *)
  writeOffset,    (* m_writeOffset: up to where the buffer is filled         *)
  curPkt, curTS,  (* m_curPktOffset; m_curTS                                 *)
  ppc, ret        (* where getPacket is, and what it returned last           *)

fileVars   == <<stream, pos, readFailed>>
bufVars    == <<buffer, curBuf, eof, bufSize, writeOffset>>
parserVars == <<stream, pos, readFailed, buffer, curBuf, eof, bufSize, started, ssrc,
                readOffset, writeOffset, curPkt, curTS, ppc, ret>>

NULL == [len |-> 0]

Least(S) == CHOOSE x \in S : \A y \in S : x <= y

ParserInit ==
  /\ stream \in Streams /\ pos = 0 /\ readFailed = FALSE
  /\ \E m \in Memory : buffer = [b \in {0, 1} |-> m]
  /\ curBuf = 0 /\ eof = FALSE /\ bufSize = BufSize /\ started = FALSE /\ ssrc = 0
  /\ readOffset = 0 /\ writeOffset = 0
  /\ curPkt = 0 /\ curTS = 0
  /\ ppc = "idle" /\ ret = NULL

\* parseHeader, with getBit as libcommon.h declares it: the two version bits are 2.
IsVersion(p) == buffer[curBuf][p].version

\* The source of a header at p
Ssrc(p) == buffer[curBuf][p + HdrSize - 1].src

\* The bytes at p of the current buffer are a header of the source src.
IsPktMatch(p, src) == IsVersion(p) /\ Ssrc(p) = src

TS(p) == buffer[curBuf][p].ts

-----------------------------------------------------------------------------
\* FileStream::read: all that was asked for, or what is left of the file, or 0 (EOS).
\* A read of no bytes, and one that fails, return -1.
ReadResults(size) ==
  IF size = 0
    THEN {-1}
    ELSE {-1, IF size <= Len(stream) - pos THEN size ELSE Len(stream) - pos}

\* Mutant: a whole buffer is read behind what the buffer holds already.
ProduceData_Whole(b, cells, w) ==
  \E n \in ReadResults(bufSize) :
    LET got == IF n > 0 THEN n ELSE 0 IN
    /\ buffer' = [buffer EXCEPT ![b] = [p \in 0 .. BufSize - 1 |->
                    IF p \in w .. w + got - 1 THEN stream[pos + p - w + 1] ELSE cells[p]]]
    /\ curBuf' = b
    /\ pos' = pos + got
    /\ writeOffset' = w + got
    /\ eof' = (n <= 0)
    /\ bufSize' = IF n <= 0 THEN w ELSE bufSize
    /\ readFailed' = (readFailed \/ n = -1)
    /\ UNCHANGED stream

\* Buffer b, which holds cells up to w, becomes the current one and is filled up.
\* If there is nothing to read, it shrinks to what it holds.
ProduceData(b, cells, w) ==
  \E n \in ReadResults(bufSize - w) :
    LET got == IF n > 0 THEN n ELSE 0 IN
    /\ buffer' = [buffer EXCEPT ![b] = [p \in 0 .. BufSize - 1 |->
                    IF p \in w .. w + got - 1 THEN stream[pos + p - w + 1] ELSE cells[p]]]
    /\ curBuf' = b
    /\ pos' = pos + got
    /\ writeOffset' = w + got
    /\ eof' = (n <= 0)
    /\ bufSize' = IF n <= 0 THEN w ELSE bufSize
    /\ readFailed' = (readFailed \/ (n = -1 /\ w < bufSize))
    /\ UNCHANGED stream

\* getPacket is called: the first call begins with a read.
GetPacket ==
  /\ ppc = "idle"
  /\ IF started
       THEN ppc' = "scan" /\ UNCHANGED <<fileVars, bufVars>>
       ELSE ppc' = "first" /\ ProduceData(curBuf, buffer[curBuf], writeOffset)
  /\ UNCHANGED <<started, ssrc, readOffset, curPkt, curTS, ret>>

\* NULL is returned.
Left ==
  /\ ppc' = "done"
  /\ ret' = NULL

\* The packet at p, which ends where the header at q begins, is returned.
Report(p, q, dTS) ==
  /\ ret' = [buf |-> curBuf, at |-> p, len |-> q - p, dTS |-> dTS]
  /\ curPkt' = q
  /\ readOffset' = q + HdrSize
  /\ curTS' = TS(q)
  /\ ppc' = "idle"

\* get1stPacket: what passes first for a header by its version, in what was read, tells
\* the source; the second must be of that source, in the whole buffer but for its last place.
First ==
  /\ ppc = "first"
  /\ LET heads == {p \in 0 .. writeOffset - HdrSize : IsVersion(p)}
         p     == Least(heads)
         nexts == {q \in p + HdrSize .. bufSize - HdrSize - 1 : IsPktMatch(q, Ssrc(p))}
     IN IF heads # {} /\ nexts # {}
          THEN /\ Report(p, Least(nexts), 0)
               /\ started' = TRUE
               /\ ssrc' = Ssrc(p)
               /\ UNCHANGED eof
          ELSE /\ Left
               /\ eof' = TRUE
               /\ UNCHANGED <<started, ssrc, readOffset, curPkt, curTS>>
  /\ UNCHANGED <<fileVars, buffer, curBuf, bufSize, writeOffset>>

Headers == {q \in readOffset .. bufSize - HdrSize : IsPktMatch(q, ssrc)}

\* Mutant: the difference of the time stamps is taken without the wrap.
Match_NoWrap ==
  /\ ppc = "scan"
  /\ Headers # {}
  /\ LET q == Least(Headers) IN
       Report(curPkt, q, IF TS(q) >= curTS THEN TS(q) - curTS ELSE 0)
  /\ UNCHANGED <<fileVars, bufVars, started, ssrc>>

\* getPacket finds the next header and returns the packet before it.  The difference it
\* tells is that of the two headers: of the packet returned to the one after it (rtp.h has
\* "the diff of timestamp to previous packet").
Match ==
  /\ ppc = "scan"
  /\ Headers # {}
  /\ LET q == Least(Headers) IN Report(curPkt, q, (TS(q) - curTS) % Word)
  /\ UNCHANGED <<fileVars, bufVars, started, ssrc>>

\* Mutant: what is too short for a header is not looked at again in the other buffer.
Searched_All == bufSize

\* The search has left out what is too short for a header.
Searched == IF readOffset + HdrSize <= bufSize THEN bufSize - HdrSize + 1 ELSE readOffset

\* The unfinished packet, at the front of the other buffer
Moved ==
  [p \in 0 .. BufSize - 1 |->
     IF p < bufSize - curPkt THEN buffer[curBuf][curPkt + p] ELSE buffer[1 - curBuf][p]]

\* Mutant: the search goes on at the old offset in the other buffer.
SwitchBuffer_KeepOffset ==
  /\ ppc = "scan"
  /\ Headers = {}
  /\ ProduceData(1 - curBuf, Moved, bufSize - curPkt)
  /\ readOffset' = Searched
  /\ curPkt' = 0
  /\ IF eof' THEN Left ELSE UNCHANGED <<ppc, ret>>
  /\ UNCHANGED <<started, ssrc, curTS>>

\* switchBuffer: the search goes on as long as something can be read.  (Its test of m_EOF
\* is for a call after NULL.)
SwitchBuffer ==
  /\ ppc = "scan"
  /\ Headers = {}
  /\ ProduceData(1 - curBuf, Moved, bufSize - curPkt)
  /\ readOffset' = Searched - curPkt
  /\ curPkt' = 0
  /\ IF eof' THEN Left ELSE UNCHANGED <<ppc, ret>>
  /\ UNCHANGED <<started, ssrc, curTS>>

Parse == First \/ Match \/ SwitchBuffer

\* Any caller that calls until it gets NULL
ParserSpec == ParserInit /\ [][GetPacket \/ Parse]_parserVars

-----------------------------------------------------------------------------
\* The offsets stay inside the buffers: what isPktMatch reads, what switchBuffer copies
\* and what produceData fills is memory of the parser.
InBuffer ==
  /\ stream \in Streams /\ pos \in 0 .. Len(stream) /\ readFailed \in BOOLEAN
  /\ buffer \in [{0, 1} -> [0 .. BufSize - 1 -> Cell]] /\ curBuf \in {0, 1}
  /\ eof \in BOOLEAN /\ started \in BOOLEAN /\ ssrc \in Nat
  /\ bufSize \in 0 .. BufSize
  /\ writeOffset \in 0 .. bufSize
  /\ readOffset \in 0 .. BufSize
  /\ curPkt \in 0 .. BufSize /\ curTS \in 0 .. Word - 1
  /\ ppc \in {"idle", "first", "scan", "done"}
  /\ ~eof => bufSize = BufSize
  /\ ppc = "scan" => started /\ ~eof
  /\ started /\ ~eof => curPkt + HdrSize <= readOffset /\ readOffset <= bufSize
  /\ ret \in {NULL} \cup [buf : {0, 1}, at : 0 .. BufSize, len : HdrSize .. BufSize,
                          dTS : 0 .. Word - 1]
  /\ ret # NULL => ret.at + ret.len <= BufSize
=============================================================================
