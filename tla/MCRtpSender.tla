---------------------------- MODULE MCRtpSender -----------------------------
(* Instances of RtpSender for TLC: streams of a few packets, and memory that holds       *)
(* nothing, or a header an earlier parser has left.                                      *)
EXTENDS RtpSender, SequencesExt

\* What is not of a packet: a cell that passes for a header by its version, or not
Noise(version) == [pkt |-> 0, at |-> 0, version |-> version, ts |-> 0, src |-> 0]

\* The i-th cell of packet n.  The source is 1.  The third cell of a packet, which is
\* payload, has the version of a header, but not the source.
PacketCell(n, i, stamp) ==
  [pkt |-> n, at |-> i - 1, version |-> i \in {1, 3}, ts |-> stamp,
   src |-> IF i = HdrSize THEN 1 ELSE 0]

\* lead cells of no packet, then packets of the given lengths and time stamps
Bytestream(lead, lens, stamps) ==
  lead \o
  FlattenSeq([n \in 1 .. Len(lens) |-> [i \in 1 .. lens[n] |-> PacketCell(n, i, stamps[n])]])

\* Buffers of 8 cells: packets of 2 and 3 cells, some of which end with a buffer and some
\* of which lie across its end, and of 6, for which the buffer is just large enough (and
\* of 7, for which it is not).
Lengths ==
  {<<>>, <<6>>, <<3, 3>>, <<6, 2>>, <<2, 6, 3>>, <<3, 2, 3>>, <<3, 7, 2>>,
   <<2, 2, 2, 2>>, <<3, 3, 3, 2>>, <<2, 3, 6, 3>>, <<5, 6, 2, 3>>, <<6, 6, 6, 6>>,
   <<3, 6, 5, 2>>, <<2, 2, 3, 6>>, <<4, 3, 4, 3>>}

\* Nothing in front of the first packet, or a cell that passes for a header, or one that
\* does not
Leads == {<<>>, <<Noise(TRUE)>>, <<Noise(FALSE)>>}

\* Time stamps stand still, jump and wrap; a first difference that is smaller than those
\* that follow, and one that is larger
Stamps == {<<3, 3, 1, 2>>, <<0, 3, 0, 1>>}

MCStreams ==
  {Bytestream(lead, lens, stamps) : lead \in Leads, lens \in Lengths, stamps \in Stamps}

Clean == [p \in 0 .. BufSize - 1 |-> Noise(FALSE)]

\* The end of a packet of the same source and the header behind it
Used == [Clean EXCEPT ![6] = PacketCell(9, 1, 0), ![7] = PacketCell(9, HdrSize, 0)]

MCMemory == {Clean, Used}
=============================================================================
