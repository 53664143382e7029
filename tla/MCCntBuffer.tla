----------------------------- MODULE MCCntBuffer ----------------------------
(* An instance of CntBuffer for TLC: four bytes, chunks of up to five. *)
EXTENDS CntBuffer

MCBytes == {0, 1}
MCChunks == UNION {[1 .. n -> MCBytes] : n \in 0 .. 5}
=============================================================================
