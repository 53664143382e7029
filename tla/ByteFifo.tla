------------------------------ MODULE ByteFifo ------------------------------
(***************************************************************************)
(* What a cntBuffer promises its caller: a bounded FIFO of bytes that is   *)
(* filled a chunk at a time, a chunk in full or not at all, and emptied    *)
(* from the front.  Where the bytes lie in memory does not show.           *)
(***************************************************************************)
EXTENDS Naturals, Sequences

CONSTANTS
  Capacity,           (* bytes it holds                   *)
  Chunks              (* the chunks that are ever offered *)

VARIABLES
  fifo,               (* the bytes not yet processed, oldest first *)
  taken               (* was the last chunk offered taken?         *)

Init ==
  /\ fifo = <<>>
  /\ taken = TRUE

Offer(chunk) ==
  IF Len(fifo) + Len(chunk) <= Capacity
    THEN /\ fifo' = fifo \o chunk
         /\ taken' = TRUE
    ELSE /\ taken' = FALSE
         /\ UNCHANGED fifo

Process(n) ==
  /\ fifo' = SubSeq(fifo, n + 1, Len(fifo))
  /\ UNCHANGED taken

Next ==
  \/ \E chunk \in Chunks : Offer(chunk)
  \/ \E n \in 1 .. Len(fifo) : Process(n)

Spec == Init /\ [][Next]_<<fifo, taken>>
=============================================================================
