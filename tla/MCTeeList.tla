----------------------------- MODULE MCTeeList ------------------------------
(* Instances of TeeList for TLC. *)
EXTENDS TeeList, TLC

CONSTANTS b1, b2

OneBuf == <<b1>>
TwoBufs == <<b1, b2>>
=============================================================================
