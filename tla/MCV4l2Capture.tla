--------------------------- MODULE MCV4l2Capture ----------------------------
(* An instance of V4l2Capture for TLC: the two buffers initV4l2 allocates. *)
EXTENDS V4l2Capture

CONSTANTS b0, b1

TwoBufs == <<b0, b1>>
=============================================================================
