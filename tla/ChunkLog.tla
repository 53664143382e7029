------------------------------ MODULE ChunkLog ------------------------------
(***************************************************************************)
(* What a dump file promises: the chunks that were written come back in    *)
(* the order they were written, each as it was, or the reader is told that *)
(* it cannot have one.  It never gets other bytes.                         *)
(***************************************************************************)
EXTENDS Naturals, Sequences

CONSTANTS
  Chunk,    (* what may be written                                           *)
  Lost      (* a chunk that could not be written, or cannot be read          *)

VARIABLES log, got

Init == log = <<>> /\ got = <<>>

\* Chunks are written before any is read.
Put ==
  /\ got = <<>>
  /\ \E c \in Chunk \cup {Lost} : log' = Append(log, c)
  /\ UNCHANGED got

\* The next one is read.
Take ==
  /\ \/ got' = Append(got, Lost)
     \/ Len(got) < Len(log) /\ got' = Append(got, log[Len(got) + 1])
  /\ UNCHANGED log

Spec == Init /\ [][Put \/ Take]_<<log, got>>
=============================================================================
