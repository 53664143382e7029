----------------------------- MODULE BufferPool -----------------------------
(***************************************************************************)
(* What a buffer list promises its clients (buffer1/README, BufferList.h): *)
(* every buffer is in exactly one place - not made yet, in the free FIFO,  *)
(* in the used FIFO, or in the hands of one thread - it changes place only *)
(* by being handed over, and the list releases the memory of the buffers   *)
(* it owns, and goes away itself, only when every buffer parked in it is   *)
(* back in the free FIFO.                                                  *)
(*                                                                         *)
(* The specification knows no locks, conditions, orders or waits: those    *)
(* are the implementation's (BufferList, and the input side of TeeList).   *)
(***************************************************************************)

CONSTANTS Buffers,   (* every buffer there may be                          *)
          Threads    (* the threads that can hold a buffer                 *)

VARIABLES place,     (* where each buffer is                               *)
          home,      (* the buffers parked in the list                     *)
          dead,      (* the buffers whose memory the list has released     *)
          open       (* the list exists                                    *)

vars == <<place, home, dead, open>>

Places == Threads \cup {"new", "free", "used"}

AllHome(B) == \A b \in B : place[b] = "free"

\* At the start buffers may be parked already.
Init == /\ place \in [Buffers -> Places]
        /\ home \in SUBSET Buffers
        /\ dead = {}
        /\ open = TRUE

\* A buffer passes from one place to another; a thread must be at one end.
Move(b, to) ==
  /\ open
  /\ \/ place[b] \in Threads /\ to \in {"free", "used"}
     \/ place[b] \in {"free", "used"} /\ to \in Threads
  /\ place' = [place EXCEPT ![b] = to]
  /\ UNCHANGED <<home, dead, open>>

\* A thread parks buffers it holds, or buffers made for it, in the list.
Park(t, B) ==
  /\ open
  /\ \A b \in B : place[b] \in {t, "new"}
  /\ home' = home \cup B
  /\ place' = [b \in Buffers |-> IF b \in B THEN t ELSE place[b]]
  /\ UNCHANGED <<dead, open>>

\* The memory of parked buffers is released: they are all home.
Release(B) ==
  /\ open
  /\ B \subseteq home
  /\ AllHome(home)
  /\ dead' = dead \cup B
  /\ UNCHANGED <<place, home, open>>

\* The list goes away: every parked buffer is home.
Close ==
  /\ open
  /\ AllHome(home)
  /\ open' = FALSE
  /\ UNCHANGED <<place, home, dead>>

Next == \/ \E b \in Buffers, to \in Places : Move(b, to)
        \/ \E t \in Threads, B \in SUBSET Buffers : Park(t, B)
        \/ \E B \in SUBSET Buffers : Release(B)
        \/ Close

Spec == Init /\ [][Next]_vars
=============================================================================
