---------------------------- MODULE MCBufferList ----------------------------
(* Instances of BufferList for TLC: the application thread and two clients. *)
EXTENDS BufferList, TLC

CONSTANTS app, t1, t2, u1, u2, o1, o2

MCThreads == {app, t1, t2}
MCBuffers == {u1, u2, o1, o2}
MCUserBufs == {u1, u2}
MCUserArrays == {<<u1>>, <<u1, u2>>}
MCOwnArrays == {<<o1, o2>>}
=============================================================================
