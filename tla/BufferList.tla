----------------------------- MODULE BufferList -----------------------------
(***************************************************************************)
(* class BufferList (buffer1/BufferList.cpp): a FIFO of free buffers and a *)
(* FIFO of used ones, each under its own mutex and condition variable, a   *)
(* set of client threads that take and return buffers, and the application *)
(* thread that initialises the list and destroys it.                       *)
(*                                                                         *)
(* Grain.  A critical section of the code is one action: it holds one      *)
(* mutex from its lock to its unlock or to its wait, nothing else touches  *)
(* what the mutex protects, and no section locks a second mutex.  A wait   *)
(* splits the section: the thread is in the condition's wait set           *)
(* ("blocked"), leaves it by a broadcast, a time-out or a spurious wakeup, *)
(* and locks the mutex again in a later step.  A call that finds nothing   *)
(* and does not wait (waitUS = 0, a peek, a timed wait whose due time      *)
(* calDueTime made invalid) changes no state and is a stuttering step.     *)
(***************************************************************************)
EXTENDS Integers, Sequences

CONSTANTS
  Buffers,            (* every Buffer object, the caller's and the list's own *)
  UserBufs,           (* those among them that the caller allocates           *)
  Threads,            (* client threads                                       *)
  App,                (* the one that calls Init and the destructor           *)
  UserArrays,         (* arrays of buffers the caller may pass to Init        *)
  OwnArrays,          (* arrays Init(count, size) may allocate                *)
  SpuriousWakeups,    (* may a condition wait return on its own?              *)
  EmptyReInit,        (* may Init be called again, with an empty array?       *)
  LateSelfAlloc       (* may the list be deleted while threads still hold     *)
                      (* buffers that it allocated (against BufferList.h:86)? *)

ASSUME BufferListAssumption ==
  /\ App \in Threads
  /\ UserBufs \subseteq Buffers
  /\ UserArrays \subseteq Seq(UserBufs) \ {<<>>}
  /\ OwnArrays \subseteq Seq(Buffers \ UserBufs) \ {<<>>}
  /\ \A arr \in UserArrays \cup OwnArrays : \A i, j \in 1 .. Len(arr) :
       arr[i] = arr[j] => i = j
  /\ {SpuriousWakeups, EmptyReInit, LateSelfAlloc} \subseteq BOOLEAN

VARIABLES
  queue,      (* m_freeList and m_usedList                                   *)
  hold,       (* the buffers each thread has taken                           *)
  pc,         (* where each thread is                                        *)
  side,       (* whose condition the thread waits for, "free" if none        *)
  forever,    (* that wait has no time-out (waitUS < 0)                      *)
  todo,       (* buffers App has still to PutFree: in moveToFreeList, or     *)
              (* usedBuf in Clean                                            *)
  buffers,    (* m_buffers as a set, {} when NULL                            *)
  tmpBuf,     (* Clean's tmpBuf: the array it has taken out of m_buffers     *)
  count,      (* m_count                                                     *)
  usrAlloc,   (* m_usrAlloc                                                  *)
  selfInit,   (* the running Init is Init(count, size)                       *)
  deleted,    (* buffers the list has deleted                                *)
  life        (* "live", "closing" (in the destructor), "gone"               *)

thVars  == <<hold, pc, side, forever>>
appVars == <<todo, buffers, tmpBuf, count, usrAlloc, selfInit, deleted, life>>
vars    == <<queue, hold, pc, side, forever, todo, buffers, tmpBuf, count,
             usrAlloc, selfInit, deleted, life>>

Sides == {"free", "used"}

\* Client states: "blocked" is in a condition's wait set, "woken" and "late"
\* have left it and want the mutex again ("late": the time-out ended the wait).
\* App's own: "park" in moveToFreeList; the others in Clean, "asleep" in its wait.
ClientPCs == {"idle", "blocked", "woken", "late"}
AppPCs == {"park", "drain", "move", "reap", "count", "asleep"}

Elems(s) == {s[i] : i \in 1 .. Len(s)}

Init ==
  /\ queue = [s \in Sides |-> <<>>]
  /\ hold = [t \in Threads |-> IF t = App THEN UserBufs ELSE {}]
  /\ pc = [t \in Threads |-> "idle"]
  /\ side = [t \in Threads |-> "free"]
  /\ forever = [t \in Threads |-> FALSE]
  /\ todo = <<>>
  /\ buffers = {}
  /\ tmpBuf = {}
  /\ count = 0
  /\ usrAlloc = TRUE
  /\ selfInit = FALSE
  /\ deleted = {}
  /\ life = "live"

-----------------------------------------------------------------------------
(* The critical sections.                                                   *)

\* Mutant: the head is handed out and stays.
Pop_Keep(t, s) ==
  /\ queue[s] # <<>>
  /\ hold' = [hold EXCEPT ![t] = @ \cup {Head(queue[s])}]
  /\ UNCHANGED queue

\* The head of the FIFO goes to t (pop_front).
Pop(t, s) ==
  /\ queue[s] # <<>>
  /\ hold' = [hold EXCEPT ![t] = @ \cup {Head(queue[s])}]
  /\ queue' = [queue EXCEPT ![s] = Tail(@)]

\* Mutant: a signal, which wakes one waiter, instead of the broadcast.
Awake_Signal(s) ==
  LET waiters == {t \in Threads : \/ pc[t] = "blocked" /\ side[t] = s
                                  \/ pc[t] = "asleep" /\ s = "free"}
  IN IF waiters = {} THEN pc
     ELSE LET w == CHOOSE t \in waiters : TRUE
          IN [pc EXCEPT ![w] = IF pc[w] = "asleep" THEN "count" ELSE "woken"]

\* Mutant: the destructor's wait is not on the condition that PutFree broadcasts.
Awake_Clients(s) ==
  [t \in Threads |-> IF pc[t] = "blocked" /\ side[t] = s THEN "woken" ELSE pc[t]]

\* The wait set of the condition of side s after a broadcast.  Clean's wait
\* ("asleep") is on the free side's condition.
Awake(s) ==
  [t \in Threads |-> IF pc[t] = "blocked" /\ side[t] = s THEN "woken"
                     ELSE IF pc[t] = "asleep" /\ s = "free" THEN "count"
                     ELSE pc[t]]

\* push_back, then broadcast.  The thread that puts is in none of the wait
\* sets; where it goes next is its caller's business.
Push(t, s, b) ==
  /\ queue' = [queue EXCEPT ![s] = Append(@, b)]
  /\ hold' = [hold EXCEPT ![t] = @ \ {b}]

-----------------------------------------------------------------------------
(* Clients.                                                                 *)

\* The calls a client may start now: in the destructor's time the README's stop
\* protocol leaves it PutFree only.
Calling(t) == pc[t] = "idle" /\ life = "live"

\* The header's three uses do not mix: where buffers are parked, only they go round.
InUse(b) == buffers = {} \/ b \in buffers

Get(t, s) ==
  /\ Calling(t)
  /\ Pop(t, s)
  /\ UNCHANGED <<pc, side, forever, appVars>>

GetFree(t) == Get(t, "free")

GetUsed(t) == Get(t, "used")

\* The FIFO is empty and the caller waits: once, whatever ends the wait.
Wait(t, s, f) ==
  /\ Calling(t)
  /\ queue[s] = <<>>
  /\ pc' = [pc EXCEPT ![t] = "blocked"]
  /\ side' = [side EXCEPT ![t] = s]
  /\ forever' = [forever EXCEPT ![t] = f]
  /\ UNCHANGED <<queue, hold, appVars>>

WaitFree(t, f) == Wait(t, "free", f)

WaitUsed(t, f) == Wait(t, "used", f)

\* The call returns: its wait leaves nothing behind.
Return(t) ==
  /\ pc' = [pc EXCEPT ![t] = "idle"]
  /\ side' = [side EXCEPT ![t] = "free"]
  /\ forever' = [forever EXCEPT ![t] = FALSE]

\* Back in the mutex after a wakeup: take the head, or return NULL if another
\* thread was faster (or nothing ever came).
Wake(t) ==
  /\ pc[t] = "woken"
  /\ IF queue[side[t]] = <<>> THEN UNCHANGED <<queue, hold>> ELSE Pop(t, side[t])
  /\ Return(t)
  /\ UNCHANGED appVars

\* The due time passes: the thread leaves the wait set ...
Expire(t) ==
  /\ pc[t] = "blocked"
  /\ ~forever[t]
  /\ pc' = [pc EXCEPT ![t] = "late"]
  /\ UNCHANGED <<queue, hold, side, forever, appVars>>

\* ... and returns NULL without another look at the FIFO.
GiveUp(t) ==
  /\ pc[t] = "late"
  /\ Return(t)
  /\ UNCHANGED <<queue, hold, appVars>>

\* pthread_cond_wait may return without a broadcast.
Spurious(t) ==
  /\ SpuriousWakeups
  /\ pc[t] = "blocked"
  /\ pc' = [pc EXCEPT ![t] = "woken"]
  /\ UNCHANGED <<queue, hold, side, forever, appVars>>

Put(t, s, b) ==
  /\ pc[t] = "idle"
  /\ b \in hold[t]
  /\ InUse(b)
  /\ Push(t, s, b)
  /\ pc' = Awake(s)
  /\ UNCHANGED <<side, forever, appVars>>

\* In the destructor's time a buffer still outside comes back to the free side.
PutFree(t, b) ==
  /\ life = "live" \/ (life = "closing" /\ b \in tmpBuf)
  /\ Put(t, "free", b)

PutUsed(t, b) ==
  /\ life = "live"
  /\ Put(t, "used", b)

-----------------------------------------------------------------------------
(* Init.                                                                    *)

Untouched == \A s \in Sides : queue[s] = <<>>

\* Mutant: the count is taken of the old array, less its terminator.
PreInit_Count(arr) ==
  /\ Calling(App)
  /\ buffers = {}
  /\ EmptyReInit \/ Untouched
  /\ \A t \in Threads \ {App} : hold[t] = {}
  /\ buffers' = Elems(arr)
  /\ count' = Len(todo) - 1
  /\ todo' = arr
  /\ pc' = [pc EXCEPT ![App] = "park"]
  /\ UNCHANGED <<queue, side, forever, tmpBuf, usrAlloc, deleted, life>>

\* preInitBuffer: m_buffers must be NULL.  The caller's side: App runs Init before
\* any buffer is in use, so nothing but App's own buffers is around.
PreInit(arr) ==
  /\ Calling(App)
  /\ buffers = {}
  /\ EmptyReInit \/ Untouched
  /\ \A t \in Threads \ {App} : hold[t] = {}
  /\ buffers' = Elems(arr)
  /\ count' = Len(arr)
  /\ todo' = arr
  /\ pc' = [pc EXCEPT ![App] = "park"]
  /\ UNCHANGED <<queue, side, forever, tmpBuf, usrAlloc, deleted, life>>

InitUser(arr) ==
  /\ PreInit(arr)
  /\ Elems(arr) \subseteq hold[App]
  /\ selfInit' = FALSE
  /\ UNCHANGED hold

\* Init(count, size) allocates its buffers: objects never used before.
Fresh(b) ==
  /\ b \notin deleted
  /\ \A s \in Sides : b \notin Elems(queue[s])
  /\ \A t \in Threads : b \notin hold[t]

InitOwn(arr) ==
  /\ PreInit(arr)
  /\ \A b \in Elems(arr) : Fresh(b)
  /\ selfInit' = TRUE
  /\ hold' = [hold EXCEPT ![App] = @ \cup Elems(arr)]

\* moveToFreeList, one PutFree per step; when all are parked Init(count, size)
\* notes that the buffers are the list's.
Park ==
  /\ pc[App] = "park"
  /\ IF todo # <<>>
       THEN /\ Push(App, "free", Head(todo))
            /\ todo' = Tail(todo)
            /\ pc' = Awake("free")
            /\ UNCHANGED usrAlloc
       ELSE /\ pc' = [pc EXCEPT ![App] = "idle"]
            /\ usrAlloc' = (usrAlloc /\ ~selfInit)
            /\ UNCHANGED <<queue, hold, todo>>
  /\ UNCHANGED <<side, forever, buffers, tmpBuf, count, selfInit, deleted, life>>

-----------------------------------------------------------------------------
(* Clean, called by the destructor and by an Init that fails.               *)

Clean ==
  /\ tmpBuf' = buffers
  /\ buffers' = {}
  /\ pc' = [pc EXCEPT ![App] = "drain"]
  /\ UNCHANGED <<queue, hold, side, forever, todo, count, usrAlloc, selfInit, deleted>>

\* Init(Buffer **) with an array that holds no buffer cleans the list and fails.
InitEmpty ==
  /\ Calling(App)
  /\ EmptyReInit \/ buffers = {}
  /\ Clean
  /\ UNCHANGED life

\* The destructor.  The caller's side (README, "During pipe stop"; BufferList.h:86):
\* every thread has come back from its call, App itself holds no parked buffer, and
\* nobody holds a buffer the list allocated.
Destroy ==
  /\ Calling(App)
  /\ \A t \in Threads : pc[t] = "idle"
  /\ hold[App] \cap buffers = {}
  /\ usrAlloc \/ LateSelfAlloc \/ \A t \in Threads : hold[t] \cap buffers = {}
  /\ life' = "closing"
  /\ Clean

\* while( NULL != (usedBuf = GetUsed(0)) )
Drain ==
  /\ pc[App] = "drain"
  /\ IF queue["used"] # <<>>
       THEN /\ Pop(App, "used")
            /\ todo' = <<Head(queue["used"])>>
            /\ pc' = [pc EXCEPT ![App] = "move"]
       ELSE /\ pc' = [pc EXCEPT ![App] = "reap"]
            /\ UNCHANGED <<queue, hold, todo>>
  /\ UNCHANGED <<side, forever, buffers, tmpBuf, count, usrAlloc, selfInit, deleted, life>>

\*    PutFree(usedBuf);
Refree ==
  /\ pc[App] = "move"
  /\ Push(App, "free", Head(todo))
  /\ todo' = <<>>
  /\ pc' = [Awake("free") EXCEPT ![App] = "drain"]
  /\ UNCHANGED <<side, forever, buffers, tmpBuf, count, usrAlloc, selfInit, deleted, life>>

\* Clean returns, to the destructor or to Init.
Cleaned ==
  /\ pc' = [pc EXCEPT ![App] = "idle"]
  /\ life' = IF life = "closing" THEN "gone" ELSE life

\* Mutant: Clean deletes the buffers whoever allocated them.
Reap_All ==
  /\ pc[App] = "reap"
  /\ deleted' = deleted \cup tmpBuf
  /\ IF tmpBuf = {} THEN Cleaned
     ELSE /\ pc' = [pc EXCEPT ![App] = "count"]
          /\ UNCHANGED life
  /\ UNCHANGED <<queue, hold, side, forever, todo, buffers, tmpBuf, count, usrAlloc,
                 selfInit>>

\* The list's own buffers are deleted before the wait for them.
Reap ==
  /\ pc[App] = "reap"
  /\ deleted' = IF usrAlloc THEN deleted ELSE deleted \cup tmpBuf
  /\ IF tmpBuf = {} THEN Cleaned
     ELSE /\ pc' = [pc EXCEPT ![App] = "count"]
          /\ UNCHANGED life
  /\ UNCHANGED <<queue, hold, side, forever, todo, buffers, tmpBuf, count, usrAlloc,
                 selfInit>>

\* Mutant: one wait instead of a loop: the first look ends it.
Await_NoWait ==
  /\ pc[App] = "count"
  /\ Cleaned
  /\ UNCHANGED <<queue, hold, side, forever, todo, buffers, tmpBuf, count, usrAlloc,
                 selfInit, deleted>>

\* while( m_freeList.size() != m_count ) wait
Await ==
  /\ pc[App] = "count"
  /\ IF Len(queue["free"]) = count THEN Cleaned
     ELSE /\ pc' = [pc EXCEPT ![App] = "asleep"]
          /\ UNCHANGED life
  /\ UNCHANGED <<queue, hold, side, forever, todo, buffers, tmpBuf, count, usrAlloc,
                 selfInit, deleted>>

-----------------------------------------------------------------------------
AppStep == Park \/ Drain \/ Refree \/ Reap \/ Await

Resume(t) == Wake(t) \/ Expire(t) \/ GiveUp(t)

Next ==
  \/ \E t \in Threads :
       \/ GetFree(t)
       \/ GetUsed(t)
       \/ \E f \in BOOLEAN : WaitFree(t, f) \/ WaitUsed(t, f)
       \/ Wake(t)
       \/ Expire(t)
       \/ GiveUp(t)
       \/ Spurious(t)
       \/ \E b \in Buffers : PutFree(t, b) \/ PutUsed(t, b)
  \/ \E arr \in UserArrays : InitUser(arr)
  \/ \E arr \in OwnArrays : InitOwn(arr)
  \/ InitEmpty
  \/ Destroy
  \/ Park
  \/ Drain
  \/ Refree
  \/ Reap
  \/ Await

Spec == Init /\ [][Next]_vars

\* Threads run: one that is out of its wait, or App inside a call, goes on.  Nobody has
\* to start a call, except that in the destructor's time a holder gives its buffers
\* back (README: "move processing buffers to free side of upper stream").
Fairness ==
  /\ WF_vars(AppStep)
  /\ \A t \in Threads : /\ WF_vars(Resume(t))
                        /\ WF_vars(life = "closing" /\ \E b \in Buffers : PutFree(t, b))

FairSpec == Spec /\ Fairness

-----------------------------------------------------------------------------
(* Properties.                                                              *)

TypeOK ==
  /\ queue \in [Sides -> Seq(Buffers)]
  /\ hold \in [Threads -> SUBSET Buffers]
  /\ pc \in [Threads -> ClientPCs \cup AppPCs]
  /\ \A t \in Threads : pc[t] \in AppPCs => t = App
  /\ side \in [Threads -> Sides]
  /\ forever \in [Threads -> BOOLEAN]
  /\ todo \in Seq(Buffers)
  /\ buffers \in SUBSET Buffers
  /\ tmpBuf \in SUBSET Buffers
  /\ count \in Nat
  /\ usrAlloc \in BOOLEAN
  /\ selfInit \in BOOLEAN
  /\ deleted \in SUBSET Buffers
  /\ life \in {"live", "closing", "gone"}

\* However the calls of the clients, Init and Clean interleave, no buffer is ever in
\* two places: twice in a FIFO, in both, in a FIFO and in a thread's hands, or in the
\* hands of two threads (which would then write one frame's memory together).
OnePlace ==
  /\ \A s \in Sides : \A i, j \in 1 .. Len(queue[s]) :
       queue[s][i] = queue[s][j] => i = j
  /\ \A i \in 1 .. Len(queue["free"]), j \in 1 .. Len(queue["used"]) :
       queue["free"][i] # queue["used"][j]
  /\ \A s \in Sides : \A i \in 1 .. Len(queue[s]) : \A t \in Threads :
       queue[s][i] \notin hold[t]
  /\ \A t, u \in Threads : t # u => hold[t] \cap hold[u] = {}

\* No lost wakeup: a thread sleeps on a condition only while there is nothing for it,
\* a client while its FIFO is empty and the destructor while buffers are missing.
NoLostWakeup ==
  /\ \A t \in Threads : pc[t] = "blocked" => queue[side[t]] = <<>>
  /\ pc[App] = "asleep" => Len(queue["free"]) # count

\* No use after free: the list has deleted no buffer that a thread still holds, nor one
\* that a client could still take from a FIFO.
NoUseAfterFree ==
  /\ \A t \in Threads : hold[t] \cap deleted = {}
  /\ life = "live" => \A s \in Sides : Elems(queue[s]) \cap deleted = {}

\* The destructor waits for late buffers and for nothing else: it ends.
DestructorEnds == life = "closing" ~> life = "gone"

\* The list implements the pool: where a buffer is, what is parked, what has been
\* released and when the list may go, seen through the two FIFOs and Clean's locals.
PlaceOf(b) ==
  CASE \E t \in Threads : b \in hold[t] -> CHOOSE t \in Threads : b \in hold[t]
    [] b \in Elems(queue["free"]) -> "free"
    [] b \in Elems(queue["used"]) -> "used"
    [] OTHER -> "new"

Pool == INSTANCE BufferPool WITH
          place <- [b \in Buffers |-> PlaceOf(b)],
          home  <- buffers \cup tmpBuf,
          dead  <- deleted,
          open  <- (life # "gone")

\* A buffer moves only hand to hand, and the list frees memory and goes away only
\* when every parked buffer is back (README, steps 3 and 4 of the stop protocol).
ImplementsPool == Pool!Spec
=============================================================================
