-------------------------- MODULE BufferListProofs --------------------------
(***************************************************************************)
(* Proofs about BufferList, for any number of buffers, threads and arrays. *)
(*                                                                         *)
(*  - PlacesAndWaits needs no assumption on how the list is used: a buffer *)
(*    is never in two places, and no client sleeps beside a buffer.        *)
(*  - WakeupsKept adds the destructor's wait and FreedNotUsed the memory   *)
(*    it frees.  Both need the caller's side: no second Init               *)
(*    (~EmptyReInit), and for the latter no own buffer outside at deletion *)
(*    (~LateSelfAlloc).                                                    *)
(*  - ListIsPool: on the same conditions BufferList implements BufferPool. *)
(***************************************************************************)
EXTENDS BufferList, SequenceTheorems, FiniteSetTheorems, TLAPS

\* What App has still to park, or to move in Clean, is in its hands, once each.  With
\* the mutex free between two PutFree calls this is what keeps Park from parking twice.
TodoHeld ==
  /\ \A i \in 1 .. Len(todo) : todo[i] \in hold[App]
  /\ \A i, j \in 1 .. Len(todo) : todo[i] = todo[j] => i = j
  /\ pc[App] = "move" => Len(todo) = 1
  /\ todo # <<>> => pc[App] \in {"park", "move"}

\* The client half of NoLostWakeup.
ClientsWait == \A t \in Threads : pc[t] = "blocked" => queue[side[t]] = <<>>

PlaceInv == TypeOK /\ OnePlace /\ TodoHeld /\ ClientsWait

-----------------------------------------------------------------------------
(* The two critical sections.                                               *)

\* Taking the head moves one buffer, from a FIFO to a pair of hands.
LEMMA PopMoves ==
  ASSUME PlaceInv, NEW t \in Threads, NEW s \in Sides, Pop(t, s)
  PROVE  /\ queue' \in [Sides -> Seq(Buffers)]
         /\ hold' \in [Threads -> SUBSET Buffers]
         /\ OnePlace'
         /\ \A u \in Threads : hold[u] \subseteq hold'[u]
         /\ Head(queue[s]) \in hold'[t]
         /\ \A x \in Sides : queue[x] = <<>> => queue'[x] = <<>>
<1> DEFINE q == queue[s]
           b == Head(q)
<1>1. q \in Seq(Buffers) /\ q # <<>>
  BY DEF Pop, PlaceInv, TypeOK
<1>2. /\ Len(q) \in Nat \ {0}
      /\ b = q[1] /\ b \in Buffers
      /\ Tail(q) \in Seq(Buffers) /\ Len(Tail(q)) = Len(q) - 1
      /\ \A i \in 1 .. Len(Tail(q)) : Tail(q)[i] = q[i + 1]
  BY <1>1, HeadTailProperties
<1>3. /\ queue' \in [Sides -> Seq(Buffers)]
      /\ \A x \in Sides : queue'[x] = IF x = s THEN Tail(q) ELSE queue[x]
      /\ hold' \in [Threads -> SUBSET Buffers]
      /\ \A u \in Threads : hold'[u] = IF u = t THEN hold[u] \cup {b} ELSE hold[u]
  BY <1>2 DEF Pop, PlaceInv, TypeOK
<1> HIDE DEF q, b
<1>4. /\ \A x \in Sides : Len(queue[x]) \in Nat /\ Len(queue'[x]) \in Nat
      /\ \A x \in Sides \ {s} : queue'[x] = queue[x]
      /\ Len(queue[s]) = Len(queue'[s]) + 1
      /\ \A i \in 1 .. Len(queue'[s]) : /\ queue'[s][i] = queue[s][i + 1]
                                        /\ i + 1 \in 1 .. Len(queue[s])
      /\ 1 \in 1 .. Len(queue[s]) /\ b = queue[s][1]
  <2>1. \A x \in Sides : queue[x] \in Seq(Buffers) /\ queue'[x] \in Seq(Buffers)
    BY <1>3 DEF PlaceInv, TypeOK
  <2>2. \A x \in Sides : Len(queue[x]) \in Nat /\ Len(queue'[x]) \in Nat
    BY <2>1, LenProperties
  <2>3. queue[s] = q /\ queue'[s] = Tail(q) /\ \A x \in Sides \ {s} : queue'[x] = queue[x]
    BY <1>3 DEF q
  <2> QED
    BY <1>2, <2>2, <2>3
\* Every place in a FIFO was a place in it before, and none of them was the head's.
<1>5. \A x \in Sides : \A i \in 1 .. Len(queue'[x]) : \E j \in 1 .. Len(queue[x]) :
        /\ queue'[x][i] = queue[x][j]
        /\ j = IF x = s THEN i + 1 ELSE i
  BY <1>4
<1>6. \A x \in Sides : \A i \in 1 .. Len(queue'[x]) : queue'[x][i] # b
  <2> SUFFICES ASSUME NEW x \in Sides, NEW i \in 1 .. Len(queue'[x])
               PROVE  queue'[x][i] # b
    OBVIOUS
  <2>1. CASE x = s
    BY <1>4, <2>1 DEF PlaceInv, OnePlace
  <2>2. CASE x # s
    <3>1. queue'[x][i] = queue[x][i] /\ i \in 1 .. Len(queue[x])
      BY <1>4, <2>2
    <3>2. \A m \in 1 .. Len(queue["free"]), n \in 1 .. Len(queue["used"]) :
            queue["free"][m] # queue["used"][n]
      BY DEF PlaceInv, OnePlace
    <3>3. (x = "free" /\ s = "used") \/ (x = "used" /\ s = "free")
      BY <2>2 DEF Sides
    <3>4. CASE x = "free" /\ s = "used"
      BY <1>4, <3>1, <3>2, <3>4
    <3>5. CASE x = "used" /\ s = "free"
      BY <1>4, <3>1, <3>2, <3>5
    <3> QED
      BY <3>3, <3>4, <3>5
  <2> QED
    BY <2>1, <2>2
<1>7. OnePlace'
  <2>1. ASSUME NEW x \in Sides, NEW i \in 1 .. Len(queue'[x]), NEW j \in 1 .. Len(queue'[x]),
               queue'[x][i] = queue'[x][j]
        PROVE  i = j
    BY <1>4, <1>5, <2>1 DEF PlaceInv, OnePlace
  <2>2. ASSUME NEW i \in 1 .. Len(queue'["free"]), NEW j \in 1 .. Len(queue'["used"])
        PROVE  queue'["free"][i] # queue'["used"][j]
    <3>1. PICK m \in 1 .. Len(queue["free"]) : queue'["free"][i] = queue["free"][m]
      BY <1>5 DEF Sides
    <3>2. PICK n \in 1 .. Len(queue["used"]) : queue'["used"][j] = queue["used"][n]
      BY <1>5 DEF Sides
    <3> QED
      BY <3>1, <3>2 DEF PlaceInv, OnePlace
  <2>3. ASSUME NEW x \in Sides, NEW i \in 1 .. Len(queue'[x]), NEW u \in Threads
        PROVE  queue'[x][i] \notin hold'[u]
    <3>1. PICK j \in 1 .. Len(queue[x]) : queue'[x][i] = queue[x][j]
      BY <1>5
    <3>2. queue[x][j] \notin hold[u]
      BY DEF PlaceInv, OnePlace
    <3> QED
      BY <1>3, <1>6, <3>1, <3>2
  <2>4. ASSUME NEW u \in Threads, NEW v \in Threads, u # v
        PROVE  hold'[u] \cap hold'[v] = {}
    <3>1. hold[u] \cap hold[v] = {} /\ b \notin hold[u] /\ b \notin hold[v]
      BY <1>4, <2>4 DEF PlaceInv, OnePlace
    <3> QED
      BY <1>3, <2>4, <3>1
  <2> QED
    BY <2>1, <2>2, <2>3, <2>4 DEF OnePlace
<1>8. \A x \in Sides : queue[x] = <<>> => queue'[x] = <<>>
  BY <1>1, <1>3 DEF q
<1> QED
  BY <1>3, <1>7, <1>8 DEF b, q

\* Giving a buffer back moves it from the giver's hands to the end of a FIFO.
LEMMA PushMoves ==
  ASSUME PlaceInv, NEW t \in Threads, NEW s \in Sides, NEW b \in hold[t], Push(t, s, b)
  PROVE  /\ queue' \in [Sides -> Seq(Buffers)]
         /\ hold' \in [Threads -> SUBSET Buffers]
         /\ OnePlace'
         /\ \A u \in Threads : hold'[u] = IF u = t THEN hold[u] \ {b} ELSE hold[u]
         /\ \A x \in Sides : x # s => queue'[x] = queue[x]
         /\ Len(queue'["free"]) = IF s = "free" THEN Len(queue["free"]) + 1
                                  ELSE Len(queue["free"])
<1>1. b \in Buffers /\ \A x \in Sides : queue[x] \in Seq(Buffers)
  BY DEF PlaceInv, TypeOK
<1>2. /\ queue' \in [Sides -> Seq(Buffers)]
      /\ \A x \in Sides : queue'[x] = IF x = s THEN Append(queue[x], b) ELSE queue[x]
      /\ hold' \in [Threads -> SUBSET Buffers]
      /\ \A u \in Threads : hold'[u] = IF u = t THEN hold[u] \ {b} ELSE hold[u]
  <2>1. /\ queue \in [Sides -> Seq(Buffers)] /\ hold \in [Threads -> SUBSET Buffers]
        /\ queue' = [queue EXCEPT ![s] = Append(@, b)]
        /\ hold' = [hold EXCEPT ![t] = @ \ {b}]
    BY DEF Push, PlaceInv, TypeOK
  <2>2. Append(queue[s], b) \in Seq(Buffers)
    BY <1>1
  <2>3. queue' \in [Sides -> Seq(Buffers)]
    BY <2>1, <2>2
  <2>4. \A x \in Sides : queue'[x] = IF x = s THEN Append(queue[x], b) ELSE queue[x]
    BY <2>1
  <2>5. hold' \in [Threads -> SUBSET Buffers]
    BY <2>1
  <2>6. \A u \in Threads : hold'[u] = IF u = t THEN hold[u] \ {b} ELSE hold[u]
    BY <2>1
  <2> QED
    BY <2>3, <2>4, <2>5, <2>6
<1>3. \A x \in Sides :
        /\ Len(queue[x]) \in Nat /\ Len(queue'[x]) \in Nat
        /\ Len(queue'[x]) = IF x = s THEN Len(queue[x]) + 1 ELSE Len(queue[x])
        /\ \A i \in 1 .. Len(queue'[x]) :
             \/ i \in 1 .. Len(queue[x]) /\ queue'[x][i] = queue[x][i]
             \/ x = s /\ i = Len(queue[x]) + 1 /\ queue'[x][i] = b
  BY <1>1, <1>2
<1>4. \A x \in Sides : \A i \in 1 .. Len(queue[x]) : queue[x][i] # b
  BY DEF PlaceInv, OnePlace
<1>5. OnePlace'
  <2>1. ASSUME NEW x \in Sides, NEW i \in 1 .. Len(queue'[x]), NEW j \in 1 .. Len(queue'[x]),
               queue'[x][i] = queue'[x][j]
        PROVE  i = j
    BY <1>3, <1>4, <2>1 DEF PlaceInv, OnePlace
  <2>2. ASSUME NEW i \in 1 .. Len(queue'["free"]), NEW j \in 1 .. Len(queue'["used"])
        PROVE  queue'["free"][i] # queue'["used"][j]
    BY <1>3, <1>4 DEF PlaceInv, OnePlace, Sides
  <2>3. ASSUME NEW x \in Sides, NEW i \in 1 .. Len(queue'[x]), NEW u \in Threads
        PROVE  queue'[x][i] \notin hold'[u]
    <3>1. \A v \in Threads : v # t => b \notin hold[v]
      BY DEF PlaceInv, OnePlace
    <3>2. b \notin hold'[u]
      BY <1>2, <3>1
    <3>3. i \in 1 .. Len(queue[x]) => queue[x][i] \notin hold'[u]
      BY <1>2 DEF PlaceInv, OnePlace
    <3> QED
      BY <1>3, <3>2, <3>3
  <2>4. ASSUME NEW u \in Threads, NEW v \in Threads, u # v
        PROVE  hold'[u] \cap hold'[v] = {}
    BY <1>2, <2>4 DEF PlaceInv, OnePlace
  <2> QED
    BY <2>1, <2>2, <2>3, <2>4 DEF OnePlace
<1>6. Len(queue'["free"]) = IF s = "free" THEN Len(queue["free"]) + 1
                            ELSE Len(queue["free"])
  BY <1>3 DEF Sides
<1>7. \A x \in Sides : x # s => queue'[x] = queue[x]
  BY <1>2
<1>8. \A u \in Threads : hold'[u] = IF u = t THEN hold[u] \ {b} ELSE hold[u]
  BY <1>2
<1>9. queue' \in [Sides -> Seq(Buffers)] /\ hold' \in [Threads -> SUBSET Buffers]
  BY <1>2
<1> QED
  BY <1>5, <1>6, <1>7, <1>8, <1>9

\* A broadcast leaves nobody in the wait set of its side, and only moves App in Clean.
LEMMA AwakeMoves ==
  ASSUME PlaceInv, NEW s \in Sides
  PROVE  /\ Awake(s) \in [Threads -> ClientPCs \cup AppPCs]
         /\ \A t \in Threads :
              /\ Awake(s)[t] \in AppPCs <=> pc[t] \in AppPCs
              /\ Awake(s)[t] = "blocked" => pc[t] = "blocked" /\ side[t] # s
              /\ pc[t] \in {"park", "move", "idle", "drain", "reap", "count"} =>
                   Awake(s)[t] = pc[t]
              /\ Awake(s)[t] \in {"park", "move", "idle", "drain", "reap"} =>
                   Awake(s)[t] = pc[t]
  BY DEF PlaceInv, TypeOK, Awake, ClientPCs, AppPCs

-----------------------------------------------------------------------------
(* Every action keeps buffers in their places.                              *)

\* Where the list begins, all buffers are the caller's and in App's hands.
LEMMA InitPlaces == Init => PlaceInv
<1> SUFFICES ASSUME Init PROVE PlaceInv
  OBVIOUS
<1>1. TypeOK
  <2>1. <<>> \in Seq(Buffers)
    BY EmptySeq
  <2>2. queue \in [Sides -> Seq(Buffers)] /\ todo \in Seq(Buffers)
    BY <2>1 DEF Init
  <2>3. hold \in [Threads -> SUBSET Buffers]
    BY BufferListAssumption DEF Init
  <2>4. pc \in [Threads -> ClientPCs \cup AppPCs] /\ \A t \in Threads : pc[t] \notin AppPCs
    BY DEF Init, ClientPCs, AppPCs
  <2>5. side \in [Threads -> Sides] /\ forever \in [Threads -> BOOLEAN]
    BY DEF Init, Sides
  <2> QED
    BY <2>2, <2>3, <2>4, <2>5 DEF Init, TypeOK
<1>2. \A s \in Sides : Len(queue[s]) = 0
  BY DEF Init
<1>3. OnePlace
  BY <1>2 DEF Init, OnePlace, Sides
<1>4. TodoHeld /\ ClientsWait
  BY BufferListAssumption DEF Init, TodoHeld, ClientsWait
<1> QED
  BY <1>1, <1>3, <1>4 DEF PlaceInv

\* A call that finds a buffer.
LEMMA GetPlaces ==
  ASSUME PlaceInv, NEW t \in Threads, NEW s \in Sides, Get(t, s)
  PROVE  PlaceInv'
<1>1. Pop(t, s) /\ UNCHANGED <<pc, side, forever, appVars>>
  BY DEF Get
<1>2. TypeOK' /\ OnePlace'
  BY <1>1, PopMoves DEF PlaceInv, TypeOK, appVars
<1>3. TodoHeld'
  BY <1>1, PopMoves, BufferListAssumption DEF PlaceInv, TodoHeld, appVars
<1>4. ClientsWait'
  BY <1>1, PopMoves DEF PlaceInv, TypeOK, ClientsWait
<1> QED
  BY <1>2, <1>3, <1>4 DEF PlaceInv

\* A call that waits, and the end of a wait that brings nothing.
LEMMA PausePlaces ==
  ASSUME PlaceInv, NEW t \in Threads,
         \/ \E s \in Sides, f \in BOOLEAN : Wait(t, s, f)
         \/ Expire(t)
         \/ GiveUp(t)
         \/ Spurious(t)
  PROVE  PlaceInv'
<1>1. UNCHANGED <<queue, hold, appVars>>
  BY DEF Wait, Expire, GiveUp, Spurious
<1>2. /\ pc[t] \in ClientPCs
      /\ \E v \in ClientPCs : pc' = [pc EXCEPT ![t] = v]
      /\ side' \in [Threads -> Sides] /\ forever' \in [Threads -> BOOLEAN]
  BY DEF PlaceInv, TypeOK, Wait, Calling, Expire, GiveUp, Spurious, Return, ClientPCs, Sides
<1>3. TypeOK' /\ OnePlace'
  BY <1>1, <1>2 DEF PlaceInv, TypeOK, OnePlace, appVars, ClientPCs, AppPCs
<1>4. TodoHeld'
  BY <1>1, <1>2 DEF PlaceInv, TypeOK, TodoHeld, appVars, ClientPCs
<1>5. ClientsWait'
  BY <1>1 DEF PlaceInv, TypeOK, ClientsWait, Wait, Expire, GiveUp, Spurious, Return
<1> QED
  BY <1>3, <1>4, <1>5 DEF PlaceInv

\* A woken call takes what there is.
LEMMA WakePlaces ==
  ASSUME PlaceInv, NEW t \in Threads, Wake(t)
  PROVE  PlaceInv'
<1>1. /\ pc[t] = "woken" /\ pc' = [pc EXCEPT ![t] = "idle"]
      /\ side' = [side EXCEPT ![t] = "free"]
      /\ forever' = [forever EXCEPT ![t] = FALSE]
      /\ UNCHANGED appVars
      /\ side[t] \in Sides
  BY DEF PlaceInv, TypeOK, Wake, Return
<1>2. /\ queue' \in [Sides -> Seq(Buffers)]
      /\ hold' \in [Threads -> SUBSET Buffers]
      /\ OnePlace'
      /\ \A u \in Threads : hold[u] \subseteq hold'[u]
      /\ \A x \in Sides : queue[x] = <<>> => queue'[x] = <<>>
  <2>1. CASE UNCHANGED <<queue, hold>>
    BY <2>1 DEF PlaceInv, TypeOK, OnePlace
  <2>2. CASE Pop(t, side[t])
    BY <1>1, <2>2, PopMoves
  <2> QED
    BY <2>1, <2>2 DEF Wake
<1>3. TypeOK'
  BY <1>1, <1>2 DEF PlaceInv, TypeOK, appVars, Sides, ClientPCs, AppPCs
<1>4. TodoHeld'
  BY <1>1, <1>2, BufferListAssumption DEF PlaceInv, TypeOK, TodoHeld, appVars
<1>5. ClientsWait'
  BY <1>1, <1>2 DEF PlaceInv, TypeOK, ClientsWait
<1> QED
  BY <1>2, <1>3, <1>4, <1>5 DEF PlaceInv

\* A client gives a buffer back.  App has nothing to park while it is a client.
LEMMA PutPlaces ==
  ASSUME PlaceInv, NEW t \in Threads, NEW s \in Sides, NEW b \in Buffers, Put(t, s, b)
  PROVE  PlaceInv'
<1>1. /\ pc[t] = "idle" /\ b \in hold[t] /\ Push(t, s, b) /\ pc' = Awake(s)
      /\ UNCHANGED <<side, forever, appVars>>
  BY DEF Put
<1>2. TypeOK' /\ OnePlace'
  <2>1. pc' \in [Threads -> ClientPCs \cup AppPCs]
        /\ \A u \in Threads : pc'[u] \in AppPCs => u = App
    BY <1>1, AwakeMoves DEF PlaceInv, TypeOK
  <2>2. /\ queue' \in [Sides -> Seq(Buffers)] /\ hold' \in [Threads -> SUBSET Buffers]
        /\ OnePlace'
    BY <1>1, PushMoves
  <2> QED
    BY <1>1, <2>1, <2>2 DEF PlaceInv, TypeOK, appVars
<1>3. TodoHeld'
  <2>1. t = App => todo = <<>>
    BY <1>1, BufferListAssumption DEF PlaceInv, TodoHeld
  <2>2. \A i \in 1 .. Len(todo) : todo[i] \in hold'[App]
    <3>1. CASE t = App
      BY <2>1, <3>1
    <3>2. CASE t # App
      <4>1. hold'[App] = hold[App]
        BY <1>1, <3>2, PushMoves, BufferListAssumption
      <4> QED
        BY <4>1 DEF PlaceInv, TodoHeld
    <3> QED
      BY <3>1, <3>2
  <2>3. pc[App] \in {"park", "move"} => pc'[App] = pc[App]
    BY <1>1, AwakeMoves, BufferListAssumption
  <2>4. pc'[App] = "move" => pc[App] = "move"
    BY <1>1, AwakeMoves, BufferListAssumption
  <2> QED
    BY <1>1, <2>2, <2>3, <2>4 DEF PlaceInv, TodoHeld, appVars
<1>4. ClientsWait'
  BY <1>1, PushMoves, AwakeMoves DEF PlaceInv, TypeOK, ClientsWait
<1> QED
  BY <1>2, <1>3, <1>4 DEF PlaceInv

\* What Init parks is fresh or in App's hands, and is listed once.
LEMMA PreInitPlaces ==
  ASSUME PlaceInv, NEW arr \in UserArrays \cup OwnArrays,
         InitUser(arr) \/ InitOwn(arr)
  PROVE  PlaceInv'
<1>1. /\ arr \in Seq(Buffers)
      /\ \A i, j \in 1 .. Len(arr) : arr[i] = arr[j] => i = j
      /\ Elems(arr) \subseteq Buffers
      /\ Len(arr) \in Nat
  BY BufferListAssumption DEF Elems
<1>2. /\ pc[App] = "idle" /\ pc' = [pc EXCEPT ![App] = "park"]
      /\ todo' = arr /\ buffers' = Elems(arr) /\ count' = Len(arr)
      /\ UNCHANGED <<queue, side, forever, tmpBuf, usrAlloc, deleted, life>>
      /\ selfInit' \in BOOLEAN
  BY DEF InitUser, InitOwn, PreInit, Calling
<1>3. /\ hold' \in [Threads -> SUBSET Buffers]
      /\ Elems(arr) \subseteq hold'[App]
      /\ OnePlace'
  <2>1. CASE InitUser(arr)
    BY <1>2, <2>1 DEF InitUser, PlaceInv, TypeOK, OnePlace
  <2>2. CASE InitOwn(arr)
    <3>1. hold' = [hold EXCEPT ![App] = @ \cup Elems(arr)]
      BY <2>2 DEF InitOwn
    <3>2. /\ \A s \in Sides : \A i \in 1 .. Len(queue[s]) : queue[s][i] \notin Elems(arr)
          /\ \A t \in Threads : hold[t] \cap Elems(arr) = {}
      BY <2>2 DEF InitOwn, Fresh, Elems
    <3>3. hold' \in [Threads -> SUBSET Buffers]
      BY <1>1, <3>1 DEF PlaceInv, TypeOK
    <3>4. \A t \in Threads : hold'[t] = IF t = App THEN hold[t] \cup Elems(arr) ELSE hold[t]
      BY <3>1 DEF PlaceInv, TypeOK
    <3>5. \A s \in Sides : \A i \in 1 .. Len(queue[s]) : \A t \in Threads :
            queue[s][i] \notin hold'[t]
      BY <3>2, <3>4 DEF PlaceInv, OnePlace
    <3>6. \A t, u \in Threads : t # u => hold'[t] \cap hold'[u] = {}
      BY <3>2, <3>4 DEF PlaceInv, OnePlace
    <3>7. OnePlace'
      BY <1>2, <3>5, <3>6 DEF PlaceInv, OnePlace
    <3> QED
      BY <3>3, <3>4, <3>7, BufferListAssumption
  <2> QED
    BY <2>1, <2>2
<1>4. TypeOK'
  BY <1>1, <1>2, <1>3, BufferListAssumption DEF PlaceInv, TypeOK, AppPCs
<1>5. TodoHeld'
  <2>1. \A i \in 1 .. Len(arr) : arr[i] \in hold'[App]
    BY <1>3 DEF Elems
  <2>2. pc'[App] = "park"
    BY <1>2, BufferListAssumption DEF PlaceInv, TypeOK
  <2> QED
    BY <1>1, <1>2, <2>1, <2>2 DEF TodoHeld
<1>6. ClientsWait'
  BY <1>2 DEF PlaceInv, TypeOK, ClientsWait
<1> QED
  BY <1>3, <1>4, <1>5, <1>6 DEF PlaceInv

\* moveToFreeList parks the head of what is left, and the rest stays in App's hands.
LEMMA ParkPlaces ==
  ASSUME PlaceInv, Park
  PROVE  PlaceInv'
<1>1. /\ pc[App] = "park"
      /\ UNCHANGED <<side, forever, buffers, tmpBuf, count, selfInit, deleted, life>>
      /\ usrAlloc' \in BOOLEAN
  BY DEF Park, PlaceInv, TypeOK
<1>2. CASE todo = <<>>
  <2>1. /\ pc' = [pc EXCEPT ![App] = "idle"]
        /\ UNCHANGED <<queue, hold, todo>>
    BY <1>2 DEF Park
  <2>2. TypeOK' /\ OnePlace'
    BY <1>1, <2>1 DEF PlaceInv, TypeOK, OnePlace, ClientPCs, AppPCs
  <2>3. TodoHeld'
    BY <1>2, <2>1, BufferListAssumption DEF PlaceInv, TypeOK, TodoHeld
  <2>4. ClientsWait'
    BY <1>1, <2>1 DEF PlaceInv, TypeOK, ClientsWait
  <2> QED
    BY <2>2, <2>3, <2>4 DEF PlaceInv
<1>3. CASE todo # <<>>
  <2>1. /\ Push(App, "free", Head(todo))
        /\ todo' = Tail(todo)
        /\ pc' = Awake("free")
        /\ usrAlloc' = usrAlloc
    BY <1>3 DEF Park
  <2>2. /\ todo \in Seq(Buffers) /\ Len(todo) \in Nat \ {0} /\ Head(todo) = todo[1]
        /\ Tail(todo) \in Seq(Buffers) /\ Len(Tail(todo)) = Len(todo) - 1
        /\ \A i \in 1 .. Len(Tail(todo)) :
             Tail(todo)[i] = todo[i + 1] /\ i + 1 \in 1 .. Len(todo)
    BY <1>3, HeadTailProperties DEF PlaceInv, TypeOK
  <2>3. Head(todo) \in hold[App]
    BY <2>2 DEF PlaceInv, TodoHeld
  <2>4. /\ queue' \in [Sides -> Seq(Buffers)] /\ hold' \in [Threads -> SUBSET Buffers]
        /\ OnePlace'
        /\ hold'[App] = hold[App] \ {Head(todo)}
        /\ queue'["used"] = queue["used"]
    BY <2>1, <2>3, PushMoves, BufferListAssumption DEF Sides
  <2>5. /\ pc' \in [Threads -> ClientPCs \cup AppPCs]
        /\ pc'[App] = "park"
        /\ \A t \in Threads : /\ pc'[t] \in AppPCs => t = App
                              /\ pc'[t] = "blocked" => pc[t] = "blocked" /\ side[t] # "free"
    BY <1>1, <2>1, AwakeMoves, BufferListAssumption DEF Sides, PlaceInv, TypeOK
  <2>6. TypeOK'
    BY <1>1, <2>1, <2>2, <2>4, <2>5 DEF PlaceInv, TypeOK
  <2>7. TodoHeld'
    BY <2>1, <2>2, <2>4, <2>5 DEF PlaceInv, TodoHeld
  <2>8. ClientsWait'
    BY <1>1, <2>4, <2>5 DEF PlaceInv, TypeOK, ClientsWait, Sides
  <2> QED
    BY <2>4, <2>6, <2>7, <2>8 DEF PlaceInv
<1> QED
  BY <1>2, <1>3

\* The steps that enter Clean, and those of Clean that move no buffer.
LEMMA CleanPlaces ==
  ASSUME PlaceInv, InitEmpty \/ Destroy \/ Reap \/ Await
  PROVE  PlaceInv'
<1>1. /\ UNCHANGED <<queue, hold, side, forever, todo, count, usrAlloc, selfInit>>
      /\ pc[App] \in {"idle", "reap", "count"}
      /\ \E v \in {"drain", "idle", "count", "asleep"} : pc' = [pc EXCEPT ![App] = v]
  BY DEF InitEmpty, Destroy, Clean, Calling, Reap, Await, Cleaned
<1>2. /\ buffers' \in SUBSET Buffers /\ tmpBuf' \in SUBSET Buffers
      /\ deleted' \in SUBSET Buffers
      /\ life' \in {"live", "closing", "gone"}
  BY DEF PlaceInv, TypeOK, InitEmpty, Destroy, Clean, Reap, Await, Cleaned
<1>3. /\ pc' \in [Threads -> ClientPCs \cup AppPCs]
      /\ \A t \in Threads : /\ pc'[t] \in AppPCs => t = App
                            /\ pc'[t] = "blocked" => pc[t] = "blocked"
      /\ pc'[App] # "move"
  BY <1>1, BufferListAssumption DEF PlaceInv, TypeOK, ClientPCs, AppPCs
<1>4. TypeOK' /\ OnePlace'
  BY <1>1, <1>2, <1>3 DEF PlaceInv, TypeOK, OnePlace
<1>5. todo = <<>>
  BY <1>1 DEF PlaceInv, TodoHeld
<1>6. TodoHeld' /\ ClientsWait'
  BY <1>1, <1>3, <1>5 DEF PlaceInv, TypeOK, TodoHeld, ClientsWait
<1> QED
  BY <1>4, <1>6 DEF PlaceInv

\* Clean takes the head of the used side, or goes on.
LEMMA DrainPlaces ==
  ASSUME PlaceInv, Drain
  PROVE  PlaceInv'
<1>1. /\ pc[App] = "drain" /\ todo = <<>>
      /\ UNCHANGED <<side, forever, buffers, tmpBuf, count, usrAlloc, selfInit, deleted,
                     life>>
  BY DEF Drain, PlaceInv, TodoHeld
<1>2. CASE queue["used"] = <<>>
  <2>1. pc' = [pc EXCEPT ![App] = "reap"] /\ UNCHANGED <<queue, hold, todo>>
    BY <1>2 DEF Drain
  <2>2. TypeOK' /\ OnePlace' /\ TodoHeld' /\ ClientsWait'
    BY <1>1, <2>1, BufferListAssumption
    DEF PlaceInv, TypeOK, OnePlace, TodoHeld, ClientsWait, AppPCs
  <2> QED
    BY <2>2 DEF PlaceInv
<1>3. CASE queue["used"] # <<>>
  <2>1. /\ Pop(App, "used")
        /\ todo' = <<Head(queue["used"])>>
        /\ pc' = [pc EXCEPT ![App] = "move"]
    BY <1>3 DEF Drain
  <2>2. queue["used"] \in Seq(Buffers) /\ Head(queue["used"]) \in Buffers
    BY <1>3, HeadTailProperties DEF PlaceInv, TypeOK, Sides
  <2>3. /\ queue' \in [Sides -> Seq(Buffers)] /\ hold' \in [Threads -> SUBSET Buffers]
        /\ OnePlace'
        /\ Head(queue["used"]) \in hold'[App]
        /\ \A x \in Sides : queue[x] = <<>> => queue'[x] = <<>>
    BY <2>1, PopMoves, BufferListAssumption DEF Sides
  <2>4. /\ pc' \in [Threads -> ClientPCs \cup AppPCs]
        /\ pc'[App] = "move"
        /\ \A t \in Threads : /\ pc'[t] \in AppPCs => t = App
                              /\ pc'[t] = "blocked" => pc[t] = "blocked"
    BY <2>1, BufferListAssumption DEF PlaceInv, TypeOK, AppPCs
  <2>5. todo' \in Seq(Buffers) /\ Len(todo') = 1 /\ todo'[1] = Head(queue["used"])
    BY <2>1, <2>2
  <2>6. TypeOK'
    BY <1>1, <2>3, <2>4, <2>5 DEF PlaceInv, TypeOK
  <2>7. TodoHeld'
    BY <2>3, <2>4, <2>5 DEF TodoHeld
  <2>8. ClientsWait'
    BY <1>1, <2>3, <2>4 DEF PlaceInv, TypeOK, ClientsWait
  <2> QED
    BY <2>3, <2>6, <2>7, <2>8 DEF PlaceInv
<1> QED
  BY <1>2, <1>3

\* ... and gives it to the free side.
LEMMA RefreePlaces ==
  ASSUME PlaceInv, Refree
  PROVE  PlaceInv'
<1>1. /\ pc[App] = "move" /\ Push(App, "free", Head(todo)) /\ todo' = <<>>
      /\ pc' = [Awake("free") EXCEPT ![App] = "drain"]
      /\ UNCHANGED <<side, forever, buffers, tmpBuf, count, usrAlloc, selfInit, deleted,
                     life>>
  BY DEF Refree
<1>2. Head(todo) = todo[1] /\ todo[1] \in hold[App]
  BY <1>1 DEF PlaceInv, TodoHeld
<1>3. /\ queue' \in [Sides -> Seq(Buffers)] /\ hold' \in [Threads -> SUBSET Buffers]
      /\ OnePlace'
      /\ queue'["used"] = queue["used"]
  BY <1>1, <1>2, PushMoves, BufferListAssumption DEF Sides
<1>4. /\ pc' \in [Threads -> ClientPCs \cup AppPCs]
      /\ pc'[App] = "drain"
      /\ \A t \in Threads : /\ pc'[t] \in AppPCs => t = App
                            /\ pc'[t] = "blocked" => pc[t] = "blocked" /\ side[t] # "free"
  <2>1. "free" \in Sides
    BY DEF Sides
  <2>2. /\ Awake("free") \in [Threads -> ClientPCs \cup AppPCs]
        /\ \A t \in Threads :
             /\ Awake("free")[t] \in AppPCs => t = App
             /\ Awake("free")[t] = "blocked" => pc[t] = "blocked" /\ side[t] # "free"
    BY <2>1, AwakeMoves DEF PlaceInv, TypeOK
  <2> HIDE DEF Awake
  <2> QED
    BY <1>1, <2>2, BufferListAssumption DEF AppPCs
<1>5. TypeOK'
  BY <1>1, <1>3, <1>4, EmptySeq DEF PlaceInv, TypeOK
<1>6. TodoHeld'
  BY <1>1, <1>4 DEF TodoHeld
<1>7. ClientsWait'
  BY <1>1, <1>3, <1>4 DEF PlaceInv, TypeOK, ClientsWait, Sides
<1> QED
  BY <1>3, <1>5, <1>6, <1>7 DEF PlaceInv

\* Together: every step keeps buffers in one place and clients awake.
LEMMA NextPlaces == PlaceInv /\ [Next]_vars => PlaceInv'
<1> SUFFICES ASSUME PlaceInv, [Next]_vars PROVE PlaceInv'
  OBVIOUS
<1>1. CASE UNCHANGED vars
  BY <1>1 DEF vars, PlaceInv, TypeOK, OnePlace, TodoHeld, ClientsWait
<1>2. ASSUME NEW t \in Threads,
             \/ GetFree(t) \/ GetUsed(t)
             \/ \E f \in BOOLEAN : WaitFree(t, f) \/ WaitUsed(t, f)
             \/ Wake(t) \/ Expire(t) \/ GiveUp(t) \/ Spurious(t)
             \/ \E b \in Buffers : PutFree(t, b) \/ PutUsed(t, b)
      PROVE  PlaceInv'
  <2>1. "free" \in Sides /\ "used" \in Sides
    BY DEF Sides
  <2>2. CASE GetFree(t) \/ GetUsed(t)
    BY <2>1, <2>2, GetPlaces DEF GetFree, GetUsed
  <2>3. CASE \/ \E f \in BOOLEAN : WaitFree(t, f) \/ WaitUsed(t, f)
             \/ Expire(t) \/ GiveUp(t) \/ Spurious(t)
    BY <2>1, <2>3, PausePlaces DEF WaitFree, WaitUsed
  <2>4. CASE Wake(t)
    BY <2>4, WakePlaces
  <2>5. CASE \E b \in Buffers : PutFree(t, b) \/ PutUsed(t, b)
    BY <2>1, <2>5, PutPlaces DEF PutFree, PutUsed
  <2> QED
    BY <1>2, <2>2, <2>3, <2>4, <2>5
<1>3. CASE \/ \E arr \in UserArrays : InitUser(arr)
           \/ \E arr \in OwnArrays : InitOwn(arr)
  BY <1>3, PreInitPlaces
<1>4. CASE InitEmpty \/ Destroy \/ Reap \/ Await
  BY <1>4, CleanPlaces
<1>5. CASE Park
  BY <1>5, ParkPlaces
<1>6. CASE Drain
  BY <1>6, DrainPlaces
<1>7. CASE Refree
  BY <1>7, RefreePlaces
<1> QED
  BY <1>1, <1>2, <1>3, <1>4, <1>5, <1>6, <1>7 DEF Next

\* However the list is used, by any number of threads: the state is well formed, a
\* buffer is in one place, and no client sleeps beside a buffer for it.
THEOREM PlacesAndWaits == Spec => [](TypeOK /\ OnePlace /\ ClientsWait)
<1>1. PlaceInv => TypeOK /\ OnePlace /\ ClientsWait
  BY DEF PlaceInv
<1> QED
  BY <1>1, InitPlaces, NextPlaces, PTL DEF Spec

\* Whoever uses the list and however often it is initialised, every variable keeps its type.
COROLLARY TypeCorrect == Spec => []TypeOK
<1>1. TypeOK /\ OnePlace /\ ClientsWait => TypeOK
  OBVIOUS
<1> QED
  BY <1>1, PlacesAndWaits, PTL

-----------------------------------------------------------------------------
(* The destructor's wait.                                                   *)

\* Who may be where in the destructor's time, and why an Init that fails never waits:
\* it has nothing to wait for.
Closing ==
  /\ life # "live" => \A t \in Threads \ {App} : pc[t] = "idle"
  /\ life = "closing" => pc[App] \in {"drain", "move", "reap", "count", "asleep"}
  /\ life = "gone" => pc[App] = "idle"
  /\ pc[App] \in {"drain", "move", "reap"} => tmpBuf = {} \/ life = "closing"
  /\ pc[App] \in {"count", "asleep"} => life = "closing"
  /\ pc[App] = "asleep" => Len(queue["free"]) # count

\* A list that is begun is not in its destructor.
LEMMA InitClosing == Init => Closing
  BY BufferListAssumption DEF Init, Closing

\* Calls of clients: those that may run beside Clean are the PutFree ones, and each
\* wakes it up.
LEMMA ClientClosing ==
  ASSUME PlaceInv, PlaceInv', Closing, NEW t \in Threads,
         \/ \E s \in Sides : Get(t, s) \/ \E f \in BOOLEAN : Wait(t, s, f)
         \/ Wake(t) \/ Expire(t) \/ GiveUp(t) \/ Spurious(t)
  PROVE  Closing'
<1>1. UNCHANGED <<todo, tmpBuf, count, life>>
  BY DEF Get, Wait, Wake, Expire, GiveUp, Spurious, appVars
<1>2. /\ pc[t] \in ClientPCs
      /\ \E v \in ClientPCs : pc' = [pc EXCEPT ![t] = v]
      /\ pc[t] = "idle" => life = "live"
  <2>1. CASE \E s \in Sides : Get(t, s)
    BY <2>1 DEF Get, Calling, ClientPCs, PlaceInv, TypeOK
  <2>2. CASE \E s \in Sides, f \in BOOLEAN : Wait(t, s, f)
    BY <2>2 DEF Wait, Calling, ClientPCs
  <2>3. CASE Wake(t) \/ Expire(t) \/ GiveUp(t) \/ Spurious(t)
    BY <2>3 DEF Wake, Expire, GiveUp, Spurious, Return, ClientPCs
  <2> QED
    BY <2>1, <2>2, <2>3
<1>3. life = "live"
  BY <1>2, BufferListAssumption DEF Closing, ClientPCs, PlaceInv, TypeOK
<1>4. pc'[App] \in {"drain", "move", "reap"} => pc'[App] = pc[App]
  BY <1>2, BufferListAssumption DEF ClientPCs, PlaceInv, TypeOK
<1>5. pc'[App] \notin {"count", "asleep"}
  BY <1>2, <1>3, BufferListAssumption DEF Closing, ClientPCs, PlaceInv, TypeOK
<1> QED
  BY <1>1, <1>3, <1>4, <1>5 DEF Closing

\* A buffer that comes back wakes Clean, or finds it awake.
LEMMA PutClosing ==
  ASSUME PlaceInv, Closing, NEW t \in Threads, NEW b \in Buffers,
         PutFree(t, b) \/ PutUsed(t, b)
  PROVE  Closing'
<1>1. PICK s \in Sides : /\ Put(t, s, b)
                         /\ life = "live" \/ s = "free"
  BY DEF PutFree, PutUsed, Sides
<1>2. pc' = Awake(s) /\ UNCHANGED <<tmpBuf, count, life>>
  BY <1>1 DEF Put, appVars
<1>3. \A u \in Threads : pc[u] = "idle" => pc'[u] = "idle"
  BY <1>2 DEF Awake
<1>4. /\ pc'[App] = IF pc[App] = "blocked" /\ side[App] = s THEN "woken"
                    ELSE IF pc[App] = "asleep" /\ s = "free" THEN "count"
                    ELSE pc[App]
  BY <1>2, BufferListAssumption DEF Awake
<1>5. pc'[App] # "asleep"
  BY <1>1, <1>4 DEF Closing
<1> QED
  BY <1>2, <1>3, <1>4, <1>5, BufferListAssumption DEF Closing

\* App's own steps.
LEMMA AppClosing ==
  ASSUME PlaceInv, Closing, ~EmptyReInit,
         \/ \E arr \in UserArrays : InitUser(arr)
         \/ \E arr \in OwnArrays : InitOwn(arr)
         \/ InitEmpty \/ Destroy \/ Park \/ Drain \/ Refree \/ Reap \/ Await
  PROVE  Closing'
<1>1. App \in Threads /\ pc \in [Threads -> ClientPCs \cup AppPCs]
  BY BufferListAssumption DEF PlaceInv, TypeOK
<1>2. CASE \E arr \in UserArrays \cup OwnArrays : InitUser(arr) \/ InitOwn(arr)
  BY <1>1, <1>2 DEF InitUser, InitOwn, PreInit, Calling, Closing
<1>3. CASE InitEmpty
  BY <1>1, <1>3 DEF InitEmpty, Calling, Clean, Closing
<1>4. CASE Destroy
  BY <1>1, <1>4 DEF Destroy, Calling, Clean, Closing
<1>5. CASE Park
  <2>1. life = "live" /\ life' = life /\ tmpBuf' = tmpBuf
    <3>1. pc[App] = "park" /\ life' = life /\ tmpBuf' = tmpBuf
      BY <1>5 DEF Park
    <3>2. life \in {"live", "closing", "gone"}
      BY DEF PlaceInv, TypeOK
    <3> QED
      BY <3>1, <3>2 DEF Closing
  <2>2. pc'[App] \in {"park", "idle"}
    BY <1>1, <1>5 DEF Park, Awake
  <2> QED
    BY <2>1, <2>2 DEF Closing
<1>6. CASE Drain
  <2>1. /\ UNCHANGED <<tmpBuf, count, life>>
        /\ pc[App] = "drain"
        /\ pc' = [pc EXCEPT ![App] = "move"] \/ pc' = [pc EXCEPT ![App] = "reap"]
    BY <1>6 DEF Drain
  <2> QED
    BY <1>1, <2>1 DEF Closing
<1>7. CASE Refree
  <2>1. /\ UNCHANGED <<tmpBuf, count, life>>
        /\ pc[App] = "move"
        /\ pc' = [Awake("free") EXCEPT ![App] = "drain"]
    BY <1>7 DEF Refree
  <2>2. \A u \in Threads \ {App} : pc[u] = "idle" => pc'[u] = "idle"
    BY <2>1 DEF Awake
  <2>3. pc'[App] = "drain"
    BY <1>1, <2>1 DEF Awake
  <2> QED
    BY <2>1, <2>2, <2>3 DEF Closing
<1>8. CASE Reap
  BY <1>1, <1>8 DEF Reap, Cleaned, Closing
<1>9. CASE Await
  BY <1>1, <1>9 DEF Await, Cleaned, Closing
<1> QED
  BY <1>2, <1>3, <1>4, <1>5, <1>6, <1>7, <1>8, <1>9

\* Together: with one Init, the destructor never sleeps beside a complete free side.
LEMMA NextClosing ==
  ASSUME PlaceInv, PlaceInv', Closing, ~EmptyReInit, [Next]_vars
  PROVE  Closing'
<1>1. CASE UNCHANGED vars
  BY <1>1 DEF vars, Closing
<1>2. ASSUME NEW t \in Threads,
             \/ GetFree(t) \/ GetUsed(t)
             \/ \E f \in BOOLEAN : WaitFree(t, f) \/ WaitUsed(t, f)
             \/ Wake(t) \/ Expire(t) \/ GiveUp(t) \/ Spurious(t)
      PROVE  Closing'
  <2>1. "free" \in Sides /\ "used" \in Sides
    BY DEF Sides
  <2> QED
    BY <1>2, <2>1, ClientClosing DEF GetFree, GetUsed, WaitFree, WaitUsed
<1>3. ASSUME NEW t \in Threads, NEW b \in Buffers, PutFree(t, b) \/ PutUsed(t, b)
      PROVE  Closing'
  BY <1>3, PutClosing
<1>4. CASE \/ \E arr \in UserArrays : InitUser(arr)
           \/ \E arr \in OwnArrays : InitOwn(arr)
           \/ InitEmpty \/ Destroy \/ Park \/ Drain \/ Refree \/ Reap \/ Await
  BY <1>4, AppClosing
<1> QED
  BY <1>1, <1>2, <1>3, <1>4 DEF Next

\* Nobody sleeps beside what would end the wait: no client beside a buffer, and the
\* destructor not beside a free side that is complete.
THEOREM WakeupsKept == ~EmptyReInit => (Spec => []NoLostWakeup)
<1> SUFFICES ASSUME ~EmptyReInit PROVE Spec => []NoLostWakeup
  OBVIOUS
<1>1. PlaceInv /\ Closing => NoLostWakeup
  BY DEF PlaceInv, ClientsWait, Closing, NoLostWakeup
<1>2. PlaceInv /\ PlaceInv' /\ Closing /\ [Next]_vars => Closing'
  BY NextClosing
<1> QED
  BY <1>1, <1>2, InitPlaces, NextPlaces, InitClosing, PTL DEF Spec

-----------------------------------------------------------------------------
(* The destructor's memory.                                                 *)

\* What the list deletes is what it parked and waits for, and nobody holds any of it
\* but Clean itself, while it moves it.
Freed ==
  /\ life # "live" /\ ~usrAlloc =>
       /\ \A t \in Threads \ {App} : hold[t] \cap tmpBuf = {}
       /\ hold[App] \cap tmpBuf \subseteq Elems(todo)
  /\ deleted # {} => /\ life # "live"
                     /\ ~usrAlloc
                     /\ deleted = tmpBuf
                     /\ pc[App] \in {"count", "asleep", "idle"}

\* A step that leaves the list's own memory, and lets no one but App take a buffer in
\* the destructor's time, keeps it so.
LEMMA QuietFreed ==
  ASSUME Freed, UNCHANGED <<tmpBuf, deleted, usrAlloc, todo, life>>,
         \/ life = "live"
         \/ /\ \A t \in Threads : hold'[t] \subseteq hold[t]
            /\ pc[App] \in {"count", "asleep", "idle"} =>
                 pc'[App] \in {"count", "asleep", "idle"}
  PROVE  Freed'
<1>1. App \in Threads
  BY BufferListAssumption
<1>2. CASE life = "live"
  BY <1>2 DEF Freed
<1>3. CASE life # "live"
  <2>1. Elems(todo)' = Elems(todo)
    BY DEF Elems
  <2>2. ~usrAlloc => /\ \A t \in Threads \ {App} : hold'[t] \cap tmpBuf = {}
                     /\ hold'[App] \cap tmpBuf \subseteq Elems(todo)
    BY <1>1, <1>3 DEF Freed
  <2> QED
    BY <1>3, <2>1, <2>2 DEF Freed
<1> QED
  BY <1>2, <1>3

\* A list that is begun has deleted nothing.
LEMMA InitFreed == Init => Freed
  BY DEF Init, Freed

\* Together: the destructor deletes what nobody holds, and nobody takes it up again.
LEMMA NextFreed ==
  ASSUME PlaceInv, Closing, Freed, ~EmptyReInit, ~LateSelfAlloc, [Next]_vars
  PROVE  Freed'
<1>1. App \in Threads /\ pc \in [Threads -> ClientPCs \cup AppPCs]
                      /\ hold \in [Threads -> SUBSET Buffers]
                      /\ life \in {"live", "closing", "gone"}
  BY BufferListAssumption DEF PlaceInv, TypeOK
<1>2. CASE UNCHANGED vars
  BY <1>2, QuietFreed DEF vars
<1>3. ASSUME NEW t \in Threads,
             \/ GetFree(t) \/ GetUsed(t)
             \/ \E f \in BOOLEAN : WaitFree(t, f) \/ WaitUsed(t, f)
             \/ Wake(t) \/ Expire(t) \/ GiveUp(t) \/ Spurious(t)
      PROVE  Freed'
  <2>1. UNCHANGED appVars
    BY <1>3 DEF GetFree, GetUsed, Get, WaitFree, WaitUsed, Wait, Wake, Expire, GiveUp,
                Spurious
  <2>2. pc[t] \in ClientPCs /\ (pc[t] = "idle" => life = "live")
    BY <1>3 DEF GetFree, GetUsed, Get, WaitFree, WaitUsed, Wait, Calling, Wake, Expire,
                GiveUp, Spurious, ClientPCs
  <2>3. life = "live"
    BY <1>1, <2>2 DEF Closing, ClientPCs
  <2> QED
    BY <2>1, <2>3, QuietFreed DEF appVars
<1>4. ASSUME NEW t \in Threads, NEW b \in Buffers, PutFree(t, b) \/ PutUsed(t, b)
      PROVE  Freed'
  <2>1. PICK s \in Sides : Put(t, s, b)
    BY <1>4 DEF PutFree, PutUsed, Sides
  <2>2. /\ hold' = [hold EXCEPT ![t] = @ \ {b}]
        /\ pc' = Awake(s)
        /\ UNCHANGED <<tmpBuf, deleted, usrAlloc, todo, life>>
    BY <2>1 DEF Put, Push, appVars
  <2>3. \A u \in Threads : hold'[u] \subseteq hold[u]
    BY <1>1, <2>2
  <2>4. pc[App] \in {"count", "asleep", "idle"} => pc'[App] \in {"count", "asleep", "idle"}
    BY <1>1, <2>2 DEF Awake
  <2> QED
    BY <2>2, <2>3, <2>4, QuietFreed
<1>5. CASE \E arr \in UserArrays \cup OwnArrays : InitUser(arr) \/ InitOwn(arr)
  <2>1. life = "live" /\ UNCHANGED <<deleted, life>>
    BY <1>5 DEF InitUser, InitOwn, PreInit, Calling
  <2> QED
    BY <2>1 DEF Freed
<1>6. CASE InitEmpty \/ Park
  <2>1. life = "live"
    BY <1>1, <1>6 DEF InitEmpty, Park, Calling, Closing
  <2>2. UNCHANGED <<deleted, life>>
    BY <1>6 DEF InitEmpty, Clean, Park
  <2> QED
    BY <2>1, <2>2 DEF Freed
<1>7. CASE Destroy
  <2>1. /\ life = "live" /\ deleted' = deleted /\ usrAlloc' = usrAlloc
        /\ tmpBuf' = buffers /\ hold' = hold
        /\ usrAlloc \/ \A t \in Threads : hold[t] \cap buffers = {}
    BY <1>7 DEF Destroy, Calling, Clean
  <2> QED
    BY <1>1, <2>1 DEF Freed
<1>8. CASE Drain
  <2>1. pc[App] = "drain" /\ UNCHANGED <<tmpBuf, usrAlloc, deleted, life>>
    BY <1>8 DEF Drain
  <2>2. deleted = {} /\ todo = <<>>
    BY <2>1 DEF Freed, PlaceInv, TodoHeld
  <2>3. CASE queue["used"] = <<>>
    <3>1. UNCHANGED <<hold, todo>>
      BY <1>8, <2>3 DEF Drain
    <3> QED
      BY <2>1, <2>2, <3>1 DEF Freed, Elems
  <2>4. CASE queue["used"] # <<>>
    <3> DEFINE b == Head(queue["used"])
    <3>1. /\ hold' = [hold EXCEPT ![App] = @ \cup {b}]
          /\ todo' = <<b>>
      BY <1>8, <2>4 DEF Drain, Pop
    <3> HIDE DEF b
    <3>2. /\ hold'[App] = hold[App] \cup {b}
          /\ \A t \in Threads \ {App} : hold'[t] = hold[t]
      BY <1>1, <3>1
    <3>3. Elems(todo)' = {b}
      BY <3>1 DEF Elems
    <3>4. Elems(todo) = {}
      BY <2>2 DEF Elems
    <3> QED
      BY <2>1, <2>2, <3>2, <3>3, <3>4 DEF Freed
  <2> QED
    BY <2>3, <2>4
<1>9. CASE Refree
  <2>1. /\ pc[App] = "move" /\ UNCHANGED <<tmpBuf, usrAlloc, deleted, life>>
        /\ hold' = [hold EXCEPT ![App] = @ \ {Head(todo)}]
        /\ todo' = <<>>
    BY <1>9 DEF Refree, Push
  <2>2. deleted = {}
    BY <2>1 DEF Freed
  <2>3. Elems(todo) = {Head(todo)}
    <3>1. todo \in Seq(Buffers) /\ Len(todo) = 1
      BY <2>1 DEF PlaceInv, TypeOK, TodoHeld
    <3>2. Head(todo) = todo[1]
      BY <3>1
    <3>3. \A i : i \in 1 .. Len(todo) <=> i = 1
      BY <3>1
    <3> QED
      BY <3>2, <3>3 DEF Elems
  <2>4. /\ hold'[App] = hold[App] \ {Head(todo)}
        /\ \A t \in Threads \ {App} : hold'[t] = hold[t]
    BY <1>1, <2>1
  <2>5. Elems(todo)' = {}
    BY <2>1 DEF Elems
  <2> QED
    BY <2>1, <2>2, <2>3, <2>4, <2>5 DEF Freed
<1>10. CASE Reap
  <2>1. /\ pc[App] = "reap" /\ UNCHANGED <<tmpBuf, usrAlloc, hold, todo>>
        /\ deleted' = IF usrAlloc THEN deleted ELSE deleted \cup tmpBuf
        /\ tmpBuf = {} \/ life' = life
        /\ life = "closing" => life' # "live"
        /\ pc' = [pc EXCEPT ![App] = "idle"] \/ pc' = [pc EXCEPT ![App] = "count"]
    BY <1>10 DEF Reap, Cleaned
  <2>2. deleted = {} /\ (tmpBuf = {} \/ life = "closing")
    BY <2>1 DEF Freed, Closing
  <2>3. Elems(todo)' = Elems(todo)
    BY <2>1 DEF Elems
  <2>4. pc'[App] \in {"count", "asleep", "idle"}
    BY <1>1, <2>1
  <2> QED
    BY <1>1, <2>1, <2>2, <2>3, <2>4 DEF Freed
<1>11. CASE Await
  <2>1. /\ pc[App] = "count" /\ UNCHANGED <<tmpBuf, usrAlloc, hold, todo, deleted>>
        /\ pc' = [pc EXCEPT ![App] = "idle"] \/ pc' = [pc EXCEPT ![App] = "asleep"]
        /\ life = "closing" => life' # "live"
    BY <1>11 DEF Await, Cleaned
  <2>2. life = "closing"
    BY <2>1 DEF Closing
  <2>3. Elems(todo)' = Elems(todo)
    BY <2>1 DEF Elems
  <2>4. pc'[App] \in {"count", "asleep", "idle"}
    BY <1>1, <2>1
  <2> QED
    BY <2>1, <2>2, <2>3, <2>4 DEF Freed
<1> QED
  BY <1>2, <1>3, <1>4, <1>5, <1>6, <1>7, <1>8, <1>9, <1>10, <1>11 DEF Next

\* If the caller initialises the list once, and no thread holds one of the list's own
\* buffers when the list is deleted, nobody is left with freed memory.
THEOREM FreedNotUsed ==
  ~EmptyReInit /\ ~LateSelfAlloc => (Spec => []NoUseAfterFree)
<1> SUFFICES ASSUME ~EmptyReInit, ~LateSelfAlloc PROVE Spec => []NoUseAfterFree
  OBVIOUS
<1>1. PlaceInv /\ Closing /\ Freed => NoUseAfterFree
  <2> SUFFICES ASSUME PlaceInv, Freed, deleted # {}
               PROVE  \A t \in Threads : hold[t] \cap deleted = {}
    BY DEF NoUseAfterFree, Freed
  <2>1. todo = <<>>
    BY DEF PlaceInv, TodoHeld, Freed
  <2>2. Elems(todo) = {}
    BY <2>1 DEF Elems
  <2> QED
    BY <2>2 DEF Freed
<1>2. PlaceInv /\ PlaceInv' /\ Closing /\ [Next]_vars => Closing'
  BY NextClosing
<1>3. PlaceInv /\ Closing /\ Freed /\ [Next]_vars => Freed'
  BY NextFreed
<1> QED
  BY <1>1, <1>2, <1>3, InitPlaces, NextPlaces, InitClosing, InitFreed, PTL DEF Spec

-----------------------------------------------------------------------------
(* BufferList implements BufferPool, on the caller's side the header asks     *)
(* for.  What is to be shown beyond the places of buffers (PlaceInv) is that  *)
(* the destructor's test of a number, the length of the free FIFO, is a test  *)
(* of a set: that every parked buffer is there.                               *)

\* The buffers parked in the list; Clean still waits for them when m_buffers is NULL.
Home == buffers \cup tmpBuf

\* b is in a FIFO or in somebody's hands.
Around(b) == \/ \E s \in Sides : b \in Elems(queue[s])
             \/ \E t \in Threads : b \in hold[t]

\* Where buffers are parked only they go round, none is lost, and m_count is their
\* number; behind its first loop Clean's used side stays empty.
Homing ==
  /\ life = "live" => tmpBuf = {}
  /\ life # "live" => buffers = {}
  /\ Home # {} => /\ \A s \in Sides : Elems(queue[s]) \subseteq Home
                  /\ Elems(todo) \subseteq Home
                  /\ IsFiniteSet(Home) /\ Cardinality(Home) = count
  /\ \A b \in Home : Around(b)
  /\ pc[App] \in {"count", "asleep"} => Home # {}
  /\ life = "closing" /\ pc[App] \in {"reap", "count", "asleep"} =>
       queue["used"] = <<>>

PoolInv == PlaceInv /\ Closing /\ Freed /\ Homing

-----------------------------------------------------------------------------
(* Sequences as sets.                                                       *)

\* pop_front takes one element out of the set, where none is twice.
LEMMA ElemsTail ==
  ASSUME NEW q \in Seq(Buffers), q # <<>>,
         \A i, j \in 1 .. Len(q) : q[i] = q[j] => i = j
  PROVE  Head(q) \in Elems(q) /\ Elems(Tail(q)) = Elems(q) \ {Head(q)}
<1>1. /\ Len(q) \in Nat \ {0} /\ Head(q) = q[1]
      /\ Len(Tail(q)) = Len(q) - 1
      /\ \A i \in 1 .. Len(Tail(q)) : Tail(q)[i] = q[i + 1]
  BY HeadTailProperties
<1>2. ASSUME NEW b \in Elems(Tail(q)) PROVE b \in Elems(q) \ {Head(q)}
  <2>1. PICK i \in 1 .. Len(Tail(q)) : b = Tail(q)[i]
    BY DEF Elems
  <2>2. i + 1 \in 1 .. Len(q) /\ 1 \in 1 .. Len(q) /\ b = q[i + 1] /\ i + 1 # 1
    BY <1>1, <2>1
  <2> QED
    BY <1>1, <2>2 DEF Elems
<1>3. ASSUME NEW b \in Elems(q) \ {Head(q)} PROVE b \in Elems(Tail(q))
  <2>1. PICK i \in 1 .. Len(q) : b = q[i]
    BY DEF Elems
  <2>2. i # 1
    BY <1>1, <2>1
  <2>3. i - 1 \in 1 .. Len(Tail(q)) /\ Tail(q)[i - 1] = q[i]
    BY <1>1, <2>2
  <2> QED
    BY <2>1, <2>3 DEF Elems
<1>4. Head(q) \in Elems(q)
  BY <1>1 DEF Elems
<1> QED
  BY <1>2, <1>3, <1>4

\* push_back puts one element into the set.
LEMMA ElemsAppend ==
  ASSUME NEW q \in Seq(Buffers), NEW b \in Buffers
  PROVE  Elems(Append(q, b)) = Elems(q) \cup {b}
<1>1. /\ Len(q) \in Nat /\ Len(Append(q, b)) = Len(q) + 1
      /\ \A i \in 1 .. Len(q) : Append(q, b)[i] = q[i]
      /\ Append(q, b)[Len(q) + 1] = b
  BY AppendProperties
<1>2. \A i : i \in 1 .. Len(q) + 1 <=> i \in 1 .. Len(q) \/ i = Len(q) + 1
  BY <1>1
<1> QED
  BY <1>1, <1>2 DEF Elems

\* A sequence that names nothing twice is as long as its set is large.
LEMMA ElemsCount ==
  ASSUME NEW q \in Seq(Buffers), \A i, j \in 1 .. Len(q) : q[i] = q[j] => i = j
  PROVE  IsFiniteSet(Elems(q)) /\ Cardinality(Elems(q)) = Len(q)
<1>1. Len(q) \in Nat
  OBVIOUS
<1>2. IsFiniteSet(1 .. Len(q)) /\ Cardinality(1 .. Len(q)) = Len(q)
  <2>1. 1 \in Int /\ Len(q) \in Int
    BY <1>1
  <2>2. IsFiniteSet(1 .. Len(q))
        /\ Cardinality(1 .. Len(q)) = IF 1 > Len(q) THEN 0 ELSE Len(q) - 1 + 1
    BY <2>1, FS_Interval, Zenon
  <2> QED
    BY <1>1, <2>2
<1> DEFINE f == [i \in 1 .. Len(q) |-> q[i]]
<1>3. f \in Bijection(1 .. Len(q), Elems(q))
  BY DEF Elems, Bijection, Injection, Surjection, IsInjective
<1>4. ExistsBijection(1 .. Len(q), Elems(q))
  BY <1>3 DEF ExistsBijection
<1> QED
  BY <1>2, <1>4, FS_Bijection

-----------------------------------------------------------------------------
(* Places.                                                                  *)

\* A buffer's place is where it is found: OnePlace leaves no choice.
PlaceKnown ==
  \A b \in Buffers :
    /\ \A t \in Threads : b \in hold[t] => PlaceOf(b) = t
    /\ b \in Elems(queue["free"]) => PlaceOf(b) = "free"
    /\ b \in Elems(queue["used"]) => PlaceOf(b) = "used"
    /\ ~Around(b) => PlaceOf(b) = "new"

\* In a state that keeps buffers apart every buffer's place is known.
LEMMA PlacesKnown == PlaceInv => PlaceKnown
<1> SUFFICES ASSUME PlaceInv, NEW b \in Buffers
             PROVE  /\ \A t \in Threads : b \in hold[t] => PlaceOf(b) = t
                    /\ b \in Elems(queue["free"]) => PlaceOf(b) = "free"
                    /\ b \in Elems(queue["used"]) => PlaceOf(b) = "used"
                    /\ ~Around(b) => PlaceOf(b) = "new"
  BY DEF PlaceKnown
<1>1. /\ \A t, u \in Threads : b \in hold[t] /\ b \in hold[u] => t = u
      /\ \A t \in Threads : b \in hold[t] => \A s \in Sides : b \notin Elems(queue[s])
      /\ b \in Elems(queue["free"]) => b \notin Elems(queue["used"])
  BY DEF PlaceInv, OnePlace, Elems, Sides
<1>2. ASSUME NEW t \in Threads, b \in hold[t] PROVE PlaceOf(b) = t
  <2>1. PlaceOf(b) = CHOOSE u \in Threads : b \in hold[u]
    <3>1. /\ \E u \in Threads : b \in hold[u]
          /\ b \notin Elems(queue["free"]) /\ b \notin Elems(queue["used"])
      BY <1>1, <1>2 DEF Sides
    <3> QED
      BY <3>1 DEF PlaceOf
  <2>2. PlaceOf(b) \in Threads /\ b \in hold[PlaceOf(b)]
    BY <1>2, <2>1
  <2> QED
    BY <1>1, <1>2, <2>2
<1>3. ASSUME b \in Elems(queue["free"]) PROVE PlaceOf(b) = "free"
  BY <1>1, <1>3 DEF PlaceOf, Sides
<1>4. ASSUME b \in Elems(queue["used"]) PROVE PlaceOf(b) = "used"
  BY <1>1, <1>4 DEF PlaceOf, Sides
<1>5. ASSUME ~Around(b) PROVE PlaceOf(b) = "new"
  BY <1>5 DEF PlaceOf, Around, Sides
<1> QED
  BY <1>2, <1>3, <1>4, <1>5

\* The same of the next state.
LEMMA PlacesKnownNext == PlaceInv' => PlaceKnown'
  BY PlacesKnown, PTL

\* Two states that find b in the same places agree on its place.
LEMMA PlaceKept ==
  ASSUME PlaceInv, PlaceInv', NEW b \in Buffers,
         \A t \in Threads : b \in hold'[t] <=> b \in hold[t],
         \A s \in Sides : b \in Elems(queue'[s]) <=> b \in Elems(queue[s])
  PROVE  PlaceOf(b)' = PlaceOf(b)
<1>1. PlaceKnown /\ PlaceKnown'
  BY PlacesKnown, PlacesKnownNext
<1>2. CASE \E t \in Threads : b \in hold[t]
  BY <1>1, <1>2 DEF PlaceKnown
<1>3. CASE \E s \in Sides : b \in Elems(queue[s])
  BY <1>1, <1>3 DEF PlaceKnown, Sides, Elems
<1>4. CASE ~Around(b)
  <2>1. ~Around(b)'
    BY <1>4 DEF Around, Elems
  <2> QED
    BY <1>1, <1>4, <2>1 DEF PlaceKnown
<1> QED
  BY <1>2, <1>3, <1>4 DEF Around

-----------------------------------------------------------------------------
(* The two moves.                                                           *)

\* b passes from the FIFO of side s to t's hands ...
Takes(t, s, b) ==
  /\ b \in Elems(queue[s])
  /\ \A x \in Sides : Elems(queue'[x]) = IF x = s THEN Elems(queue[x]) \ {b}
                                        ELSE Elems(queue[x])
  /\ \A u \in Threads : hold'[u] = IF u = t THEN hold[u] \cup {b} ELSE hold[u]

\* ... and from t's hands to the FIFO.
Gives(t, s, b) ==
  /\ b \in hold[t]
  /\ \A x \in Sides : Elems(queue'[x]) = IF x = s THEN Elems(queue[x]) \cup {b}
                                        ELSE Elems(queue[x])
  /\ \A u \in Threads : hold'[u] = IF u = t THEN hold[u] \ {b} ELSE hold[u]

\* Pop takes the head of the FIFO.
LEMMA PopTakes ==
  ASSUME PlaceInv, NEW t \in Threads, NEW s \in Sides, Pop(t, s)
  PROVE  Takes(t, s, Head(queue[s])) /\ Head(queue[s]) \in Buffers
<1>1. /\ queue \in [Sides -> Seq(Buffers)] /\ hold \in [Threads -> SUBSET Buffers]
      /\ \A i, j \in 1 .. Len(queue[s]) : queue[s][i] = queue[s][j] => i = j
  BY DEF PlaceInv, TypeOK, OnePlace
<1>2. /\ queue[s] # <<>> /\ queue' = [queue EXCEPT ![s] = Tail(@)]
      /\ hold' = [hold EXCEPT ![t] = @ \cup {Head(queue[s])}]
  BY DEF Pop
<1>3. /\ Head(queue[s]) \in Elems(queue[s])
      /\ Elems(Tail(queue[s])) = Elems(queue[s]) \ {Head(queue[s])}
      /\ Head(queue[s]) \in Buffers
  BY <1>1, <1>2, ElemsTail, HeadTailProperties
<1>4. \A x \in Sides : queue'[x] = IF x = s THEN Tail(queue[x]) ELSE queue[x]
  BY <1>1, <1>2
<1>5. \A u \in Threads : hold'[u] = IF u = t THEN hold[u] \cup {Head(queue[s])} ELSE hold[u]
  BY <1>1, <1>2
<1> QED
  BY <1>3, <1>4, <1>5 DEF Takes

\* Push gives the buffer to the FIFO.
LEMMA PushGives ==
  ASSUME PlaceInv, NEW t \in Threads, NEW s \in Sides, NEW b \in hold[t], Push(t, s, b)
  PROVE  Gives(t, s, b) /\ b \in Buffers
<1>1. queue \in [Sides -> Seq(Buffers)] /\ hold \in [Threads -> SUBSET Buffers]
  BY DEF PlaceInv, TypeOK
<1>2. \A x \in Sides : queue'[x] = IF x = s THEN Append(queue[x], b) ELSE queue[x]
  BY <1>1 DEF Push
<1>3. \A u \in Threads : hold'[u] = IF u = t THEN hold[u] \ {b} ELSE hold[u]
  BY <1>1 DEF Push
<1>4. b \in Buffers /\ Elems(Append(queue[s], b)) = Elems(queue[s]) \cup {b}
  BY <1>1, ElemsAppend
<1> QED
  BY <1>2, <1>3, <1>4 DEF Gives

\* Either is a move of the pool.
LEMMA PoolMove ==
  ASSUME PlaceInv, PlaceInv', NEW t \in Threads, NEW s \in Sides, NEW b \in Buffers,
         Takes(t, s, b) \/ Gives(t, s, b),
         UNCHANGED <<buffers, tmpBuf, deleted, life>>, life # "gone"
  PROVE  Pool!Next
<1>1. PlaceKnown /\ PlaceKnown'
  BY PlacesKnown, PlacesKnownNext
<1>2. s \in {"free", "used"}
  BY DEF Sides
<1>3. \A c \in Buffers \ {b} : PlaceOf(c)' = PlaceOf(c)
  <2> SUFFICES ASSUME NEW c \in Buffers \ {b} PROVE PlaceOf(c)' = PlaceOf(c)
    OBVIOUS
  <2>1. /\ \A u \in Threads : c \in hold'[u] <=> c \in hold[u]
        /\ \A x \in Sides : c \in Elems(queue'[x]) <=> c \in Elems(queue[x])
    BY DEF Takes, Gives
  <2> QED
    BY <2>1, PlaceKept
<1>4. CASE Takes(t, s, b)
  <2>1. PlaceOf(b) = s
    BY <1>1, <1>2, <1>4 DEF PlaceKnown, Takes
  <2>2. PlaceOf(b)' = t
    BY <1>1, <1>4 DEF PlaceKnown, Takes
  <2>3. [c \in Buffers |-> PlaceOf(c)]' = [[c \in Buffers |-> PlaceOf(c)] EXCEPT ![b] = t]
    BY <1>3, <2>2
  <2>4. Pool!Move(b, t)
    BY <1>2, <2>1, <2>3 DEF Pool!Move
  <2> QED
    BY <2>4 DEF Pool!Next, Pool!Places
<1>5. CASE Gives(t, s, b)
  <2>1. PlaceOf(b) = t
    BY <1>1, <1>5 DEF PlaceKnown, Gives
  <2>2. PlaceOf(b)' = s
    <3>1. b \in Elems(queue'[s])
      BY <1>5 DEF Gives
    <3>2. s = "free" => b \in Elems(queue["free"])'
      BY <3>1 DEF Elems
    <3>3. s = "used" => b \in Elems(queue["used"])'
      BY <3>1 DEF Elems
    <3> QED
      BY <1>1, <1>2, <3>2, <3>3 DEF PlaceKnown
  <2>3. [c \in Buffers |-> PlaceOf(c)]' = [[c \in Buffers |-> PlaceOf(c)] EXCEPT ![b] = s]
    BY <1>3, <2>2
  <2>4. Pool!Move(b, s)
    BY <1>2, <2>1, <2>3 DEF Pool!Move
  <2> QED
    BY <1>2, <2>4 DEF Pool!Next, Pool!Places
<1> QED
  BY <1>4, <1>5

\* Where no buffer changes place the pool does not see the step, whether the list is in
\* its destructor or not.
LEMMA PoolStutter ==
  ASSUME PlaceInv, PlaceInv', UNCHANGED <<queue, hold, deleted>>,
         Home' = Home, life' = "gone" <=> life = "gone"
  PROVE  UNCHANGED Pool!vars
<1>1. \A b \in Buffers : PlaceOf(b)' = PlaceOf(b)
  BY PlaceKept
<1> QED
  BY <1>1 DEF Pool!vars, Home

-----------------------------------------------------------------------------
(* Every step keeps the parked buffers together and their number right.     *)

\* A buffer that passes from hand to FIFO or back stays among the parked ones.
LEMMA MoveHoming ==
  ASSUME PlaceInv, Homing, NEW t \in Threads, NEW s \in Sides, NEW b \in Buffers,
         Takes(t, s, b) \/ (Gives(t, s, b) /\ (Home # {} => b \in Home)),
         UNCHANGED <<buffers, tmpBuf, count, life>>,
         Home # {} => Elems(todo') \subseteq Home,
         pc'[App] \in {"count", "asleep"} => pc[App] \in {"count", "asleep"},
         life = "closing" /\ pc'[App] \in {"reap", "count", "asleep"} =>
           queue'["used"] = <<>>
  PROVE  Homing'
<1>1. Home' = Home
  BY DEF Home
<1>2. Home # {} => \A x \in Sides : Elems(queue'[x]) \subseteq Home
  BY DEF Homing, Takes, Gives
<1>3. ASSUME NEW c \in Home PROVE Around(c)'
  <2>1. Around(c)
    BY DEF Homing
  <2>2. CASE Takes(t, s, b)
    <3>1. b \in hold'[t]
      BY <2>2 DEF Takes
    <3>2. c # b => \/ \E x \in Sides : c \in Elems(queue'[x])
                   \/ \E u \in Threads : c \in hold'[u]
      BY <2>1, <2>2 DEF Takes, Around
    <3> QED
      BY <3>1, <3>2 DEF Around, Elems
  <2>3. CASE Gives(t, s, b)
    <3>1. b \in Elems(queue'[s])
      BY <2>3 DEF Gives
    <3>2. c # b => \/ \E x \in Sides : c \in Elems(queue'[x])
                   \/ \E u \in Threads : c \in hold'[u]
      BY <2>1, <2>3 DEF Gives, Around
    <3> QED
      BY <3>1, <3>2 DEF Around, Elems
  <2> QED
    BY <2>2, <2>3
<1>4. Home' # {} => /\ \A x \in Sides : Elems(queue[x])' \subseteq Home'
                    /\ Elems(todo)' \subseteq Home'
                    /\ IsFiniteSet(Home') /\ Cardinality(Home') = count'
  <2>1. \A x \in Sides : Elems(queue[x])' = Elems(queue'[x])
    BY DEF Elems
  <2>2. Elems(todo)' = Elems(todo')
    BY DEF Elems
  <2> QED
    BY <1>1, <1>2, <2>1, <2>2 DEF Homing
<1> QED
  BY <1>1, <1>3, <1>4 DEF Homing

\* A step that moves no buffer and parks none.
LEMMA QuietHoming ==
  ASSUME Homing, UNCHANGED <<queue, hold, todo, count>>, Home' = Home,
         life' = "live" => tmpBuf' = {},
         life' # "live" => buffers' = {},
         pc'[App] \in {"count", "asleep"} => Home # {},
         life' = "closing" /\ pc'[App] \in {"reap", "count", "asleep"} =>
           queue["used"] = <<>>
  PROVE  Homing'
<1>1. \A b : Around(b)' <=> Around(b)
  BY DEF Around, Elems
<1>2. Elems(todo)' = Elems(todo) /\ \A x \in Sides : Elems(queue[x])' = Elems(queue[x])
  BY DEF Elems
<1> QED
  BY <1>1, <1>2 DEF Homing

\* A list that is begun has nothing parked.
LEMMA InitHoming == Init => Homing
<1> SUFFICES ASSUME Init PROVE Homing
  OBVIOUS
<1>1. Home = {} /\ life = "live" /\ tmpBuf = {} /\ pc[App] = "idle"
  BY BufferListAssumption DEF Init, Home
<1> QED
  BY <1>1 DEF Homing

\* A client that takes, or waits, does so before the destructor runs.
LEMMA ClientHoming ==
  ASSUME PlaceInv, Closing, Homing, NEW t \in Threads,
         \/ \E s \in Sides : Get(t, s) \/ \E f \in BOOLEAN : Wait(t, s, f)
         \/ Wake(t) \/ Expire(t) \/ GiveUp(t) \/ Spurious(t)
  PROVE  Homing' /\ life = "live"
<1>1. /\ App \in Threads /\ pc \in [Threads -> ClientPCs \cup AppPCs]
      /\ side \in [Threads -> Sides] /\ life \in {"live", "closing", "gone"}
  BY BufferListAssumption DEF PlaceInv, TypeOK
<1>2. /\ pc[t] \in ClientPCs
      /\ \E v \in ClientPCs : pc' = [pc EXCEPT ![t] = v]
      /\ pc[t] = "idle" => life = "live"
      /\ UNCHANGED appVars
  <2>1. CASE \E s \in Sides : Get(t, s)
    BY <1>1, <2>1 DEF Get, Calling, ClientPCs
  <2>2. CASE \E s \in Sides, f \in BOOLEAN : Wait(t, s, f)
    BY <2>2 DEF Wait, Calling, ClientPCs
  <2>3. CASE Wake(t) \/ Expire(t) \/ GiveUp(t) \/ Spurious(t)
    BY <2>3 DEF Wake, Expire, GiveUp, Spurious, Return, ClientPCs
  <2> QED
    BY <2>1, <2>2, <2>3
<1>3. life = "live"
  BY <1>1, <1>2 DEF Closing, ClientPCs
<1>4. pc'[App] \notin {"count", "asleep"}
  BY <1>1, <1>2, <1>3 DEF Closing, ClientPCs
<1>5. CASE UNCHANGED <<queue, hold>>
  <2>1. Home' = Home
    BY <1>2 DEF Home, appVars
  <2> QED
    BY <1>2, <1>3, <1>4, <1>5, <2>1, QuietHoming DEF appVars, Homing
<1>6. ASSUME NEW s \in Sides, Pop(t, s) PROVE Homing'
  <2>1. Takes(t, s, Head(queue[s])) /\ Head(queue[s]) \in Buffers
    BY <1>6, PopTakes
  <2>2. Home # {} => Elems(todo') \subseteq Home
    BY <1>2 DEF Homing, appVars
  <2> QED
    BY <1>2, <1>3, <1>4, <2>1, <2>2, MoveHoming DEF appVars
<1> QED
  BY <1>1, <1>3, <1>5, <1>6 DEF Get, Wait, Wake, Expire, GiveUp, Spurious

\* What comes back in the destructor's time is what Clean waits for.
LEMMA PutHoming ==
  ASSUME PlaceInv, Closing, Homing, NEW t \in Threads, NEW b \in Buffers,
         PutFree(t, b) \/ PutUsed(t, b)
  PROVE  Homing' /\ \E s \in Sides : Gives(t, s, b)
<1>1. App \in Threads /\ pc \in [Threads -> ClientPCs \cup AppPCs]
                      /\ queue \in [Sides -> Seq(Buffers)]
  BY BufferListAssumption DEF PlaceInv, TypeOK
<1>2. PICK s \in Sides : /\ Put(t, s, b)
                         /\ life = "live" \/ (s = "free" /\ b \in tmpBuf)
  BY DEF PutFree, PutUsed, Sides
<1>3. /\ b \in hold[t] /\ InUse(b) /\ Push(t, s, b) /\ pc' = Awake(s)
      /\ UNCHANGED <<todo, buffers, tmpBuf, count, life>>
  BY <1>2 DEF Put, appVars
<1>4. Gives(t, s, b)
  BY <1>3, PushGives
<1>5. Home # {} => b \in Home
  BY <1>2, <1>3 DEF InUse, Home, Homing
<1>6. Home # {} => Elems(todo') \subseteq Home
  BY <1>3 DEF Homing
<1>7. /\ pc'[App] \in {"count", "asleep"} => pc[App] \in {"count", "asleep"}
      /\ pc'[App] \in {"reap", "count", "asleep"} => pc[App] \in {"reap", "count", "asleep"}
  BY <1>1, <1>3 DEF Awake
<1>8. life = "closing" => queue'["used"] = queue["used"]
  BY <1>1, <1>2, <1>3 DEF Push, Sides
<1>9. Homing'
  BY <1>3, <1>4, <1>5, <1>6, <1>7, <1>8, MoveHoming DEF Homing
<1> QED
  BY <1>4, <1>9

\* Init parks buffers in an empty list, and counts them.
LEMMA PreInitHoming ==
  ASSUME PlaceInv, Homing, ~EmptyReInit, NEW arr \in UserArrays \cup OwnArrays,
         InitUser(arr) \/ InitOwn(arr)
  PROVE  Homing'
<1>1. /\ App \in Threads /\ arr \in Seq(Buffers)
      /\ \A i, j \in 1 .. Len(arr) : arr[i] = arr[j] => i = j
      /\ pc \in [Threads -> ClientPCs \cup AppPCs] /\ hold \in [Threads -> SUBSET Buffers]
  BY BufferListAssumption DEF PlaceInv, TypeOK
<1>2. /\ life = "live" /\ pc' = [pc EXCEPT ![App] = "park"]
      /\ todo' = arr /\ buffers' = Elems(arr) /\ count' = Len(arr)
      /\ Untouched /\ UNCHANGED <<queue, tmpBuf, life>>
      /\ Elems(arr) \subseteq hold'[App]
  BY <1>1 DEF InitUser, InitOwn, PreInit, Calling
<1>3. Home' = Elems(arr)
  BY <1>2 DEF Homing, Home
<1>4. IsFiniteSet(Home') /\ Cardinality(Home') = count'
  BY <1>1, <1>2, <1>3, ElemsCount
<1>5. \A s \in Sides : Elems(queue[s])' = {}
  BY <1>2 DEF Untouched, Elems
<1>6. \A b \in Home' : Around(b)'
  BY <1>1, <1>2, <1>3 DEF Around
<1>7. Elems(todo)' \subseteq Home'
  BY <1>2, <1>3 DEF Elems
<1>8. pc'[App] = "park"
  BY <1>1, <1>2
<1> QED
  BY <1>2, <1>4, <1>5, <1>6, <1>7, <1>8 DEF Homing

\* App's steps that move a buffer: what it still has in its hands is the list's.
LEMMA CarryHoming ==
  ASSUME PlaceInv, Homing, Park \/ Drain \/ Refree
  PROVE  /\ Homing'
         /\ UNCHANGED <<buffers, tmpBuf, deleted, life>>
         /\ \/ UNCHANGED <<queue, hold>>
            \/ \E s \in Sides, b \in Buffers : Takes(App, s, b) \/ Gives(App, s, b)
<1>1. /\ App \in Threads /\ pc \in [Threads -> ClientPCs \cup AppPCs]
      /\ todo \in Seq(Buffers) /\ queue \in [Sides -> Seq(Buffers)]
      /\ "free" \in Sides /\ "used" \in Sides
  BY BufferListAssumption DEF PlaceInv, TypeOK, Sides
<1>2. /\ UNCHANGED <<buffers, tmpBuf, count, deleted, life>>
      /\ pc[App] \in {"park", "drain", "move"}
  BY DEF Park, Drain, Refree
<1>3. Home' = Home
  BY <1>2 DEF Home
<1>4. CASE Park /\ todo = <<>>
  <2>1. pc' = [pc EXCEPT ![App] = "idle"] /\ UNCHANGED <<queue, hold, todo>>
    BY <1>4 DEF Park
  <2> QED
    BY <1>1, <1>2, <1>3, <2>1, QuietHoming DEF Homing
<1>5. CASE (Park /\ todo # <<>>) \/ Refree
  <2>1. /\ todo # <<>> /\ Head(todo) = todo[1] /\ 1 \in 1 .. Len(todo)
        /\ \A i \in 1 .. Len(Tail(todo)) :
             Tail(todo)[i] = todo[i + 1] /\ i + 1 \in 1 .. Len(todo)
    <3>1. todo # <<>>
      BY <1>1, <1>5 DEF Refree, PlaceInv, TodoHeld
    <3> QED
      BY <1>1, <3>1, HeadTailProperties
  <2>2. /\ Head(todo) \in hold[App] /\ Head(todo) \in Elems(todo)
        /\ Elems(Tail(todo)) \subseteq Elems(todo) /\ Elems(<<>>) = {}
    BY <2>1 DEF PlaceInv, TodoHeld, Elems
  <2>3. /\ Push(App, "free", Head(todo))
        /\ todo' = Tail(todo) \/ todo' = <<>>
        /\ pc' = Awake("free") \/ pc' = [Awake("free") EXCEPT ![App] = "drain"]
    BY <1>5, <2>1 DEF Park, Refree
  <2>4. pc'[App] \in {"park", "drain", "move"}
    BY <1>1, <1>2, <2>3 DEF Awake
  <2>5. Gives(App, "free", Head(todo)) /\ Head(todo) \in Buffers
    BY <1>1, <2>2, <2>3, PushGives
  <2>6. Home # {} => Head(todo) \in Home /\ Elems(todo') \subseteq Home
    BY <2>2, <2>3 DEF Homing
  <2>7. Homing'
    BY <1>1, <1>2, <2>4, <2>5, <2>6, MoveHoming
  <2> QED
    BY <1>1, <1>2, <2>5, <2>7
<1>6. CASE Drain /\ queue["used"] = <<>>
  <2>1. pc' = [pc EXCEPT ![App] = "reap"] /\ UNCHANGED <<queue, hold, todo>>
    BY <1>6 DEF Drain
  <2> QED
    BY <1>1, <1>2, <1>3, <1>6, <2>1, QuietHoming DEF Homing
<1>7. CASE Drain /\ queue["used"] # <<>>
  <2> DEFINE b == Head(queue["used"])
  <2>1. Pop(App, "used") /\ todo' = <<b>> /\ pc' = [pc EXCEPT ![App] = "move"]
    BY <1>7 DEF Drain
  <2>2. Takes(App, "used", b) /\ b \in Buffers
    BY <1>1, <2>1, PopTakes
  <2> HIDE DEF b
  <2>3. Elems(todo') = {b}
    BY <2>1 DEF Elems
  <2>4. Home # {} => Elems(todo') \subseteq Home
    BY <1>1, <2>2, <2>3 DEF Homing, Takes
  <2>5. pc'[App] = "move"
    BY <1>1, <2>1
  <2>6. Homing'
    BY <1>1, <1>2, <2>2, <2>4, <2>5, MoveHoming
  <2> QED
    BY <1>1, <1>2, <2>2, <2>6
<1> QED
  BY <1>4, <1>5, <1>6, <1>7

\* The steps that enter Clean, and those of Clean that look: the parked buffers are the
\* same ones, in m_buffers before and in tmpBuf afterwards.
LEMMA CleanHoming ==
  ASSUME PlaceInv, Closing, Homing, ~EmptyReInit, InitEmpty \/ Destroy \/ Reap \/ Await
  PROVE  Homing' /\ Home' = Home
<1>1. /\ App \in Threads /\ pc \in [Threads -> ClientPCs \cup AppPCs]
      /\ life \in {"live", "closing", "gone"}
  BY BufferListAssumption DEF PlaceInv, TypeOK
<1>2. UNCHANGED <<queue, hold, todo, count>>
  BY DEF InitEmpty, Destroy, Clean, Reap, Await, Cleaned
<1>3. CASE InitEmpty \/ Destroy
  <2>1. /\ life = "live" /\ tmpBuf' = buffers /\ buffers' = {}
        /\ pc' = [pc EXCEPT ![App] = "drain"]
        /\ life' = "live" => buffers = {}
    BY <1>3 DEF InitEmpty, Destroy, Calling, Clean
  <2>2. Home' = Home
    BY <2>1 DEF Home, Homing
  <2> QED
    BY <1>1, <1>2, <2>1, <2>2, QuietHoming
<1>4. CASE Reap \/ Await
  <2>1. /\ UNCHANGED <<buffers, tmpBuf>>
        /\ pc[App] \in {"reap", "count"}
        /\ \/ pc' = [pc EXCEPT ![App] = "idle"]
           \/ /\ pc' = [pc EXCEPT ![App] = "count"] \/ pc' = [pc EXCEPT ![App] = "asleep"]
              /\ life' = life
              /\ tmpBuf # {} \/ pc[App] = "count"
        /\ life' = life \/ (life = "closing" /\ life' = "gone")
    BY <1>4 DEF Reap, Await, Cleaned
  <2>2. Home' = Home
    BY <2>1 DEF Home
  <2>3. /\ life' = "live" => tmpBuf' = {}
        /\ life' # "live" => buffers' = {}
    BY <2>1 DEF Homing
  <2>4. pc'[App] \in {"count", "asleep"} => Home # {}
    BY <1>1, <2>1 DEF Homing, Home
  <2>5. life' = "closing" /\ pc'[App] \in {"reap", "count", "asleep"} => queue["used"] = <<>>
    BY <1>1, <2>1 DEF Homing
  <2> QED
    BY <1>2, <2>2, <2>3, <2>4, <2>5, QuietHoming
<1> QED
  BY <1>3, <1>4

\* Together.
LEMMA NextHoming ==
  ASSUME PlaceInv, Closing, Homing, ~EmptyReInit, [Next]_vars
  PROVE  Homing'
<1>1. CASE UNCHANGED vars
  <2>1. Home' = Home /\ UNCHANGED <<queue, hold, pc, todo, buffers, tmpBuf, count, life>>
    BY <1>1 DEF vars, Home
  <2> QED
    BY <2>1, QuietHoming DEF Homing
<1>2. ASSUME NEW t \in Threads,
             \/ GetFree(t) \/ GetUsed(t)
             \/ \E f \in BOOLEAN : WaitFree(t, f) \/ WaitUsed(t, f)
             \/ Wake(t) \/ Expire(t) \/ GiveUp(t) \/ Spurious(t)
      PROVE  Homing'
  <2>1. "free" \in Sides /\ "used" \in Sides
    BY DEF Sides
  <2> QED
    BY <1>2, <2>1, ClientHoming DEF GetFree, GetUsed, WaitFree, WaitUsed
<1>3. ASSUME NEW t \in Threads, NEW b \in Buffers, PutFree(t, b) \/ PutUsed(t, b)
      PROVE  Homing'
  BY <1>3, PutHoming
<1>4. CASE \E arr \in UserArrays \cup OwnArrays : InitUser(arr) \/ InitOwn(arr)
  BY <1>4, PreInitHoming
<1>5. CASE Park \/ Drain \/ Refree
  BY <1>5, CarryHoming
<1>6. CASE InitEmpty \/ Destroy \/ Reap \/ Await
  BY <1>6, CleanHoming
<1> QED
  BY <1>1, <1>2, <1>3, <1>4, <1>5, <1>6 DEF Next

-----------------------------------------------------------------------------
(* Every step is a step of the pool or none at all.                         *)

\* Behind Clean's loops nothing is on the used side: what nobody holds is home.
LEMMA HomeIfNotHeld ==
  ASSUME PlaceInv, Homing, life = "closing", pc[App] \in {"reap", "count", "asleep"},
         \A t \in Threads : hold[t] \cap Home = {}
  PROVE  \A b \in Home : PlaceOf(b) = "free"
<1> SUFFICES ASSUME NEW b \in Home PROVE PlaceOf(b) = "free"
  OBVIOUS
<1>1. Elems(queue["used"]) = {}
  BY DEF Homing, Elems
<1>2. b \in Elems(queue["free"])
  BY <1>1 DEF Homing, Around, Sides
<1>3. b \in Buffers
  BY DEF Home, PlaceInv, TypeOK
<1> QED
  BY <1>2, <1>3, PlacesKnown DEF PlaceKnown

\* m_freeList.size() == m_count says that all parked buffers are there.
LEMMA HomeIfCounted ==
  ASSUME PlaceInv, Homing, pc[App] = "count", Len(queue["free"]) = count
  PROVE  \A b \in Home : PlaceOf(b) = "free"
<1>1. /\ Home # {} /\ Elems(queue["free"]) \subseteq Home
      /\ IsFiniteSet(Home) /\ Cardinality(Home) = count
  BY DEF Homing, Sides
<1>2. /\ queue["free"] \in Seq(Buffers)
      /\ \A i, j \in 1 .. Len(queue["free"]) : queue["free"][i] = queue["free"][j] => i = j
  BY DEF PlaceInv, TypeOK, OnePlace, Sides
<1>3. Cardinality(Elems(queue["free"])) = Cardinality(Home)
  BY <1>1, <1>2, ElemsCount
<1>4. Elems(queue["free"]) = Home
  BY <1>1, <1>3, FS_Subset
<1>5. Home \subseteq Buffers
  BY DEF Home, PlaceInv, TypeOK
<1> QED
  BY <1>4, <1>5, PlacesKnown DEF PlaceKnown

\* The destructor frees, and ends, with all parked buffers home.
LEMMA EndInPool ==
  ASSUME PoolInv, PlaceInv', ~EmptyReInit, Reap \/ Await
  PROVE  [Pool!Next]_(Pool!vars)
<1>1. /\ PlaceInv /\ Closing /\ Freed /\ Homing /\ App \in Threads
      /\ pc \in [Threads -> ClientPCs \cup AppPCs] /\ deleted \subseteq Buffers
  BY BufferListAssumption DEF PoolInv, PlaceInv, TypeOK
<1>2. /\ UNCHANGED <<queue, hold, buffers, tmpBuf>>
      /\ pc[App] \in {"reap", "count"}
      /\ life' = life \/ (life = "closing" /\ life' = "gone")
  BY DEF Reap, Await, Cleaned
<1>3. Home' = Home /\ life # "gone"
  BY <1>1, <1>2 DEF Home, Closing
<1>4. \A b \in Buffers : PlaceOf(b)' = PlaceOf(b)
  BY <1>1, <1>2, PlaceKept
<1>5. [b \in Buffers |-> PlaceOf(b)]' = [b \in Buffers |-> PlaceOf(b)]
  BY <1>4
<1>6. ASSUME life' = "gone", deleted' = deleted, \A b \in Home : PlaceOf(b) = "free"
      PROVE  Pool!Close
  <2>1. \A b \in Home : b \in Buffers
    BY <1>1 DEF Home, PlaceInv, TypeOK
  <2> QED
    BY <1>3, <1>5, <1>6, <2>1 DEF Pool!Close, Pool!AllHome, Home
<1>7. CASE Reap /\ tmpBuf = {}
  <2>1. deleted' = deleted
    BY <1>7 DEF Reap
  <2>2. CASE life' = life
    BY <1>1, <1>2, <1>3, <2>1, <2>2, PoolStutter
  <2>3. CASE life = "closing" /\ life' = "gone"
    <3>1. Home = {}
      BY <1>1, <1>7, <2>3 DEF Homing, Home
    <3> QED
      BY <1>6, <2>1, <2>3, <3>1 DEF Pool!Next
  <2> QED
    BY <1>2, <2>2, <2>3
<1>8. CASE Reap /\ tmpBuf # {}
  <2>1. /\ life' = life /\ pc[App] = "reap"
        /\ deleted' = IF usrAlloc THEN deleted ELSE deleted \cup tmpBuf
    BY <1>8 DEF Reap
  <2>2. life = "closing" /\ buffers = {} /\ Home = tmpBuf
    BY <1>1, <1>8, <2>1 DEF Closing, Homing, Home
  <2>3. CASE usrAlloc
    BY <1>1, <1>2, <1>3, <2>1, <2>3, PoolStutter
  <2>4. CASE ~usrAlloc
    <3>1. todo = <<>>
      BY <1>1, <2>1 DEF PlaceInv, TodoHeld
    <3>2. \A t \in Threads : hold[t] \cap Home = {}
      BY <1>1, <2>2, <2>4, <3>1 DEF Freed, Elems
    <3>3. \A b \in Home : PlaceOf(b) = "free"
      BY <1>1, <2>1, <2>2, <3>2, HomeIfNotHeld
    <3>4. \A b \in Home : b \in Buffers
      BY <1>1 DEF Home, PlaceInv, TypeOK
    <3>5. Pool!Release(tmpBuf)
      BY <1>3, <1>5, <2>1, <2>2, <2>4, <3>3, <3>4
      DEF Pool!Release, Pool!AllHome, Home
    <3>6. tmpBuf \in SUBSET Buffers
      BY <1>1 DEF PlaceInv, TypeOK
    <3> QED
      BY <3>5, <3>6 DEF Pool!Next
  <2> QED
    BY <2>3, <2>4
<1>9. CASE Await
  <2>1. pc[App] = "count" /\ deleted' = deleted
    BY <1>9 DEF Await
  <2>2. CASE life' = life
    BY <1>1, <1>2, <1>3, <2>1, <2>2, PoolStutter
  <2>3. CASE life' # life
    <3>1. Len(queue["free"]) = count /\ life' = "gone"
      BY <1>2, <1>9, <2>3 DEF Await
    <3> QED
      BY <1>1, <1>6, <2>1, <3>1, HomeIfCounted DEF Pool!Next
  <2> QED
    BY <2>2, <2>3
<1> QED
  BY <1>7, <1>8, <1>9

\* Init parks buffers that App holds, or that are new.
LEMMA ParkInPool ==
  ASSUME PoolInv, PlaceInv', NEW arr \in UserArrays \cup OwnArrays,
         (arr \in UserArrays /\ InitUser(arr)) \/ (arr \in OwnArrays /\ InitOwn(arr))
  PROVE  Pool!Next
<1>1. /\ PlaceInv /\ Homing /\ App \in Threads /\ hold \in [Threads -> SUBSET Buffers]
      /\ Elems(arr) \subseteq Buffers
  BY BufferListAssumption DEF PoolInv, PlaceInv, TypeOK, Elems
<1>2. /\ life = "live" /\ UNCHANGED <<queue, tmpBuf, deleted, life>>
      /\ buffers = {} /\ buffers' = Elems(arr)
      /\ \/ hold' = hold /\ Elems(arr) \subseteq hold[App]
         \/ /\ hold' = [hold EXCEPT ![App] = @ \cup Elems(arr)]
            /\ \A b \in Elems(arr) : Fresh(b)
  BY DEF InitUser, InitOwn, PreInit, Calling
<1>3. \A u \in Threads : hold'[u] = IF u = App THEN hold[u] \cup Elems(arr) ELSE hold[u]
  BY <1>1, <1>2
<1>4. PlaceKnown /\ PlaceKnown'
  BY <1>1, PlacesKnown, PlacesKnownNext
<1>5. ASSUME NEW b \in Elems(arr) PROVE PlaceOf(b) \in {App, "new"} /\ PlaceOf(b)' = App
  <2>1. b \in Buffers /\ b \in hold'[App]
    BY <1>1, <1>3
  <2>2. b \in hold[App] \/ ~Around(b)
    BY <1>2 DEF Fresh, Around
  <2> QED
    BY <1>1, <1>4, <2>1, <2>2 DEF PlaceKnown
<1>6. ASSUME NEW b \in Buffers, b \notin Elems(arr) PROVE PlaceOf(b)' = PlaceOf(b)
  <2>1. \A t \in Threads : b \in hold'[t] <=> b \in hold[t]
    BY <1>3, <1>6
  <2>2. \A s \in Sides : b \in Elems(queue'[s]) <=> b \in Elems(queue[s])
    BY <1>2
  <2> QED
    BY <1>1, <2>1, <2>2, PlaceKept
<1>7. [b \in Buffers |-> PlaceOf(b)]' =
        [b \in Buffers |-> IF b \in Elems(arr) THEN App ELSE [c \in Buffers |-> PlaceOf(c)][b]]
  BY <1>5, <1>6
<1>8. (buffers \cup tmpBuf)' = (buffers \cup tmpBuf) \cup Elems(arr)
  BY <1>2
<1>9. \A b \in Elems(arr) : [c \in Buffers |-> PlaceOf(c)][b] \in {App, "new"}
  BY <1>1, <1>5
<1>10. Pool!Park(App, Elems(arr))
  BY <1>2, <1>7, <1>8, <1>9 DEF Pool!Park
<1> QED
  BY <1>1, <1>10 DEF Pool!Next

\* Each action of the list, or none, seen from the pool.
LEMMA PoolStep ==
  ASSUME PoolInv, PlaceInv', ~EmptyReInit, [Next]_vars
  PROVE  [Pool!Next]_(Pool!vars)
<1>1. PlaceInv /\ Closing /\ Freed /\ Homing /\ App \in Threads
  BY BufferListAssumption DEF PoolInv
<1>2. CASE UNCHANGED vars
  <2>1. Home' = Home /\ UNCHANGED <<queue, hold, deleted, life>>
    BY <1>2 DEF vars, Home
  <2> QED
    BY <1>1, <2>1, PoolStutter
<1>3. ASSUME NEW t \in Threads,
             \/ \E s \in Sides : Get(t, s) \/ \E f \in BOOLEAN : Wait(t, s, f)
             \/ Wake(t) \/ Expire(t) \/ GiveUp(t) \/ Spurious(t)
      PROVE  [Pool!Next]_(Pool!vars)
  <2>1. life = "live" /\ UNCHANGED <<buffers, tmpBuf, deleted, life>>
    <3>1. UNCHANGED appVars
      BY <1>3 DEF Get, Wait, Wake, Expire, GiveUp, Spurious
    <3> QED
      BY <1>1, <1>3, <3>1, ClientHoming DEF appVars
  <2>2. CASE UNCHANGED <<queue, hold>>
    <3>1. Home' = Home
      BY <2>1 DEF Home
    <3> QED
      BY <1>1, <2>1, <2>2, <3>1, PoolStutter
  <2>3. ASSUME NEW s \in Sides, Pop(t, s) PROVE Pool!Next
    BY <1>1, <2>1, <2>3, PopTakes, PoolMove
  <2>4. side[t] \in Sides
    BY <1>1 DEF PlaceInv, TypeOK
  <2> QED
    BY <1>3, <2>2, <2>3, <2>4 DEF Get, Wait, Wake, Expire, GiveUp, Spurious
<1>4. ASSUME NEW t \in Threads, NEW b \in Buffers, PutFree(t, b) \/ PutUsed(t, b)
      PROVE  [Pool!Next]_(Pool!vars)
  <2>1. PICK s \in Sides : Gives(t, s, b)
    BY <1>1, <1>4, PutHoming
  <2>2. life # "gone" /\ UNCHANGED <<buffers, tmpBuf, deleted, life>>
    BY <1>4 DEF PutFree, PutUsed, Put, appVars
  <2> QED
    BY <1>1, <2>1, <2>2, PoolMove
<1>5. CASE Park \/ Drain \/ Refree
  <2>1. life # "gone"
    BY <1>1, <1>5 DEF Park, Drain, Refree, Closing
  <2>2. UNCHANGED <<buffers, tmpBuf, deleted, life>>
    BY <1>1, <1>5, CarryHoming
  <2>3. CASE UNCHANGED <<queue, hold>>
    <3>1. Home' = Home
      BY <2>2 DEF Home
    <3> QED
      BY <1>1, <2>2, <2>3, <3>1, PoolStutter
  <2>4. ASSUME NEW s \in Sides, NEW b \in Buffers, Takes(App, s, b) \/ Gives(App, s, b)
        PROVE  Pool!Next
    BY <1>1, <2>1, <2>2, <2>4, PoolMove
  <2> QED
    BY <1>1, <1>5, <2>3, <2>4, CarryHoming
<1>6. CASE InitEmpty \/ Destroy
  <2>1. Home' = Home
    BY <1>1, <1>6, CleanHoming
  <2>2. UNCHANGED <<queue, hold, deleted>> /\ life = "live" /\ life' # "gone"
    BY <1>6 DEF InitEmpty, Destroy, Clean, Calling
  <2> QED
    BY <1>1, <2>1, <2>2, PoolStutter
<1>7. CASE Reap \/ Await
  BY <1>7, EndInPool
<1>8. ASSUME NEW arr, \/ arr \in UserArrays /\ InitUser(arr)
                      \/ arr \in OwnArrays /\ InitOwn(arr)
      PROVE  [Pool!Next]_(Pool!vars)
  BY <1>8, ParkInPool
<1>9. "free" \in Sides /\ "used" \in Sides
  BY DEF Sides
<1> QED
  BY <1>2, <1>3, <1>4, <1>5, <1>6, <1>7, <1>8, <1>9
  DEF Next, GetFree, GetUsed, WaitFree, WaitUsed

\* A list that is begun is a pool with nothing parked.
LEMMA PoolBegins == Init => Pool!Init
<1> SUFFICES ASSUME Init PROVE Pool!Init
  OBVIOUS
<1>1. PlaceKnown /\ App \in Threads /\ UserBufs \subseteq Buffers
  BY InitPlaces, PlacesKnown, BufferListAssumption
<1>2. \A b \in Buffers : PlaceOf(b) \in Pool!Places
  <2> SUFFICES ASSUME NEW b \in Buffers PROVE PlaceOf(b) \in Pool!Places
    OBVIOUS
  <2>1. CASE Around(b)
    BY <1>1, <2>1 DEF PlaceKnown, Around, Sides, Pool!Places
  <2>2. CASE ~Around(b)
    BY <1>1, <2>2 DEF PlaceKnown, Pool!Places
  <2> QED
    BY <2>1, <2>2
<1>3. buffers \cup tmpBuf = {} /\ deleted = {} /\ life # "gone"
  BY DEF Init
<1> QED
  BY <1>2, <1>3 DEF Pool!Init

\* A buffer list is a buffer pool: its buffers move only hand to hand, and its destructor
\* frees what the list has allocated, and returns, only when every parked buffer is back,
\* for callers that initialise once and hold none of the list's own buffers at its end.
THEOREM ListIsPool == ~EmptyReInit /\ ~LateSelfAlloc => (Spec => ImplementsPool)
<1> SUFFICES ASSUME ~EmptyReInit, ~LateSelfAlloc PROVE Spec => ImplementsPool
  OBVIOUS
<1>1. Init => PoolInv
  BY InitPlaces, InitClosing, InitFreed, InitHoming DEF PoolInv
<1>2. PoolInv /\ [Next]_vars => PoolInv'
  <2> SUFFICES ASSUME PoolInv, [Next]_vars PROVE PoolInv'
    OBVIOUS
  <2>1. PlaceInv /\ Closing /\ Freed /\ Homing
    BY DEF PoolInv
  <2>2. PlaceInv'
    BY <2>1, NextPlaces
  <2>3. Closing' /\ Freed' /\ Homing'
    BY <2>1, <2>2, NextClosing, NextFreed, NextHoming
  <2> QED
    BY <2>2, <2>3 DEF PoolInv
<1>3. PoolInv /\ PoolInv' /\ [Next]_vars => [Pool!Next]_(Pool!vars)
  BY PoolStep DEF PoolInv
<1> QED
  BY <1>1, <1>2, <1>3, PoolBegins, PTL DEF Spec, ImplementsPool, Pool!Spec
=============================================================================
