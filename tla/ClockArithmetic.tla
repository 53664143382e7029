-------------------------- MODULE ClockArithmetic ---------------------------
(***************************************************************************)
(* How the library reckons with time, for every time there is: the due     *)
(* time of a timed wait (BufferList::calDueTime), the time since a reset   *)
(* in microseconds (RateCtrl::sizeSoFar) and the seconds since a query     *)
(* (TimeSec).                                                              *)
(***************************************************************************)
EXTENDS Integers, TLAPS

Million == 1000 * 1000
Billion == 1000 * 1000 * 1000

\* 2^32 and 2^64, at which unsigned int and unsigned long long wrap; and 2^63, below which a
\* long of 64 bits stays
Word32 == 1024 * 1024 * 1024 * 4
Word64 == Word32 * Word32
Word63 == 2 * 1024 * 1024 * 1024 * Word32

Wrap32(n) == n % Word32
Wrap64(n) == n % Word64

-----------------------------------------------------------------------------
(* BufferList::calDueTime.                                                  *)

\* What clock_gettime returns, and what pthread_cond_timedwait takes
Timespec == [sec : Nat, nsec : 0 .. Billion - 1]

\* waitUS*1000 is an int.
WaitUS == { us \in Nat \ {0} : us * 1000 < 2 * 1024 * 1024 * 1024 }

\* The due time: at most one carry, and none at a whole second.
calDueTime(tt, waitUS) ==
  LET nsec == tt.nsec + waitUS * 1000 IN
  IF nsec > Billion
    THEN [sec |-> tt.sec + 1, nsec |-> nsec - Billion]
    ELSE [sec |-> tt.sec, nsec |-> nsec]

\* The due time of a wait (calDueTime) is never early or late; but only a wait that ends
\* within the next second, and not on its first nanosecond, has one that timedwait takes.
THEOREM DueTime ==
  ASSUME NEW tt \in Timespec, NEW waitUS \in WaitUS
  PROVE  LET due == calDueTime(tt, waitUS)
             end == tt.nsec + waitUS * 1000 IN
         /\ due.sec * Billion + due.nsec = tt.sec * Billion + end
         /\ due \in Timespec <=> end # Billion /\ end < 2 * Billion
<1> DEFINE due == calDueTime(tt, waitUS)
           end == tt.nsec + waitUS * 1000
<1>1. tt.sec \in Nat /\ tt.nsec \in 0 .. Billion - 1 /\ waitUS \in Nat
  BY DEF Timespec, WaitUS
<1>2. Billion \in Nat /\ Billion > 0
  BY DEF Billion
<1>3. end \in Nat
  BY <1>1, <1>2
<1>4. CASE end > Billion
  <2>1. due = [sec |-> tt.sec + 1, nsec |-> end - Billion]
    BY <1>4 DEF calDueTime
  <2>2. due \in Timespec <=> end - Billion \in 0 .. Billion - 1
    BY <1>1, <2>1 DEF Timespec
  <2>3. due.sec * Billion + due.nsec = tt.sec * Billion + end
    BY <1>1, <1>2, <1>3, <2>1
  <2> QED
    BY <1>2, <1>3, <1>4, <2>2, <2>3
<1>5. CASE ~(end > Billion)
  <2>1. due = [sec |-> tt.sec, nsec |-> end]
    BY <1>5 DEF calDueTime
  <2>2. due \in Timespec <=> end \in 0 .. Billion - 1
    BY <1>1, <2>1 DEF Timespec
  <2>3. due.sec * Billion + due.nsec = tt.sec * Billion + end
    BY <2>1
  <2> QED
    BY <1>2, <1>3, <1>5, <2>2, <2>3
<1> QED
  BY <1>4, <1>5

\* A wait of less than a second (the tests' waits) has a due time that timedwait takes,
\* unless it ends on a whole second.
COROLLARY ShortWait ==
  ASSUME NEW tt \in Timespec, NEW waitUS \in WaitUS, waitUS < Million,
         tt.nsec + waitUS * 1000 # Billion
  PROVE  calDueTime(tt, waitUS) \in Timespec
<1>1. tt.nsec \in 0 .. Billion - 1 /\ waitUS \in Nat
  BY DEF Timespec, WaitUS
<1>2. Billion = Million * 1000 /\ Billion \in Nat /\ Million \in Nat
  BY DEF Million, Billion
<1>3. tt.nsec + waitUS * 1000 < 2 * Billion
  BY <1>1, <1>2
<1> QED
  BY <1>3, DueTime

-----------------------------------------------------------------------------
(* RateCtrl::sizeSoFar.                                                     *)

\* What gettimeofday returns
Timeval == [sec : Nat, usec : 0 .. Million - 1]

Micros(tv) == tv.sec * Million + tv.usec

\* dTus, an unsigned long long: the microseconds first, which may be fewer than at the reset;
\* then the seconds, whose product is a long and is taken as unbounded here: so it is where a
\* long has 64 bits, below 2^63.
dTus(start, current) ==
  Wrap64(Wrap64(current.usec - start.usec) + (current.sec - start.sec) * Million)

\* dTSoFar
dTSoFar(start, current) ==
  LET d == dTus(start, current) IN [sec |-> d \div Million, usec |-> d % Million]

\* What the quotient and the remainder are.
LEMMA DivMod ==
  ASSUME NEW d \in Nat, NEW w \in Nat \ {0}
  PROVE  d \div w \in Nat /\ d % w \in 0 .. w - 1 /\ (d \div w) * w + (d % w) = d
  OBVIOUS

\* A sum that fits wraps nowhere, whatever its first part does.
LEMMA WrapAdd ==
  ASSUME NEW a \in Int, NEW b \in Int, a + b \in 0 .. Word64 - 1
  PROVE  Wrap64(Wrap64(a) + b) = a + b
  BY DEF Wrap64, Word64, Word32

\* The time since the reset is right although its microseconds wrap below zero
\* (sizeSoFar), as long as the seconds' product is a long of 64 bits: for 292000 years.
THEOREM TimeSoFar ==
  ASSUME NEW start \in Timeval, NEW current \in Timeval,
         Micros(current) >= Micros(start), (current.sec - start.sec) * Million < Word63
  PROVE  /\ dTus(start, current) = Micros(current) - Micros(start)
         /\ dTSoFar(start, current) \in Timeval
         /\ Micros(dTSoFar(start, current)) = Micros(current) - Micros(start)
<1>1. start.sec \in Nat /\ start.usec \in Nat /\ current.sec \in Nat /\ current.usec \in Nat
  BY DEF Timeval
<1>2. /\ current.usec - start.usec \in Int
      /\ (current.sec - start.sec) * Million \in Int
      /\ (current.usec - start.usec) + (current.sec - start.sec) * Million
           = Micros(current) - Micros(start)
  BY <1>1 DEF Micros, Million
<1>3. dTus(start, current) = Micros(current) - Micros(start)
  <2>1. Micros(current) - Micros(start) \in 0 .. Word64 - 1
    <3>1. current.usec <= Million - 1 /\ Million \in Nat
      <4>1. Million \in Nat
        BY DEF Million
      <4> QED
        BY <4>1 DEF Timeval
    <3>2. Word63 + Million < Word64 /\ Word63 \in Nat /\ Word64 \in Nat
      <4>1. Word32 = 4294967296 /\ Million = 1000000
        BY DEF Word32, Million
      <4>2. Word64 = 4294967296 * Word32 /\ Word63 = 2147483648 * Word32
        BY <4>1 DEF Word64, Word63
      <4>3. Word32 \in Nat /\ Million \in Nat /\ Million < Word32
        BY <4>1
      <4> QED
        BY <4>2, <4>3
    <3>3. Micros(current) - Micros(start) \in Nat
      BY <1>1 DEF Micros, Million
    <3> QED
      BY <1>1, <1>2, <3>1, <3>2, <3>3
  <2> QED
    BY <1>2, <2>1, WrapAdd DEF dTus
<1>4. ASSUME NEW d \in Nat
      PROVE  /\ d \div Million \in Nat /\ d % Million \in 0 .. Million - 1
             /\ (d \div Million) * Million + (d % Million) = d
  <2>1. Million \in Nat \ {0}
    BY DEF Million
  <2> QED
    BY <2>1, DivMod
<1>5. Micros(current) - Micros(start) \in Nat
  BY <1>1 DEF Micros, Million
<1> QED
  BY <1>3, <1>4, <1>5 DEF dTSoFar, Timeval, Micros

-----------------------------------------------------------------------------
(* TimeSec.                                                                 *)

\* What diffPrevTime returns, for the clock's value at this query and at the last one.
\* 0 stands for "no query yet".
diffPrevTime(prevT, curTime) == IF prevT = 0 THEN 0 ELSE Wrap32(curTime - prevT)

\* checkTimer's condition
checkTimer(prevT, periodT, curTime) == Wrap32(curTime - prevT) >= periodT

\* diffStartTime
diffStartTime(startT, curTime) == Wrap32(curTime - startT)

\* Where less than 2^32 seconds have passed since the last query, or the reset, the
\* clock's own wrap does no harm: the difference is the time that has passed
\* (diffPrevTime, diffStartTime), and the timer is up when its period is over
\* (checkTimer).  The one exception is a query at which the clock stood at 0, which
\* diffPrevTime takes for none.
THEOREM QueryTimes ==
  ASSUME NEW before \in Nat, NEW passed \in Nat, passed < Word32, NEW periodT \in Nat
  PROVE  LET prevT   == Wrap32(before)
             curTime == Wrap32(before + passed) IN
         /\ diffPrevTime(prevT, curTime) = IF prevT = 0 THEN 0 ELSE passed
         /\ diffStartTime(prevT, curTime) = passed
         /\ checkTimer(prevT, periodT, curTime) <=> passed >= periodT
<1>1. Wrap32(Wrap32(before + passed) - Wrap32(before)) = passed
  BY DEF Wrap32, Word32
<1> QED
  BY <1>1 DEF diffPrevTime, diffStartTime, checkTimer

\* strFromDiffSec's loop over the break points: a part is what is left divided by its unit,
\* and the next one starts from the rest.
Hour == 60 * 60
Day  == 24 * 60 * 60

strFromDiffSec(diffSec) ==
  LET afterDays  == diffSec % Day
      afterHours == afterDays % Hour
  IN  [day |-> diffSec \div Day, hour |-> afterDays \div Hour,
       min |-> afterHours \div 60, sec |-> afterHours % 60]

\* A quotient is below k where the number is below k divisors.
LEMMA DivBelow ==
  ASSUME NEW a \in Nat, NEW b \in Nat \ {0}, NEW k \in Nat, a < k * b
  PROVE  a \div b < k
<1>1. a \div b \in Nat /\ a % b \in 0 .. b - 1 /\ (a \div b) * b + (a % b) = a
  BY DivMod
<1>2. \A q, d, r \in Nat : q = k + d => q * b + r >= k * b
  <2>1. \A d \in Nat : (k + d) * b = k * b + d * b /\ d * b \in Nat /\ k * b \in Nat
    OBVIOUS
  <2> QED
    BY <2>1
<1>3. \A q \in Nat : ~ (q < k) => \E d \in Nat : q = k + d
  <2> SUFFICES ASSUME NEW q \in Nat, ~ (q < k) PROVE \E d \in Nat : q = k + d
    OBVIOUS
  <2>1. q - k \in Nat /\ q = k + (q - k)
    OBVIOUS
  <2> QED
    BY <2>1
<1>4. ~ (a >= k * b)
  <2>1. k * b \in Int
    OBVIOUS
  <2> QED
    BY <2>1
<1> QED
  BY <1>1, <1>2, <1>3, <1>4

\* What a difference is shown as is the difference, with less than 24 hours, 60 minutes and
\* 60 seconds, so that two digits are enough for each (strFromDiffSec).
THEOREM ShownTime ==
  ASSUME NEW diffSec \in Nat
  PROVE  LET t == strFromDiffSec(diffSec) IN
         /\ t.day \in Nat /\ t.hour \in 0 .. 23 /\ t.min \in 0 .. 59 /\ t.sec \in 0 .. 59
         /\ t.day * Day + t.hour * Hour + t.min * 60 + t.sec = diffSec
<1> DEFINE afterDays  == diffSec % Day
           afterHours == afterDays % Hour
           day  == diffSec \div Day
           hour == afterDays \div Hour
           min  == afterHours \div 60
           sec  == afterHours % 60
<1>1. Hour \in Nat \ {0} /\ Day \in Nat \ {0} /\ 60 \in Nat \ {0}
      /\ Day = 24 * Hour /\ Hour = 60 * 60
  BY DEF Hour, Day
<1>2. strFromDiffSec(diffSec) = [day |-> day, hour |-> hour, min |-> min, sec |-> sec]
  BY DEF strFromDiffSec
<1>3. day \in Nat /\ afterDays \in Nat /\ afterDays < 24 * Hour
  <2>1. day \in Nat /\ afterDays \in 0 .. Day - 1
    <3>1. Day \in Nat \ {0}
      BY <1>1
    <3> QED
      BY <3>1, DivMod
  <2> HIDE DEF afterDays, day
  <2>2. afterDays \in Nat /\ afterDays < Day
    <3>1. Day \in Nat
      BY <1>1
    <3> QED
      BY <2>1, <3>1
  <2> QED
    BY <1>1, <2>1, <2>2, Zenon
<1>4. hour \in Nat /\ hour < 24 /\ afterHours \in Nat /\ afterHours < 60 * 60
  <2>1. hour \in Nat /\ afterHours \in 0 .. Hour - 1
    <3>1. Hour \in Nat \ {0} /\ afterDays \in Nat
      BY <1>1, <1>3
    <3> HIDE DEF afterDays
    <3> QED
      BY <3>1, DivMod
  <2>2. hour < 24
    BY <1>1, <1>3, DivBelow
  <2> HIDE DEF afterHours, hour
  <2>3. afterHours \in Nat /\ afterHours < Hour
    <3>1. Hour \in Nat
      BY <1>1
    <3> QED
      BY <2>1, <3>1
  <2> QED
    BY <1>1, <2>1, <2>2, <2>3, Zenon
<1>5. min \in Nat /\ min < 60 /\ sec \in 0 .. 59
  <2>1. min \in Nat /\ sec \in 0 .. 59
    BY <1>1, <1>4, DivMod
  <2>2. min < 60
    BY <1>1, <1>4, DivBelow
  <2> QED
    BY <2>1, <2>2
<1>6. /\ day * Day + afterDays = diffSec
      /\ hour * Hour + afterHours = afterDays
      /\ min * 60 + sec = afterHours
  BY <1>1, <1>3, <1>4, DivMod
<1> HIDE DEF afterDays, afterHours, day, hour, min, sec
<1>7. day * Day + hour * Hour + min * 60 + sec = diffSec
  <2>1. \A x, y \in Nat : x * y \in Nat
    OBVIOUS
  <2>2. sec \in Nat
    BY <1>5
  <2>3. day * Day \in Nat /\ hour * Hour \in Nat /\ min * 60 \in Nat
    <3>1. Day \in Nat /\ Hour \in Nat /\ 60 \in Nat
      BY <1>1
    <3> QED
      BY <1>3, <1>4, <1>5, <2>1, <3>1, Zenon
  <2> DEFINE x == day * Day
             y == hour * Hour
             z == min * 60
  <2>4. /\ x \in Nat /\ y \in Nat /\ z \in Nat
        /\ x + afterDays = diffSec /\ y + afterHours = afterDays /\ z + sec = afterHours
    BY <1>6, <2>3, Zenon
  <2> HIDE DEF x, y, z
  <2>5. x + y + z + sec = diffSec
    BY <1>3, <1>4, <2>2, <2>4
  <2> QED
    BY <2>5, Zenon DEF x, y, z
<1>8. hour \in 0 .. 23 /\ min \in 0 .. 59
  BY <1>4, <1>5
<1> QED
  BY <1>2, <1>3, <1>5, <1>7, <1>8
=============================================================================
