--------------------------- MODULE IOServiceProofs ---------------------------
(***************************************************************************)
(* The safety of IOService for every number of timers and tasks, all       *)
(* delays, all steps of the clock, and both factors of TimeHelper.         *)
(*                                                                         *)
(* NoDrift needs to know also of the timers in the batch, whose deadline   *)
(* is that of the run they are in (TimerInv); NeverEarly follows from it,  *)
(* since a timer is taken only when the clock has reached its deadline and *)
(* the clock gains on true time only by what it is set forward (ClockInv). *)
(* NoOversleep and TimersAccounted rest on TimerInv too.  A delay that an  *)
(* int64_t cannot hold gives a deadline of which only the type is known    *)
(* and that the microseconds are less than a second: that is enough for    *)
(* the nearest deadline to be found among the others.                      *)
(***************************************************************************)
EXTENDS IOService, FiniteSetTheorems, WellFoundedInduction, TLAPS

-----------------------------------------------------------------------------
(* The arithmetic of TimeHelper, for all timevals and all factors, and the *)
(* least element that picks the nearest deadline                           *)

\* What gettimeofday returns, and every deadline.
IsTimeval(t) == t \in Nat \X Nat /\ Normalised(t)

\* A second and a millisecond last.
LEMMA SecondPositive == UsecPerSec \in Nat \ {0} /\ UsecPerMsec \in Nat \ {0} /\ MsecPerSec \in Nat \ {0}
<1> DEFINE M == MsecPerSec  U == UsecPerMsec
<1>1. M \in Nat \ {0} /\ U \in Nat \ {0}
  BY FactorAssumption
<1> HIDE DEF M, U
<1>2. M * U \in Nat \ {0}
  BY <1>1
<1> QED BY <1>1, <1>2 DEF M, U, UsecPerSec

\* What Now() returns is normalised, and is the time it is asked at.
LEMMA NowExact ==
  ASSUME NEW usec \in Nat
  PROVE  IsTimeval(Timeval(usec)) /\ ToMicroseconds(Timeval(usec)) = usec
<1> DEFINE D == UsecPerSec  q == usec \div D  r == usec % D
<1>1. D \in Nat \ {0}
  BY SecondPositive
<1> HIDE DEF D
<1>2. q \in Nat /\ r \in 0 .. D - 1 /\ usec = D * q + r
  BY <1>1
<1> HIDE DEF q, r
<1>3. q * D = D * q
  BY <1>1, <1>2
<1>4. Timeval(usec) = <<q, r>>
  BY DEF Timeval, D, q, r
<1> QED BY <1>1, <1>2, <1>3, <1>4 DEF IsTimeval, Normalised, ToMicroseconds, D

\* A timeval is a number of microseconds.
LEMMA ToMicrosecondsType ==
  ASSUME NEW t, IsTimeval(t)
  PROVE  ToMicroseconds(t) \in Nat
<1> DEFINE D == UsecPerSec
<1>1. D \in Nat \ {0}
  BY SecondPositive
<1> HIDE DEF D
<1>2. t[1] \in Nat /\ t[2] \in Nat
  BY DEF IsTimeval
<1>3. t[1] * D \in Nat
  BY <1>1, <1>2
<1> QED BY <1>2, <1>3 DEF ToMicroseconds, D

\* The comparisons of time_helper.hpp compare by time.
LEMMA LessExact ==
  ASSUME NEW t, NEW u, IsTimeval(t), IsTimeval(u)
  PROVE  /\ Less(t, u) <=> ToMicroseconds(t) < ToMicroseconds(u)
         /\ Equal(t, u) <=> ToMicroseconds(t) = ToMicroseconds(u)
<1> DEFINE D == UsecPerSec
<1>1. D \in Nat \ {0}
  BY SecondPositive
<1>2. /\ t[1] \in Nat /\ t[2] \in 0 .. D - 1
      /\ u[1] \in Nat /\ u[2] \in 0 .. D - 1
  BY DEF IsTimeval, Normalised
<1> HIDE DEF D
<1>3. ASSUME NEW a \in Nat, NEW b \in Nat, a < b  PROVE a * D + D <= b * D
  <2>1. PICK c \in Nat : b = a + 1 + c
    <3>1. b - a - 1 \in Nat /\ b = a + 1 + (b - a - 1)
      BY <1>3
    <3> QED BY <3>1
  <2>2. b * D = a * D + D + c * D
    BY <1>1, <2>1
  <2>3. c * D \in Nat /\ a * D \in Nat
    BY <1>1, <2>1
  <2> QED BY <1>1, <2>2, <2>3
<1>4. t[1] * D \in Nat /\ u[1] * D \in Nat
  BY <1>1, <1>2
<1>5. CASE t[1] < u[1]
  <2>1. t[1] * D + D <= u[1] * D
    BY <1>2, <1>3, <1>5
  <2> QED BY <1>1, <1>2, <1>4, <1>5, <2>1 DEF Less, Equal, ToMicroseconds, D
<1>6. CASE u[1] < t[1]
  <2>1. u[1] * D + D <= t[1] * D
    BY <1>2, <1>3, <1>6
  <2> QED BY <1>1, <1>2, <1>4, <1>6, <2>1 DEF Less, Equal, ToMicroseconds, D
<1>7. CASE u[1] = t[1]
  BY <1>1, <1>2, <1>4, <1>7 DEF Less, Equal, ToMicroseconds, D
<1> QED BY <1>2, <1>5, <1>6, <1>7

\* Division towards zero is less than one above the exact quotient.
LEMMA QuotientBelow ==
  ASSUME NEW a \in Int, NEW b \in Nat \ {0}
  PROVE  Quotient(a, b) \in Int /\ Quotient(a, b) * b < a + b
<1>1. ASSUME NEW n \in Nat PROVE n \div b \in Nat /\ n % b \in 0 .. b - 1 /\ n = b * (n \div b) + (n % b)
  OBVIOUS
<1>2. CASE a >= 0
  <2> DEFINE q == a \div b  r == a % b
  <2>1. q \in Nat /\ r \in 0 .. b - 1 /\ a = b * q + r
    BY <1>1, <1>2
  <2>2. Quotient(a, b) = q
    BY <1>2 DEF Quotient
  <2> HIDE DEF q, r
  <2>3. q * b = b * q
    BY <2>1
  <2> QED BY <2>1, <2>2, <2>3
<1>3. CASE ~(a >= 0)
  <2> DEFINE n == -a  q == n \div b  r == n % b
  <2>1. n \in Nat /\ q \in Nat /\ r \in 0 .. b - 1 /\ n = b * q + r
    BY <1>1, <1>3
  <2>2. Quotient(a, b) = -q
    BY <1>3 DEF Quotient
  <2>3. a = -n
    OBVIOUS
  <2> HIDE DEF n, q, r
  <2>4. (-q) * b = -(b * q) /\ b * q \in Int
    BY <2>1
  <2> QED BY <2>1, <2>2, <2>3, <2>4
<1> QED BY <1>2, <1>3

\* Whatever the number, the sum is a pair of integers, of which the second is less
\* than a second.
LEMMA AddType ==
  ASSUME NEW t \in Int \X Int, NEW ms \in Int
  PROVE  /\ AddMilliseconds(t, ms) \in Int \X Int
         /\ AddMilliseconds(t, ms)[2] < UsecPerSec
<1> DEFINE D == UsecPerSec  M == MsecPerSec  U == UsecPerMsec
           q == Quotient(ms, M)  r == Remainder(ms, M)
           usec == t[2] + r * U
<1>1. D \in Nat \ {0} /\ M \in Nat \ {0} /\ U \in Nat \ {0}
  BY SecondPositive
<1>2. AddMilliseconds(t, ms) =
        IF usec >= D THEN <<t[1] + q + 1, usec % D>> ELSE <<t[1] + q, usec>>
  BY DEF AddMilliseconds
<1> HIDE DEF D, M, U
<1>3. q \in Int
  BY <1>1, QuotientBelow
<1>4. r = ms - q * M
  BY DEF Remainder
<1> HIDE DEF q
<1>5. r \in Int
  BY <1>1, <1>3, <1>4
<1> HIDE DEF r
<1>6. r * U \in Int
  BY <1>1, <1>5
<1>7. usec \in Int
  BY <1>6
<1> HIDE DEF usec
<1>8. usec % D \in 0 .. D - 1
  BY <1>1, <1>7
<1>9. CASE usec >= D
  BY <1>1, <1>2, <1>3, <1>8, <1>9 DEF D
<1>10. CASE ~(usec >= D)
  BY <1>1, <1>2, <1>3, <1>7, <1>10 DEF D
<1> QED BY <1>9, <1>10

\* AddMilliseconds carries (lines 55-66 of time_helper.hpp): the sum is exact, and
\* normalised, for every delay and whatever the factors are.
LEMMA AddExact ==
  ASSUME NEW t, IsTimeval(t), NEW ms \in Nat
  PROVE  /\ IsTimeval(AddMilliseconds(t, ms))
         /\ ToMicroseconds(AddMilliseconds(t, ms)) = ToMicroseconds(t) + ms * UsecPerMsec
<1> DEFINE D == UsecPerSec  M == MsecPerSec  U == UsecPerMsec
           q == ms \div M  r == ms % M
           usec == t[2] + r * U
<1>1. D \in Nat \ {0} /\ M \in Nat \ {0} /\ U \in Nat \ {0} /\ D = M * U
  BY SecondPositive DEF UsecPerSec
<1>2. t[1] \in Nat /\ t[2] \in 0 .. D - 1
  BY DEF IsTimeval, Normalised
<1>0. Quotient(ms, M) = q /\ Remainder(ms, M) = r
  <2>1. Quotient(ms, M) = q
    BY DEF Quotient
  <2> HIDE DEF M
  <2>2. q \in Nat /\ r \in Nat /\ ms = M * q + r
    BY <1>1
  <2>3. q * M = M * q
    BY <1>1, <2>2
  <2> HIDE DEF q, r
  <2>4. M * q \in Nat
    BY <1>1, <2>2
  <2> QED BY <1>1, <2>1, <2>2, <2>3, <2>4 DEF Remainder
<1>3. AddMilliseconds(t, ms) =
        IF usec >= D THEN <<t[1] + q + 1, usec % D>> ELSE <<t[1] + q, usec>>
  BY <1>0 DEF AddMilliseconds
<1> HIDE DEF D, M, U
<1>4. q \in Nat /\ r \in 0 .. M - 1 /\ ms = M * q + r
  BY <1>1
<1> HIDE DEF q, r
<1>5. r * U \in Nat /\ r * U < D
  <2>1. PICK c \in Nat : M = r + 1 + c
    <3>1. M - r - 1 \in Nat /\ M = r + 1 + (M - r - 1)
      BY <1>1, <1>4
    <3> QED BY <3>1
  <2>2. D = r * U + U + c * U
    BY <1>1, <1>4, <2>1
  <2>3. c * U \in Nat /\ r * U \in Nat
    BY <1>1, <1>4, <2>1
  <2> QED BY <1>1, <2>2, <2>3
<1>6. ms * U = q * D + r * U
  <2>1. (M * q) * U = q * (M * U)
    BY <1>1, <1>4
  <2>2. (M * q + r) * U = (M * q) * U + r * U
    BY <1>1, <1>4
  <2> QED BY <1>1, <1>4, <2>1, <2>2
<1>7. t[1] * D \in Nat /\ q * D \in Nat /\ (t[1] + q) * D = t[1] * D + q * D
      /\ (t[1] + q + 1) * D = t[1] * D + q * D + D
  BY <1>1, <1>2, <1>4
<1>8. usec \in Nat /\ usec < D + D
  BY <1>1, <1>2, <1>5
<1>9. ToMicroseconds(t) = t[1] * D + t[2]
  BY DEF ToMicroseconds, D
<1>10. CASE usec >= D
  <2>1. usec % D = usec - D
    <3>1. usec - D \in 0 .. D - 1
      BY <1>1, <1>8, <1>10
    <3> HIDE DEF usec
    <3> QED BY <1>1, <1>8, <1>10, <3>1
  <2>2. AddMilliseconds(t, ms) = <<t[1] + q + 1, usec - D>>
    BY <1>3, <1>10, <2>1
  <2>3. ToMicroseconds(AddMilliseconds(t, ms)) = (t[1] + q + 1) * D + (usec - D)
    BY <2>2 DEF ToMicroseconds, D
  <2>4. IsTimeval(AddMilliseconds(t, ms))
    BY <1>1, <1>2, <1>4, <1>8, <1>10, <2>2 DEF IsTimeval, Normalised, D
  <2>5. (t[1] + q + 1) * D + (usec - D) = t[1] * D + t[2] + (q * D + r * U)
    BY <1>1, <1>2, <1>5, <1>7
  <2> QED BY <1>6, <1>9, <2>3, <2>4, <2>5 DEF U
<1>11. CASE ~(usec >= D)
  <2>2. AddMilliseconds(t, ms) = <<t[1] + q, usec>>
    BY <1>3, <1>11
  <2>3. ToMicroseconds(AddMilliseconds(t, ms)) = (t[1] + q) * D + usec
    BY <2>2 DEF ToMicroseconds, D
  <2>4. IsTimeval(AddMilliseconds(t, ms))
    BY <1>1, <1>2, <1>4, <1>8, <1>11, <2>2 DEF IsTimeval, Normalised, D
  <2>5. (t[1] + q) * D + usec = t[1] * D + t[2] + (q * D + r * U)
    BY <1>1, <1>2, <1>5, <1>7
  <2> QED BY <1>6, <1>9, <2>3, <2>4, <2>5 DEF U
<1> QED BY <1>10, <1>11

\* The wait that is computed for a deadline is rounded up by less than a
\* millisecond, although neither the difference nor the deadline need be normalised.
LEMMA WaitExact ==
  ASSUME NEW t \in Int \X Int, NEW u \in Int \X Int
  PROVE  LET ms == ToMilliseconds(Subtract(t, u))
         IN  ms \in Int /\ ms * UsecPerMsec < ToMicroseconds(t) - ToMicroseconds(u) + UsecPerMsec
<1> DEFINE M == MsecPerSec  U == UsecPerMsec  s == t[1] - u[1]  r == t[2] - u[2]  q == Quotient(r, U)
<1>1. M \in Nat \ {0} /\ U \in Nat \ {0} /\ UsecPerSec = M * U
  BY SecondPositive DEF UsecPerSec
<1>2. t[1] \in Int /\ t[2] \in Int /\ u[1] \in Int /\ u[2] \in Int
  OBVIOUS
<1>3. s \in Int /\ r \in Int
  BY <1>2
<1>4. q \in Int /\ q * U < r + U
  BY <1>1, <1>3, QuotientBelow
<1>5. ToMilliseconds(Subtract(t, u)) = s * M + q
  BY DEF ToMilliseconds, Subtract
<1>6. ToMicroseconds(t) = t[1] * (M * U) + t[2] /\ ToMicroseconds(u) = u[1] * (M * U) + u[2]
  BY <1>1 DEF ToMicroseconds
<1>7. s = t[1] - u[1] /\ r = t[2] - u[2]
  OBVIOUS
<1> HIDE DEF M, U, s, r, q
<1>8. (s * M + q) * U = s * (M * U) + q * U /\ s * M + q \in Int
  BY <1>1, <1>3, <1>4
<1>9. s * (M * U) = t[1] * (M * U) - u[1] * (M * U)
  BY <1>1, <1>2, <1>7
<1>10. t[1] * (M * U) \in Int /\ u[1] * (M * U) \in Int /\ q * U \in Int
  BY <1>1, <1>2, <1>4
<1>11. (s * M + q) * U < ToMicroseconds(t) - ToMicroseconds(u) + U
  BY <1>1, <1>2, <1>3, <1>4, <1>6, <1>7, <1>8, <1>9, <1>10
<1> QED BY <1>5, <1>8, <1>11 DEF U

\* A number that is taken as signed never becomes greater, and stays what it is if
\* there is room for it.
LEMMA ToSignedExact ==
  ASSUME NEW n \in Nat, NEW max \in Nat
  PROVE  /\ ToSigned(n, max) \in Int /\ ToSigned(n, max) <= n
         /\ n <= max => ToSigned(n, max) = n
<1> DEFINE b == 2 * (max + 1)  low == n % b  q == n \div b
<1>1. b \in Nat \ {0} /\ max < b
  OBVIOUS
<1>2. ToSigned(n, max) = IF low > max THEN low - b ELSE low
  BY DEF ToSigned
<1> HIDE DEF b
<1>3. q \in Nat /\ low \in 0 .. b - 1 /\ n = b * q + low
  BY <1>1
<1> HIDE DEF q, low
<1>4. b * q \in Nat
  BY <1>1, <1>3
<1>5. low <= n
  BY <1>3, <1>4
<1>6. n <= max => low = n
  <2>1. q # 0 => b * q >= b
    BY <1>1, <1>3
  <2>2. q = 0 => b * q = 0
    BY <1>1
  <2> QED BY <1>1, <1>3, <2>1, <2>2
<1> QED BY <1>1, <1>2, <1>3, <1>5, <1>6

\* A finite set of integers that is not empty has a least element.
LEMMA LeastElement ==
  ASSUME NEW S \in SUBSET Int, S # {}, IsFiniteSet(S)
  PROVE  \E m \in S : \A n \in S : m <= n
<1> DEFINE Below(n) == {x \in S : x < n}
           T == {Below(n) : n \in S}
           R == StrictSubsetOrdering(S)
<1>1. IsWellFoundedOn(R, FiniteSubsetsOf(S))
  BY FS_StrictSubsetOrderingWellFounded
<1>2. T \subseteq FiniteSubsetsOf(S)
  BY FS_Subset DEF FiniteSubsetsOf
<1>3. T # {}
  OBVIOUS
<1>4. PICK t \in T : \A u \in T : ~(<<u, t>> \in R)
  <2> HIDE DEF T, R
  <2> QED BY <1>1, <1>2, <1>3, WFMin
<1>5. PICK m \in S : t = Below(m)
  BY <1>4
<1>6. ASSUME NEW n \in S, n < m PROVE FALSE
  <2>1. Below(n) \in T
    OBVIOUS
  <2>2. \A x \in S : x < n => x < m
    BY <1>6
  <2>3. n < m /\ ~(n < n)
    BY <1>6
  <2>4. Below(n) \subseteq Below(m) /\ Below(n) # Below(m)
    BY <2>2, <2>3
  <2> QED BY <1>2, <1>4, <1>5, <2>1, <2>4 DEF StrictSubsetOrdering, FiniteSubsetsOf
<1> QED BY <1>5, <1>6

-----------------------------------------------------------------------------
(* The tasks *)

\* Tasks have the numbers of their places in the order of the calls.
OrderInv ==
  /\ finished \in Seq(Nat) /\ running \in Seq(Nat) /\ tasks \in Seq(Nat)
  /\ \A i \in 1 .. Len(finished) : finished[i] = i
  /\ \A i \in 1 .. Len(running) : running[i] = Len(finished) + i
  /\ \A i \in 1 .. Len(tasks) : tasks[i] = Len(finished) + Len(running) + i
  /\ pc = "task" => running # <<>>
  /\ running # <<>> => pc \in {"task", "stuck"}

\* At first no task was posted.
LEMMA OrderInvInit == Init => OrderInv
BY DEF Init, OrderInv

\* Tasks are numbered where they are posted, and keep their order while they
\* move from the queue to the batch and to the end.
LEMMA OrderInvNext == OrderInv /\ [Next]_vars => OrderInv'
<1> SUFFICES ASSUME OrderInv, [Next]_vars
             PROVE  OrderInv'
  OBVIOUS
<1>0. /\ finished \in Seq(Nat) /\ running \in Seq(Nat) /\ tasks \in Seq(Nat)
      /\ Len(finished) \in Nat /\ Len(running) \in Nat /\ Len(tasks) \in Nat
  BY DEF OrderInv
<1>1. CASE /\ UNCHANGED <<finished, running, tasks>>
           /\ pc' = "task" => pc = "task"
           /\ pc \in {"task", "stuck"} => pc' \in {"task", "stuck"}
  BY <1>1 DEF OrderInv
<1>2. CASE RunInLoop
  <2>1. Posted + 1 = Len(finished) + Len(running) + (Len(tasks) + 1) /\ Posted + 1 \in Nat
    BY <1>0 DEF Posted
  <2>2. /\ tasks' = Append(tasks, Posted + 1)
        /\ UNCHANGED <<finished, running, pc>>
    BY <1>2 DEF RunInLoop
  <2>3. tasks' \in Seq(Nat) /\ Len(tasks') = Len(tasks) + 1
    BY <1>0, <2>1, <2>2
  <2>4. \A i \in 1 .. Len(tasks') : tasks'[i] = Len(finished) + Len(running) + i
    <3> TAKE i \in 1 .. Len(tasks')
    <3>1. CASE i = Len(tasks) + 1
      BY <1>0, <2>1, <2>2, <3>1
    <3>2. CASE i \in 1 .. Len(tasks)
      <4>1. tasks'[i] = tasks[i]
        BY <1>0, <2>1, <2>2, <3>2
      <4> QED BY <3>2, <4>1 DEF OrderInv
    <3> QED BY <1>0, <2>3, <3>1, <3>2
  <2> QED BY <1>0, <2>2, <2>3, <2>4 DEF OrderInv
<1>3. CASE TakeTasks
  <2>1. running' = tasks /\ tasks' = <<>> /\ finished' = finished /\ pc = "swap"
        /\ pc' = (IF tasks = <<>> THEN NextRound ELSE "task")
    BY <1>3 DEF TakeTasks, TasksAfterTake
  <2>2. running = <<>> /\ NextRound # "task"
    BY <2>1 DEF OrderInv, NextRound
  <2> QED BY <1>0, <2>1, <2>2 DEF OrderInv
<1>4. CASE TaskReturns
  <2>1. /\ finished' = Append(finished, Head(running))
        /\ running' = Tail(running)
        /\ tasks' = tasks
        /\ pc = "task"
        /\ pc' = (IF running' = <<>> THEN NextRound ELSE "task")
    BY <1>4 DEF TaskReturns, TasksAfterRun
  <2>2. running # <<>> /\ NextRound # "task"
    BY <2>1 DEF OrderInv, NextRound
  <2>3. Head(running) = Len(finished) + 1 /\ Len(running) # 0
    BY <1>0, <2>2 DEF OrderInv
  <2>4. /\ finished' \in Seq(Nat) /\ Len(finished') = Len(finished) + 1
        /\ running' \in Seq(Nat) /\ Len(running') = Len(running) - 1
        /\ \A i \in 1 .. Len(running') : running'[i] = running[i + 1]
    BY <1>0, <2>1, <2>2, <2>3
  <2>5. \A i \in 1 .. Len(finished') : finished'[i] = i
    BY <1>0, <2>1, <2>3, <2>4 DEF OrderInv
  <2>6. \A i \in 1 .. Len(running') : running'[i] = Len(finished') + i
    BY <1>0, <2>3, <2>4 DEF OrderInv
  <2>7. \A i \in 1 .. Len(tasks') : tasks'[i] = Len(finished') + Len(running') + i
    BY <1>0, <2>1, <2>3, <2>4 DEF OrderInv
  <2> QED BY <1>0, <2>1, <2>2, <2>4, <2>5, <2>6, <2>7 DEF OrderInv
<1> QED
  BY <1>1, <1>2, <1>3, <1>4
     DEF Next, Run, MainLoop, Callback, SetTimeout, SetInterval, SetTimer, Stop, WakeUpBlocks, BeforePoll,
         PollReturns, TakeTimers, TimerReturns, ProcessEvents, WakeUp, Tick, SetClock, vars,
         NextRound, AfterTimers

\* The elements of a concatenation.
LEMMA ConcatElement ==
  ASSUME NEW s \in Seq(Nat), NEW t \in Seq(Nat), NEW i \in 1 .. Len(s) + Len(t)
  PROVE  (s \o t)[i] = IF i <= Len(s) THEN s[i] ELSE t[i - Len(s)]
OBVIOUS

\* Every task is run once and in the order of the calls of RunInLoop, also those
\* that are posted by tasks (ProcessPendingTask).
THEOREM TasksInOrderCorrect == Spec => []TasksInOrder
<1>1. OrderInv => TasksInOrder
  <2> SUFFICES ASSUME OrderInv, NEW i \in DOMAIN (finished \o running \o tasks)
               PROVE  (finished \o running \o tasks)[i] = i
    BY DEF TasksInOrder
  <2>1. /\ finished \in Seq(Nat) /\ running \in Seq(Nat) /\ tasks \in Seq(Nat)
        /\ Len(finished) \in Nat /\ Len(running) \in Nat /\ Len(tasks) \in Nat
    BY DEF OrderInv
  <2>2. finished \o running \in Seq(Nat) /\ Len(finished \o running) = Len(finished) + Len(running)
    BY <2>1
  <2>3. i \in 1 .. (Len(finished) + Len(running) + Len(tasks))
    BY <2>1, <2>2
  <2>4. (finished \o running \o tasks)[i] =
          IF i <= Len(finished) + Len(running) THEN (finished \o running)[i]
          ELSE tasks[i - (Len(finished) + Len(running))]
    BY <2>1, <2>2, <2>3, ConcatElement
  <2>5. i <= Len(finished) + Len(running) =>
          (finished \o running)[i] = IF i <= Len(finished) THEN finished[i] ELSE running[i - Len(finished)]
    BY <2>1, <2>3, ConcatElement
  <2>6. CASE i <= Len(finished)
    <3>1. finished[i] = i
      BY <2>1, <2>3, <2>6 DEF OrderInv
    <3> QED BY <2>1, <2>3, <2>4, <2>5, <2>6, <3>1
  <2>7. CASE i > Len(finished) /\ i <= Len(finished) + Len(running)
    <3>1. i - Len(finished) \in 1 .. Len(running)
      BY <2>1, <2>3, <2>7
    <3>2. running[i - Len(finished)] = Len(finished) + (i - Len(finished))
      BY <3>1 DEF OrderInv
    <3> QED BY <2>1, <2>3, <2>4, <2>5, <2>7, <3>2
  <2>8. CASE i > Len(finished) + Len(running)
    <3> DEFINE j == i - (Len(finished) + Len(running))
    <3>1. j \in 1 .. Len(tasks)
      BY <2>1, <2>3, <2>8
    <3>2. tasks[j] = Len(finished) + Len(running) + j
      BY <3>1 DEF OrderInv
    <3> QED BY <2>1, <2>3, <2>4, <2>8, <3>2
  <2> QED BY <2>1, <2>3, <2>6, <2>7, <2>8
<1> QED BY <1>1, OrderInvInit, OrderInvNext, PTL DEF Spec

-----------------------------------------------------------------------------
(* The timers and their deadlines *)

\* A member of the history "made".
Request == [at : Nat, forward : Nat, clock : Nat, delay : Nat, circle : BOOLEAN]

\* A timer, whatever its id.
TimerRecord == [id : Nat, due : Int \X Int, delay : Nat, circle : BOOLEAN]

\* The deadline of t is n delays after its creation, if its delay fits into an int64_t.
OnGrid(t, n) ==
  /\ t.id \in DOMAIN made
  /\ t.delay = made[t.id].delay /\ t.circle = made[t.id].circle
  /\ t.due[2] < UsecPerSec
  /\ t.delay <= MaxLong =>
       /\ IsTimeval(t.due)
       /\ ToMicroseconds(t.due) = made[t.id].clock + n * t.delay * UsecPerMsec

\* The clock has gained on true time by no more than it was set forward.
ClockInv ==
  /\ elapsed \in Nat /\ forward \in Nat /\ setBack \in 0 .. StartOfClock
  /\ made \in Seq(Request) /\ runs \in Seq(Nat) /\ Len(runs) = Len(made)
  /\ \A id \in DOMAIN made :
       Clock - made[id].clock <= (elapsed - made[id].at) + (forward - made[id].forward)

\* The deadline of a timer in the queue is that of its next run.
QueueInv ==
  /\ timers \subseteq TimerRecord /\ IsFiniteSet(timers)
  /\ \A t \in timers : OnGrid(t, runs[t.id] + 1)
  /\ \A t, u \in timers : t.id = u.id => t = u

\* That of a timer in the batch is that of the run it is in.
BatchInv ==
  /\ batch \in Seq(TimerRecord)
  /\ \A i \in 1 .. Len(batch) : OnGrid(batch[i], runs[batch[i].id])
  /\ \A i, j \in 1 .. Len(batch) : batch[i].id = batch[j].id => i = j
  /\ \A i \in 1 .. Len(batch), t \in timers : batch[i].id # t.id
  /\ pc = "timer" => batch # <<>>
  /\ batch # <<>> => pc \in {"timer", "stuck"}

\* The inductive invariant of the timers.
TimerInv == ClockInv /\ QueueInv /\ BatchInv

\* What gettimeofday shows is a normalised time.
LEMMA ClockType ==
  ASSUME ClockInv
  PROVE  Clock \in Nat /\ IsTimeval(Now) /\ ToMicroseconds(Now) = Clock
<1>1. Clock \in Nat
  BY ClockAssumption DEF ClockInv, Clock
<1> QED BY <1>1, NowExact DEF Now

\* At first there is no timer.
LEMMA TimerInvInit == Init => TimerInv /\ NeverEarly
<1> SUFFICES ASSUME Init PROVE TimerInv /\ NeverEarly
  OBVIOUS
<1>1. ClockInv
  BY ClockAssumption DEF Init, ClockInv
<1>2. QueueInv
  BY FS_EmptySet DEF Init, QueueInv
<1>3. BatchInv
  BY DEF Init, BatchInv
<1>4. NeverEarly
  BY DEF Init, NeverEarly
<1> QED BY <1>1, <1>2, <1>3, <1>4 DEF TimerInv

\* A step that leaves the timers alone.
LEMMA TimersKept ==
  ASSUME TimerInv, UNCHANGED <<timers, batch, made, runs>>, pc' = "timer" => pc = "timer",
         pc \in {"timer", "stuck"} => pc' \in {"timer", "stuck"}
  PROVE  QueueInv' /\ BatchInv'
BY DEF TimerInv, QueueInv, BatchInv, OnGrid

\* A step that leaves time alone.
LEMMA ClockKept ==
  ASSUME ClockInv, UNCHANGED <<elapsed, forward, setBack, made, runs>>
  PROVE  ClockInv'
BY DEF ClockInv, Clock

\* Delays are numbers.
LEMMA DelayType ==
  /\ Timeouts \subseteq Nat /\ Intervals \subseteq Nat
  /\ MaxInt \in Nat /\ MaxLong \in Nat /\ MaxInt <= MaxLong /\ DefaultTimeout \in 0 .. MaxInt
BY DelayAssumption

\* A delay that an int64_t can hold is taken as it is.
LEMMA SignedDelay ==
  ASSUME NEW delay \in Nat
  PROVE  Signed(delay) \in Int /\ (delay <= MaxLong => Signed(delay) = delay)
BY DelayType, ToSignedExact DEF Signed

\* A new timer is due one delay after its creation.
LEMMA SetTimerKeeps ==
  ASSUME TimerInv, NEW delay \in Nat, NEW circle \in BOOLEAN, SetTimer(delay, circle)
  PROVE  TimerInv'
<1>a. PICK new : new = [id |-> Len(made) + 1, due |-> AddMilliseconds(Now, Signed(delay)),
                        delay |-> delay, circle |-> circle]
  OBVIOUS
<1>b. PICK request : request = [at |-> elapsed, forward |-> forward, clock |-> Clock,
                                delay |-> delay, circle |-> circle]
  OBVIOUS
<1>c. /\ new.id = Len(made) + 1 /\ new.due = AddMilliseconds(Now, Signed(delay))
      /\ new.delay = delay /\ new.circle = circle
      /\ request.at = elapsed /\ request.forward = forward /\ request.clock = Clock
      /\ request.delay = delay /\ request.circle = circle
  BY <1>a, <1>b
<1>1. /\ elapsed \in Nat /\ forward \in Nat /\ setBack \in 0 .. StartOfClock
      /\ made \in Seq(Request) /\ runs \in Seq(Nat) /\ Len(runs) = Len(made)
      /\ Len(made) \in Nat /\ DOMAIN made = 1 .. Len(made) /\ DOMAIN runs = 1 .. Len(made)
  BY DEF TimerInv, ClockInv
<1>2. Clock \in Nat /\ IsTimeval(Now) /\ ToMicroseconds(Now) = Clock
  BY ClockType DEF TimerInv
<1>3. /\ timers' = timers \cup {new}
      /\ made' = Append(made, request)
      /\ runs' = Append(runs, 0)
      /\ UNCHANGED <<pc, batch, elapsed, forward, setBack>>
  BY <1>a, <1>b DEF SetTimer
<1>d. Signed(delay) \in Int /\ (delay <= MaxLong => Signed(delay) = delay)
  BY SignedDelay
<1>e. new.due \in Int \X Int /\ new.due[2] < UsecPerSec
  BY <1>2, <1>c, <1>d, AddType DEF IsTimeval
<1>4. delay <= MaxLong => IsTimeval(new.due) /\ ToMicroseconds(new.due) = Clock + delay * UsecPerMsec
  BY <1>2, <1>c, <1>d, AddExact
<1>5. new \in TimerRecord
  BY <1>1, <1>e, <1>a, <1>c DEF TimerRecord
<1>6. request \in Request
  BY <1>1, <1>2, <1>b DEF Request
<1>7. /\ made' \in Seq(Request) /\ runs' \in Seq(Nat)
      /\ Len(made') = Len(made) + 1 /\ Len(runs') = Len(made) + 1
      /\ DOMAIN made' = 1 .. Len(made) + 1
      /\ \A id \in DOMAIN made : id \in DOMAIN made' /\ made'[id] = made[id] /\ runs'[id] = runs[id]
      /\ made'[Len(made) + 1] = request /\ runs'[Len(made) + 1] = 0
  BY <1>1, <1>3, <1>6
<1>8. ClockInv'
  <2>1. Clock' = Clock
    BY <1>3 DEF Clock
  <2>2. \A id \in DOMAIN made' : Clock' - made'[id].clock
                                   <= (elapsed' - made'[id].at) + (forward' - made'[id].forward)
    <3> TAKE id \in DOMAIN made'
    <3>1. CASE id \in DOMAIN made
      BY <1>3, <1>7, <2>1, <3>1 DEF TimerInv, ClockInv
    <3>2. CASE id = Len(made) + 1
      BY <1>1, <1>2, <1>3, <1>7, <1>c, <2>1, <3>2
    <3> QED BY <1>1, <1>7, <3>1, <3>2
  <2> QED BY <1>1, <1>3, <1>7, <2>2 DEF ClockInv
<1>9. \A t, n : OnGrid(t, n) => OnGrid(t, n)' /\ t.id # new.id /\ runs'[t.id] = runs[t.id]
  BY <1>1, <1>7, <1>c DEF OnGrid
<1>10. OnGrid(new, 1)'
  <2>1. made'[new.id] = request /\ new.id \in DOMAIN made'
    BY <1>1, <1>7, <1>c
  <2>2. 1 * new.delay * UsecPerMsec = delay * UsecPerMsec
    BY <1>c, SecondPositive
  <2>3. new.delay <= MaxLong =>
          IsTimeval(new.due) /\ ToMicroseconds(new.due) = Clock + 1 * new.delay * UsecPerMsec
    BY <1>4, <1>c, <2>2
  <2> QED BY <1>c, <1>e, <2>1, <2>3 DEF OnGrid
<1>11. runs'[new.id] + 1 = 1
  BY <1>7, <1>c
<1>12. \A t \in timers : OnGrid(t, runs[t.id] + 1)
  BY DEF TimerInv, QueueInv
<1>13. QueueInv'
  <2>1. timers' \subseteq TimerRecord /\ IsFiniteSet(timers')
    BY <1>3, <1>5, FS_AddElement DEF TimerInv, QueueInv
  <2>2. \A t \in timers' : OnGrid(t, runs[t.id] + 1)'
    <3> SUFFICES ASSUME NEW t \in timers' PROVE OnGrid(t, runs[t.id] + 1)'
      OBVIOUS
    <3>1. CASE t \in timers
      BY <1>9, <1>12, <3>1
    <3>2. CASE t = new
      BY <1>10, <1>11, <3>2
    <3> QED BY <1>3, <3>1, <3>2
  <2>3. \A t, u \in timers' : t.id = u.id => t = u
    BY <1>3, <1>9, <1>12 DEF TimerInv, QueueInv
  <2> QED BY <2>1, <2>2, <2>3 DEF QueueInv
<1>14. BatchInv'
  <2>1. \A i \in 1 .. Len(batch) : OnGrid(batch[i], runs[batch[i].id])
    BY DEF TimerInv, BatchInv
  <2>2. \A i \in 1 .. Len(batch) : OnGrid(batch[i], runs[batch[i].id])'
    BY <1>3, <1>9, <2>1
  <2>3. \A i \in 1 .. Len(batch), t \in timers' : batch[i].id # t.id
    BY <1>3, <1>9, <2>1 DEF TimerInv, BatchInv
  <2> QED BY <1>3, <2>2, <2>3 DEF TimerInv, BatchInv
<1> QED BY <1>8, <1>13, <1>14 DEF TimerInv

\* The orders of a heap hold no element twice, and nothing only if there is none.
LEMMA OrderOfSet ==
  ASSUME NEW S, IsFiniteSet(S), NEW s \in HeapOrders(S)
  PROVE  /\ s \in Seq(S) /\ \A i, j \in 1 .. Len(s) : s[i] = s[j] => i = j
         /\ S = {} <=> s = <<>>
<1>1. Cardinality(S) \in Nat
  BY FS_CardinalityType
<1>2. s \in [1 .. Cardinality(S) -> S] /\ \A i, j \in 1 .. Cardinality(S) : i # j => s[i] # s[j]
  BY DEF HeapOrders, SetToSeqs
<1>3. s \in Seq(S) /\ Len(s) = Cardinality(S)
  BY <1>1, <1>2
<1>4. S = {} <=> Cardinality(S) = 0
  BY FS_EmptySet
<1> QED BY <1>2, <1>3, <1>4

\* What is popped from the queue is in the batch, with one more run.
LEMMA TakeTimersKeeps ==
  ASSUME TimerInv, TakeTimers
  PROVE  TimerInv'
<1>1. /\ elapsed \in Nat /\ made \in Seq(Request) /\ runs \in Seq(Nat) /\ Len(runs) = Len(made)
      /\ Len(made) \in Nat /\ DOMAIN made = 1 .. Len(made) /\ DOMAIN runs = 1 .. Len(made)
  BY DEF TimerInv, ClockInv
<1>2. /\ batch' \in HeapOrders(Taken) /\ timers' = timers \ Taken
      /\ runs' = [id \in DOMAIN runs |-> IF \E t \in Taken : t.id = id THEN runs[id] + 1 ELSE runs[id]]
      /\ pc = "check" /\ pc' = IF Taken = {} THEN AfterTimers ELSE "timer"
      /\ UNCHANGED <<elapsed, forward, setBack, made>>
  BY DEF TakeTimers
<1>3. Taken \subseteq timers /\ IsFiniteSet(Taken) /\ Taken \subseteq TimerRecord
  BY FS_Subset DEF TimerInv, QueueInv, Taken
<1>4. \A t, u \in timers : t.id = u.id => t = u
  BY DEF TimerInv, QueueInv
<1>5. \A t \in timers : OnGrid(t, runs[t.id] + 1)
  BY DEF TimerInv, QueueInv
<1>6. \A t \in timers : t.id \in 1 .. Len(made)
  BY <1>1, <1>5 DEF OnGrid
<1>7. runs' \in Seq(Nat) /\ Len(runs') = Len(made)
  BY <1>1, <1>2
<1>8. \A t \in timers : runs'[t.id] = IF t \in Taken THEN runs[t.id] + 1 ELSE runs[t.id]
  BY <1>1, <1>2, <1>3, <1>4, <1>6
<1>9. \A t, n : OnGrid(t, n) => OnGrid(t, n)'
  BY <1>2 DEF OnGrid
<1>10. /\ batch' \in Seq(Taken) /\ \A i, j \in 1 .. Len(batch') : batch'[i] = batch'[j] => i = j
       /\ Taken = {} <=> batch' = <<>>
  BY <1>2, <1>3, OrderOfSet
<1>11. ClockInv'
  BY <1>1, <1>2, <1>7 DEF TimerInv, ClockInv, Clock
<1>12. QueueInv'
  <2>1. timers' \subseteq TimerRecord /\ IsFiniteSet(timers')
    BY <1>2, FS_Subset DEF TimerInv, QueueInv
  <2>2. \A t \in timers' : OnGrid(t, runs[t.id] + 1)' 
    BY <1>2, <1>5, <1>8, <1>9
  <2> QED BY <1>2, <1>4, <2>1, <2>2 DEF QueueInv
<1>13. BatchInv'
  <2>1. \A i \in 1 .. Len(batch') : batch'[i] \in Taken
    BY <1>10
  <2>2. \A i \in 1 .. Len(batch') : OnGrid(batch[i], runs[batch[i].id])'
    BY <1>3, <1>5, <1>8, <1>9, <2>1
  <2>3. \A i, j \in 1 .. Len(batch') : batch'[i].id = batch'[j].id => i = j
    BY <1>3, <1>4, <1>10, <2>1
  <2>4. \A i \in 1 .. Len(batch'), t \in timers' : batch'[i].id # t.id
    BY <1>2, <1>3, <1>4, <2>1
  <2>5. batch' \in Seq(TimerRecord)
    BY <1>3, <1>10
  <2>6. pc' = "timer" <=> batch' # <<>>
    BY <1>2, <1>10 DEF AfterTimers
  <2> QED BY <2>2, <2>3, <2>4, <2>5, <2>6 DEF BatchInv
<1> QED BY <1>11, <1>12, <1>13 DEF TimerInv

\* A timer that is taken before a rollover is due.
LEMMA TakeTimersNotEarly ==
  ASSUME TimerInv, NeverEarly, TakeTimers
  PROVE  NeverEarly'
<1>1. /\ elapsed \in Nat /\ forward \in Nat /\ made \in Seq(Request) /\ runs \in Seq(Nat) /\ Len(runs) = Len(made)
      /\ Len(made) \in Nat /\ DOMAIN made = 1 .. Len(made) /\ DOMAIN runs = 1 .. Len(made)
  BY DEF TimerInv, ClockInv
<1>2. /\ runs' = [id \in DOMAIN runs |-> IF \E t \in Taken : t.id = id THEN runs[id] + 1 ELSE runs[id]]
      /\ rolled' = (rolled \/ CheckClockRollover)
      /\ UNCHANGED <<elapsed, forward, made>>
  BY DEF TakeTimers
<1> DEFINE Passed(id) == (elapsed - made[id].at) + (forward - made[id].forward)
<1>3. SUFFICES ASSUME ~rolled', NEW id \in DOMAIN made, made[id].delay <= MaxLong
               PROVE  runs'[id] * made[id].delay * UsecPerMsec <= Passed(id)
  BY <1>2 DEF NeverEarly
<1>4. ~rolled /\ ~CheckClockRollover
  BY <1>2, <1>3
<1>5. CASE \E t \in Taken : t.id = id
  <2>1. PICK t \in Taken : t.id = id
    BY <1>5
  <2>2. t \in timers /\ Due(t)
    BY <1>4 DEF Taken
  <2>3. OnGrid(t, runs[t.id] + 1) /\ t \in TimerRecord
    BY <2>2 DEF TimerInv, QueueInv
  <2>4. IsTimeval(t.due)
    BY <1>3, <2>1, <2>3 DEF OnGrid
  <2>5. Clock \in Nat /\ IsTimeval(Now) /\ ToMicroseconds(Now) = Clock
    BY ClockType DEF TimerInv
  <2>6. ToMicroseconds(t.due) \in Nat /\ ToMicroseconds(t.due) <= Clock
    BY <2>2, <2>4, <2>5, LessExact, ToMicrosecondsType DEF Due
  <2>7. ToMicroseconds(t.due) = made[id].clock + (runs[id] + 1) * made[id].delay * UsecPerMsec
    BY <1>3, <2>1, <2>3 DEF OnGrid
  <2>8. Clock - made[id].clock <= Passed(id)
    BY DEF TimerInv, ClockInv
  <2>9. runs'[id] = runs[id] + 1
    BY <1>1, <1>2, <1>5
  <2>10. made[id] \in Request /\ runs[id] \in Nat
    BY <1>1
  <2>11. made[id].at \in Nat /\ made[id].forward \in Nat /\ made[id].clock \in Nat /\ made[id].delay \in Nat
    BY <2>10 DEF Request
  <2> DEFINE k == (runs[id] + 1) * made[id].delay * UsecPerMsec
  <2>12. k \in Nat
    BY <2>10, <2>11, SecondPositive
  <2>13. runs'[id] * made[id].delay * UsecPerMsec = k
    BY <2>9
  <2> HIDE DEF k
  <2>14. ToMicroseconds(t.due) = made[id].clock + k
    BY <2>7 DEF k
  <2>15. k <= Passed(id)
    <3>1. PICK due, passed, origin :
            due = ToMicroseconds(t.due) /\ passed = Passed(id) /\ origin = made[id].clock
      OBVIOUS
    <3>2. /\ due \in Nat /\ passed \in Int /\ origin \in Nat /\ k \in Nat /\ Clock \in Nat
          /\ due <= Clock /\ due = origin + k
      BY <1>1, <2>5, <2>6, <2>11, <2>12, <2>14, <3>1
    <3>3. Clock - origin <= passed
      BY <2>8, <3>1
    <3> HIDE DEF Passed
    <3> QED BY <3>1, <3>2, <3>3
  <2> QED BY <2>13, <2>15
<1>6. CASE ~\E t \in Taken : t.id = id
  <2>1. runs'[id] = runs[id]
    BY <1>1, <1>2, <1>6
  <2> QED BY <1>3, <1>4, <2>1 DEF NeverEarly
<1> QED BY <1>5, <1>6

\* Whatever moves the clock: it gains on true time only by what it is set forward.
LEMMA ClockMoves ==
  ASSUME ClockInv, UNCHANGED <<made, runs>>, elapsed' \in Nat, forward' \in Nat, setBack' \in 0 .. StartOfClock,
         elapsed' - elapsed \in Nat, forward' - forward \in Nat, setBack' - setBack \in Nat
  PROVE  ClockInv'
<1>1. /\ elapsed \in Nat /\ forward \in Nat /\ setBack \in Nat /\ setBack' \in Nat
      /\ StartOfClock \in Nat /\ made \in Seq(Request)
  BY ClockAssumption DEF ClockInv
<1>2. ASSUME NEW id \in DOMAIN made
      PROVE  Clock' - made[id].clock <= (elapsed' - made[id].at) + (forward' - made[id].forward)
  <2>1. made[id] \in Request
    BY <1>1
  <2>2. PICK at \in Nat, ahead \in Nat, origin \in Nat :
          at = made[id].at /\ ahead = made[id].forward /\ origin = made[id].clock
    BY <2>1 DEF Request
  <2>3. (StartOfClock + elapsed + forward - setBack) - origin <= (elapsed - at) + (forward - ahead)
    BY <2>2 DEF ClockInv, Clock
  <2>4. PICK x, y, z, u, v, w :
          /\ x = elapsed /\ y = forward /\ z = setBack
          /\ u = elapsed' /\ v = forward' /\ w = setBack'
    OBVIOUS
  <2>5. /\ x \in Nat /\ y \in Nat /\ z \in Nat /\ u \in Nat /\ v \in Nat /\ w \in Nat
        /\ u - x \in Nat /\ v - y \in Nat /\ w - z \in Nat /\ StartOfClock \in Nat
    BY <1>1, <2>4
  <2>6. (StartOfClock + x + y - z) - origin <= (x - at) + (y - ahead)
    BY <2>3, <2>4
  <2>7. (StartOfClock + u + v - w) - origin <= (u - at) + (v - ahead)
    BY <2>5, <2>6
  <2> QED BY <2>2, <2>4, <2>7 DEF Clock
<1> QED BY <1>2 DEF ClockInv

\* UpdateNextCircle moves a deadline by one delay exactly.
LEMMA NextDeadline ==
  ASSUME NEW t \in TimerRecord, NEW n \in Nat, OnGrid(t, n), ClockInv
  PROVE  /\ UpdateNextCircle(t) \in TimerRecord /\ UpdateNextCircle(t).id = t.id
         /\ OnGrid(UpdateNextCircle(t), n + 1)
<1>a. PICK next : next = UpdateNextCircle(t)
  OBVIOUS
<1>1. /\ t.id \in Nat /\ t.due \in Int \X Int /\ t.delay \in Nat /\ t.circle \in BOOLEAN
      /\ t = [id |-> t.id, due |-> t.due, delay |-> t.delay, circle |-> t.circle]
  BY DEF TimerRecord
<1>2. t.delay <= MaxLong => IsTimeval(t.due)
  BY DEF OnGrid
<1>d. Signed(t.delay) \in Int /\ (t.delay <= MaxLong => Signed(t.delay) = t.delay)
  BY <1>1, SignedDelay
<1>3. next = [id |-> t.id, due |-> AddMilliseconds(t.due, Signed(t.delay)), delay |-> t.delay, circle |-> t.circle]
  BY <1>a, <1>1 DEF UpdateNextCircle
<1>4. /\ next.id = t.id /\ next.delay = t.delay /\ next.circle = t.circle
      /\ next.due = AddMilliseconds(t.due, Signed(t.delay))
  BY <1>3
<1>e. next.due \in Int \X Int /\ next.due[2] < UsecPerSec
  BY <1>1, <1>d, <1>4, AddType
<1>f. t.delay <= MaxLong =>
        IsTimeval(next.due) /\ ToMicroseconds(next.due) = ToMicroseconds(t.due) + t.delay * UsecPerMsec
  BY <1>1, <1>2, <1>d, <1>4, AddExact
<1>5. next \in TimerRecord
  BY <1>1, <1>3, <1>4, <1>e DEF TimerRecord
<1>6. (n + 1) * t.delay * UsecPerMsec = n * t.delay * UsecPerMsec + t.delay * UsecPerMsec
  <2> DEFINE d == t.delay  U == UsecPerMsec
  <2>1. d \in Nat /\ U \in Nat
    BY <1>1, SecondPositive
  <2> HIDE DEF d, U
  <2>2. (n + 1) * d = n * d + d /\ n * d \in Nat
    BY <2>1
  <2>3. (n * d + d) * U = (n * d) * U + d * U
    BY <2>1, <2>2
  <2> QED BY <2>2, <2>3 DEF d, U
<1>7. made[t.id].clock \in Nat /\ n * t.delay * UsecPerMsec \in Nat /\ t.delay * UsecPerMsec \in Nat
  <2>1. made[t.id] \in Request
    BY DEF OnGrid, ClockInv
  <2>2. made[t.id].clock \in Nat
    BY <2>1 DEF Request
  <2> QED BY <1>1, <2>2, SecondPositive
<1>8. t.delay <= MaxLong =>
        ToMicroseconds(next.due) = made[next.id].clock + (n + 1) * next.delay * UsecPerMsec
  BY <1>4, <1>6, <1>7, <1>f DEF OnGrid
<1> QED BY <1>a, <1>4, <1>5, <1>8, <1>e, <1>f DEF OnGrid

\* A periodic timer goes back to the queue once, with its next deadline.
LEMMA TimerReturnsKeeps ==
  ASSUME TimerInv, TimerReturns
  PROVE  TimerInv'
<1>a. PICK t : t = Head(batch)
  OBVIOUS
<1>b. PICK back : back = PutBack(t)
  OBVIOUS
<1>1. /\ timers' = timers \cup back /\ batch' = Tail(batch) /\ pc = "timer"
      /\ pc' = (IF batch' = <<>> THEN AfterTimers ELSE "timer")
      /\ UNCHANGED <<elapsed, forward, setBack, made, runs>>
  BY <1>a, <1>b DEF TimerReturns
<1>2. /\ batch \in Seq(TimerRecord) /\ batch # <<>> /\ Len(batch) \in Nat /\ Len(batch) # 0
      /\ \A i \in 1 .. Len(batch) : OnGrid(batch[i], runs[batch[i].id])
      /\ \A i, j \in 1 .. Len(batch) : batch[i].id = batch[j].id => i = j
      /\ \A i \in 1 .. Len(batch), u \in timers : batch[i].id # u.id
  BY <1>1 DEF TimerInv, BatchInv
<1>3. t = batch[1] /\ 1 \in 1 .. Len(batch) /\ t \in TimerRecord
  BY <1>a, <1>2
<1>4. /\ batch' \in Seq(TimerRecord) /\ Len(batch') = Len(batch) - 1
      /\ \A i \in 1 .. Len(batch') : i + 1 \in 1 .. Len(batch) /\ batch'[i] = batch[i + 1]
  BY <1>1, <1>2
<1>5. OnGrid(t, runs[t.id]) /\ runs[t.id] \in Nat
  <2>1. OnGrid(t, runs[t.id])
    BY <1>2, <1>3
  <2>2. runs[t.id] \in Nat
    BY <2>1 DEF OnGrid, TimerInv, ClockInv
  <2> QED BY <2>1, <2>2
<1>6. \A u \in back : u \in TimerRecord /\ u.id = t.id /\ OnGrid(u, runs[u.id] + 1) /\ u = UpdateNextCircle(t)
  BY <1>b, <1>3, <1>5, NextDeadline DEF PutBack, TimerInv
<1>7. \A u, n : OnGrid(u, n) => OnGrid(u, n)'
  BY <1>1 DEF OnGrid
<1>8. QueueInv'
  <2>1. IsFiniteSet(timers')
    BY <1>1, <1>b, FS_AddElement, FS_EmptySet, FS_Union DEF PutBack, TimerInv, QueueInv
  <2>2. timers' \subseteq TimerRecord
    BY <1>1, <1>6 DEF TimerInv, QueueInv
  <2>3. \A u \in timers' : OnGrid(u, runs[u.id] + 1)'
    BY <1>1, <1>6, <1>7 DEF TimerInv, QueueInv
  <2>4. \A u, v \in timers' : u.id = v.id => u = v
    BY <1>1, <1>2, <1>3, <1>6 DEF TimerInv, QueueInv
  <2> QED BY <2>1, <2>2, <2>3, <2>4 DEF QueueInv
<1>9. BatchInv'
  <2>1. \A i \in 1 .. Len(batch') : OnGrid(batch[i], runs[batch[i].id])'
    BY <1>1, <1>2, <1>4, <1>7
  <2>2. \A i, j \in 1 .. Len(batch') : batch'[i].id = batch'[j].id => i = j
    <3> TAKE i, j \in 1 .. Len(batch')
    <3>1. batch'[i].id = batch'[j].id => i + 1 = j + 1
      BY <1>2, <1>4
    <3> QED BY <1>2, <1>4, <3>1
  <2>3. \A i \in 1 .. Len(batch'), u \in timers' : batch'[i].id # u.id
    <3> TAKE i \in 1 .. Len(batch'), u \in timers'
    <3>1. CASE u \in timers
      BY <1>2, <1>4, <3>1
    <3>2. CASE u \in back
      <4>1. i + 1 # 1
        BY <1>2, <1>4
      <4>2. batch[i + 1].id # t.id
        BY <1>2, <1>3, <1>4, <4>1
      <4> QED BY <1>4, <1>6, <3>2, <4>2
    <3> QED BY <1>1, <3>1, <3>2
  <2>4. pc' = "timer" <=> batch' # <<>>
    BY <1>1 DEF AfterTimers
  <2> QED BY <1>4, <2>1, <2>2, <2>3, <2>4 DEF BatchInv
<1> QED BY <1>1, <1>8, <1>9, ClockKept DEF TimerInv

\* The clock is set forward or back, and back no further than it began.
LEMMA SetClockSteps ==
  ASSUME ClockInv, SetClock
  PROVE  /\ forward' \in Nat /\ setBack' \in 0 .. StartOfClock
         /\ forward' - forward \in Nat /\ setBack' - setBack \in Nat
         /\ jumped \in Nat => jumped' \in Nat /\ jumped' - jumped = forward' - forward
<1>1. forward \in Nat /\ setBack \in Nat /\ setBack <= StartOfClock
      /\ StartOfClock \in Nat /\ MaxSetBack \in Nat /\ MaxSetBack <= StartOfClock
  BY ClockAssumption DEF ClockInv
<1>2. PICK step \in Int :
        IF step > 0
        THEN forward' = forward + step /\ jumped' = jumped + step /\ setBack' = setBack
        ELSE setBack - step <= MaxSetBack /\ setBack' = setBack - step /\ forward' = forward /\ jumped' = jumped
  BY ClockAssumption DEF SetClock
<1>3. CASE step > 0
  BY <1>1, <1>2, <1>3
<1>4. CASE ~(step > 0)
  BY <1>1, <1>2, <1>4
<1> QED BY <1>3, <1>4

\* Every step keeps the invariant of the timers.
LEMMA TimerInvNext ==
  ASSUME TimerInv, [Next]_vars
  PROVE  TimerInv'
<1>1. CASE SetTimeout \/ SetInterval
  <2>1. ASSUME NEW delay \in Timeouts, SetTimer(delay, FALSE) PROVE TimerInv'
    BY <2>1, DelayType, SetTimerKeeps
  <2>2. ASSUME NEW delay \in Intervals, SetTimer(delay, TRUE) PROVE TimerInv'
    BY <2>2, DelayType, SetTimerKeeps
  <2> QED BY <1>1, <2>1, <2>2 DEF SetTimeout, SetInterval
<1>2. CASE TakeTimers
  BY <1>2, TakeTimersKeeps
<1>3. CASE TimerReturns
  BY <1>3, TimerReturnsKeeps
<1>4. CASE Tick
  <2>1. /\ elapsed' = IF elapsed < MaxTime THEN elapsed + 1 ELSE elapsed
        /\ UNCHANGED <<timers, batch, pc, forward, setBack, made, runs>>
    BY <1>4 DEF Tick
  <2>2. ClockInv'
    <3>1. elapsed \in Nat /\ forward \in Nat /\ setBack \in 0 .. StartOfClock /\ StartOfClock \in Nat
      BY ClockAssumption DEF TimerInv, ClockInv
    <3> QED BY <2>1, <3>1, ClockMoves DEF TimerInv
  <2> QED BY <2>1, <2>2, TimersKept DEF TimerInv
<1>5. CASE SetClock
  <2>1. UNCHANGED <<timers, batch, pc, elapsed, made, runs>>
    BY <1>5 DEF SetClock
  <2>2. ClockInv'
    <3>1. elapsed \in Nat /\ elapsed' - elapsed \in Nat
      BY <2>1 DEF TimerInv, ClockInv
    <3> QED BY <1>5, <2>1, <3>1, ClockMoves, SetClockSteps DEF TimerInv
  <2> QED BY <2>1, <2>2, TimersKept DEF TimerInv
<1>6. CASE /\ UNCHANGED <<timers, batch, made, runs, elapsed, forward, setBack>>
           /\ pc' = "timer" => pc = "timer"
           /\ pc \in {"timer", "stuck"} => pc' \in {"timer", "stuck"}
  BY <1>6, TimersKept, ClockKept DEF TimerInv
<1> QED
  BY <1>1, <1>2, <1>3, <1>4, <1>5, <1>6
     DEF Next, Run, MainLoop, Callback, RunInLoop, Stop, WakeUpBlocks, BeforePoll, PollReturns, ProcessEvents,
         TakeTasks, TaskReturns, WakeUp, vars, NextRound, AfterTimers

\* Every step keeps the runs behind true time.
LEMMA NeverEarlyNext ==
  ASSUME TimerInv, NeverEarly, [Next]_vars
  PROVE  NeverEarly'
<1>1. /\ elapsed \in Nat /\ forward \in Nat /\ made \in Seq(Request) /\ runs \in Seq(Nat) /\ Len(runs) = Len(made)
      /\ Len(made) \in Nat /\ DOMAIN made = 1 .. Len(made) /\ DOMAIN runs = 1 .. Len(made)
  BY DEF TimerInv, ClockInv
<1>2. CASE SetTimeout \/ SetInterval
  <2>1. PICK delay \in Nat, circle \in BOOLEAN : SetTimer(delay, circle)
    BY <1>2, DelayType DEF SetTimeout, SetInterval
  <2>2. PICK request : request = [at |-> elapsed, forward |-> forward, clock |-> Clock,
                                  delay |-> delay, circle |-> circle]
    OBVIOUS
  <2>3. /\ made' = Append(made, request) /\ runs' = Append(runs, 0) /\ UNCHANGED <<elapsed, forward, rolled>>
        /\ request.at = elapsed /\ request.forward = forward /\ request.delay = delay
    BY <2>1, <2>2 DEF SetTimer
  <2>4. request \in Request
    BY <1>1, <2>2, ClockType DEF Request, TimerInv
  <2>5. SUFFICES ASSUME ~rolled, NEW id \in DOMAIN made', made'[id].delay <= MaxLong
                 PROVE  runs'[id] * made'[id].delay * UsecPerMsec
                          <= (elapsed - made'[id].at) + (forward - made'[id].forward)
    BY <2>3 DEF NeverEarly
  <2>6. CASE id \in DOMAIN made
    <3>1. made'[id] = made[id] /\ runs'[id] = runs[id]
      BY <1>1, <2>3, <2>4, <2>6
    <3> QED BY <2>5, <2>6, <3>1 DEF NeverEarly
  <2>7. CASE id = Len(made) + 1
    <3>1. made'[id] = request /\ runs'[id] = 0
      BY <1>1, <2>3, <2>4, <2>7
    <3> QED BY <1>1, <2>3, <3>1, SecondPositive
  <2> QED BY <1>1, <2>3, <2>4, <2>6, <2>7
<1>3. CASE TakeTimers
  BY <1>3, TakeTimersNotEarly
<1>4. CASE /\ elapsed' >= elapsed /\ elapsed' \in Nat /\ forward' >= forward /\ forward' \in Nat
           /\ UNCHANGED <<made, runs, rolled>>
  <2>1. SUFFICES ASSUME ~rolled, NEW id \in DOMAIN made, made[id].delay <= MaxLong
                 PROVE  runs[id] * made[id].delay * UsecPerMsec
                          <= (elapsed' - made[id].at) + (forward' - made[id].forward)
    BY <1>4 DEF NeverEarly
  <2> DEFINE k == runs[id] * made[id].delay * UsecPerMsec
  <2>2. made[id] \in Request /\ runs[id] \in Nat
    BY <1>1
  <2>3. made[id].at \in Nat /\ made[id].forward \in Nat /\ k \in Nat
    BY <2>2, SecondPositive DEF Request
  <2>4. k <= (elapsed - made[id].at) + (forward - made[id].forward)
    BY <2>1 DEF NeverEarly
  <2> HIDE DEF k
  <2>5. PICK e \in Nat, f \in Nat, at \in Nat, ahead \in Nat :
          e = elapsed' /\ f = forward' /\ at = made[id].at /\ ahead = made[id].forward
    BY <1>4, <2>3
  <2>6. k <= (elapsed - at) + (forward - ahead) /\ elapsed <= e /\ forward <= f
    BY <1>4, <2>4, <2>5
  <2>7. k <= (e - at) + (f - ahead)
    BY <1>1, <2>3, <2>6
  <2>8. k <= (elapsed' - made[id].at) + (forward' - made[id].forward)
    BY <2>5, <2>7
  <2> QED BY <2>8 DEF k
<1>5. elapsed' = elapsed => elapsed' >= elapsed /\ elapsed' \in Nat
  BY <1>1
<1>6. Tick => elapsed' >= elapsed /\ elapsed' \in Nat
  BY <1>1 DEF Tick
<1>7. forward' = forward => forward' >= forward /\ forward' \in Nat
  BY <1>1
<1>8. SetClock => forward' >= forward /\ forward' \in Nat /\ UNCHANGED <<elapsed, made, runs, rolled>>
  <2>1. SetClock => UNCHANGED <<elapsed, made, runs, rolled>>
    BY DEF SetClock
  <2> QED BY <1>1, <2>1, SetClockSteps DEF TimerInv
<1> QED
  BY <1>2, <1>3, <1>4, <1>5, <1>6, <1>7, <1>8
     DEF Next, Run, MainLoop, Callback, RunInLoop, Stop, WakeUpBlocks, BeforePoll, PollReturns, TimerReturns, ProcessEvents,
         TakeTasks, TaskReturns, WakeUp, Tick, vars

\* The deadline of a timer is a multiple of its delay after its creation, however
\* late its callbacks are run and wherever the clock is set to, if an int64_t can
\* hold the delay (UpdateNextCircle).
THEOREM NoDriftCorrect == Spec => []NoDrift
<1>1. TimerInv => NoDrift
  <2> SUFFICES ASSUME TimerInv, NEW t \in timers, t.delay <= MaxLong
               PROVE  /\ Normalised(t.due)
                      /\ ToMicroseconds(t.due) = made[t.id].clock + (runs[t.id] + 1) * t.delay * UsecPerMsec
    BY DEF NoDrift
  <2>1. OnGrid(t, runs[t.id] + 1)
    BY DEF TimerInv, QueueInv
  <2> QED BY <2>1 DEF OnGrid, IsTimeval
<1>2. Init => TimerInv
  BY TimerInvInit
<1>3. TimerInv /\ [Next]_vars => TimerInv'
  BY TimerInvNext
<1> QED BY <1>1, <1>2, <1>3, PTL DEF Spec

\* Until a rollover is detected the k-th run of a timer is not started before k
\* delays have passed, in true time, but for what the clock was set forward since
\* the timer was made, if an int64_t can hold the delay (ProcessTimeoutTimer).
THEOREM NeverEarlyCorrect == Spec => []NeverEarly
<1>1. Init => TimerInv /\ NeverEarly
  BY TimerInvInit
<1>2. TimerInv /\ NeverEarly /\ [Next]_vars => (TimerInv /\ NeverEarly)'
  BY TimerInvNext, NeverEarlyNext
<1> QED BY <1>1, <1>2, PTL DEF Spec

-----------------------------------------------------------------------------
(* The sleep ends at the nearest deadline *)

\* Every deadline is a pair of integers, of which the second is less than a second.
LEMMA DueType ==
  ASSUME TimerInv, NEW t \in timers
  PROVE  t.due \in Int \X Int /\ t.due[2] < UsecPerSec /\ t.delay \in Nat
BY DEF TimerInv, QueueInv, OnGrid, TimerRecord

\* One of them is the least, first by seconds and then by microseconds.
LEMMA SomeIsNearest ==
  ASSUME TimerInv, timers # {}
  PROVE  \E t \in timers : \A u \in timers : ~Less(u.due, t.due)
<1> DEFINE sec == [t \in timers |-> t.due[1]]
           S == {sec[t] : t \in timers}
<1>1. \A t \in timers : t.due[1] \in Int /\ t.due[2] \in Int
  BY DueType
<1>2. IsFiniteSet(S)
  <2>1. sec \in Surjection(timers, S)
    BY DEF Surjection
  <2> QED BY <2>1, FS_Surjection DEF TimerInv, QueueInv
<1>3. PICK m \in S : \A n \in S : m <= n
  <2>1. S \subseteq Int /\ S # {}
    BY <1>1
  <2> HIDE DEF S
  <2> QED BY <1>2, <2>1, LeastElement
<1> DEFINE first == {t \in timers : t.due[1] = m}
           usec == [t \in first |-> t.due[2]]
           U == {usec[t] : t \in first}
<1>4. first # {} /\ IsFiniteSet(first)
  BY <1>3, FS_Subset DEF TimerInv, QueueInv
<1>5. IsFiniteSet(U)
  <2>1. usec \in Surjection(first, U)
    BY DEF Surjection
  <2> HIDE DEF first
  <2> QED BY <1>4, <2>1, FS_Surjection
<1>6. PICK k \in U : \A n \in U : k <= n
  <2>1. U \subseteq Int /\ U # {}
    BY <1>1, <1>4
  <2> HIDE DEF U
  <2> QED BY <1>5, <2>1, LeastElement
<1>7. PICK t \in first : k = t.due[2]
  BY <1>6
<1>8. ASSUME NEW u \in timers PROVE ~Less(u.due, t.due)
  <2>1. t.due[1] = m /\ m <= u.due[1]
    BY <1>3, <1>7
  <2>2. u.due[1] = m => k <= u.due[2]
    BY <1>6
  <2>3. m \in Int /\ k \in Int /\ u.due[1] \in Int /\ u.due[2] \in Int
    BY <1>1, <1>7, <2>1
  <2> QED BY <1>7, <2>1, <2>2, <2>3 DEF Less
<1> QED BY <1>7, <1>8

\* The deadline that GetNearestTimerTimeout looks at is not later than any that is
\* normalised, whatever the others are.
LEMMA NearestIsLeast ==
  ASSUME TimerInv, timers # {}
  PROVE  /\ Nearest \in Int \X Int
         /\ \A t \in timers : t.delay <= MaxLong => ToMicroseconds(Nearest) <= ToMicroseconds(t.due)
<1>1. PICK c \in timers : c.due = Nearest /\ \A u \in timers : ~Less(u.due, c.due)
  BY SomeIsNearest DEF Nearest
<1>2. ASSUME NEW t \in timers, t.delay <= MaxLong
      PROVE  ToMicroseconds(Nearest) <= ToMicroseconds(t.due)
  <2> DEFINE D == UsecPerSec
  <2>1. D \in Nat \ {0}
    BY SecondPositive
  <2>2. PICK a \in Int, b \in Int : Nearest[1] = a /\ Nearest[2] = b /\ b < D
    BY <1>1, DueType
  <2>3. PICK e \in Nat, g \in Nat : t.due[1] = e /\ t.due[2] = g /\ g < D
    BY <1>2 DEF TimerInv, QueueInv, OnGrid, IsTimeval, Normalised
  <2>4. ~(e < a) /\ ~(e = a /\ g < b)
    BY <1>1, <1>2, <2>2, <2>3 DEF Less
  <2>5. ToMicroseconds(Nearest) = a * D + b /\ ToMicroseconds(t.due) = e * D + g
    BY <2>2, <2>3 DEF ToMicroseconds
  <2> HIDE DEF D
  <2>6. CASE a = e
    <3>1. a * D \in Int /\ a * D = e * D
      BY <2>1, <2>6
    <3> QED BY <2>2, <2>3, <2>4, <2>5, <2>6, <3>1
  <2>7. CASE a < e
    <3>1. PICK h \in Nat : e = a + 1 + h
      <4>1. e - a - 1 \in Nat /\ e = a + 1 + (e - a - 1)
        BY <2>2, <2>3, <2>7
      <4> QED BY <4>1
    <3>2. e * D = a * D + D + h * D
      BY <2>1, <3>1
    <3>3. h * D \in Nat /\ a * D \in Int
      BY <2>1, <3>1
    <3> QED BY <2>1, <2>2, <2>3, <2>5, <3>2, <3>3
  <2> QED BY <2>2, <2>3, <2>4, <2>6, <2>7
<1> QED BY <1>1, <1>2, DueType

\* The clock showed no more than it began with, the true time since then, and what it
\* had been set forward.
OriginInv ==
  \A id \in DOMAIN made : made[id].clock <= StartOfClock + made[id].at + made[id].forward

\* That is so of every new request.
LEMMA OriginInvNext ==
  ASSUME TimerInv, OriginInv, [Next]_vars
  PROVE  OriginInv'
<1>1. CASE SetTimeout \/ SetInterval
  <2>1. PICK delay \in Nat, circle \in BOOLEAN : SetTimer(delay, circle)
    BY <1>1, DelayType DEF SetTimeout, SetInterval
  <2>2. PICK request : request = [at |-> elapsed, forward |-> forward, clock |-> Clock,
                                  delay |-> delay, circle |-> circle]
    OBVIOUS
  <2>3. /\ made' = Append(made, request)
        /\ request.at = elapsed /\ request.forward = forward
        /\ request.clock = StartOfClock + elapsed + forward - setBack
    BY <2>1, <2>2 DEF SetTimer, Clock
  <2>4. made \in Seq(Request) /\ elapsed \in Nat /\ forward \in Nat /\ setBack \in Nat /\ StartOfClock \in Nat
    BY ClockAssumption DEF TimerInv, ClockInv
  <2>5. request \in Request
    BY <2>2, <2>4, ClockType DEF Request, TimerInv
  <2>6. request.clock <= StartOfClock + request.at + request.forward
    BY <2>3, <2>4
  <2>7. \A id \in DOMAIN made' : made'[id] = request \/ (id \in DOMAIN made /\ made'[id] = made[id])
    BY <2>3, <2>4, <2>5
  <2> QED BY <2>6, <2>7 DEF OriginInv
<1>2. CASE UNCHANGED made
  BY <1>2 DEF OriginInv
<1> QED
  BY <1>1, <1>2
     DEF Next, Run, MainLoop, Callback, RunInLoop, Stop, WakeUpBlocks, BeforePoll, PollReturns, TakeTimers,
         TimerReturns, ProcessEvents, TakeTasks, TaskReturns, WakeUp, Tick, SetClock, vars

\* While the clock was not set back, no deadline is further away than the delay
\* of its timer.
LEMMA DeadlineWithinDelay ==
  ASSUME TimerInv, OriginInv, NeverEarly, setBack = 0, ~rolled, NEW t \in timers, t.delay <= MaxLong
  PROVE  t.delay \in Nat /\ ToMicroseconds(t.due) - Clock <= t.delay * UsecPerMsec
<1> DEFINE n == runs[t.id]  d == t.delay  U == UsecPerMsec
<1>1. /\ t.id \in DOMAIN made /\ t.delay = made[t.id].delay /\ t \in TimerRecord
      /\ ToMicroseconds(t.due) = made[t.id].clock + (n + 1) * d * U
  BY DEF TimerInv, QueueInv, OnGrid
<1>2. made[t.id] \in Request /\ n \in Nat /\ elapsed \in Nat /\ forward \in Nat /\ StartOfClock \in Nat
  BY <1>1, ClockAssumption DEF TimerInv, ClockInv
<1>3. made[t.id].at \in Nat /\ made[t.id].forward \in Nat /\ made[t.id].clock \in Nat /\ d \in Nat /\ U \in Nat
  BY <1>1, <1>2, SecondPositive DEF Request, TimerRecord
<1>4. n * d * U <= (elapsed - made[t.id].at) + (forward - made[t.id].forward)
  BY <1>1 DEF NeverEarly
<1>5. made[t.id].clock <= StartOfClock + made[t.id].at + made[t.id].forward
  BY <1>1 DEF OriginInv
<1>6. Clock = StartOfClock + elapsed + forward
  BY <1>2 DEF Clock
<1> HIDE DEF n, d, U
<1>7. (n + 1) * d * U = n * d * U + d * U /\ n * d * U \in Nat /\ d * U \in Nat
  <2>1. (n + 1) * d = n * d + d /\ n * d \in Nat
    BY <1>2, <1>3
  <2>2. (n * d + d) * U = (n * d) * U + d * U
    BY <1>3, <2>1
  <2> QED BY <1>3, <2>1, <2>2
<1>8. ToMicroseconds(t.due) - Clock <= d * U
  BY <1>1, <1>2, <1>3, <1>4, <1>5, <1>6, <1>7
<1> QED BY <1>3, <1>8 DEF d, U

\* What is left of the wait ends with the nearest deadline, or later by what the
\* clock was set forward since; or never if every timer was set too far ahead.
SleepInv ==
  /\ left \in Int /\ jumped \in Nat
  /\ pc = "poll" =>
       /\ \A t \in timers :
            left <= 0 \/ t.delay > MaxLong
              \/ Clock + left < ToMicroseconds(t.due) + UsecPerMsec + jumped
       /\ tasks # <<>> => left = 0
       /\ left < 0 /\ setBack = 0 /\ ~rolled => timers # {} /\ \A t \in timers : t.delay > MaxInt

\* The microseconds of a pair of integers.
LEMMA DueMicroseconds ==
  ASSUME NEW t \in Int \X Int
  PROVE  ToMicroseconds(t) \in Int
<1> DEFINE D == UsecPerSec
<1>1. D \in Nat
  BY SecondPositive
<1> HIDE DEF D
<1>2. t[1] * D \in Int /\ t[2] \in Int
  BY <1>1
<1> QED BY <1>2 DEF ToMicroseconds, D

\* The wait that is given to epoll_wait ends at the nearest deadline.
LEMMA BeforePollSleeps ==
  ASSUME TimerInv, OriginInv, NeverEarly, BeforePoll
  PROVE  SleepInv'
<1>1. left' = Wait /\ jumped' = 0 /\ UNCHANGED <<tasks, timers, elapsed, forward, setBack, rolled>>
  BY DEF BeforePoll
<1>2. Clock' = Clock
  BY <1>1 DEF Clock
<1>3. CASE tasks # <<>>
  <2>1. Wait = 0
    BY <1>3, ToSignedExact, DelayType, SecondPositive DEF Wait
  <2> QED BY <1>1, <2>1 DEF SleepInv
<1>4. CASE tasks = <<>> /\ timers = {}
  <2>1. Wait = DefaultTimeout * UsecPerMsec
    BY <1>4, ToSignedExact, DelayType DEF Wait, GetNearestTimerTimeout
  <2>2. Wait \in Nat
    BY <2>1, DelayType, SecondPositive
  <2> QED BY <1>1, <1>4, <2>2 DEF SleepInv
<1>5. CASE tasks = <<>> /\ timers # {}
  <2>1. PICK ms : ms = ToMilliseconds(Subtract(Nearest, Now))
    OBVIOUS
  <2>2. /\ Clock \in Nat /\ IsTimeval(Now) /\ ToMicroseconds(Now) = Clock
        /\ Nearest \in Int \X Int
        /\ \A t \in timers : t.delay <= MaxLong => ToMicroseconds(Nearest) <= ToMicroseconds(t.due)
    BY <1>5, ClockType, NearestIsLeast DEF TimerInv
  <2>3. ms \in Int /\ ms * UsecPerMsec < ToMicroseconds(Nearest) - Clock + UsecPerMsec
    <3>1. Now \in Int \X Int
      BY <2>2 DEF IsTimeval
    <3> QED BY <2>1, <2>2, <3>1, WaitExact
  <2>4. PICK w : w = ToSigned(IF ms > 0 THEN ms ELSE 0, MaxInt)
    OBVIOUS
  <2>5. Wait = w * UsecPerMsec
    BY <1>5, <2>1, <2>4 DEF Wait, GetNearestTimerTimeout
  <2>6. \A t \in timers : ToMicroseconds(t.due) \in Int /\ t.delay \in Nat
    BY DueType, DueMicroseconds
  <2>7. ToMicroseconds(Nearest) \in Int
    BY <2>2, DueMicroseconds
  <2>8. \A t \in timers :
          t.delay <= MaxLong => ms * UsecPerMsec < ToMicroseconds(t.due) - Clock + UsecPerMsec
    BY <2>2, <2>3, <2>6, <2>7, SecondPositive
  <2>9. CASE ms > 0
    <3>1. w \in Int /\ w <= ms /\ (ms <= MaxInt => w = ms)
      BY <2>3, <2>4, <2>9, ToSignedExact, DelayType
    <3>2. Wait \in Int /\ Wait <= ms * UsecPerMsec /\ (Wait < 0 => w < 0)
      BY <2>3, <2>5, <3>1, SecondPositive
    <3>3. \A t \in timers :
            t.delay <= MaxLong => Clock + Wait < ToMicroseconds(t.due) + UsecPerMsec
      BY <2>2, <2>3, <2>6, <2>8, <3>2, SecondPositive
    <3>4. ASSUME Wait < 0, setBack = 0, ~rolled, NEW t \in timers
          PROVE  t.delay > MaxInt
      <4>a. CASE t.delay > MaxLong
        BY <2>6, <4>a, DelayType
      <4>b. SUFFICES ASSUME t.delay <= MaxLong PROVE t.delay > MaxInt
        BY <2>6, <4>a, DelayType
      <4>1. ms > MaxInt /\ MaxInt \in Nat
        BY <2>3, <2>9, <3>1, <3>2, <3>4, DelayType
      <4>2. t.delay \in Nat /\ ToMicroseconds(t.due) - Clock <= t.delay * UsecPerMsec
        BY <3>4, <4>b, DeadlineWithinDelay
      <4> DEFINE d == t.delay  U == UsecPerMsec
      <4>3. d \in Nat /\ U \in Nat \ {0} /\ d * U \in Nat
        BY <4>2, SecondPositive
      <4>4. ms * U < d * U + U
        BY <2>2, <2>3, <2>6, <2>8, <4>b, <4>2, <4>3
      <4> HIDE DEF d, U
      <4>5. ms < d + 1
        <5>1. d * U + U = (d + 1) * U
          BY <4>3
        <5>2. ms >= d + 1 => ms * U >= (d + 1) * U
          BY <2>3, <4>3
        <5>3. ms * U \in Int /\ (d + 1) * U \in Int
          BY <2>3, <4>3
        <5> QED BY <2>3, <4>3, <4>4, <5>1, <5>2, <5>3
      <4> QED BY <2>3, <4>1, <4>3, <4>5 DEF d
    <3>5. \A t \in timers : t.delay \in Nat /\ (t.delay <= MaxLong \/ t.delay > MaxLong)
      BY <2>6, DelayType
    <3>6. \A t \in timers :
            t.delay > MaxLong \/ Clock' + left' < ToMicroseconds(t.due) + UsecPerMsec + jumped'
      <4> SUFFICES ASSUME NEW t \in timers, t.delay <= MaxLong
                   PROVE  Clock' + left' < ToMicroseconds(t.due) + UsecPerMsec + jumped'
        BY <3>5
      <4>1. Clock + Wait < ToMicroseconds(t.due) + UsecPerMsec
        BY <3>3
      <4> QED BY <1>1, <1>2, <2>6, <4>1, SecondPositive
    <3> QED BY <1>1, <1>5, <3>2, <3>4, <3>6 DEF SleepInv
  <2>10. CASE ~(ms > 0)
    <3>1. w = 0
      BY <2>4, <2>10, ToSignedExact, DelayType
    <3>2. Wait = 0
      BY <2>5, <3>1, SecondPositive
    <3> QED BY <1>1, <3>2 DEF SleepInv
  <2> QED BY <2>9, <2>10
<1> QED BY <1>3, <1>4, <1>5

\* Every step keeps the wait within the nearest deadline.
LEMMA SleepInvNext ==
  ASSUME TimerInv, OriginInv, NeverEarly, SleepInv, [Next]_vars
  PROVE  SleepInv'
<1>1. CASE BeforePoll
  BY <1>1, BeforePollSleeps
<1>2. CASE pc' # "poll" /\ left' \in Int /\ jumped' = jumped
  BY <1>2 DEF SleepInv
<1>3. CASE UNCHANGED <<pc, left, elapsed, forward, setBack, jumped, timers, tasks, rolled>>
  BY <1>3 DEF SleepInv, Clock
<1>4. Clock \in Int /\ left \in Int /\ UsecPerMsec \in Nat /\ jumped \in Nat
      /\ \A t \in timers : ToMicroseconds(t.due) \in Int
  BY ClockType, SecondPositive, DueType, DueMicroseconds DEF SleepInv, TimerInv
<1>5. elapsed \in Nat /\ forward \in Nat /\ setBack \in Nat /\ StartOfClock \in Nat
  BY ClockAssumption DEF TimerInv, ClockInv
<1>6. ASSUME pc' = pc, tasks' = tasks, timers' = timers, rolled' = rolled, left' \in Int,
             left <= 0 => left' = left, left > 0 => left' >= 0, setBack' = 0 => setBack = 0,
             Clock' \in Int, jumped' \in Nat, Clock' + left' - jumped' <= Clock + left - jumped
      PROVE  SleepInv'
  <2>1. ASSUME pc = "poll", left' > 0, NEW t \in timers, ~(t.delay > MaxLong)
        PROVE  Clock' + left' < ToMicroseconds(t.due) + UsecPerMsec + jumped'
    <3>2. left > 0
      BY <1>4, <1>6, <2>1
    <3>3. Clock + left < ToMicroseconds(t.due) + UsecPerMsec + jumped
      BY <1>4, <2>1, <3>2 DEF SleepInv
    <3>4. PICK due, c, d, l, k, ahead, ago :
            /\ due = ToMicroseconds(t.due) + UsecPerMsec
            /\ c = Clock' /\ l = left' /\ ahead = jumped'
            /\ d = Clock /\ k = left /\ ago = jumped
      OBVIOUS
    <3>5. /\ due \in Int /\ c \in Int /\ d \in Int /\ l \in Int /\ k \in Int
          /\ ahead \in Int /\ ago \in Int
      BY <1>4, <1>6, <3>4
    <3>6. ToMicroseconds(t.due) + UsecPerMsec + jumped = due + ago
          /\ ToMicroseconds(t.due) + UsecPerMsec + jumped' = due + ahead
      BY <3>4
    <3>7. d + k < due + ago
      BY <3>3, <3>4, <3>6
    <3>8. c + l - ahead <= d + k - ago
      BY <1>6, <3>4
    <3>9. c + l < due + ahead
      BY <3>5, <3>7, <3>8
    <3> QED BY <3>4, <3>6, <3>9
  <2>2. pc = "poll" /\ tasks # <<>> => left' = 0
    BY <1>4, <1>6 DEF SleepInv
  <2>3. left' < 0 => left < 0
    BY <1>4, <1>6
  <2>4. pc = "poll" /\ left' < 0 /\ setBack' = 0 /\ ~rolled =>
          timers # {} /\ \A t \in timers : t.delay > MaxInt
    BY <1>6, <2>3 DEF SleepInv
  <2>5. left' <= 0 \/ left' > 0
    BY <1>6
  <2> QED BY <1>6, <2>1, <2>2, <2>4, <2>5 DEF SleepInv
<1>7. CASE Tick
  <2>1. /\ elapsed' = (IF elapsed < MaxTime THEN elapsed + 1 ELSE elapsed)
        /\ left' = (IF left > 0 THEN left - 1 ELSE left)
        /\ UNCHANGED <<pc, timers, tasks, forward, setBack, jumped, rolled>>
    BY <1>7 DEF Tick
  <2>2. CASE left > 0
    <3>1. Clock' \in Int /\ Clock' <= Clock + 1
      BY <1>5, <2>1 DEF Clock
    <3>2. left' = left - 1 /\ left' \in Nat
      BY <1>4, <2>1, <2>2
    <3>3. PICK c \in Int, d \in Int : c = Clock' /\ d = Clock
      BY <1>4, <3>1
    <3>4. c <= d + 1
      BY <3>1, <3>3
    <3>5. left \in Int /\ left' = left - 1
      BY <1>4, <3>2
    <3>6. c + left' - jumped' <= d + left - jumped
      BY <1>4, <2>1, <3>4, <3>5
    <3> QED BY <1>4, <1>6, <2>1, <2>2, <3>1, <3>2, <3>3, <3>6
  <2>3. CASE ~(left > 0)
    <3>1. left' = left /\ left <= 0
      BY <1>4, <2>1, <2>3
    <3> QED BY <2>1, <3>1 DEF SleepInv
  <2> QED BY <2>2, <2>3
<1>8. CASE SetClock
  <2>1. UNCHANGED <<pc, left, elapsed, timers, tasks, rolled>>
    BY <1>8 DEF SetClock
  <2>2. /\ forward' \in Nat /\ setBack' \in 0 .. StartOfClock /\ jumped' \in Nat
        /\ jumped' - jumped = forward' - forward /\ setBack' - setBack \in Nat
    BY <1>4, <1>8, SetClockSteps DEF TimerInv
  <2>3. PICK f \in Nat, b \in Nat, j \in Nat : f = forward' /\ b = setBack' /\ j = jumped'
    BY <1>5, <2>2
  <2>4. j - jumped = f - forward /\ b - setBack \in Nat
    BY <2>2, <2>3
  <2>5. Clock' = StartOfClock + elapsed + f - b /\ Clock = StartOfClock + elapsed + forward - setBack
    BY <2>1, <2>3 DEF Clock
  <2>6. PICK c \in Int, d \in Int : c = Clock' /\ d = Clock
    BY <1>5, <2>5
  <2>7. c - j <= d - jumped
    BY <1>4, <1>5, <2>4, <2>5, <2>6
  <2>8. c + left - j <= d + left - jumped
    BY <1>4, <2>7
  <2>9. b = 0 => setBack = 0
    BY <1>5, <2>4
  <2> QED BY <1>4, <1>6, <2>1, <2>3, <2>6, <2>8, <2>9
<1>9. CASE PollReturns \/ TakeTimers \/ TimerReturns \/ ProcessEvents \/ TakeTasks \/ TaskReturns \/ Run
  BY <1>2, <1>4, <1>9
     DEF PollReturns, TakeTimers, TimerReturns, ProcessEvents, TakeTasks, TaskReturns, Run, NextRound, AfterTimers
<1>10. CASE Callback
  <2>1. InCallback /\ (pc' = pc \/ pc' = "stuck") /\ left' = left /\ jumped' = jumped
    BY <1>10 DEF Callback, SetTimeout, SetInterval, SetTimer, MayRequest, RunInLoop, Stop, WakeUpBlocks
  <2> QED BY <1>2, <1>4, <2>1 DEF InCallback
<1>11. CASE WakeUp \/ UNCHANGED vars
  BY <1>3, <1>11 DEF WakeUp, vars
<1> QED BY <1>1, <1>7, <1>8, <1>9, <1>10, <1>11 DEF Next, MainLoop

\* epoll_wait never waits a millisecond past a deadline, but for what the clock is
\* set forward meanwhile, not at all while a task is in the queue, and without end only for timers that are further ahead than
\* an int can hold or after the clock was set back (MainLoop, lines 355-363).
THEOREM NoOversleepCorrect == Spec => []NoOversleep
<1>1. SleepInv => NoOversleep
  BY DEF SleepInv, NoOversleep
<1>2. Init => TimerInv /\ OriginInv /\ NeverEarly /\ SleepInv
  BY TimerInvInit DEF Init, OriginInv, SleepInv
<1>3. TimerInv /\ OriginInv /\ NeverEarly /\ SleepInv /\ [Next]_vars =>
        (TimerInv /\ OriginInv /\ NeverEarly /\ SleepInv)'
  BY TimerInvNext, OriginInvNext, NeverEarlyNext, SleepInvNext
<1> QED BY <1>1, <1>2, <1>3, PTL DEF Spec

-----------------------------------------------------------------------------
(* Where the timers are *)

\* The orders of a heap hold every element.
LEMMA OrderCoversSet ==
  ASSUME NEW S, IsFiniteSet(S), NEW s \in HeapOrders(S), NEW x \in S
  PROVE  \E i \in 1 .. Len(s) : s[i] = x
<1> DEFINE n == Cardinality(S)  D == 1 .. n
<1>1. n \in Nat
  BY FS_CardinalityType
<1>2. s \in [D -> S] /\ \A i, j \in D : i # j => s[i] # s[j]
  BY DEF HeapOrders, SetToSeqs
<1>3. Len(s) = n
  BY <1>1, <1>2
<1>4. s \in Injection(D, S)
  BY <1>2 DEF Injection, IsInjective
<1>5. Cardinality(D) = Cardinality(S)
  BY <1>1, FS_Interval
<1> HIDE DEF n, D
<1>6. s \in Surjection(D, S)
  BY <1>4, <1>5, FS_Injection
<1> QED BY <1>3, <1>6 DEF Surjection, D

\* The two places in which a timer can be.
InQueue(id) == \E t \in timers : t.id = id
InBatch(id) == \E i \in 1 .. Len(batch) : batch[i].id = id

\* TimersAccounted, without the counting.
PlaceInv ==
  \A id \in DOMAIN made :
    IF made[id].circle THEN InQueue(id) \/ InBatch(id)
    ELSE runs[id] <= 1 /\ (runs[id] = 0 <=> InQueue(id))

\* A timer is in one place at most.
LEMMA OnePlace ==
  ASSUME TimerInv, NEW id
  PROVE  Places(id) = IF InQueue(id) \/ InBatch(id) THEN 1 ELSE 0
<1> DEFINE Q == {t \in timers : t.id = id}
           B == {i \in DOMAIN batch : batch[i].id = id}
<1>1. /\ \A t, u \in timers : t.id = u.id => t = u
      /\ batch \in Seq(TimerRecord) /\ DOMAIN batch = 1 .. Len(batch)
      /\ \A i, j \in 1 .. Len(batch) : batch[i].id = batch[j].id => i = j
      /\ \A i \in 1 .. Len(batch), t \in timers : batch[i].id # t.id
  BY DEF TimerInv, QueueInv, BatchInv
<1>2. Cardinality(Q) = IF InQueue(id) THEN 1 ELSE 0
  <2>1. CASE InQueue(id)
    <3>1. PICK t \in timers : t.id = id
      BY <2>1 DEF InQueue
    <3>2. Q = {t}
      BY <1>1, <3>1
    <3> QED BY <2>1, <3>2, FS_Singleton
  <2>2. CASE ~InQueue(id)
    <3>1. Q = {}
      BY <2>2 DEF InQueue
    <3> QED BY <2>2, <3>1, FS_EmptySet
  <2> QED BY <2>1, <2>2
<1>3. Cardinality(B) = IF InBatch(id) THEN 1 ELSE 0
  <2>1. CASE InBatch(id)
    <3>1. PICK i \in 1 .. Len(batch) : batch[i].id = id
      BY <2>1 DEF InBatch
    <3>2. B = {i}
      BY <1>1, <3>1
    <3> QED BY <2>1, <3>2, FS_Singleton
  <2>2. CASE ~InBatch(id)
    <3>1. B = {}
      BY <1>1, <2>2 DEF InBatch
    <3> QED BY <2>2, <3>1, FS_EmptySet
  <2> QED BY <2>1, <2>2
<1>4. ~(InQueue(id) /\ InBatch(id))
  BY <1>1 DEF InQueue, InBatch
<1>5. Places(id) = Cardinality(Q) + Cardinality(B)
  BY DEF Places
<1> QED BY <1>2, <1>3, <1>4, <1>5

\* A new timer is in the queue.
LEMMA PlaceInvSetTimer ==
  ASSUME TimerInv, PlaceInv, NEW delay \in Nat, NEW circle \in BOOLEAN, SetTimer(delay, circle)
  PROVE  PlaceInv'
<1>1. /\ elapsed \in Nat /\ forward \in Nat /\ made \in Seq(Request) /\ runs \in Seq(Nat) /\ Len(runs) = Len(made)
      /\ Len(made) \in Nat /\ DOMAIN made = 1 .. Len(made) /\ DOMAIN runs = 1 .. Len(made)
  BY DEF TimerInv, ClockInv
<1>2. PICK new, request :
        /\ new.id = Len(made) + 1 /\ request \in Request
        /\ timers' = timers \cup {new} /\ made' = Append(made, request) /\ runs' = Append(runs, 0)
        /\ batch' = batch
  <2> DEFINE n == [id |-> Len(made) + 1, due |-> AddMilliseconds(Now, Signed(delay)),
                   delay |-> delay, circle |-> circle]
             r == [at |-> elapsed, forward |-> forward, clock |-> Clock, delay |-> delay, circle |-> circle]
  <2>1. r \in Request
    BY <1>1, ClockType DEF TimerInv, Request
  <2>2. n.id = Len(made) + 1
    OBVIOUS
  <2>3. timers' = timers \cup {n} /\ made' = Append(made, r) /\ runs' = Append(runs, 0) /\ batch' = batch
    BY DEF SetTimer
  <2> HIDE DEF n, r
  <2> QED BY <2>1, <2>2, <2>3
<1>3. /\ DOMAIN made' = 1 .. Len(made) + 1 /\ runs'[Len(made) + 1] = 0
      /\ \A id \in DOMAIN made : made'[id] = made[id] /\ runs'[id] = runs[id]
  BY <1>1, <1>2
<1>4. \A id \in DOMAIN made : (InQueue(id)' <=> InQueue(id)) /\ (InBatch(id)' <=> InBatch(id))
  BY <1>1, <1>2 DEF InQueue, InBatch
<1>5. DOMAIN made' = DOMAIN made \cup {Len(made) + 1}
  BY <1>1, <1>3
<1>6. SUFFICES ASSUME NEW id \in DOMAIN made'
               PROVE  IF made'[id].circle THEN InQueue(id)' \/ InBatch(id)'
                      ELSE runs'[id] <= 1 /\ (runs'[id] = 0 <=> InQueue(id)')
  BY DEF PlaceInv
<1>7. CASE id \in DOMAIN made
  BY <1>3, <1>4, <1>7 DEF PlaceInv
<1>8. CASE id = Len(made) + 1
  <2>1. InQueue(id)' /\ runs'[id] = 0
    BY <1>2, <1>3, <1>8 DEF InQueue
  <2> QED BY <2>1
<1> QED BY <1>5, <1>7, <1>8

\* What is popped from the queue is in the batch.
LEMMA PlaceInvTake ==
  ASSUME TimerInv, PlaceInv, TakeTimers
  PROVE  PlaceInv'
<1>1. /\ made \in Seq(Request) /\ runs \in Seq(Nat) /\ Len(runs) = Len(made)
      /\ Len(made) \in Nat /\ DOMAIN made = 1 .. Len(made) /\ DOMAIN runs = 1 .. Len(made)
      /\ batch = <<>>
  BY DEF TimerInv, ClockInv, BatchInv, TakeTimers
<1>2. /\ batch' \in HeapOrders(Taken) /\ timers' = timers \ Taken
      /\ runs' = [id \in DOMAIN runs |-> IF \E t \in Taken : t.id = id THEN runs[id] + 1 ELSE runs[id]]
      /\ made' = made
  BY DEF TakeTimers
<1>3. Taken \subseteq timers /\ IsFiniteSet(Taken) /\ \A t, u \in timers : t.id = u.id => t = u
  BY FS_Subset DEF TimerInv, QueueInv, Taken
<1>4. SUFFICES ASSUME NEW id \in DOMAIN made
               PROVE  IF made[id].circle THEN InQueue(id)' \/ InBatch(id)'
                      ELSE runs'[id] <= 1 /\ (runs'[id] = 0 <=> InQueue(id)')
  BY <1>2 DEF PlaceInv
<1>5. IF made[id].circle THEN InQueue(id) ELSE runs[id] <= 1 /\ (runs[id] = 0 <=> InQueue(id))
  BY <1>1 DEF PlaceInv, InBatch
<1>6. CASE \E t \in Taken : t.id = id
  <2>1. PICK t \in Taken : t.id = id
    BY <1>6
  <2>2. InQueue(id) /\ ~InQueue(id)'
    BY <1>2, <1>3, <2>1 DEF InQueue
  <2>3. PICK i \in 1 .. Len(batch') : batch'[i] = t
    BY <1>2, <1>3, OrderCoversSet
  <2>4. InBatch(id)'
    BY <2>1, <2>3 DEF InBatch
  <2>5. runs'[id] = runs[id] + 1
    BY <1>1, <1>2, <1>6
  <2> QED BY <1>5, <2>2, <2>4, <2>5
<1>7. CASE ~\E t \in Taken : t.id = id
  <2>1. runs'[id] = runs[id]
    BY <1>1, <1>2, <1>7
  <2>2. InQueue(id)' <=> InQueue(id)
    BY <1>2, <1>3, <1>7 DEF InQueue
  <2> QED BY <1>5, <2>1, <2>2
<1> QED BY <1>6, <1>7

\* A periodic timer whose callback has returned is in the queue again, and a
\* timeout is gone.
LEMMA PlaceInvReturns ==
  ASSUME TimerInv, PlaceInv, TimerReturns
  PROVE  PlaceInv'
<1>a. PICK t : t = Head(batch)
  OBVIOUS
<1>1. /\ timers' = timers \cup PutBack(t) /\ batch' = Tail(batch) /\ pc = "timer"
      /\ made' = made /\ runs' = runs
  BY <1>a DEF TimerReturns
<1>2. /\ batch \in Seq(TimerRecord) /\ batch # <<>> /\ Len(batch) \in Nat /\ Len(batch) # 0
      /\ \A i \in 1 .. Len(batch) : OnGrid(batch[i], runs[batch[i].id])
  BY <1>1 DEF TimerInv, BatchInv
<1>3. t = batch[1] /\ t \in TimerRecord /\ OnGrid(t, runs[t.id])
  BY <1>a, <1>2
<1>4. t.circle = made[t.id].circle
  BY <1>3 DEF OnGrid
<1>5. /\ Len(batch') = Len(batch) - 1
      /\ \A i \in 1 .. Len(batch') : batch'[i] = batch[i + 1]
  BY <1>1, <1>2
<1>6. runs[t.id] \in Nat
  BY <1>3 DEF OnGrid, TimerInv, ClockInv
<1>7. \A u \in PutBack(t) : u.id = t.id
  BY <1>3, <1>6, NextDeadline DEF PutBack, TimerInv
<1>8. SUFFICES ASSUME NEW id \in DOMAIN made
               PROVE  IF made[id].circle THEN InQueue(id)' \/ InBatch(id)'
                      ELSE runs[id] <= 1 /\ (runs[id] = 0 <=> InQueue(id)')
  BY <1>1 DEF PlaceInv
<1>9. CASE made[id].circle
  <2>1. CASE InQueue(id)
    BY <1>1, <1>9, <2>1 DEF InQueue
  <2>2. CASE id = t.id
    <3>1. PutBack(t) = {UpdateNextCircle(t)}
      BY <1>4, <1>9, <2>2 DEF PutBack
    <3> QED BY <1>1, <1>7, <1>9, <2>2, <3>1 DEF InQueue
  <2>3. CASE id # t.id /\ InBatch(id)
    <3>1. PICK i \in 1 .. Len(batch) : batch[i].id = id
      BY <2>3 DEF InBatch
    <3>2. i # 1
      BY <1>3, <2>3, <3>1
    <3>3. i - 1 \in 1 .. Len(batch') /\ batch'[i - 1] = batch[(i - 1) + 1] /\ (i - 1) + 1 = i
      BY <1>2, <1>5, <3>1, <3>2
    <3> QED BY <1>9, <3>1, <3>3 DEF InBatch
  <2> QED BY <1>9, <2>1, <2>2, <2>3 DEF PlaceInv
<1>10. CASE ~made[id].circle
  <2>1. InQueue(id)' <=> InQueue(id)
    BY <1>1, <1>4, <1>7, <1>10 DEF InQueue, PutBack
  <2> QED BY <1>10, <2>1 DEF PlaceInv
<1> QED BY <1>9, <1>10

\* Every step keeps the timers in their places.
LEMMA PlaceInvNext ==
  ASSUME TimerInv, PlaceInv, [Next]_vars
  PROVE  PlaceInv'
<1>1. CASE SetTimeout \/ SetInterval
  <2>1. PICK delay \in Nat, circle \in BOOLEAN : SetTimer(delay, circle)
    BY <1>1, DelayType DEF SetTimeout, SetInterval
  <2> QED BY <2>1, PlaceInvSetTimer
<1>2. CASE UNCHANGED <<timers, batch, made, runs>>
  BY <1>2 DEF PlaceInv, InQueue, InBatch
<1> QED
  BY <1>1, <1>2, PlaceInvTake, PlaceInvReturns
     DEF Next, Run, MainLoop, Callback, RunInLoop, Stop, WakeUpBlocks, BeforePoll, PollReturns, ProcessEvents,
         TakeTasks, TaskReturns, WakeUp, Tick, SetClock, vars

\* A periodic timer is always in timer_queue_ or timeout_timers, in one of them and
\* once; a timeout is in the queue until it is taken, once.
THEOREM TimersAccountedCorrect == Spec => []TimersAccounted
<1>1. TimerInv /\ PlaceInv => TimersAccounted
  <2> SUFFICES ASSUME TimerInv, PlaceInv, NEW id \in DOMAIN made
               PROVE  IF made[id].circle THEN Places(id) = 1
                      ELSE /\ Places(id) <= 1 /\ runs[id] <= 1
                           /\ runs[id] = 0 <=> \E t \in timers : t.id = id
    BY DEF TimersAccounted
  <2>1. Places(id) = IF InQueue(id) \/ InBatch(id) THEN 1 ELSE 0
    BY OnePlace
  <2>2. InQueue(id) <=> \E t \in timers : t.id = id
    BY DEF InQueue
  <2> QED BY <2>1, <2>2 DEF PlaceInv
<1>2. Init => TimerInv /\ PlaceInv
  BY TimerInvInit DEF Init, PlaceInv
<1>3. TimerInv /\ PlaceInv /\ [Next]_vars => (TimerInv /\ PlaceInv)'
  BY TimerInvNext, PlaceInvNext
<1> QED BY <1>1, <1>2, <1>3, PTL DEF Spec
==============================================================================
