----------------------------- MODULE MCIOService -----------------------------
(***************************************************************************)
(* A small instance of IOService, with two milliseconds to the second and  *)
(* two microseconds to the millisecond, and the arithmetic of TimeHelper   *)
(* over all timevals of a few seconds.                                     *)
(***************************************************************************)
EXTENDS IOService

MCTimeouts == {2}         \* more than MaxInt
MCIntervals == {1}
MCClockSteps == {3, -9}   \* by more than a millisecond, and by more than a rollover

MCTimevals == {Timeval(us) : us \in 0 .. 20}

\* AddMilliseconds adds, and keeps a timeval normalised.
ASSUME AddMillisecondsAdds ==
  \A t \in MCTimevals, ms \in 0 .. 10 :
    LET sum == AddMilliseconds(t, ms)
    IN  Normalised(sum) /\ ToMicroseconds(sum) = ToMicroseconds(t) + ms * UsecPerMsec

\* A delay of MaxLong + 1 and more, as SetTimer takes it, puts the deadline before the
\* moment the timer is made (timer.hpp:45), where line 125 has it lie by the delay
\* after it: the properties of deadlines leave such delays out.
ASSUME LongDelaysAreNegative ==
  \A t \in MCTimevals, ms \in MaxLong + 1 .. 2 * MaxLong + 1 :
    Less(AddMilliseconds(t, Signed(ms)), t)

\* Less and Equal compare by time, and the wait for a timer is less than a
\* millisecond longer or shorter than what it is computed from.
ASSUME DifferencesAgree ==
  \A t, u \in MCTimevals :
    LET usec == ToMicroseconds(t) - ToMicroseconds(u)
    IN  /\ Less(t, u) = (usec < 0)
        /\ Equal(t, u) = (usec = 0)
        /\ ToMilliseconds(Subtract(t, u)) * UsecPerMsec - usec
             \in 1 - UsecPerMsec .. UsecPerMsec - 1

\* CheckClockRollover asks for a step of more than its limit, and finds any
\* that is a second longer.
ASSUME RolloverIsLonger ==
  \A t, u \in MCTimevals :
    LET usec == ToMicroseconds(t) - ToMicroseconds(u)
        rollover == ToSeconds(Subtract(t, u)) > RolloverSeconds
    IN  /\ rollover => usec > RolloverSeconds * UsecPerSec
        /\ usec >= (RolloverSeconds + 1) * UsecPerSec => rollover
==============================================================================
