----------------------------- MODULE TimeHelper -----------------------------
(***************************************************************************)
(* The arithmetic on timevals of src/base/time_helper.hpp.  A timeval is   *)
(* <<tv_sec, tv_usec>>; what gettimeofday returns is normalised (0 <=      *)
(* tv_usec < UsecPerSec), what Subtract returns is not, nor is a sum with  *)
(* a negative number.  The two factors are parameters (1000 in the code),  *)
(* so that small instances reach every carry.                              *)
(***************************************************************************)
EXTENDS Integers

CONSTANTS
  MsecPerSec,
  UsecPerMsec

ASSUME FactorAssumption == MsecPerSec \in Nat \ {0} /\ UsecPerMsec \in Nat \ {0}

UsecPerSec == MsecPerSec * UsecPerMsec

\* Division of C++, which rounds towards zero.
Quotient(a, b) == IF a >= 0 THEN a \div b ELSE -((-a) \div b)
Remainder(a, b) == a - Quotient(a, b) * b

\* An unsigned number as a signed one of which max is the greatest.
ToSigned(n, max) ==
  LET low == n % (2 * (max + 1)) IN IF low > max THEN low - 2 * (max + 1) ELSE low

\* What gettimeofday returns at a given microsecond.
Timeval(usec) == <<usec \div UsecPerSec, usec % UsecPerSec>>

Normalised(t) == t[2] \in 0 .. UsecPerSec - 1

ToSeconds(t) == t[1]
ToMilliseconds(t) == t[1] * MsecPerSec + Quotient(t[2], UsecPerMsec)
ToMicroseconds(t) == t[1] * UsecPerSec + t[2]

AddMilliseconds_NoCarry(t, ms) ==
  <<t[1] + ms \div MsecPerSec, (t[2] + (ms % MsecPerSec) * UsecPerMsec) % UsecPerSec>>

\* Nothing is borrowed: a negative ms may leave the microseconds negative.
AddMilliseconds(t, ms) ==
  LET sec == t[1] + Quotient(ms, MsecPerSec)
      usec == t[2] + Remainder(ms, MsecPerSec) * UsecPerMsec
  IN  IF usec >= UsecPerSec THEN <<sec + 1, usec % UsecPerSec>> ELSE <<sec, usec>>

Subtract(t, u) == <<t[1] - u[1], t[2] - u[2]>>

Less(t, u) == t[1] < u[1] \/ (t[1] = u[1] /\ t[2] < u[2])
Equal(t, u) == t[1] = u[1] /\ t[2] = u[2]
=============================================================================
