------------------------------- MODULE Expiry -------------------------------
(***************************************************************************)
(* How the stores turn a record's lifetime into its expires_at column, and *)
(* which rows a cleanup call reclaims.  The arithmetic is the one the Go   *)
(* expression CreationTime.Add(time.Duration(Lifetime) * time.Second) and  *)
(* the timestamptz column perform: the product is a signed 64-bit count of *)
(* nanoseconds that wraps, and the column keeps whole microseconds.        *)
(*                                                                         *)
(* Time is counted in ticks (the nanoseconds of the program); the three    *)
(* constants scale the program's 10^9, 10^3 and 2^63 down to numbers TLC   *)
(* can enumerate.                                                          *)
(***************************************************************************)
EXTENDS Integers

CONSTANTS
    TicksPerSecond,   \* time.Second
    TicksPerMicro,    \* ticks in one unit of a timestamptz column
    DurationLimit,    \* a time.Duration lies in -DurationLimit .. DurationLimit - 1
    Never             \* SQL NULL: the row is never reclaimed

ASSUME ExpiryAssumption ==
    /\ TicksPerSecond \in Nat \ {0}
    /\ TicksPerMicro \in Nat \ {0}
    /\ DurationLimit \in Nat \ {0}
    /\ Never \notin Int

-----------------------------------------------------------------------------
(* time.Duration(lifetime) * time.Second, with two's-complement wrap-around *)
Duration(lifetime) ==
    ((lifetime * TicksPerSecond + DurationLimit) % (2 * DurationLimit)) - DurationLimit

(* The lifetimes whose duration does not wrap *)
Representable(lifetime) ==
    /\ -DurationLimit <= lifetime * TicksPerSecond
    /\ lifetime * TicksPerSecond < DurationLimit

(* What a timestamptz keeps of an instant: whole microseconds, rounded down *)
Micros(instant) == instant \div TicksPerMicro

(* The expires_at column of the families that carry CreationTime and Lifetime *)
DerivedExpiry(creation, lifetime) == Micros(creation + Duration(lifetime))

(* expiresAtPtr: the column of the families with an optional expiry instant;
   an absent instant (nil or the zero time) is stored as NULL *)
OptionalExpiry(instant) == IF instant = Never THEN Never ELSE Micros(instant)

(* WHERE expires_at IS NOT NULL AND expires_at < $cutoff *)
Reclaimable(expires_at, cutoff) ==
    /\ expires_at # Never
    /\ expires_at < Micros(cutoff)

(* The instant the record itself says it expires at, in exact arithmetic *)
Expiry(creation, lifetime) == creation + lifetime * TicksPerSecond

(* Expired for long enough that no column can hide it *)
Overdue(instant, cutoff) == instant + TicksPerMicro <= cutoff
=============================================================================
