---------------------------- MODULE ExpiryProofs ----------------------------
(***************************************************************************)
(* What the arithmetic of the expiry columns guarantees, for every scale   *)
(* of ticks and every width of a duration.                                 *)
(***************************************************************************)
EXTENDS Expiry, TLAPS

(* Rounding down to microseconds never reorders two instants, so a comparison
   of columns that comes out strict is strict for the instants themselves. *)
LEMMA MicrosStrict ==
    ASSUME NEW a \in Int, NEW b \in Int, Micros(a) < Micros(b)
    PROVE  a < b
<1> DEFINE m == TicksPerMicro
           qa == a \div m
           qb == b \div m
<1>1. m \in Nat /\ m > 0
  BY ExpiryAssumption
<1>2. qa \in Int /\ qb \in Int /\ qa < qb
  BY <1>1 DEF Micros
<1>3. a = m * qa + (a % m) /\ 0 <= a % m /\ a % m < m
  BY <1>1
<1>4. b = m * qb + (b % m) /\ 0 <= b % m
  BY <1>1
<1> HIDE DEF qa, qb, m
<1>5. m * qa + m <= m * qb
  BY <1>1, <1>2
<1> QED
  BY <1>1, <1>2, <1>3, <1>4, <1>5

(* Nor does it hide a difference of a whole microsecond. *)
LEMMA MicrosApart ==
    ASSUME NEW a \in Int, NEW b \in Int, Overdue(a, b)
    PROVE  Micros(a) < Micros(b)
<1> DEFINE m == TicksPerMicro
           qa == a \div m
           qb == b \div m
<1>1. m \in Nat /\ m > 0
  BY ExpiryAssumption
<1>2. qa \in Int /\ qb \in Int
  BY <1>1
<1>3. a = m * qa + (a % m) /\ 0 <= a % m /\ a % m < m
  BY <1>1
<1>4. b = m * qb + (b % m) /\ 0 <= b % m /\ b % m < m
  BY <1>1
<1>5. a + m <= b
  BY DEF Overdue
<1>6. Micros(a) = qa /\ Micros(b) = qb
  BY DEF Micros
<1> HIDE DEF qa, qb, m
<1>7. m * qa < m * qb + m
  BY <1>1, <1>2, <1>3, <1>4, <1>5
<1>8. ASSUME qb <= qa PROVE FALSE
  <2>1. m * qb <= m * qa
    BY <1>1, <1>2, <1>8
  <2> QED BY <1>1, <1>2, <1>3, <1>4, <1>5, <2>1
<1> QED
  BY <1>2, <1>6, <1>8

(* A representable lifetime becomes a duration without wrapping. *)
LEMMA DurationExact ==
    ASSUME NEW lifetime \in Int, Representable(lifetime)
    PROVE  Duration(lifetime) = lifetime * TicksPerSecond
<1> DEFINE x == lifetime * TicksPerSecond
           w == 2 * DurationLimit
<1>1. x \in Int /\ -DurationLimit <= x /\ x < DurationLimit
  BY ExpiryAssumption DEF Representable
<1>2. w \in Nat /\ w > 0 /\ DurationLimit \in Nat
  BY ExpiryAssumption
<1>3. x + DurationLimit \in 0..w - 1
  BY <1>1, <1>2
<1>4. \A y \in 0..w - 1 : y % w = y
  BY <1>2
<1> HIDE DEF x, w
<1>5. (x + DurationLimit) % w = x + DurationLimit
  BY <1>3, <1>4
<1> QED
  BY <1>1, <1>2, <1>5 DEF Duration, x, w

(* Reclaiming is safe: a derived expires_at that precedes the cutoff belongs to
   a record that expires, in exact arithmetic, before the cutoff.  Rounding can
   only keep a record for longer. *)
THEOREM ReclaimIsSafe ==
    ASSUME NEW creation \in Int, NEW lifetime \in Int, NEW cutoff \in Int,
           Representable(lifetime),
           Reclaimable(DerivedExpiry(creation, lifetime), cutoff)
    PROVE  Expiry(creation, lifetime) < cutoff
<1>1. Duration(lifetime) = lifetime * TicksPerSecond
  BY DurationExact
<1>2. Expiry(creation, lifetime) \in Int
  BY ExpiryAssumption DEF Expiry
<1>3. Micros(Expiry(creation, lifetime)) < Micros(cutoff)
  BY <1>1 DEF Reclaimable, DerivedExpiry, Expiry
<1> QED
  BY <1>2, <1>3, MicrosStrict

(* Reclaiming is prompt: the column of a record that is overdue, in exact arithmetic,
   by one of its own units or more precedes the cutoff.  Rounding keeps no record
   for longer than that. *)
THEOREM ReclaimIsPrompt ==
    ASSUME NEW creation \in Int, NEW lifetime \in Int, NEW cutoff \in Int,
           Representable(lifetime),
           Overdue(Expiry(creation, lifetime), cutoff)
    PROVE  Reclaimable(DerivedExpiry(creation, lifetime), cutoff)
<1>1. Duration(lifetime) = lifetime * TicksPerSecond
  BY DurationExact
<1>2. Expiry(creation, lifetime) \in Int
  BY ExpiryAssumption DEF Expiry
<1>3. Micros(Expiry(creation, lifetime)) < Micros(cutoff)
  BY <1>2, MicrosApart
<1>4. DerivedExpiry(creation, lifetime) = Micros(Expiry(creation, lifetime))
  BY <1>1 DEF DerivedExpiry, Expiry
<1>5. DerivedExpiry(creation, lifetime) \in Int
  BY <1>2, <1>4, ExpiryAssumption DEF Micros
<1> QED
  BY <1>3, <1>4, <1>5, ExpiryAssumption DEF Reclaimable
=============================================================================
