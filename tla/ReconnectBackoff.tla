-------------------------- MODULE ReconnectBackoff --------------------------
(***************************************************************************)
(* How long the DMX engine waits between two reconnect attempts:           *)
(* clampReconnectBaseMs() and computeReconnectBackoffMs()                  *)
(* (src/dmx/dmx_engine.cpp), in milliseconds.  The jitter is any factor of *)
(* its distribution, so the wait is one of a set.  DmxTransport only has   *)
(* waits that are over and waits that are not; this is how long they are.  *)
(***************************************************************************)
EXTENDS Integers, TLAPS

Ceiling == 60000

Within(x, low, high) == x \in Int /\ low <= x /\ x <= high

\* std::clamp(), which is undefined unless low <= high.
Clamp(x, low, high) == IF x < low THEN low ELSE IF x > high THEN high ELSE x

\* clampReconnectBaseMs(): the base, whatever was asked for.
ReconnectBase(asked) == Clamp(asked, 100, 30000)

\* How often the base is doubled for an attempt.
Exponent(attempt) == Clamp((IF attempt < 1 THEN 1 ELSE attempt) - 1, 0, 8)

Power == [e \in 0..8 |-> <<1, 2, 4, 8, 16, 32, 64, 128, 256>>[e + 1]]

\* scaled, after the loop that doubles it.
Doubled(base, attempt) == base * Power[Exponent(attempt)]

Scaled(base, attempt) == Clamp(Doubled(base, attempt), base, Ceiling)

\* Times a factor from 0.88 to 1.14, rounded to the nearest.
Jittered(scaled) == {j \in Int : 88 * scaled <= 100 * j + 50 /\ 100 * j <= 114 * scaled + 50}

Waits(base, attempt) ==
  {Clamp(j, base, Ceiling) : j \in Jittered(Scaled(base, attempt))}

-----------------------------------------------------------------------------
(***************************************************************************)
(* The bounds, whatever base was asked for and whatever attempt it is      *)
(***************************************************************************)

USE DEF Within

\* The base is usable whatever was asked for: the bounds of the later clamps
\* are in order.
LEMMA BaseRange ==
  ASSUME NEW asked \in Int
  PROVE  Within(ReconnectBase(asked), 100, 30000)
BY DEF ReconnectBase, Clamp

LEMMA ExponentRange ==
  ASSUME NEW attempt \in Int
  PROVE  Exponent(attempt) \in 0..8
BY DEF Exponent, Clamp

\* Doubling at most eight times multiplies by at most 256...
LEMMA DoubledRange ==
  ASSUME NEW base, Within(base, 100, 30000), NEW attempt \in Int
  PROVE  Within(Doubled(base, attempt), base, 256 * base)
<1>1. Power[Exponent(attempt)] \in {1, 2, 4, 8, 16, 32, 64, 128, 256}
  BY ExponentRange DEF Power
<1> DEFINE p == Power[Exponent(attempt)]
<1>2. Doubled(base, attempt) = base * p
  BY DEF Doubled
<1>3. p \in {1, 2, 4, 8, 16, 32, 64, 128, 256}
  BY <1>1
<1> HIDE DEF p
<1> QED
  BY <1>2, <1>3

\* ... and once more from one attempt to the next, as long as that is allowed.
LEMMA DoubledNext ==
  ASSUME NEW base, Within(base, 100, 30000), NEW attempt \in 1..8
  PROVE  Doubled(base, attempt + 1) = 2 * Doubled(base, attempt)
<1>1. Exponent(attempt) = attempt - 1 /\ Exponent(attempt + 1) = attempt
  BY DEF Exponent, Clamp
<1>2. Power[attempt] = 2 * Power[attempt - 1] /\ Power[attempt - 1] \in Int
  BY DEF Power
<1> DEFINE p == Power[attempt - 1]
<1>3. Doubled(base, attempt) = base * p
  BY <1>1 DEF Doubled
<1>4. Doubled(base, attempt + 1) = base * (2 * p)
  BY <1>1, <1>2 DEF Doubled
<1>5. p \in Int
  BY <1>2
<1> HIDE DEF p
<1> QED
  BY <1>3, <1>4, <1>5

-----------------------------------------------------------------------------
\* computeReconnectBackoffMs() never overflows: the doubled delay and the
\* jittered one are far from 2^31, for every base that can be set and every
\* count of attempts, also one that has wrapped around.
THEOREM BackoffFits ==
  ASSUME NEW asked \in Int, NEW attempt \in Int
  PROVE  LET base == ReconnectBase(asked)
         IN  /\ Doubled(base, attempt) < 32768 * 65536
             /\ \A j \in Jittered(Scaled(base, attempt)) : Within(j, 88, 68401)
<1> DEFINE base == ReconnectBase(asked)
           s == Scaled(base, attempt)
<1>1. Within(base, 100, 30000)
  BY BaseRange
<1>2. Within(Doubled(base, attempt), base, 256 * base)
  BY <1>1, DoubledRange
<1> HIDE DEF base
<1>3. Within(s, 100, Ceiling)
  BY <1>1, <1>2 DEF Scaled, Clamp, Ceiling
<1> HIDE DEF s
<1>4. \A j \in Jittered(s) : Within(j, 88, 68401)
  BY <1>3 DEF Jittered, Ceiling
<1> QED
  BY <1>1, <1>2, <1>4 DEF base, s

\* The engine waits at least the base and at most a minute, so that it neither
\* hammers the ports nor stays away from an interface that is back.
THEOREM BackoffBounded ==
  ASSUME NEW asked \in Int, NEW attempt \in Int
  PROVE  \A ms \in Waits(ReconnectBase(asked), attempt) : Within(ms, ReconnectBase(asked), Ceiling)
<1> DEFINE base == ReconnectBase(asked)
<1>1. Within(base, 100, 30000)
  BY BaseRange
<1> HIDE DEF base
<1>2. ASSUME NEW j \in Int PROVE Within(Clamp(j, base, Ceiling), base, Ceiling)
  BY <1>1 DEF Clamp, Ceiling
<1> QED
  BY <1>2 DEF Waits, Jittered, base

\* The jitter does not undo the growth: an attempt waits no less than the one
\* before it did, whatever the two draws were, until the doubled delay passes
\* the ceiling.
THEOREM BackoffGrows ==
  ASSUME NEW asked \in Int, NEW attempt \in 1..8,
         Doubled(ReconnectBase(asked), attempt + 1) <= Ceiling,
         NEW earlier \in Waits(ReconnectBase(asked), attempt),
         NEW later \in Waits(ReconnectBase(asked), attempt + 1)
  PROVE  earlier <= later
<1> DEFINE base == ReconnectBase(asked)
           s == Doubled(base, attempt)
<1>1. Within(base, 100, 30000)
  BY BaseRange
<1>2. Doubled(base, attempt + 1) = 2 * s
  BY <1>1, DoubledNext
<1>3. Within(s, base, 256 * base)
  BY <1>1, DoubledRange
<1>4. 2 * s <= Ceiling
  BY <1>2
<1>5. PICK i \in Jittered(Scaled(base, attempt)) : earlier = Clamp(i, base, Ceiling)
  BY DEF Waits
<1>6. PICK j \in Jittered(Scaled(base, attempt + 1)) : later = Clamp(j, base, Ceiling)
  BY DEF Waits
<1> HIDE DEF base, s
<1>7. Scaled(base, attempt) = s
  BY <1>1, <1>3, <1>4 DEF Scaled, Clamp, Ceiling, s
<1>8. Scaled(base, attempt + 1) = 2 * s
  BY <1>1, <1>2, <1>3, <1>4 DEF Scaled, Clamp, Ceiling
<1>9. i \in Int /\ j \in Int /\ 100 * i <= 114 * s + 50 /\ 176 * s <= 100 * j + 50
  BY <1>1, <1>3, <1>5, <1>6, <1>7, <1>8 DEF Jittered
<1>10. i <= j
  BY <1>1, <1>3, <1>9
<1> QED
  BY <1>1, <1>5, <1>6, <1>9, <1>10 DEF Clamp, Ceiling
=============================================================================
