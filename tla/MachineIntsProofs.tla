------------------------- MODULE MachineIntsProofs -------------------------
(***************************************************************************)
(* What the wrapping operations compute, for every width of the type, and  *)
(* the facts on products and quotients that the other proofs need.         *)
(***************************************************************************)
EXTENDS MachineInts, TLAPS

\* A quotient of naturals is a natural.
LEMMA DivNat == ASSUME NEW a \in Nat, NEW b \in Nat \ {0} PROVE a \div b \in Nat
  OBVIOUS

\* A product of naturals is a natural.
LEMMA MulNat == ASSUME NEW a \in Nat, NEW b \in Nat PROVE a * b \in Nat
  OBVIOUS

\* A product of positive numbers is positive.
LEMMA MulPos == ASSUME NEW a \in Nat \ {0}, NEW b \in Nat \ {0} PROVE a * b \in Nat \ {0}
  OBVIOUS

\* A quotient of naturals is positive exactly when it does not round down to zero.
LEMMA DivPositive ==
  ASSUME NEW a \in Nat, NEW b \in Nat \ {0}
  PROVE  a \div b > 0 <=> a >= b
  OBVIOUS

\* A product is at least a factor whose other factor is positive.
LEMMA MulAtLeast ==
  ASSUME NEW a \in Nat \ {0}, NEW b \in Nat
  PROVE  a * b >= b
  OBVIOUS

\* Products are monotonic.
LEMMA MulMonotonic ==
  ASSUME NEW a \in Nat, NEW b \in Nat, NEW c \in Nat, a <= b
  PROVE  a * c <= b * c
  OBVIOUS

\* A quotient is at least every number whose product with the divisor fits.
LEMMA DivAtLeast ==
  ASSUME NEW a \in Nat, NEW b \in Nat \ {0}, NEW c \in Nat, c * b <= a
  PROVE  a \div b >= c
  OBVIOUS

\* Subtraction of std::uint64_t values: exact when it does not go below zero,
\* one whole range too large otherwise.
LEMMA USubCases ==
  ASSUME NEW a \in U64, NEW b \in U64
  PROVE  USub(a, b) = IF a >= b THEN a - b ELSE a - b + 2 * Half
<1>1. (a - b) % (2 * Half) = IF a >= b THEN a - b ELSE a - b + 2 * Half
  BY HalfAssumption DEF U64
<1> QED
  BY <1>1 DEF USub

\* A wrapped age test, for timestamps in the lower half of the type: the age
\* exceeds c when it does so in true time, or when it is negative.
LEMMA WrappedAge ==
  ASSUME NEW t \in 0 .. (Half - 1), NEW u \in 0 .. (Half - 1), NEW c \in Nat, c < Half
  PROVE  USub(t, u) > c <=> (t > u + c \/ t < u)
<1>1. t \in U64 /\ u \in U64
  BY HalfAssumption DEF U64
<1>2. USub(t, u) = IF t >= u THEN t - u ELSE t - u + 2 * Half
  BY <1>1, USubCases
<1> QED
  BY <1>2, HalfAssumption

\* A difference cast to int64_t is the true difference, for timestamps in the lower
\* half of the type.
LEMMA SignedDifference ==
  ASSUME NEW t \in 0 .. (Half - 1), NEW u \in 0 .. (Half - 1)
  PROVE  ToInt64(USub(t, u)) = t - u
<1>1. t \in U64 /\ u \in U64
  BY HalfAssumption DEF U64
<1>2. USub(t, u) = IF t >= u THEN t - u ELSE t - u + 2 * Half
  BY <1>1, USubCases
<1> QED
  BY <1>2, HalfAssumption DEF ToInt64
=============================================================================
