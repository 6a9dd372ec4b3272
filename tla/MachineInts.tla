---------------------------- MODULE MachineInts ----------------------------
(***************************************************************************)
(* The fixed-width integer operations the engines apply to exchange        *)
(* timestamps.  std::uint64_t has 2 * Half values (Half = 2^63 in C++);    *)
(* TLC uses a small Half, the proofs any positive one.                     *)
(***************************************************************************)
EXTENDS Integers

CONSTANT Half

ASSUME HalfAssumption == Half \in Nat \ {0}

U64 == 0 .. (2 * Half - 1)

\* a - b on std::uint64_t: wraps around instead of going negative.
USub(a, b) == (a - b) % (2 * Half)

\* (int64_t) x for x of type std::uint64_t.
ToInt64(x) == IF x < Half THEN x ELSE x - 2 * Half

\* std::abs
Abs(x) == IF x < 0 THEN -x ELSE x
=============================================================================
