------------------------------- MODULE Word32 -------------------------------
(***************************************************************************)
(* The 32-bit registers that count and number frames, in the RTL and in    *)
(* the application.  They wrap, and nothing in the system compares them    *)
(* other than for equality, so the width is a parameter.                   *)
(***************************************************************************)
EXTENDS Integers

CONSTANT IdMax      \* the largest value of the register: 2^32 - 1

ASSUME IdMaxAssumption == IdMax \in Nat

Ids == 0..IdMax

\* Mutant of Inc: a counter that saturates.
IncSaturating(x) == IF x = IdMax THEN x ELSE x + 1

\* The register plus one.
Inc(x) == IF x = IdMax THEN 0 ELSE x + 1

\* The register that started at "first", n increments later.
Ahead(first, n) == IF first + n <= IdMax THEN first + n ELSE first + n - IdMax - 1
=============================================================================
