------------------------------ MODULE Checked ------------------------------
(***************************************************************************)
(* Rust's checked arithmetic on u64, at a small width.  None stands for    *)
(* the error that every caller makes of an overflow: `?` ends the          *)
(* computation, so an operation on None is None.                           *)
(***************************************************************************)
EXTENDS Integers, Option

CONSTANT U64Max  \* u64::MAX

ASSUME WidthIsPositive == U64Max \in Nat \ {0}
ASSUME NoneIsNoNumber == None \notin Int

Fitting(n) == IF n <= U64Max THEN n ELSE None

\* u64::checked_mul
Times(a, b) == IF None \in {a, b} THEN None ELSE Fitting(a * b)

\* u64::checked_add
Plus(a, b) == IF None \in {a, b} THEN None ELSE Fitting(a + b)

=============================================================================
