---------------------------- MODULE MCCapsLedger ----------------------------
(***************************************************************************)
(* Model checking CapsLedger.  Keys are model values and symmetric:        *)
(* nothing in the executor orders them.                                    *)
(***************************************************************************)
EXTENDS CapsLedger, TLC

SymmetricKeys == Permutations(Keys)
=============================================================================
