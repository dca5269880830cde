-------------------------- MODULE MCOffloopWorker --------------------------
(***************************************************************************)
(* Model checking OffloopWorker.                                           *)
(***************************************************************************)
EXTENDS OffloopWorker, TLC

SymmetricKeys == Permutations(Keys)
=============================================================================
