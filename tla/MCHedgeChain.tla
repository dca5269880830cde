---------------------------- MODULE MCHedgeChain ----------------------------
(***************************************************************************)
(* Model checking HedgeChain: which mishaps meet in one behaviour.         *)
(***************************************************************************)
EXTENDS HedgeChain

\* Hedges are bought in full; rest shares may never be delivered.
Undelivered == MishapKinds \ {"decline", "miss", "ack", "blind"}

\* Rest shares are delivered, late perhaps; hedges may be short or not bought.
Unhedged == MishapKinds \ {"phantom", "dust", "blind"}

EitherLeg == {Undelivered, Unhedged}
ShortHedge == {{"miss"}}
JustCrash == {{"crash"}}
=============================================================================
