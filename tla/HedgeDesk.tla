------------------------------- MODULE HedgeDesk -------------------------------
(***************************************************************************)
(* What the taker executor promises, whatever its legs, venues and errors: *)
(* a trade begins only while no STOP file is there, and it ends with every *)
(* leg held at one size or with the STOP file set, so that no position is  *)
(* left uneven while trading may go on.                                    *)
(***************************************************************************)

VARIABLES
    exposure,    \* what the account holds: even, a trade under way, or uneven
    stop         \* the STOP file is there

vars == <<exposure, stop>>

Init == exposure = "even" /\ stop = FALSE

Begin == ~stop /\ exposure = "even" /\ exposure' = "trading" /\ UNCHANGED stop

Finish == exposure = "trading" /\ exposure' = "even" /\ UNCHANGED stop

Halt == exposure = "trading" /\ exposure' \in {"even", "uneven"} /\ stop' = TRUE

\* A person, or a guard, sets the STOP file at any time.
Stop == stop' = TRUE /\ UNCHANGED exposure

\* A person closes what is uneven, and lifts the STOP file when nothing is.
Flatten == exposure = "uneven" /\ stop /\ exposure' = "even" /\ UNCHANGED stop
Lift == stop /\ exposure # "uneven" /\ stop' = FALSE /\ UNCHANGED exposure

Next == Begin \/ Finish \/ Halt \/ Stop \/ Flatten \/ Lift

Spec == Init /\ [][Next]_vars
=============================================================================
