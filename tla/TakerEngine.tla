------------------------------ MODULE TakerEngine ------------------------------
(***************************************************************************)
(* The taker executor (executor/engine.py): one arbitrage over N legs is   *)
(* checked by the guardrails, confirmed by a person, written to the trade  *)
(* ledger, fired leg by leg, reduced to the size every leg has, and        *)
(* checked against Kalshi's positions.                                     *)
(*                                                                         *)
(* One unit is one contract or share.  Times are flags: the dedupe window  *)
(* of a fingerprint and the cooldown run out by actions of their own.  The *)
(* prices, the daily spend, the liquidity and the edge are one free answer *)
(* of the guardrails.  An unwound share costs one unit of loss.            *)
(***************************************************************************)
EXTENDS Integers, Sequences, FiniteSets, FiniteSetsExt

CONSTANTS
    KalshiLegs,     \* the legs bought on Kalshi, one ticker each
    PolyLegs,       \* the legs bought on Polymarket
    MaxSize,        \* the largest size plan_size returns
    MinPoly,        \* Polymarket's minimum order, in shares (min_poly_shares)
    Prints,         \* the fingerprints of the arbitrages offered
    MaxErrors,      \* max_consecutive_errors
    MaxTrades,      \* max_trades_per_day
    MaxLoss,        \* max_daily_loss_usd
    Faults          \* the faults a run lets happen: "lost", "polyUnwind", "crash"

VARIABLES
    halted,      \* the STOP file is there
    held,        \* leg |-> what the account holds of it, at the venue
    phase,       \* where the trade under way is
    trade,       \* the trade under way: its arbitrage, size and firing order
    fills,       \* leg |-> the fill its order reported
    excess,      \* leg |-> what of it is still to be sold back
    rows,        \* the trade ledger, on disk
    errors,      \* Guardrails._consec_errors
    fired,       \* Guardrails._fired, the entries inside the dedupe window
    cooling      \* the last placement is younger than cooldown_seconds

takerVars == <<halted, held, phase, trade, fills, excess, rows, errors, fired, cooling>>
-----------------------------------------------------------------------------
TakerLegs == KalshiLegs \cup PolyLegs

NoTrade == [print |-> "none", size |-> 0, left |-> <<>>]
NoFills == [l \in TakerLegs |-> 0]

\* A row of the ledger.  matched is the "final" size its legs_json gives every
\* leg; unread says that the check of the positions failed.
Row(p) == [print |-> p, status |-> "submitted", matched |-> 0, loss |-> 0, unread |-> FALSE]

Closing == {"kalshi_no_fill", "polymarket_no_fill", "filled", "leg_failure_unwind"}
Statuses == Closing \cup {"submitted", "unhedged_halt"}

\* The orders in which the legs may be fired: by depth, whatever it is.
FiringOrders ==
    {o \in [1..Cardinality(TakerLegs) -> TakerLegs] :
        \A i, j \in DOMAIN o : o[i] = o[j] => i = j}

TypeOK ==
    /\ halted \in BOOLEAN /\ cooling \in BOOLEAN
    /\ held \in [TakerLegs -> Nat]
    /\ phase \in {"idle", "asking", "firing", "failed", "matched", "verifying"}
    /\ trade = NoTrade \/ trade \in
        [print : Prints, size : 1..MaxSize, left : UNION {[1..n -> TakerLegs] : n \in 0..3}]
    /\ fills \in [TakerLegs -> Nat] /\ excess \in [TakerLegs -> Nat]
    /\ rows \in Seq([print : Prints, status : Statuses, matched : Nat, loss : Nat,
                     unread : BOOLEAN])
    /\ errors \in 0..(MaxErrors + Len(rows) + 1) /\ fired \subseteq Prints

Init ==
    /\ halted = FALSE /\ held = NoFills /\ phase = "idle" /\ trade = NoTrade
    /\ fills = NoFills /\ excess = NoFills /\ rows = <<>>
    /\ errors = 0 /\ fired = {} /\ cooling = FALSE
-----------------------------------------------------------------------------
(* Before the first order. *)

DailyLoss == MapThenSumSet(LAMBDA i : rows[i].loss, DOMAIN rows)

\* Guardrails.pre_trade_check_n: the halting refusals, in the order tried.
MustHalt(p) ==
    \/ errors >= MaxErrors
    \/ /\ p \notin fired /\ ~cooling /\ Len(rows) < MaxTrades
       /\ DailyLoss >= MaxLoss

MayTrade(p) ==
    /\ errors < MaxErrors
    /\ p \notin fired /\ ~cooling
    /\ Len(rows) < MaxTrades /\ DailyLoss < MaxLoss

\* The books of the legs are read again; an error of that is counted.
FetchFails ==
    /\ phase = "idle" /\ errors < MaxErrors
    /\ errors' = errors + 1
    /\ UNCHANGED <<halted, held, phase, trade, fills, excess, rows, fired, cooling>>

\* The STOP file and the guardrails refuse, and some refusals set the STOP file.
Refused(p) ==
    /\ phase = "idle" /\ ~halted /\ MustHalt(p)
    /\ halted' = TRUE
    /\ UNCHANGED <<held, phase, trade, fills, excess, rows, errors, fired, cooling>>

\* The guardrails agree, and the person is asked.
Agreed(p, n, o) ==
    /\ phase = "idle" /\ ~halted /\ MayTrade(p)
    /\ phase' = "asking" /\ trade' = [print |-> p, size |-> n, left |-> o]
    /\ fills' = NoFills
    /\ UNCHANGED <<halted, held, excess, rows, errors, fired, cooling>>

Declined ==
    /\ phase = "asking" /\ phase' = "idle" /\ trade' = NoTrade
    /\ UNCHANGED <<halted, held, fills, excess, rows, errors, fired, cooling>>

\* The submit row is appended and the fingerprint marked, then the legs fire.
Submit ==
    /\ phase = "asking" /\ phase' = "firing"
    /\ rows' = Append(rows, Row(trade.print))
    /\ fired' = fired \cup {trade.print} /\ cooling' = TRUE
    /\ UNCHANGED <<halted, held, trade, fills, excess, errors>>
-----------------------------------------------------------------------------
(* The orders. *)

SmallerOf(a, b) == IF a < b THEN a ELSE b
LargerOf(a, b) == IF a > b THEN a ELSE b

\* Mutant: every leg is asked for at the planned size.
RealizedPlanned == trade.size

\* realized_min: the size, or the smallest fill so far.
Realized ==
    LET got == {fills[l] : l \in {x \in TakerLegs : fills[x] > 0}} \cup {trade.size}
    IN  CHOOSE n \in got : \A x \in got : n <= x

\* leg_size: the realized minimum, or Polymarket's minimum order.
LegSize(l) == IF l \in PolyLegs THEN LargerOf(Realized, MinPoly) ELSE Realized

\* What an order of n units may fill: Kalshi's is immediate-or-cancel,
\* Polymarket's fill-or-kill.
MayFill(l, n) == IF l \in PolyLegs THEN {0, n} ELSE 0..n

\* The last row, as Ledger.update writes it.
Update(status, matched, loss) ==
    LET n == Len(rows)
    IN  rows' = [rows EXCEPT ![n].status = status, ![n].matched = matched, ![n].loss = loss]

Prior == {l \in TakerLegs : fills[l] > 0}

\* What every leg is to be reduced to: matched, when all of them filled.
Matched == Realized

\* A leg answers with its fill, g; the venue bought b.
Answered(l, b, g, wrong) ==
    /\ held' = [held EXCEPT ![l] = @ + b]
    /\ \/ /\ g > 0
          /\ fills' = [fills EXCEPT ![l] = g]
          /\ trade' = [trade EXCEPT !.left = Tail(@)]
          /\ errors' = errors
          /\ IF Len(trade.left) > 1
             THEN phase' = "firing" /\ UNCHANGED excess
             ELSE /\ phase' = "matched"
                  /\ LET least == SmallerOf(Realized, g)
                     IN  excess' = [x \in TakerLegs |-> fills'[x] - least]
          /\ UNCHANGED <<rows, halted>>
       \/ /\ g = 0 /\ Prior # {}
          /\ phase' = "failed" /\ excess' = fills
          /\ errors' = errors + wrong
          /\ UNCHANGED <<fills, trade, rows, halted>>
       \/ /\ g = 0 /\ Prior = {}
          /\ phase' = "idle" /\ trade' = NoTrade /\ errors' = 0
          /\ Update(IF l \in PolyLegs THEN "polymarket_no_fill" ELSE "kalshi_no_fill", 0, 0)
          /\ UNCHANGED <<fills, excess, halted>>

\* The next leg is placed.  The call may raise, and then its fill counts as 0;
\* with the fault "lost" the venue had bought all the same.
Fire ==
    /\ phase = "firing"
    /\ LET l == Head(trade.left)
           n == LegSize(l)
       IN  \/ \E g \in MayFill(l, n) : Answered(l, g, g, 0)
           \/ Answered(l, 0, 0, 1)
           \/ "lost" \in Faults /\ \E b \in MayFill(l, n) : Answered(l, b, 0, 1)
    /\ UNCHANGED <<fired, cooling>>
-----------------------------------------------------------------------------
(* Selling back. *)

\* _unwind_leg: a market sale; it may sell less, or raise.  With no fault a sale
\* on Polymarket finds all its buyers.
MaySell(l, n) ==
    IF l \in KalshiLegs \/ "polyUnwind" \in Faults THEN 0..n ELSE {n}

Unwind(l) ==
    /\ phase \in {"failed", "matched"} /\ excess[l] > 0
    /\ \E s \in MaySell(l, excess[l]) : held' = [held EXCEPT ![l] = @ - s]
    /\ excess' = [excess EXCEPT ![l] = 0]
    /\ UNCHANGED <<halted, phase, trade, fills, rows, errors, fired, cooling>>

\* What was given to the unwinds: every fill of a failed trade, what exceeded the
\* matched size of another.
Unwound ==
    MapThenSumSet(LAMBDA l : IF phase = "failed" THEN fills[l] ELSE fills[l] - Matched,
                  TakerLegs)

\* The row says what became of the trade.  A trade whose legs all filled is a
\* success, reduced or not; one that failed is not.
Close ==
    /\ phase \in {"failed", "matched"} /\ excess = NoFills
    /\ phase' = "verifying"
    /\ IF phase = "matched"
       THEN /\ errors' = 0
            /\ Update(IF Unwound = 0 THEN "filled" ELSE "leg_failure_unwind", Matched, Unwound)
       ELSE /\ errors' = errors
            /\ Update("leg_failure_unwind", 0, Unwound)
    /\ UNCHANGED <<halted, held, trade, fills, excess, fired, cooling>>
-----------------------------------------------------------------------------
(* _verify_positions *)

\* Mutant: the check forgives one contract.
ExpectedLoosely == rows[Len(rows)].matched + 1

\* The size every Kalshi leg should be held at.
Expected == rows[Len(rows)].matched

NakedOf(l) == IF l \in KalshiLegs THEN LargerOf(0, held[l] - Expected) ELSE 0

\* The positions cannot be read: the STOP file is set.
Unreadable ==
    /\ phase = "verifying" /\ phase' = "idle"
    /\ halted' = TRUE
    /\ rows' = [rows EXCEPT ![Len(rows)].unread = TRUE]
    /\ trade' = NoTrade /\ fills' = NoFills
    /\ UNCHANGED <<held, excess, errors, fired, cooling>>

Squared ==
    /\ phase = "verifying" /\ phase' = "idle"
    /\ \A l \in KalshiLegs : NakedOf(l) = 0
    /\ trade' = NoTrade /\ fills' = NoFills
    /\ UNCHANGED <<halted, held, excess, rows, errors, fired, cooling>>

\* Each naked leg is sold once more, then the STOP file is set.
SecondUnwind ==
    /\ phase = "verifying" /\ phase' = "idle"
    /\ \E l \in KalshiLegs : NakedOf(l) > 0
    /\ \E s \in [KalshiLegs -> 0..(2 * MaxSize)] :
          /\ \A l \in KalshiLegs : s[l] <= NakedOf(l)
          /\ held' = [l \in TakerLegs |-> IF l \in KalshiLegs THEN held[l] - s[l] ELSE held[l]]
    /\ halted' = TRUE
    /\ rows' = [rows EXCEPT ![Len(rows)].status = "unhedged_halt"]
    /\ trade' = NoTrade /\ fills' = NoFills
    /\ UNCHANGED <<excess, errors, fired, cooling>>

-----------------------------------------------------------------------------
(* Time, persons, processes. *)

AllEven == \A k, l \in TakerLegs : held[k] = held[l]

Later ==
    /\ \/ cooling /\ cooling' = FALSE /\ UNCHANGED fired
       \/ ~cooling /\ fired # {} /\ fired' = {} /\ UNCHANGED cooling
    /\ UNCHANGED <<halted, held, phase, trade, fills, excess, rows, errors>>

\* A command of its own process: its guardrails remember nothing.  With the
\* fault "crash" the process may end while a trade is under way.
Restart ==
    /\ phase = "idle" \/ "crash" \in Faults
    /\ phase' = "idle" /\ trade' = NoTrade /\ fills' = NoFills /\ excess' = NoFills
    /\ errors' = 0 /\ fired' = {} /\ cooling' = FALSE
    /\ UNCHANGED <<halted, held, rows>>

PersonStops == ~halted /\ halted' = TRUE
    /\ UNCHANGED <<held, phase, trade, fills, excess, rows, errors, fired, cooling>>

\* The person closes what is uneven, and then removes the STOP file.
PersonFlattens ==
    /\ phase = "idle" /\ halted /\ ~AllEven /\ held' = NoFills
    /\ UNCHANGED <<halted, phase, trade, fills, excess, rows, errors, fired, cooling>>

PersonLifts ==
    /\ phase = "idle" /\ halted /\ AllEven /\ halted' = FALSE
    /\ UNCHANGED <<held, phase, trade, fills, excess, rows, errors, fired, cooling>>

Next ==
    \/ FetchFails
    \/ \E p \in Prints : Refused(p) \/ \E n \in 1..MaxSize, o \in FiringOrders : Agreed(p, n, o)
    \/ Declined \/ Submit \/ Fire
    \/ \E l \in TakerLegs : Unwind(l)
    \/ Close \/ Unreadable \/ Squared \/ SecondUnwind
    \/ Later \/ Restart \/ PersonStops \/ PersonFlattens \/ PersonLifts

Spec == Init /\ [][Next]_takerVars
-----------------------------------------------------------------------------
\* From the guardrails' agreement to the end of the check a trade is under way.
Desk == INSTANCE HedgeDesk WITH
    exposure <- IF phase # "idle" THEN "trading" ELSE IF AllEven THEN "even" ELSE "uneven",
    stop <- halted

\* Every trade ends with its legs even or with the STOP file set, and none
\* begins on an uneven position (engine.py: _do_live, _fail_unwind,
\* _finalize_filled, _verify_positions).
Implements == Desk!Spec

\* While no trade ended in a halt, the ledger's sizes add up to what is held of
\* every leg: the rows a person reads are the positions (engine.py: the calls of
\* Ledger.update; ledger.py).
LedgerTells ==
    (phase = "idle" /\ \A i \in DOMAIN rows : rows[i].status \in Closing /\ ~rows[i].unread)
        => \A l \in TakerLegs :
              held[l] = MapThenSumSet(LAMBDA i : rows[i].matched, DOMAIN rows)

\* A naked leg never goes without the STOP file.  The docstring of the engine
\* promises it (engine.py lines 17-19, and the comment of _unwind_leg).
NakedIsHalted == (phase = "idle" /\ ~AllEven) => halted
=============================================================================
