----------------------------- MODULE MakerServices -----------------------------
(***************************************************************************)
(* The services of the maker's process around its order book: the books    *)
(* and their feed, the quote driver, the settlement pass, the audit of the *)
(* balances and the alert queue.                                           *)
(*                                                                         *)
(* They share no variable: what one reads of another (a book, a fill, a    *)
(* settled market) is an input its module chooses freely.  A behaviour of  *)
(* this specification is a behaviour of one of them, the others at rest;   *)
(* part says which.                                                        *)
(***************************************************************************)
EXTENDS Integers, Sequences

CONSTANTS
    Tickers, MaxDepth, MaxWire, MaxSent, MaxBreaks, LossUnderSnapshot,
    Lines, Kickoff, Cutoff, MaxTime, FreezeTime, Grace, PersistTime, HedgePersist,
    ThinLimit, ThinWindow, ThinCooldown,
    MaxPairs, MaxCrashes,
    Runners, MaxSlot, MaxTrouble,
    Loop, Other, MaxQueue, MaxTexts

ASSUME ServicesAssumption ==
    /\ MaxPairs \in Nat /\ MaxCrashes \in Nat
    /\ MaxQueue \in Nat \ {0} /\ MaxTexts \in Nat /\ Loop # Other

VARIABLES
    part,
    venue, wire, store, link, missed, seen, based, breaks,
    now, lines, quotes, rails, good, calm, passed,
    market, legs, keys, rail, today, lifetime, refused, expected, pass, crashes, torn,
    slot, audit, runner, inflight, gate, trouble,
    queue, stop, sender, hand, fate, order, author, closed

Book == INSTANCE BookFeed
Driver == INSTANCE QuoteDriver
Settle == INSTANCE Settlement
Audit == INSTANCE BalanceAudit
Alerts == INSTANCE AlertQueue

bookVars == <<venue, wire, store, link, missed, seen, based, breaks>>
driverVars == <<now, lines, quotes, rails, good, calm, passed>>
settleVars == <<market, legs, keys, rail, today, lifetime, refused, expected,
                pass, crashes, torn>>
balanceVars == <<slot, audit, runner, inflight, gate, trouble>>
alertVars == <<queue, stop, sender, hand, fate, order, author, closed>>

vars == <<part, bookVars, driverVars, settleVars, balanceVars, alertVars>>

Parts == {"book", "driver", "settle", "audit", "alerts"}

Init ==
    /\ part \in Parts
    /\ Book!Init /\ Driver!Init /\ Settle!Init /\ Audit!Init /\ Alerts!Init
    /\ part # "audit" => audit = Audit!EmptyAudit

\* Only the part p moves.
Only(p) ==
    /\ part = p /\ UNCHANGED part
    /\ IF p = "book" THEN TRUE ELSE UNCHANGED bookVars
    /\ IF p = "driver" THEN TRUE ELSE UNCHANGED driverVars
    /\ IF p = "settle" THEN TRUE ELSE UNCHANGED settleVars
    /\ IF p = "audit" THEN TRUE ELSE UNCHANGED balanceVars
    /\ IF p = "alerts" THEN TRUE ELSE UNCHANGED alertVars

Next ==
    \/ Only("book") /\ Book!Next
    \/ Only("driver") /\ Driver!Next
    \/ Only("settle") /\ Settle!Next
    \/ Only("audit") /\ Audit!Next
    \/ Only("alerts") /\ Alerts!Next

\* The feed's thread, the exchange's snapshots, the heartbeat of the loop and
\* the audit's threads go on.
Fairness ==
    /\ WF_vars(Only("book") /\ Book!Feed)
    /\ WF_vars(Only("book") /\ Book!Snapshot)
    /\ WF_vars(Only("audit") /\ Audit!MaybeRun)
    /\ WF_vars(Only("audit") /\ Audit!GateOpens)
    /\ WF_vars(Only("audit") /\ Audit!Abandon)
    /\ \A r \in Runners : WF_vars(Only("audit") /\ Audit!RunStep(r))

Spec == Init /\ [][Next]_vars /\ Fairness

-----------------------------------------------------------------------------
\* Every service keeps the types of its state.
TypeOK ==
    /\ Book!TypeOK /\ Driver!TypeOK /\ Settle!TypeOK /\ Audit!TypeOK /\ Alerts!TypeOK



\* No quote stands where a shock, the gap or a cooldown forbids it, and none is
\* armed in play before its persistence (QuoteDriver: refresh_quotes).
QuotesJustified == Driver!QuotesJustified

\* No settled market is forgotten uncounted, and no row of one is counted twice
\* (Settlement: reconcile, reconcile_settlements, _restate_same_day).
SettledOnce == Settle!SettlementKept /\ Settle!BookedOnce

\* The audit's store keeps its snapshots and its baseline, and the last slot is
\* recorded whatever fails (BalanceAudit: _persist, maybe_run).
AuditKept == Audit!StoreKept /\ (part = "audit" => Audit!SlotsRecorded)

\* The alert queue loses only its oldest texts, delivers once and in order
\* (AlertQueue: enqueue, _run, close).
AlertsKept == Alerts!AlertsKept
=============================================================================
