------------------------------ MODULE LiveCaps ------------------------------
(***************************************************************************)
(* The pre-game live caps: the exposure limits consulted before a quote    *)
(* rests and moved by every fill (src/src/genz/maker_rt/caps.py).          *)
(*                                                                         *)
(* The caps object is one record, and each method that moves it is an      *)
(* operator from the old record to the new one, because the executor calls *)
(* several of them inside one handler.  Money is a whole number of units   *)
(* (cents): the code's floats only carry an epsilon around comparisons.    *)
(***************************************************************************)
EXTENDS Integers

CONSTANTS
    MaxOpenQuotes,      \* live.max_open_quotes
    MaxFillsPerDay,     \* live.max_fills_per_day
    MaxDailyLoss,       \* live.max_daily_loss_usd
    MaxDailyStake,      \* live.max_daily_stake_usd: the pre-game pool
    MaxPairStake,       \* live.max_pair_stake_usd
    InplayPool,         \* live.inplay_pool_usd, 0 turns the ring-fence off
    InplayMaxLoss,      \* live.inplay_max_loss_usd, 0 turns the sub-cap off
    FillPnlFloor        \* FILL_PNL_SANITY_FLOOR

ASSUME LiveCapsAssumption ==
    /\ MaxOpenQuotes \in Nat
    /\ MaxFillsPerDay \in Nat
    /\ MaxDailyLoss \in Nat
    /\ MaxDailyStake \in Nat
    /\ MaxPairStake \in Nat
    /\ InplayPool \in Nat
    /\ InplayMaxLoss \in Nat
    /\ FillPnlFloor \in Nat

Phase == {"pre", "inplay"}

\* Halts a new UTC day must not clear.
StickyHalts == {"orphan_position", "booking_quarantine", "unreadable_state"}

HaltReasons == StickyHalts \cup
    {"none", "max_daily_loss_usd", "max_daily_stake_usd",
     "implausible_fill_pnl", "offloop_stalled"}

CapsRecord ==
    [stake_today          : Nat,
     fills_today          : Nat,
     pnl_today            : Int,
     open_quotes          : Nat,
     stake_by_phase       : [Phase -> Nat],
     reserved_by_phase    : [Phase -> Nat],
     pnl_by_phase         : [Phase -> Int],
     inplay_budget_halted : BOOLEAN,
     reserved_stake       : Nat,
     halted               : BOOLEAN,
     halt_reason          : HaltReasons]

FreshCaps ==
    [stake_today          |-> 0,
     fills_today          |-> 0,
     pnl_today            |-> 0,
     open_quotes          |-> 0,
     stake_by_phase       |-> [ph \in Phase |-> 0],
     reserved_by_phase    |-> [ph \in Phase |-> 0],
     pnl_by_phase         |-> [ph \in Phase |-> 0],
     inplay_budget_halted |-> FALSE,
     reserved_stake       |-> 0,
     halted               |-> FALSE,
     halt_reason          |-> "none"]

\* The per-phase splits of what is spent and won add up to the totals.
AddsUp(c) ==
    /\ c.stake_today = c.stake_by_phase["pre"] + c.stake_by_phase["inplay"]
    /\ c.pnl_today = c.pnl_by_phase["pre"] + c.pnl_by_phase["inplay"]

-----------------------------------------------------------------------------
Floor0(n) == IF n < 0 THEN 0 ELSE n
AbsVal(n) == IF n < 0 THEN -n ELSE n

\* One phase's share of a split total, raised by n or lowered to no less than 0.
AddTo(f, ph, n) == [f EXCEPT ![ph] = @ + n]
\* Mutation of TakeFrom: the phase is forgotten and nothing stops at 0.
TakeFromPre(f, ph, n) == [f EXCEPT !["pre"] = @ - n]

TakeFrom(f, ph, n) == [f EXCEPT ![ph] = Floor0(@ - n)]

\* _halt: the first reason wins, a halted object ignores later ones.
Halt(c, why) ==
    IF c.halted THEN c ELSE [c EXCEPT !.halted = TRUE, !.halt_reason = why]

\* Mutation of RollCaps: a new day lifts every halt.
RollEverything(c) ==
    [FreshCaps EXCEPT !.open_quotes = c.open_quotes,
                      !.reserved_stake = c.reserved_stake,
                      !.reserved_by_phase = c.reserved_by_phase]

\* roll at a new UTC day: the counters reset, outstanding reservations and
\* sticky halts stay.
RollCaps(c) ==
    LET reset == [c EXCEPT !.stake_today = 0,
                           !.fills_today = 0,
                           !.pnl_today = 0,
                           !.stake_by_phase = [ph \in Phase |-> 0],
                           !.pnl_by_phase = [ph \in Phase |-> 0],
                           !.inplay_budget_halted = FALSE]
    IN  IF c.halt_reason \in StickyHalts
        THEN reset
        ELSE [reset EXCEPT !.halted = FALSE, !.halt_reason = "none"]

PoolFor(ph) == IF ph = "inplay" /\ InplayPool > 0 THEN InplayPool ELSE MaxDailyStake

\* With the ring-fence off both phases share one budget.
CommittedStake(c, ph) ==
    IF InplayPool = 0
    THEN c.stake_today + c.reserved_stake
    ELSE c.stake_by_phase[ph] + c.reserved_by_phase[ph]

DailyStakeHeadroom(c, ph) == Floor0(PoolFor(ph) - CommittedStake(c, ph))

CheckInplayLoss(c) ==
    IF InplayMaxLoss > 0 /\ c.pnl_by_phase["inplay"] <= -InplayMaxLoss
    THEN [c EXCEPT !.inplay_budget_halted = TRUE]
    ELSE c

CheckDailyLoss(c) ==
    IF c.pnl_today <= -MaxDailyLoss THEN Halt(c, "max_daily_loss_usd") ELSE c

-----------------------------------------------------------------------------
(***************************************************************************)
(* can_place: the refusals in the code's order.  CanPlace is the verdict,  *)
(* CanPlaceCaps what deciding it does to the caps (it may latch a halt).   *)
(***************************************************************************)
\* The in-play sub-cap check runs only when the two rails above it let it.
InplayChecked(c, ph) ==
    IF ph = "inplay" /\ ~c.halted /\ c.pnl_today > -MaxDailyLoss
    THEN CheckInplayLoss(c) ELSE c

\* Mutations of RefusedBeforeStake: the slot limit compared with > instead
\* of >=; the realized loss left to the halt it latched.
RefusedOffByOne(c, proj, ph) ==
    \/ c.halted
    \/ c.pnl_today <= -MaxDailyLoss
    \/ ph = "inplay" /\ InplayChecked(c, ph).inplay_budget_halted
    \/ c.open_quotes > MaxOpenQuotes
    \/ c.fills_today >= MaxFillsPerDay
    \/ proj > MaxPairStake

RefusedByHaltOnly(c, proj, ph) ==
    \/ c.halted
    \/ ph = "inplay" /\ InplayChecked(c, ph).inplay_budget_halted
    \/ c.open_quotes >= MaxOpenQuotes
    \/ c.fills_today >= MaxFillsPerDay
    \/ proj > MaxPairStake

RefusedBeforeStake(c, proj, ph) ==
    \/ c.halted
    \/ c.pnl_today <= -MaxDailyLoss
    \/ ph = "inplay" /\ InplayChecked(c, ph).inplay_budget_halted
    \/ c.open_quotes >= MaxOpenQuotes
    \/ c.fills_today >= MaxFillsPerDay
    \/ c.open_quotes >= Floor0(MaxFillsPerDay - c.fills_today)
    \/ proj > MaxPairStake

OverPool(c, proj, ph) == CommittedStake(c, ph) + proj > PoolFor(ph)

\* Spent stake alone, without reservations, leaves no room for this pair.
PoolSpent(c, proj, ph) == c.stake_by_phase[ph] + proj > PoolFor(ph)

CanPlace(c, proj, ph) ==
    ~RefusedBeforeStake(c, proj, ph) /\ ~OverPool(c, proj, ph)

CanPlaceCaps(c, proj, ph) ==
    IF ~c.halted /\ c.pnl_today <= -MaxDailyLoss
    THEN Halt(c, "max_daily_loss_usd")
    ELSE IF /\ ~RefusedBeforeStake(c, proj, ph)
            /\ OverPool(c, proj, ph)
            /\ PoolSpent(c, proj, ph)
            /\ ph = "pre"
         THEN Halt(c, "max_daily_stake_usd")
         ELSE InplayChecked(c, ph)

-----------------------------------------------------------------------------
(* The accounting methods, called on venue events.                         *)

\* Mutation of CommitStake: the phase's own pool is not charged.
CommitTotalOnly(c, usd, ph) == [c EXCEPT !.stake_today = @ + usd]

CommitStake(c, usd, ph) ==
    [c EXCEPT !.stake_today = @ + usd,
              !.stake_by_phase = AddTo(@, ph, usd)]

\* Mutation of OnOpen: every reservation goes to the pre-game pool.
OnOpenPre(c, proj, ph) ==
    [c EXCEPT !.open_quotes = @ + 1,
              !.reserved_stake = @ + proj,
              !.reserved_by_phase = AddTo(@, "pre", proj)]

OnOpen(c, proj, ph) ==
    [c EXCEPT !.open_quotes = @ + 1,
              !.reserved_stake = @ + proj,
              !.reserved_by_phase = AddTo(@, ph, proj)]

\* Mutation of OnClose: the pool's reservation is never given back.
OnCloseTotalOnly(c, proj, ph) ==
    [c EXCEPT !.open_quotes = Floor0(@ - 1),
              !.reserved_stake = Floor0(@ - proj)]

OnClose(c, proj, ph) ==
    [c EXCEPT !.open_quotes = Floor0(@ - 1),
              !.reserved_stake = Floor0(@ - proj),
              !.reserved_by_phase = TakeFrom(@, ph, proj)]

\* The bound is 3 * 5% of the pair cap for a locked pair and twice the pair
\* cap for an unwind, never below the floor; compared in hundredths.
ImplausibleFillPnl(pnl, locked) ==
    /\ AbsVal(pnl) > FillPnlFloor
    /\ IF locked THEN 100 * AbsVal(pnl) > 15 * MaxPairStake
                 ELSE AbsVal(pnl) > 2 * MaxPairStake

AdjustPnl(c, usd, ph) ==
    CheckDailyLoss(CheckInplayLoss(
        [c EXCEPT !.pnl_today = @ + usd, !.pnl_by_phase = AddTo(@, ph, usd)]))

OnLoss(c, usd, ph) == AdjustPnl(c, -usd, ph)

OnFill(c, pnl, locked, ph) ==
    LET counted == [c EXCEPT !.fills_today = @ + 1]
    IN  IF ImplausibleFillPnl(pnl, locked)
        THEN Halt(counted, "implausible_fill_pnl")
        ELSE AdjustPnl(counted, pnl, ph)
=============================================================================
