----------------------------- MODULE CapsLedger -----------------------------
(***************************************************************************)
(* How the pre-game executor spends the live caps over a day: it places    *)
(* and reprices quotes, books their fills, sweeps orders when a rail       *)
(* trips, rolls the day at UTC midnight, writes the daily-caps file and    *)
(* reloads it after a crash (src/src/genz/maker_rt/pregame_exec.py).       *)
(*                                                                         *)
(* The event loop runs one handler at a time, but a crash may end it       *)
(* anywhere and a sweep makes one blocking venue call per order.  A fill   *)
(* handler is therefore spread over the steps Book, Sweep*, Consume,       *)
(* Sweep*, Finish; `handler` holds its locals and keeps the other handlers *)
(* out until it ends.                                                      *)
(***************************************************************************)
EXTENDS LiveCaps, FiniteSetsExt

CONSTANTS
    Keys,            \* candidate keys that may hold one resting order each
    RestPrices,      \* prices a quote may rest at
    HedgePrices,     \* prices of the complement: asks, executions, exit bids
    Depths,          \* shares the thinner of the two books shows
    QuoteMax,        \* live.quote_usd_max
    VenueMin,        \* smallest order the venue takes, in shares
    Payout,          \* value of one complete pair at settlement
    InplayHaltLoss,  \* per-share loss at which in-play halts for the day
    MaxHedgeErrors,  \* MAX_HEDGE_ERRORS
    EmptyReads,      \* the venue may read a filled order back as absent
    MaxUtc,          \* bound: last day the clock reaches
    MaxErrors,       \* bound: hedge chain exceptions per order
    MaxStake,        \* bound: daily stake past which no fill is explored
    MaxGain          \* bound: daily gain past which no mark is restated

ASSUME CapsLedgerAssumption ==
    /\ IsFiniteSet(Keys)
    /\ RestPrices \subseteq Nat \ {0}
    /\ HedgePrices \subseteq Nat
    /\ Depths \subseteq Nat
    /\ QuoteMax \in Nat
    /\ VenueMin \in Nat \ {0}
    /\ Payout \in Nat
    /\ InplayHaltLoss \in Nat
    /\ MaxHedgeErrors \in Nat
    /\ EmptyReads \in BOOLEAN
    /\ MaxUtc \in Nat
    /\ MaxErrors \in Nat
    /\ MaxStake \in Nat
    /\ MaxGain \in Nat

VARIABLES
    caps,            \* the LiveCaps object
    open_orders,     \* key -> the resting order, or NoOrder
    pending,         \* key -> a pair hedged but not booked, or NoPair
    inplay_halted,   \* the in-play circuit
    marks,           \* key -> a loss booked provisionally (on disk), or NoMark
    latched,         \* the latch files on disk: orphan, booking quarantine
    utc,             \* the real UTC day
    day,             \* the executor's _day: the day the counters belong to
    file,            \* the daily-caps file
    handler          \* the handler in progress

vars == <<caps, open_orders, pending, marks, inplay_halted, latched, utc, day,
          file, handler>>

NoDay == -1
Days == Nat \cup {NoDay}

NoOrder == [size |-> 0]
Order ==
    [phase : Phase, price : Nat, ask : Nat, size : Nat \ {0}, pair : Nat,
     matched : Nat, errors : Nat]

\* A pair whose rest leg is not delivered yet: n shares hedged at `price`,
\* worth `net` a share once booked.
NoPair == [n |-> 0]
Pair == [phase : Phase, net : Int, price : Nat, n : Nat \ {0}]

\* n shares booked as wholly lost while they are still held.
NoMark == [n |-> 0]
Mark == [phase : Phase, n : Nat \ {0}]

Snapshot ==
    [day : Days, stake_today : Nat, fills_today : Nat, pnl_today : Int,
     stake_by_phase : [Phase -> Nat], pnl_by_phase : [Phase -> Int],
     inplay_budget_halted : BOOLEAN, inplay_halted : BOOLEAN]

\* hedging: inside the hedge chain; raised: the chain raised; stopping: the
\* fill is consumed and the in-play rails were judged; settling: a pending
\* pair was resolved.
Idle == [stage |-> "idle"]
Running ==
    [stage : {"hedging", "raised", "stopping", "settling"}, key : Keys,
     order : Order \cup {NoOrder}, n : Nat, bad : BOOLEAN, trips : BOOLEAN,
     todo : SUBSET Keys]

Stage == handler.stage
OpenKeys == {k \in Keys : open_orders[k] # NoOrder}
OpenInplay == {k \in OpenKeys : open_orders[k].phase = "inplay"}

\* TypeOK: every variable stays in the range the code keeps it in.
TypeOK ==
    /\ caps \in CapsRecord
    /\ open_orders \in [Keys -> Order \cup {NoOrder}]
    /\ pending \in [Keys -> Pair \cup {NoPair}]
    /\ marks \in [Keys -> Mark \cup {NoMark}]
    /\ inplay_halted \in BOOLEAN
    /\ latched \subseteq {"orphan_position", "booking_quarantine"}
    /\ utc \in Nat
    /\ day \in Days
    /\ file \in Snapshot
    /\ handler \in Running \cup {Idle}

-----------------------------------------------------------------------------
\* Mutation of Persist: the in-play circuit is not written.
PersistNoCircuit(c, ih) ==
    [day |-> utc,
     stake_today |-> c.stake_today,
     fills_today |-> c.fills_today,
     pnl_today |-> c.pnl_today,
     stake_by_phase |-> c.stake_by_phase,
     pnl_by_phase |-> c.pnl_by_phase,
     inplay_budget_halted |-> c.inplay_budget_halted,
     inplay_halted |-> FALSE]

\* persist_daily_caps: the label is the wall clock's day, not the counters'.
Persist(c, ih) ==
    [day |-> utc,
     stake_today |-> c.stake_today,
     fills_today |-> c.fills_today,
     pnl_today |-> c.pnl_today,
     stake_by_phase |-> c.stake_by_phase,
     pnl_by_phase |-> c.pnl_by_phase,
     inplay_budget_halted |-> c.inplay_budget_halted,
     inplay_halted |-> ih]

Init ==
    /\ caps = FreshCaps
    /\ open_orders = [k \in Keys |-> NoOrder]
    /\ pending = [k \in Keys |-> NoPair]
    /\ marks = [k \in Keys |-> NoMark]
    /\ inplay_halted = FALSE
    /\ latched = {}
    /\ utc = 0
    /\ day = NoDay
    /\ file = [Persist(FreshCaps, FALSE) EXCEPT !.day = NoDay]
    /\ handler = Idle

-----------------------------------------------------------------------------
(* Placing and closing.                                                    *)

Eligible(ph) ==
    /\ ~caps.halted
    /\ ph = "inplay" => ~inplay_halted /\ ~caps.inplay_budget_halted

Fits(c, n, px, ask, depth, ph) ==
    /\ n * px <= QuoteMax
    /\ n * (px + ask) <= MaxPairStake
    /\ n * (px + ask) <= DailyStakeHeadroom(c, ph)
    /\ n <= depth

\* plan_size: the largest size that fits every constraint, refused when it
\* is below the venue minimum.
PlansSize(c, n, px, ask, depth, ph) ==
    /\ n >= VenueMin
    /\ Fits(c, n, px, ask, depth, ph)
    /\ ~Fits(c, n + 1, px, ask, depth, ph)

\* What ending order o gives back: its slot and what it still reserves.
Released(c, o) == OnClose(c, o.pair, o.phase)

\* Mutation of AfterCancel: a reprice keeps the replaced order's slot.
AfterCancelKept(k) == caps

\* A reprice has first cancelled the order that rested under the key.
AfterCancel(k) ==
    IF open_orders[k] = NoOrder THEN caps ELSE Released(caps, open_orders[k])

\* Placing n shares of k at px: a quote the caps allow may still be refused
\* later (venue cash, game slot, stack guard, placement error); a refusal
\* leaves the key without an order.
Place(k, ph, px, ask, n, placed) ==
    LET c == AfterCancel(k)
        pair == n * (px + ask)
        asked == CanPlaceCaps(c, pair, ph)
    IN  /\ placed => CanPlace(c, pair, ph)
        /\ caps' = IF placed THEN OnOpen(asked, pair, ph) ELSE asked
        /\ open_orders' = [open_orders EXCEPT ![k] =
             IF placed
             THEN [phase |-> ph, price |-> px, ask |-> ask, size |-> n,
                   pair |-> pair, matched |-> 0, errors |-> 0]
             ELSE NoOrder]

\* place_or_reprice with a plan.
PlaceOrReprice(k) ==
    /\ handler = Idle
    /\ \E ph \in Phase, px \in RestPrices, ask \in HedgePrices,
          depth \in Depths, n \in 1..QuoteMax, placed \in BOOLEAN :
        /\ Eligible(ph)
        /\ PlansSize(AfterCancel(k), n, px, ask, depth, ph)
        /\ Place(k, ph, px, ask, n, placed)
    /\ UNCHANGED <<pending, marks, inplay_halted, latched, utc, day, file,
                   handler>>

\* _finish_cancel and _release_stale.  A sweep drains the off-loop cancel
\* results first, so other orders may also close inside a handler.
Close(k) ==
    /\ k \in OpenKeys
    /\ handler # Idle => handler.key # k
    /\ caps' = Released(caps, open_orders[k])
    /\ open_orders' = [open_orders EXCEPT ![k] = NoOrder]
    /\ UNCHANGED <<pending, marks, inplay_halted, latched, utc, day, file,
                   handler>>

\* poll_open_orders ends by making the slot counter equal what is tracked.
HealSlots ==
    /\ handler = Idle
    /\ caps.open_quotes # Cardinality(OpenKeys)
    /\ caps' = [caps EXCEPT !.open_quotes = Cardinality(OpenKeys)]
    /\ UNCHANGED <<open_orders, pending, marks, inplay_halted, latched, utc,
                   day, file, handler>>

-----------------------------------------------------------------------------
(***************************************************************************)
(* The hedge chain's outcomes for n shares of order o, from caps c with    *)
(* the rest leg committed.  `bad` is the in-play circuit's verdict on the  *)
(* realized result, `latch` the latch the outcome sets.                    *)
(***************************************************************************)
Bad(o, n, pnl) == o.phase = "inplay" /\ pnl <= -(n * InplayHaltLoss)

Latch(c, why) ==
    IF why = "none" THEN c
    ELSE [c EXCEPT !.halted = TRUE, !.halt_reason = why]

Outcome(c, bad, pair, latch) ==
    [caps |-> Latch(c, latch), bad |-> bad, pair |-> pair, latch |-> latch]

\* The pair locked at hp: the hedge leg committed, the fill counted, booked.
Locked(c, o, n, hp) ==
    LET pnl == n * (Payout - o.price - hp)
    IN  Outcome(OnFill(CommitStake(c, n * hp, o.phase), pnl, TRUE, o.phase),
                Bad(o, n, pnl), NoPair, "none")

\* The rest leg is not delivered yet: the hedge and the fill slot count
\* now, the pnl waits.
Deferred(c, o, n, hp) ==
    LET net == Payout - o.price - hp
    IN  Outcome(OnFill(CommitStake(c, n * hp, o.phase), 0, TRUE, o.phase),
                Bad(o, n, n * net),
                [phase |-> o.phase, net |-> net, price |-> hp, n |-> n], "none")

\* The pair's numbers are impossible: nothing is booked, quarantined.
Refused(c) == Outcome(c, FALSE, NoPair, "booking_quarantine")

\* Declined or missed: the naked shares sold at bid, verified flat.
Unwound(c, o, n, bid) ==
    LET pnl == -(n * (o.price - bid))
    IN  Outcome(CommitStake(OnFill(c, pnl, FALSE, o.phase), n * bid, o.phase),
                Bad(o, n, pnl), NoPair, "none")

\* The unwind did not verify: the whole cost is booked as lost, marked
\* provisional, and the position latched as an orphan unless one is already.
Failed(c, o, n) ==
    Outcome(OnFill(c, -(n * o.price), FALSE, o.phase),
            Bad(o, n, -(n * o.price)), NoPair,
            IF "orphan_position" \in latched THEN "none" ELSE "orphan_position")

\* One of n shares hedged at hp and booked, the rest sold at bid: one fill.
Partial(c, o, n, hp, bid) ==
    LET sub == Payout - o.price - hp
        cost == (n - 1) * (o.price - bid)
        booked == OnFill(CommitStake(c, hp, o.phase), sub, TRUE, o.phase)
    IN  Outcome(CommitStake(AdjustPnl(booked, -cost, o.phase), (n - 1) * bid,
                            o.phase),
                Bad(o, n, sub - cost), NoPair, "none")

\* Every way the chain can end for n new shares of order k.
Outcomes(k, n) ==
    LET o == open_orders[k]
        c == CommitStake(caps, n * o.price, o.phase)
    IN  {Locked(c, o, n, hp) : hp \in HedgePrices}
        \cup (IF pending[k] = NoPair
              THEN {Deferred(c, o, n, hp) : hp \in HedgePrices} ELSE {})
        \cup (IF n > 1
              THEN {Partial(c, o, n, hp, bid) : hp, bid \in HedgePrices}
              ELSE {})
        \cup {Unwound(c, o, n, bid) : bid \in HedgePrices}
        \cup {Refused(c)}

\* Mutation of SweepAll: the order under hedge is swept as any other.
SweepEvery(k) == OpenKeys

\* What cancel_all may close while order k is being hedged: k itself has a
\* fill it has not consumed, so only an absent read confirms it cancelled.
SweepAll(k) == OpenKeys \ (IF EmptyReads THEN {} ELSE {k})

\* The handler's locals when the chain ended in outcome r.
InChain(stage, k, n, r) ==
    [stage |-> stage, key |-> k, order |-> open_orders[k], n |-> n,
     bad |-> r.bad, trips |-> FALSE,
     todo |-> IF r.latch \in {"none"} \cup latched THEN {} ELSE SweepAll(k)]

\* _hedge_fill for n newly matched shares, up to the latch it may set and
\* before the cancel_all that follows a latch.
Book(k) ==
    /\ handler = Idle
    /\ k \in OpenKeys
    /\ caps.stake_today <= MaxStake
    /\ \E n \in 1..(open_orders[k].size - open_orders[k].matched) :
        LET o == open_orders[k]
            fail == Failed(CommitStake(caps, n * o.price, o.phase), o, n)
        IN  \E r \in Outcomes(k, n) \cup {fail} :
            /\ caps' = r.caps
            /\ pending' = IF r.pair = NoPair THEN pending
                          ELSE [pending EXCEPT ![k] = r.pair]
            /\ marks' = IF r # fail THEN marks
                        ELSE [marks EXCEPT ![k] = [phase |-> o.phase, n |-> n]]
            /\ latched' = latched \cup ({r.latch} \ {"none"})
            /\ handler' = InChain("hedging", k, n, r)
    /\ UNCHANGED <<open_orders, inplay_halted, utc, day, file>>

\* _on_hedge_exception: the rest leg is already committed, the fill is not
\* consumed, nothing is persisted; the latch comes at the last raise allowed.
HedgeRaises(k) ==
    /\ handler = Idle
    /\ k \in OpenKeys
    /\ caps.stake_today <= MaxStake
    /\ open_orders[k].errors < MaxErrors
    /\ \E n \in 1..(open_orders[k].size - open_orders[k].matched) :
        LET o == open_orders[k]
            latches == /\ o.errors + 1 >= MaxHedgeErrors
                       /\ "orphan_position" \notin latched
            r == Outcome(CommitStake(caps, n * o.price, o.phase), FALSE, NoPair,
                         IF latches THEN "orphan_position" ELSE "none")
        IN  /\ caps' = r.caps
            /\ latched' = latched \cup ({r.latch} \ {"none"})
            /\ handler' = InChain("raised", k, n, r)
    /\ open_orders' = [open_orders EXCEPT ![k].errors = @ + 1]
    /\ UNCHANGED <<pending, marks, inplay_halted, utc, day, file>>

Abandon ==
    /\ Stage = "raised"
    /\ handler.todo = {}
    /\ handler' = Idle
    /\ UNCHANGED <<caps, open_orders, pending, marks, inplay_halted, latched,
                   utc, day, file>>

\* One forced cancel of a sweep, confirmed or not.  A fully matched order is
\* confirmed cancelled only when the venue reads it back as absent.
Sweep(k) ==
    /\ handler # Idle
    /\ k \in handler.todo
    /\ handler' = [handler EXCEPT !.todo = @ \ {k}]
    /\ \/ UNCHANGED <<caps, open_orders>>
       \/ /\ k \in OpenKeys
          /\ open_orders[k].matched < open_orders[k].size \/ EmptyReads
          /\ caps' = Released(caps, open_orders[k])
          /\ open_orders' = [open_orders EXCEPT ![k] = NoOrder]
    /\ UNCHANGED <<pending, marks, inplay_halted, latched, utc, day, file>>

\* _check_inplay_budget and _inplay_halt_if_bad: in-play stops for the day
\* when its sub-cap broke or the result at hand is bad.
TripsInplay(c, bad) == ~inplay_halted /\ (c.inplay_budget_halted \/ bad)

\* The fill is consumed and the counters written; then the in-play rails.
Consume ==
    /\ Stage = "hedging"
    /\ handler.todo = {}
    /\ LET k == handler.key
           trips == TripsInplay(caps, handler.bad)
       IN  /\ open_orders' =
                IF k \notin OpenKeys THEN open_orders
                ELSE [open_orders EXCEPT ![k].matched = @ + handler.n,
                                         ![k].errors = 0]
           /\ inplay_halted' = (inplay_halted \/ trips)
           /\ handler' =
                [handler EXCEPT !.stage = "stopping", !.trips = trips,
                                !.todo = IF trips THEN OpenInplay ELSE {}]
    /\ file' = Persist(caps, inplay_halted)
    /\ UNCHANGED <<caps, pending, marks, latched, utc, day>>

\* The end of _on_fill_detected: a complete order is popped and closed; the
\* remainder of a partial one is cancelled when a rail has stopped its phase.
Finish ==
    /\ Stage = "stopping"
    /\ handler.todo = {}
    /\ LET k == handler.key
           o == handler.order
           full == o.matched + handler.n >= o.size
           stopped == caps.halted \/ (o.phase = "inplay" /\ inplay_halted)
           gone == [open_orders EXCEPT ![k] = NoOrder]
       IN  \/ /\ full
              /\ caps' = Released(caps, o)
              /\ open_orders' = gone
           \/ /\ ~full /\ stopped /\ k \in OpenKeys
              /\ caps' = Released(caps, o)
              /\ open_orders' = gone
           \/ /\ ~full
              /\ UNCHANGED <<caps, open_orders>>
    /\ file' = IF handler.trips THEN Persist(caps, TRUE) ELSE file
    /\ handler' = Idle
    /\ UNCHANGED <<pending, marks, inplay_halted, latched, utc, day>>

-----------------------------------------------------------------------------
(* Pending pairs and restated marks.                                       *)

\* _resolve_pending: confirmed pairs book their pnl; of a phantom the
\* unpaired hedge is sold at bid.  Neither is persisted unless in-play trips.
ResolvePending(k) ==
    /\ handler = Idle
    /\ pending[k] # NoPair
    /\ \E bid \in HedgePrices, confirmed \in BOOLEAN :
        LET p == pending[k]
            cost == p.n * (p.price - bid)
            c == IF confirmed THEN AdjustPnl(caps, p.n * p.net, p.phase)
                 ELSE CommitStake(AdjustPnl(caps, -cost, p.phase), p.n * bid,
                                  p.phase)
            bad == ~confirmed /\ Bad(p, p.n, -cost)
            trips == TripsInplay(c, bad)
        IN  /\ caps' = c
            /\ inplay_halted' = (inplay_halted \/ trips)
            /\ handler' = IF trips
                          THEN [stage |-> "settling", key |-> k,
                                order |-> NoOrder, n |-> 0, bad |-> bad,
                                trips |-> TRUE, todo |-> OpenInplay]
                          ELSE Idle
    /\ pending' = [pending EXCEPT ![k] = NoPair]
    /\ UNCHANGED <<open_orders, marks, latched, utc, day, file>>

Settle ==
    /\ Stage = "settling"
    /\ handler.todo = {}
    /\ file' = Persist(caps, TRUE)
    /\ handler' = Idle
    /\ UNCHANGED <<caps, open_orders, pending, marks, inplay_halted, latched,
                   utc, day>>

\* settle_provisional_marks: a position booked as wholly lost was closed at
\* bid, and the difference comes back to whatever day it is now.
Restate(k) ==
    /\ handler = Idle
    /\ marks[k] # NoMark
    /\ caps.pnl_today <= MaxGain
    /\ \E bid \in HedgePrices :
        caps' = AdjustPnl(caps, marks[k].n * bid, marks[k].phase)
    /\ file' = Persist(caps', inplay_halted)
    /\ marks' = [marks EXCEPT ![k] = NoMark]
    /\ UNCHANGED <<open_orders, pending, inplay_halted, latched, utc, day,
                   handler>>

-----------------------------------------------------------------------------
(* The clock, the daily file, crashes and the orphan's release.            *)

Midnight ==
    /\ utc < MaxUtc
    /\ utc' = utc + 1
    /\ UNCHANGED <<caps, open_orders, pending, marks, inplay_halted, latched,
                   day, file, handler>>

RollDay ==
    /\ handler = Idle
    /\ day # utc
    /\ day' = utc
    /\ inplay_halted' = FALSE
    /\ caps' = RollCaps(caps)
    /\ file' = Persist(caps', FALSE)
    /\ UNCHANGED <<open_orders, pending, marks, latched, utc, handler>>

\* maybe_persist_daily_caps, from the heartbeat.
Heartbeat ==
    /\ handler = Idle
    /\ file' = Persist(caps, inplay_halted)
    /\ UNCHANGED <<caps, open_orders, pending, marks, inplay_halted, latched,
                   utc, day, handler>>

\* verify_latched_orphan found the position flat or explained.
ClearOrphan ==
    /\ handler = Idle
    /\ "orphan_position" \in latched
    /\ latched' = latched \ {"orphan_position"}
    /\ caps' = IF caps.halt_reason = "orphan_position"
               THEN [caps EXCEPT !.halted = FALSE, !.halt_reason = "none"]
               ELSE caps
    /\ UNCHANGED <<open_orders, pending, marks, inplay_halted, utc, day, file,
                   handler>>

\* _load_daily_caps, then the latch files, the quarantine last.
Restored ==
    LET c == IF file.day = utc
             THEN [FreshCaps EXCEPT
                     !.stake_today = file.stake_today,
                     !.fills_today = file.fills_today,
                     !.pnl_today = file.pnl_today,
                     !.stake_by_phase = file.stake_by_phase,
                     !.pnl_by_phase = file.pnl_by_phase,
                     !.inplay_budget_halted = file.inplay_budget_halted]
             ELSE FreshCaps
    IN  IF latched = {} THEN c
        ELSE [c EXCEPT !.halted = TRUE, !.halt_reason =
                IF "booking_quarantine" \in latched THEN "booking_quarantine"
                ELSE "orphan_position"]

\* A crash at any point and the restart after it: what was in memory only is
\* gone and the startup sweep cancels the orders left resting.
Restart ==
    /\ caps' = Restored
    /\ open_orders' = [k \in Keys |-> NoOrder]
    /\ pending' = [k \in Keys |-> NoPair]
    /\ inplay_halted' = (file.day = utc /\ file.inplay_halted)
    /\ day' = IF file.day = utc THEN utc ELSE NoDay
    /\ handler' = Idle
    /\ UNCHANGED <<marks, latched, utc, file>>

Next ==
    \/ \E k \in Keys :
        \/ PlaceOrReprice(k)
        \/ Close(k)
        \/ Book(k)
        \/ HedgeRaises(k)
        \/ Sweep(k)
        \/ ResolvePending(k)
        \/ Restate(k)
    \/ HealSlots
    \/ Abandon
    \/ Consume
    \/ Finish
    \/ Settle
    \/ Midnight
    \/ RollDay
    \/ Heartbeat
    \/ ClearOrphan
    \/ Restart

Spec == Init /\ [][Next]_vars

-----------------------------------------------------------------------------
(* Properties.                                                             *)

\* The slot counter is the number of orders the executor tracks: on_open
\* and on_close pair up over every path an order can end by (cancel, stale
\* release, complete fill, sweep, crash), in the middle of a handler too.
SlotsBacked == caps.open_quotes = Cardinality(OpenKeys)

\* Even when the venue reads filled orders as absent, the counter never
\* exceeds the tracked orders: no path leaks a slot for the day.
NoSlotLeaked == caps.open_quotes <= Cardinality(OpenKeys)

\* At no moment, sweeps included, do more orders rest than max_open_quotes.
SlotLimit == Cardinality(OpenKeys) <= MaxOpenQuotes

\* What the orders of S still reserve.
Projected(S) == MapThenSumSet(LAMBDA k : open_orders[k].pair, S)

\* Every reserved cent belongs to an order that still rests, in the pool of
\* the phase that order was placed in, and the total is the sum of the pools.
ReservationsBacked ==
    /\ \A ph \in Phase :
         caps.reserved_by_phase[ph] =
             Projected({k \in OpenKeys : open_orders[k].phase = ph})
    /\ caps.reserved_stake = Projected(OpenKeys)

\* The per-phase splits add up to the totals the shared rails read, through
\* every booking, day roll, crash and reload, on disk as in memory.
PhasesAddUp == AddsUp(caps) /\ AddsUp(file)

\* A latched orphan keeps live quoting halted: across midnight, a reload, a
\* later quarantine, and whatever halted the day before it.
OrphanHalts == "orphan_position" \in latched => caps.halted

\* The same of a booking quarantine, which only a human may lift.
QuarantineHalts == "booking_quarantine" \in latched => caps.halted


\* Key k gets a new resting order in this step.
Places(k) ==
    /\ open_orders'[k] # open_orders[k]
    /\ open_orders'[k] # NoOrder
    /\ open_orders'[k].matched = 0
    /\ open_orders'[k].errors = 0

\* A quote never comes to rest on a day whose realized loss has reached its
\* limit (for in-play also its own limit), although the halt that says so is
\* not on disk and another latch may have displaced its reason.
LossStopsPlacing ==
    [][\A k \in Keys : Places(k) =>
         /\ caps.pnl_today > -MaxDailyLoss
         /\ open_orders'[k].phase = "inplay" /\ InplayMaxLoss > 0
              => caps.pnl_by_phase["inplay"] > -InplayMaxLoss]_vars

\* What a placement adds stays inside the phase's own pool, and leaves what
\* the other phase may still place as it was when the pools are fenced.
PoolsRespected ==
    [][\A k \in Keys : Places(k) =>
         LET ph == open_orders'[k].phase
         IN  /\ CommittedStake(caps', ph) <= PoolFor(ph)
             /\ \A other \in Phase \ {ph} :
                  InplayPool > 0 =>
                    CommittedStake(caps', other) <= CommittedStake(caps, other)
       ]_vars

\* While the counters are today's nothing, a crash between two handlers
\* included, takes back a counted fill or lets a stopped in-play resume.
RailsSurvive ==
    [][handler = Idle /\ day = utc =>
         /\ caps'.fills_today >= caps.fills_today
         /\ (inplay_halted \/ caps.inplay_budget_halted) =>
                (inplay_halted \/ caps.inplay_budget_halted)']_vars

\* The same of the circuit alone when the crash may fall inside a handler: this
\* one does not hold, the circuit is written down after its sweep (README, 5).
CircuitSurvivesCrash == [][inplay_halted /\ day = utc => inplay_halted']_vars
=============================================================================
