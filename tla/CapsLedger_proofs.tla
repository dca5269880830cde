------------------------- MODULE CapsLedger_proofs -------------------------
(***************************************************************************)
(* Proofs about CapsLedger, for every set of keys, every limit and every   *)
(* price.                                                                  *)
(***************************************************************************)
EXTENDS CapsLedger, SumTheorems, TLAPS

-----------------------------------------------------------------------------
(* What the methods of the live caps keep.                                 *)

\* What the resting orders reserve, in total and per phase, is the same in d.
SameReserve(c, d) ==
    d.reserved_stake = c.reserved_stake /\ d.reserved_by_phase = c.reserved_by_phase

\* d keeps c's type, slots, reservations, sums and halt: what every booking
\* method does.
Books(c, d) ==
    /\ d \in CapsRecord
    /\ d.open_quotes = c.open_quotes
    /\ SameReserve(c, d)
    /\ AddsUp(c) => AddsUp(d)
    /\ c.halted => d.halted /\ d.halt_reason = c.halt_reason
    /\ ~c.halted /\ d.halted => d.halt_reason # "none"

\* Raising one phase's share raises the sum of the shares by as much.
LEMMA AddToNat ==
    ASSUME NEW f \in [Phase -> Nat], NEW ph \in Phase, NEW n \in Nat
    PROVE  LET g == AddTo(f, ph, n)
           IN  g \in [Phase -> Nat]
               /\ g["pre"] + g["inplay"] = f["pre"] + f["inplay"] + n
  BY DEF AddTo, Phase

\* Adding to one phase adds as much to the sum of both.
LEMMA AddToInt ==
    ASSUME NEW f \in [Phase -> Int], NEW ph \in Phase, NEW n \in Int
    PROVE  LET g == AddTo(f, ph, n)
           IN  g \in [Phase -> Int]
               /\ g["pre"] + g["inplay"] = f["pre"] + f["inplay"] + n
  BY DEF AddTo, Phase

\* A reservation floored at zero stays a natural number.
LEMMA TakeFromNat ==
    ASSUME NEW f \in [Phase -> Nat], NEW ph \in Phase, NEW n \in Nat
    PROVE  TakeFrom(f, ph, n) \in [Phase -> Nat]
  BY DEF TakeFrom, Floor0, Phase

\* Booking after booking is a booking.
LEMMA BooksTrans ==
    ASSUME NEW c \in CapsRecord, NEW d \in CapsRecord, NEW e,
           c.halted => c.halt_reason # "none",
           Books(c, d), Books(d, e)
    PROVE  Books(c, e)
  BY DEF Books, SameReserve

\* The caps object of a fresh process has its type and its sums.
LEMMA FreshCapsType ==
    /\ FreshCaps \in CapsRecord
    /\ AddsUp(FreshCaps)
    /\ FreshCaps.open_quotes = 0
    /\ FreshCaps.reserved_stake = 0
    /\ FreshCaps.reserved_by_phase = [ph \in Phase |-> 0]
    /\ ~FreshCaps.halted
  BY DEF FreshCaps, CapsRecord, Phase, HaltReasons, AddsUp

\* _halt latches a reason unless one is latched, and touches nothing else.
LEMMA HaltBooks ==
    ASSUME NEW c \in CapsRecord, NEW why \in HaltReasons \ {"none"}
    PROVE  Books(c, Halt(c, why))
  BY DEF Halt, CapsRecord, Books, SameReserve, AddsUp

\* The in-play loss check may halt and changes no money.
LEMMA CheckInplayLossBooks ==
    ASSUME NEW c \in CapsRecord
    PROVE  /\ Books(c, CheckInplayLoss(c))
           /\ CheckInplayLoss(c).pnl_today = c.pnl_today
  BY DEF CheckInplayLoss, CapsRecord, Books, SameReserve, AddsUp

\* The daily loss check may halt and changes no money.
LEMMA CheckDailyLossBooks ==
    ASSUME NEW c \in CapsRecord
    PROVE  Books(c, CheckDailyLoss(c))
  <1>1. "max_daily_loss_usd" \in HaltReasons \ {"none"}
    BY DEF HaltReasons, StickyHalts
  <1>2. Books(c, Halt(c, "max_daily_loss_usd"))
    BY <1>1, HaltBooks
  <1>3. Books(c, c)
    BY DEF Books, SameReserve
  <1> QED BY <1>2, <1>3 DEF CheckDailyLoss

\* can_place may latch a halt or the in-play sub-cap, nothing more.
LEMMA CanPlaceCapsBooks ==
    ASSUME NEW c \in CapsRecord, NEW proj \in Nat, NEW ph \in Phase
    PROVE  Books(c, CanPlaceCaps(c, proj, ph))
  <1>1. {"max_daily_loss_usd", "max_daily_stake_usd"} \subseteq HaltReasons \ {"none"}
    BY DEF HaltReasons, StickyHalts
  <1>2. Books(c, Halt(c, "max_daily_loss_usd"))
        /\ Books(c, Halt(c, "max_daily_stake_usd"))
    BY <1>1, HaltBooks
  <1>3. Books(c, c)
    BY DEF Books, SameReserve
  <1>4. Books(c, InplayChecked(c, ph))
    BY <1>3, CheckInplayLossBooks DEF InplayChecked
  <1> QED BY <1>2, <1>4 DEF CanPlaceCaps

\* commit_stake adds the same stake to the total and to one phase.
LEMMA CommitStakeBooks ==
    ASSUME NEW c \in CapsRecord, NEW usd \in Nat, NEW ph \in Phase
    PROVE  Books(c, CommitStake(c, usd, ph))
  <1>1. c.stake_by_phase \in [Phase -> Nat] /\ c.stake_today \in Nat
    BY DEF CapsRecord
  <1>2. /\ AddTo(c.stake_by_phase, ph, usd) \in [Phase -> Nat]
        /\ c.stake_today + usd \in Nat
    BY <1>1, AddToNat
  <1>3. CommitStake(c, usd, ph) \in CapsRecord
    BY <1>2 DEF CommitStake, CapsRecord
  <1>4. AddsUp(c) => AddsUp(CommitStake(c, usd, ph))
    BY <1>1, AddToNat DEF CommitStake, CapsRecord, AddsUp
  <1> QED BY <1>3, <1>4 DEF CommitStake, CapsRecord, Books, SameReserve

\* Restating the day's pnl keeps its sums and re-checks both loss rails.
LEMMA AdjustPnlBooks ==
    ASSUME NEW c \in CapsRecord, NEW usd \in Int, NEW ph \in Phase,
           c.halted => c.halt_reason # "none"
    PROVE  Books(c, AdjustPnl(c, usd, ph))
  <1> DEFINE g == AddTo(c.pnl_by_phase, ph, usd)
             d == [c EXCEPT !.pnl_today = @ + usd, !.pnl_by_phase = g]
             e == CheckInplayLoss(d)
  <1>0. c.pnl_by_phase \in [Phase -> Int] /\ c.pnl_today \in Int
    BY DEF CapsRecord
  <1>a. /\ g \in [Phase -> Int]
        /\ g["pre"] + g["inplay"]
             = c.pnl_by_phase["pre"] + c.pnl_by_phase["inplay"] + usd
    BY <1>0, AddToInt
  <1>1. d \in CapsRecord
    <2>1. c.pnl_today + usd \in Int
      BY <1>0
    <2> HIDE DEF g
    <2> QED BY <2>1, <1>a DEF CapsRecord
  <1>2. AddsUp(c) => AddsUp(d)
    <2>1. /\ d.pnl_by_phase = g /\ d.pnl_today = c.pnl_today + usd
          /\ d.stake_by_phase = c.stake_by_phase
          /\ d.stake_today = c.stake_today
      BY DEF CapsRecord
    <2> HIDE DEF d, g
    <2> QED BY <2>1, <1>0, <1>a DEF AddsUp
  <1>3. Books(c, d)
    BY <1>1, <1>2 DEF CapsRecord, Books, SameReserve
  <1>4. Books(d, e)
    BY <1>1, CheckInplayLossBooks
  <1>5. e \in CapsRecord
    BY <1>4 DEF Books, SameReserve
  <1>6. Books(e, CheckDailyLoss(e))
    BY <1>5, CheckDailyLossBooks
  <1>7. d.halted => d.halt_reason # "none"
    BY DEF CapsRecord
  <1>8. Books(d, CheckDailyLoss(e))
    <2> HIDE DEF d, e
    <2> QED BY <1>1, <1>4, <1>5, <1>6, <1>7, BooksTrans
  <1>9. Books(c, CheckDailyLoss(e))
    <2> HIDE DEF d, e
    <2> QED BY <1>1, <1>3, <1>8, BooksTrans
  <1> QED BY <1>9 DEF AdjustPnl

\* on_fill books a fill's pnl, or latches the implausible one and books none.
LEMMA OnFillBooks ==
    ASSUME NEW c \in CapsRecord, NEW pnl \in Int, NEW locked \in BOOLEAN,
           NEW ph \in Phase, c.halted => c.halt_reason # "none"
    PROVE  Books(c, OnFill(c, pnl, locked, ph))
  <1> DEFINE d == [c EXCEPT !.fills_today = @ + 1]
  <1>1. d \in CapsRecord /\ Books(c, d) /\ (d.halted => d.halt_reason # "none")
    BY DEF CapsRecord, Books, SameReserve, AddsUp
  <1>2. "implausible_fill_pnl" \in HaltReasons \ {"none"}
    BY DEF HaltReasons, StickyHalts
  <1> HIDE DEF d
  <1>3. Books(d, Halt(d, "implausible_fill_pnl")) /\ Books(d, AdjustPnl(d, pnl, ph))
    BY <1>1, <1>2, HaltBooks, AdjustPnlBooks
  <1>4. Books(c, Halt(d, "implausible_fill_pnl")) /\ Books(c, AdjustPnl(d, pnl, ph))
    BY <1>1, <1>3, BooksTrans
  <1> QED BY <1>4 DEF OnFill, d

\* on_open takes one slot and changes neither the sums nor the halt.
LEMMA OnOpenType ==
    ASSUME NEW c \in CapsRecord, NEW proj \in Nat, NEW ph \in Phase
    PROVE  LET d == OnOpen(c, proj, ph)
           IN  /\ d \in CapsRecord
               /\ d.open_quotes = c.open_quotes + 1
               /\ d.reserved_stake = c.reserved_stake + proj
               /\ d.reserved_by_phase = AddTo(c.reserved_by_phase, ph, proj)
               /\ AddsUp(c) => AddsUp(d)
               /\ d.halted = c.halted /\ d.halt_reason = c.halt_reason
  <1>0. /\ AddTo(c.reserved_by_phase, ph, proj) \in [Phase -> Nat]
        /\ c.open_quotes + 1 \in Nat /\ c.reserved_stake + proj \in Nat
    BY AddToNat DEF CapsRecord
  <1>1. OnOpen(c, proj, ph) \in CapsRecord
    BY <1>0 DEF OnOpen, CapsRecord
  <1> QED BY <1>1 DEF OnOpen, CapsRecord, AddsUp

\* on_close gives back one slot, never below zero, and changes neither the
\* sums nor the halt.
LEMMA OnCloseType ==
    ASSUME NEW c \in CapsRecord, NEW proj \in Nat, NEW ph \in Phase
    PROVE  LET d == OnClose(c, proj, ph)
           IN  /\ d \in CapsRecord
               /\ d.open_quotes = Floor0(c.open_quotes - 1)
               /\ d.reserved_stake = Floor0(c.reserved_stake - proj)
               /\ d.reserved_by_phase = TakeFrom(c.reserved_by_phase, ph, proj)
               /\ d.pnl_today = c.pnl_today
               /\ d.pnl_by_phase = c.pnl_by_phase
               /\ AddsUp(c) => AddsUp(d)
               /\ d.halted = c.halted /\ d.halt_reason = c.halt_reason
  <1>0. /\ TakeFrom(c.reserved_by_phase, ph, proj) \in [Phase -> Nat]
        /\ Floor0(c.open_quotes - 1) \in Nat
        /\ Floor0(c.reserved_stake - proj) \in Nat
    <2>1. /\ c.reserved_by_phase \in [Phase -> Nat] /\ c.open_quotes \in Nat
          /\ c.reserved_stake \in Nat
      BY DEF CapsRecord
    <2> HIDE DEF CapsRecord
    <2>2. TakeFrom(c.reserved_by_phase, ph, proj) \in [Phase -> Nat]
      BY <2>1, TakeFromNat
    <2>3. Floor0(c.open_quotes - 1) \in Nat /\ Floor0(c.reserved_stake - proj) \in Nat
      BY <2>1 DEF Floor0
    <2> QED BY <2>2, <2>3
  <1>1. OnClose(c, proj, ph) \in CapsRecord
    BY <1>0 DEF OnClose, CapsRecord
  <1> QED BY <1>1 DEF OnClose, CapsRecord, AddsUp

\* A new day zeroes what was spent, keeps the slots, and keeps a sticky halt.
LEMMA RollCapsType ==
    ASSUME NEW c \in CapsRecord
    PROVE  LET d == RollCaps(c)
           IN  /\ d \in CapsRecord
               /\ d.open_quotes = c.open_quotes
               /\ SameReserve(c, d)
               /\ AddsUp(d)
               /\ c.halt_reason \in StickyHalts
                    => d.halted = c.halted /\ d.halt_reason = c.halt_reason
               /\ d.halted => c.halted /\ d.halt_reason = c.halt_reason
  <1>1. "none" \in HaltReasons /\ 0 \in Nat /\ 0 \in Int
    BY DEF HaltReasons
  <1>2. RollCaps(c) \in CapsRecord
    BY <1>1 DEF RollCaps, CapsRecord
  <1>3. AddsUp(RollCaps(c))
    BY DEF RollCaps, CapsRecord, AddsUp, Phase
  <1> QED BY <1>2, <1>3 DEF RollCaps, CapsRecord, SameReserve

-----------------------------------------------------------------------------
(* The ledger.                                                             *)

Latches == {"none", "orphan_position", "booking_quarantine"}

\* A handler inside a fill carries the order it hedges and a positive size.
HandlerOK ==
    Stage \in {"hedging", "stopping"} =>
        handler.order \in Order /\ handler.n \in Nat \ {0}

\* An orphan's halt is sticky, so that no day roll clears it.
OrphanSticky ==
    "orphan_position" \in latched =>
        caps.halted /\ caps.halt_reason \in StickyHalts

LedgerInv ==
    /\ TypeOK
    /\ PhasesAddUp
    /\ caps.halted => caps.halt_reason # "none"
    /\ HandlerOK
    /\ OrphanSticky

-----------------------------------------------------------------------------
(* Arithmetic and record facts.                                            *)

\* Shares times a price is a natural number of dollars.
LEMMA NatProduct ==
    ASSUME NEW a \in Nat, NEW b \in Nat
    PROVE  a * b \in Nat
  OBVIOUS

\* Shares times a price difference is an integer number of dollars.
LEMMA IntProduct ==
    ASSUME NEW a \in Int, NEW b \in Int
    PROVE  a * b \in Int
  OBVIOUS

\* What persist_daily_caps writes is a snapshot with the counters' sums.
LEMMA PersistType ==
    ASSUME NEW c \in CapsRecord, NEW ih \in BOOLEAN, utc \in Nat
    PROVE  /\ Persist(c, ih) \in Snapshot
           /\ AddsUp(c) => AddsUp(Persist(c, ih))
  BY DEF Persist, Snapshot, CapsRecord, Days, AddsUp

\* Latching an orphan or a quarantine changes nothing but the halt.
LEMMA LatchType ==
    ASSUME NEW c \in CapsRecord, NEW why \in Latches
    PROVE  LET d == Latch(c, why)
           IN  /\ d \in CapsRecord
               /\ d.open_quotes = c.open_quotes
               /\ SameReserve(c, d)
               /\ AddsUp(c) => AddsUp(d)
               /\ why # "none" => d.halted /\ d.halt_reason = why
               /\ why = "none" => d = c
  BY DEF Latch, CapsRecord, Latches, HaltReasons, StickyHalts, AddsUp, SameReserve

\* What every outcome of the hedge chain is: typed, with the counters' sums
\* kept, no slot moved, and a halt only ever replaced by the outcome's latch.
OutcomeOK(r, c) ==
    /\ r.caps \in CapsRecord
    /\ r.bad \in BOOLEAN
    /\ r.pair \in Pair \cup {NoPair}
    /\ r.latch \in Latches
    /\ r.caps.open_quotes = c.open_quotes
    /\ SameReserve(c, r.caps)
    /\ AddsUp(c) => AddsUp(r.caps)
    /\ r.caps.halted => r.caps.halt_reason # "none"
    /\ r.latch # "none" => r.caps.halted /\ r.caps.halt_reason = r.latch
    /\ r.latch = "none" /\ c.halted =>
         r.caps.halted /\ r.caps.halt_reason = c.halt_reason

\* An outcome made of caps that stay in the books is a sound outcome.
LEMMA OutcomeType ==
    ASSUME NEW c \in CapsRecord, NEW d, Books(c, d),
           c.halted => c.halt_reason # "none",
           NEW bad \in BOOLEAN, NEW pair \in Pair \cup {NoPair},
           NEW latch \in Latches
    PROVE  OutcomeOK(Outcome(d, bad, pair, latch), c)
  <1>1. d \in CapsRecord /\ (d.halted => d.halt_reason # "none")
    BY DEF Books
  <1> DEFINE e == Latch(d, latch)
  <1>2. /\ e \in CapsRecord
        /\ e.open_quotes = d.open_quotes
        /\ SameReserve(d, e)
        /\ AddsUp(d) => AddsUp(e)
        /\ latch # "none" => e.halted /\ e.halt_reason = latch
        /\ latch = "none" => e = d
    BY <1>1, LatchType
  <1> HIDE DEF e
  <1> DEFINE r == Outcome(d, bad, pair, latch)
  <1>3. r.caps = e /\ r.bad = bad /\ r.pair = pair /\ r.latch = latch
    BY DEF Outcome, e
  <1> HIDE DEF r
  <1>4. OutcomeOK(r, c)
    BY <1>1, <1>2, <1>3 DEF OutcomeOK, Books, SameReserve
  <1> QED BY <1>4 DEF r

-----------------------------------------------------------------------------
(* Every outcome of the hedge chain is an OutcomeOK.                       *)

\* Booking a committed leg and a fill together, in either order.
LEMMA FillThenCommit ==
    ASSUME NEW c \in CapsRecord, c.halted => c.halt_reason # "none",
           NEW usd \in Nat, NEW pnl \in Int, NEW locked \in BOOLEAN,
           NEW ph \in Phase
    PROVE  /\ Books(c, OnFill(CommitStake(c, usd, ph), pnl, locked, ph))
           /\ Books(c, CommitStake(OnFill(c, pnl, locked, ph), usd, ph))
  <1> DEFINE d == CommitStake(c, usd, ph)
             e == OnFill(c, pnl, locked, ph)
  <1>1. Books(c, d) /\ Books(c, e)
    BY CommitStakeBooks, OnFillBooks
  <1>2. /\ d \in CapsRecord /\ (d.halted => d.halt_reason # "none")
        /\ e \in CapsRecord /\ (e.halted => e.halt_reason # "none")
    BY <1>1 DEF Books
  <1> HIDE DEF d, e
  <1>3. Books(d, OnFill(d, pnl, locked, ph)) /\ Books(e, CommitStake(e, usd, ph))
    BY <1>2, CommitStakeBooks, OnFillBooks
  <1>4. Books(c, OnFill(d, pnl, locked, ph)) /\ Books(c, CommitStake(e, usd, ph))
    BY <1>1, <1>2, <1>3, BooksTrans
  <1> QED BY <1>4 DEF d, e

\* Restating the pnl and committing what an unwind sold.
LEMMA AdjustThenCommit ==
    ASSUME NEW c \in CapsRecord, c.halted => c.halt_reason # "none",
           NEW usd \in Nat, NEW pnl \in Int, NEW ph \in Phase
    PROVE  Books(c, CommitStake(AdjustPnl(c, pnl, ph), usd, ph))
  <1> DEFINE d == AdjustPnl(c, pnl, ph)
  <1>1. Books(c, d)
    BY AdjustPnlBooks
  <1>2. d \in CapsRecord /\ (d.halted => d.halt_reason # "none")
    BY <1>1 DEF Books
  <1> HIDE DEF d
  <1>3. Books(d, CommitStake(d, usd, ph))
    BY <1>2, CommitStakeBooks
  <1>4. Books(c, CommitStake(d, usd, ph))
    BY <1>1, <1>2, <1>3, BooksTrans
  <1> QED BY <1>4 DEF d

\* Every outcome of the hedge chain is sound: types kept, sums kept,
\* the halt it leaves has a reason.
LEMMA OutcomesType ==
    ASSUME LedgerInv, NEW k \in Keys, k \in OpenKeys, NEW n \in Nat \ {0},
           NEW r \in Outcomes(k, n) \cup
             {Failed(CommitStake(caps, n * open_orders[k].price,
                                 open_orders[k].phase), open_orders[k], n)}
    PROVE  OutcomeOK(r, caps)
  <1> DEFINE o == open_orders[k]
             c == CommitStake(caps, n * o.price, o.phase)
  <1>1. /\ o \in Order /\ o.phase \in Phase /\ o.price \in Nat
        /\ HedgePrices \subseteq Nat /\ Payout \in Nat /\ InplayHaltLoss \in Nat
    BY CapsLedgerAssumption DEF LedgerInv, TypeOK, OpenKeys, Order
  <1>2. Books(caps, c)
    BY <1>1, NatProduct, CommitStakeBooks DEF LedgerInv, TypeOK
  <1>3. c \in CapsRecord /\ (c.halted => c.halt_reason # "none")
    BY <1>2 DEF Books, LedgerInv
  <1>4. \A p, m : Bad(p, n, m) \in BOOLEAN
    BY DEF Bad
  <1>5. NoPair \in Pair \cup {NoPair}
    OBVIOUS
  <1>6. {"none", "orphan_position", "booking_quarantine"} \subseteq Latches
    BY DEF Latches
  <1>7. \A d, bad, pair, latch :
          /\ Books(c, d) /\ bad \in BOOLEAN /\ latch \in Latches
          /\ pair \in Pair \cup {NoPair}
          => OutcomeOK(Outcome(d, bad, pair, latch), caps)
    <2> SUFFICES ASSUME NEW d, NEW bad \in BOOLEAN, NEW latch \in Latches,
                        NEW pair \in Pair \cup {NoPair}, Books(c, d)
                 PROVE  OutcomeOK(Outcome(d, bad, pair, latch), caps)
      OBVIOUS
    <2> HIDE DEF c
    <2>1. Books(caps, d)
      BY <1>2, <1>3, BooksTrans DEF LedgerInv, TypeOK
    <2> QED BY <2>1, OutcomeType DEF LedgerInv, TypeOK
  <1> HIDE DEF c
  <1>8. ASSUME NEW hp \in HedgePrices
        PROVE  OutcomeOK(Locked(c, o, n, hp), caps)
    <2>1. n * hp \in Nat /\ n * (Payout - o.price - hp) \in Int
      BY <1>1, NatProduct, IntProduct
    <2>2. Books(c, OnFill(CommitStake(c, n * hp, o.phase),
                          n * (Payout - o.price - hp), TRUE, o.phase))
      BY <1>1, <1>3, <2>1, FillThenCommit
    <2> QED BY <1>4, <1>5, <1>6, <1>7, <2>2 DEF Locked
  <1>9. ASSUME NEW hp \in HedgePrices
        PROVE  OutcomeOK(Deferred(c, o, n, hp), caps)
    <2>1. n * hp \in Nat /\ Payout - o.price - hp \in Int
      BY <1>1, NatProduct
    <2>2. Books(c, OnFill(CommitStake(c, n * hp, o.phase), 0, TRUE, o.phase))
      <3>1. n * hp \in Nat /\ 0 \in Int /\ TRUE \in BOOLEAN /\ o.phase \in Phase
        BY <1>1, <2>1
      <3> QED BY <1>3, <3>1, FillThenCommit, Zenon
    <2>3. [phase |-> o.phase, net |-> Payout - o.price - hp, price |-> hp,
           n |-> n] \in Pair \cup {NoPair}
      BY <1>1, <2>1 DEF Pair
    <2> QED BY <1>4, <1>6, <1>7, <2>2, <2>3 DEF Deferred
  <1>10. ASSUME NEW hp \in HedgePrices, NEW bid \in HedgePrices, n > 1
         PROVE  OutcomeOK(Partial(c, o, n, hp, bid), caps)
    <2> DEFINE sub == Payout - o.price - hp
               cost == (n - 1) * (o.price - bid)
               booked == OnFill(CommitStake(c, hp, o.phase), sub, TRUE, o.phase)
    <2>1. /\ hp \in Nat /\ sub \in Int /\ cost \in Int /\ -cost \in Int
          /\ (n - 1) * bid \in Nat
      <3>1. n - 1 \in Nat /\ bid \in Nat /\ o.price - bid \in Int /\ hp \in Nat
        BY <1>1
      <3>2. cost \in Int
        BY <3>1, IntProduct
      <3> QED BY <1>1, <3>1, <3>2, NatProduct
    <2> HIDE DEF sub, cost
    <2>2. Books(c, booked)
      <3>1. hp \in Nat /\ sub \in Int /\ o.phase \in Phase /\ TRUE \in BOOLEAN
        BY <1>1, <2>1
      <3> QED BY <1>3, <3>1, FillThenCommit, Zenon
    <2>3. booked \in CapsRecord /\ (booked.halted => booked.halt_reason # "none")
      BY <1>3, <2>2 DEF Books
    <2> DEFINE d == CommitStake(AdjustPnl(booked, -cost, o.phase), (n - 1) * bid,
                                o.phase)
    <2>4. Books(booked, d)
      <3> HIDE DEF booked
      <3> QED BY <1>1, <2>1, <2>3, AdjustThenCommit
    <2>5. Books(c, d)
      <3> HIDE DEF booked, d
      <3> QED BY <1>3, <2>2, <2>3, <2>4, BooksTrans
    <2> QED BY <1>4, <1>5, <1>6, <1>7, <2>5 DEF Partial, sub, cost
  <1>11. ASSUME NEW bid \in HedgePrices
         PROVE  OutcomeOK(Unwound(c, o, n, bid), caps)
    <2>1. n * bid \in Nat /\ -(n * (o.price - bid)) \in Int
      BY <1>1, NatProduct, IntProduct
    <2>2. Books(c, CommitStake(OnFill(c, -(n * (o.price - bid)), FALSE, o.phase),
                               n * bid, o.phase))
      BY <1>1, <1>3, <2>1, FillThenCommit
    <2> QED BY <1>4, <1>5, <1>6, <1>7, <2>2 DEF Unwound
  <1>12. OutcomeOK(Refused(c), caps)
    <2>1. Books(c, c)
      BY <1>3 DEF Books, SameReserve
    <2> QED BY <1>5, <1>6, <1>7, <2>1 DEF Refused
  <1>13. OutcomeOK(Failed(c, o, n), caps)
    <2>1. -(n * o.price) \in Int
      <3>1. n * o.price \in Nat
        BY <1>1, NatProduct
      <3> QED BY <3>1
    <2>2. Books(c, OnFill(c, -(n * o.price), FALSE, o.phase))
      BY <1>1, <1>3, <2>1, OnFillBooks
    <2> QED BY <1>4, <1>5, <1>6, <1>7, <2>2 DEF Failed
  <1>14. \/ \E hp \in HedgePrices : r = Locked(c, o, n, hp)
         \/ \E hp \in HedgePrices : r = Deferred(c, o, n, hp)
         \/ \E hp, bid \in HedgePrices : n > 1 /\ r = Partial(c, o, n, hp, bid)
         \/ \E bid \in HedgePrices : r = Unwound(c, o, n, bid)
         \/ r = Refused(c)
         \/ r = Failed(c, o, n)
    BY DEF Outcomes, c
  <1> QED BY <1>8, <1>9, <1>10, <1>11, <1>12, <1>13, <1>14
-----------------------------------------------------------------------------
(* Init and every action keep LedgerInv.                                   *)

\* The first start satisfies the invariant.
LEMMA LedgerInit == Init => LedgerInv
  <1> SUFFICES ASSUME Init PROVE LedgerInv
    OBVIOUS
  <1>1. utc \in Nat /\ caps \in CapsRecord /\ AddsUp(caps) /\ ~caps.halted
    BY FreshCapsType DEF Init
  <1>2. Persist(FreshCaps, FALSE) \in Snapshot /\ AddsUp(Persist(FreshCaps, FALSE))
    BY <1>1, PersistType, FreshCapsType DEF Init
  <1>3. file \in Snapshot /\ AddsUp(file)
    <2> DEFINE f == Persist(FreshCaps, FALSE)
    <2>1. file = [f EXCEPT !.day = NoDay]
      BY DEF Init
    <2> HIDE DEF f
    <2> QED BY <1>2, <2>1 DEF f, Snapshot, Days, AddsUp
  <1>4. TypeOK
    BY <1>1, <1>3 DEF Init, TypeOK, Days, NoDay
  <1> QED BY <1>1, <1>3, <1>4
          DEF Init, LedgerInv, PhasesAddUp, HandlerOK, OrphanSticky, Stage, Idle

\* An order that leaves gives back its slot and nothing else.
LEMMA ReleasedType ==
    ASSUME LedgerInv, NEW o \in Order
    PROVE  LET d == Released(caps, o)
           IN  /\ d \in CapsRecord
               /\ d.open_quotes = Floor0(caps.open_quotes - 1)
               /\ d.reserved_stake = Floor0(caps.reserved_stake - o.pair)
               /\ d.reserved_by_phase = TakeFrom(caps.reserved_by_phase, o.phase, o.pair)
               /\ d.pnl_today = caps.pnl_today
               /\ d.pnl_by_phase = caps.pnl_by_phase
               /\ AddsUp(d)
               /\ d.halted = caps.halted /\ d.halt_reason = caps.halt_reason
  <1>1. o.pair \in Nat /\ o.phase \in Phase /\ caps \in CapsRecord /\ AddsUp(caps)
    BY DEF Order, LedgerInv, TypeOK, PhasesAddUp
  <1> QED BY <1>1, OnCloseType DEF Released

\* The cancel inside a reprice keeps the types and frees at most one slot.
LEMMA AfterCancelType ==
    ASSUME LedgerInv, NEW k \in Keys
    PROVE  LET d == AfterCancel(k)
           IN  /\ d \in CapsRecord
               /\ d.open_quotes = IF open_orders[k] = NoOrder
                                  THEN caps.open_quotes
                                  ELSE Floor0(caps.open_quotes - 1)
               /\ d.pnl_today = caps.pnl_today
               /\ d.pnl_by_phase = caps.pnl_by_phase
               /\ AddsUp(d)
               /\ d.halted = caps.halted /\ d.halt_reason = caps.halt_reason
  <1>1. CASE open_orders[k] = NoOrder
    BY <1>1 DEF AfterCancel, LedgerInv, TypeOK, PhasesAddUp
  <1>2. CASE open_orders[k] # NoOrder
    <2>1. open_orders[k] \in Order
      BY <1>2 DEF LedgerInv, TypeOK
    <2> QED BY <1>2, <2>1, ReleasedType DEF AfterCancel
  <1> QED BY <1>1, <1>2

\* What PlaceOrReprice(k) does, with its choices named.
LEMMA PlaceFacts ==
    ASSUME LedgerInv, NEW k \in Keys, PlaceOrReprice(k)
    PROVE  \E ph \in Phase, pair \in Nat, placed \in BOOLEAN, new \in Order :
             LET c == AfterCancel(k)
                 asked == CanPlaceCaps(c, pair, ph)
             IN  /\ placed => CanPlace(c, pair, ph)
                 /\ caps' = IF placed THEN OnOpen(asked, pair, ph) ELSE asked
                 /\ open_orders' = [open_orders EXCEPT ![k] =
                                      IF placed THEN new ELSE NoOrder]
                 /\ new.phase = ph /\ new.pair = pair
  <1>1. PICK ph \in Phase, px \in RestPrices, ask \in HedgePrices,
             depth \in Depths, n \in 1..QuoteMax, placed \in BOOLEAN :
          Place(k, ph, px, ask, n, placed)
    BY Zenon DEF PlaceOrReprice
  <1> DEFINE pair == n * (px + ask)
             new == [phase |-> ph, price |-> px, ask |-> ask, size |-> n,
                     pair |-> pair, matched |-> 0, errors |-> 0]
  <1>2. px \in Nat /\ ask \in Nat /\ n \in Nat \ {0} /\ px + ask \in Nat
    BY CapsLedgerAssumption
  <1>3. pair \in Nat
    BY <1>2, NatProduct
  <1> HIDE DEF pair
  <1>4. new \in Order /\ new.phase = ph /\ new.pair = pair
    BY <1>2, <1>3 DEF Order
  <1>5. LET c == AfterCancel(k)
            asked == CanPlaceCaps(c, pair, ph)
        IN  /\ placed => CanPlace(c, pair, ph)
            /\ caps' = IF placed THEN OnOpen(asked, pair, ph) ELSE asked
            /\ open_orders' = [open_orders EXCEPT ![k] =
                                 IF placed THEN new ELSE NoOrder]
    BY <1>1 DEF Place, pair
  <1> HIDE DEF new
  <1> QED BY <1>3, <1>4, <1>5

\* Placing and repricing preserve the invariant.
LEMMA PlaceStep ==
    ASSUME LedgerInv, NEW k \in Keys, PlaceOrReprice(k)
    PROVE  LedgerInv'
  <1>1. PICK ph \in Phase, pair \in Nat, placed \in BOOLEAN, new \in Order :
             LET c == AfterCancel(k)
                 asked == CanPlaceCaps(c, pair, ph)
             IN  /\ placed => CanPlace(c, pair, ph)
                 /\ caps' = IF placed THEN OnOpen(asked, pair, ph) ELSE asked
                 /\ open_orders' = [open_orders EXCEPT ![k] =
                                      IF placed THEN new ELSE NoOrder]
                 /\ new.phase = ph /\ new.pair = pair
    BY PlaceFacts
  <1> DEFINE c == AfterCancel(k)
             asked == CanPlaceCaps(c, pair, ph)
  <1>2. /\ c \in CapsRecord /\ AddsUp(c)
        /\ c.halted = caps.halted /\ c.halt_reason = caps.halt_reason
    BY AfterCancelType
  <1> HIDE DEF c
  <1>3. Books(c, asked)
    BY <1>2, CanPlaceCapsBooks
  <1>4. /\ asked \in CapsRecord /\ AddsUp(asked)
        /\ asked.halted => asked.halt_reason # "none"
        /\ caps.halted => asked.halted /\ asked.halt_reason = caps.halt_reason
    BY <1>2, <1>3 DEF Books, LedgerInv
  <1> HIDE DEF asked
  <1>5. /\ OnOpen(asked, pair, ph) \in CapsRecord
        /\ AddsUp(OnOpen(asked, pair, ph))
        /\ OnOpen(asked, pair, ph).halted = asked.halted
        /\ OnOpen(asked, pair, ph).halt_reason = asked.halt_reason
    BY <1>4, OnOpenType
  <1>6. caps' = IF placed THEN OnOpen(asked, pair, ph) ELSE asked
    BY <1>1 DEF asked, c
  <1>7. /\ caps' \in CapsRecord /\ AddsUp(caps')
        /\ caps'.halted => caps'.halt_reason # "none"
        /\ caps.halted => caps'.halted /\ caps'.halt_reason = caps.halt_reason
    BY <1>4, <1>5, <1>6
  <1>8. open_orders' \in [Keys -> Order \cup {NoOrder}]
    BY <1>1 DEF LedgerInv, TypeOK
  <1>9. UNCHANGED <<pending, marks, inplay_halted, latched, utc, day, file,
                    handler>>
    BY DEF PlaceOrReprice
  <1> QED BY <1>7, <1>8, <1>9
          DEF LedgerInv, TypeOK, PhasesAddUp, HandlerOK, OrphanSticky, Stage

\* A cancel or a release outside a fill preserves the invariant.
LEMMA CloseStep ==
    ASSUME LedgerInv, NEW k \in Keys, Close(k)
    PROVE  LedgerInv'
  <1>1. open_orders[k] \in Order
    BY DEF Close, OpenKeys, LedgerInv, TypeOK
  <1>2. caps' = Released(caps, open_orders[k])
    BY DEF Close
  <1>3. /\ caps' \in CapsRecord /\ AddsUp(caps')
        /\ caps'.halted = caps.halted /\ caps'.halt_reason = caps.halt_reason
    BY <1>1, <1>2, ReleasedType
  <1> QED BY <1>3 DEF Close, LedgerInv, TypeOK, PhasesAddUp, HandlerOK,
                      OrphanSticky, Stage

\* Sets of keys are finite, so their sizes are numbers.
LEMMA OpenKeysFinite ==
    ASSUME NEW S \in SUBSET Keys
    PROVE  IsFiniteSet(S) /\ Cardinality(S) \in Nat
  BY CapsLedgerAssumption, FS_Subset, FS_CardinalityType

\* Resyncing the slot counter preserves the invariant.
LEMMA HealStep ==
    ASSUME LedgerInv, HealSlots
    PROVE  LedgerInv'
  <1>1. Cardinality(OpenKeys) \in Nat
    BY OpenKeysFinite DEF OpenKeys
  <1>2. /\ caps' \in CapsRecord /\ AddsUp(caps')
        /\ caps'.halted = caps.halted /\ caps'.halt_reason = caps.halt_reason
    BY <1>1 DEF HealSlots, LedgerInv, TypeOK, PhasesAddUp, CapsRecord, AddsUp
  <1> QED BY <1>2 DEF HealSlots, LedgerInv, TypeOK, PhasesAddUp, HandlerOK,
                      OrphanSticky, Stage

\* The end of the hedge chain, returned or raised, whatever its outcome r.
LEMMA ChainStep ==
    ASSUME LedgerInv, NEW k \in Keys, k \in OpenKeys, NEW n \in Nat \ {0},
           NEW r, OutcomeOK(r, caps), NEW stage \in {"hedging", "raised"},
           caps' = r.caps, latched' = latched \cup ({r.latch} \ {"none"}),
           handler' = InChain(stage, k, n, r),
           pending' \in [Keys -> Pair \cup {NoPair}],
           marks' \in [Keys -> Mark \cup {NoMark}],
           open_orders' \in [Keys -> Order \cup {NoOrder}],
           UNCHANGED <<inplay_halted, utc, day, file>>
    PROVE  LedgerInv'
  <1>1. open_orders[k] \in Order
    BY DEF OpenKeys, LedgerInv, TypeOK
  <1>2. SweepAll(k) \subseteq Keys
    BY DEF SweepAll, OpenKeys
  <1>3. handler' \in Running /\ HandlerOK'
    <2>1. (IF r.latch \in {"none"} \cup latched THEN {} ELSE SweepAll(k))
            \in SUBSET Keys
      BY <1>2
    <2>2. r.bad \in BOOLEAN
      BY DEF OutcomeOK
    <2> QED BY <1>1, <2>1, <2>2 DEF InChain, Running, HandlerOK, Stage
  <1>4. latched' \subseteq {"orphan_position", "booking_quarantine"}
    BY DEF OutcomeOK, Latches, LedgerInv, TypeOK
  <1>5. OrphanSticky'
    BY DEF OutcomeOK, Latches, LedgerInv, OrphanSticky, StickyHalts
  <1> QED BY <1>3, <1>4, <1>5 DEF OutcomeOK, LedgerInv, TypeOK, PhasesAddUp

\* Booking any outcome of a fill preserves the invariant.
LEMMA BookStep ==
    ASSUME LedgerInv, NEW k \in Keys, Book(k)
    PROVE  LedgerInv'
  <1> DEFINE o == open_orders[k]
             fail(n) == Failed(CommitStake(caps, n * o.price, o.phase), o, n)
  <1>1. k \in OpenKeys /\ o \in Order
    BY DEF Book, OpenKeys, LedgerInv, TypeOK
  <1>2. PICK n \in 1..(o.size - o.matched) :
          \E r \in Outcomes(k, n) \cup {fail(n)} :
            /\ caps' = r.caps
            /\ pending' = IF r.pair = NoPair THEN pending
                          ELSE [pending EXCEPT ![k] = r.pair]
            /\ marks' = IF r # fail(n) THEN marks
                        ELSE [marks EXCEPT ![k] = [phase |-> o.phase, n |-> n]]
            /\ latched' = latched \cup ({r.latch} \ {"none"})
            /\ handler' = InChain("hedging", k, n, r)
    BY Zenon DEF Book
  <1>3. n \in Nat \ {0}
    BY <1>1 DEF Order
  <1>4. PICK r \in Outcomes(k, n) \cup {fail(n)} :
            /\ caps' = r.caps
            /\ pending' = IF r.pair = NoPair THEN pending
                          ELSE [pending EXCEPT ![k] = r.pair]
            /\ marks' = IF r # fail(n) THEN marks
                        ELSE [marks EXCEPT ![k] = [phase |-> o.phase, n |-> n]]
            /\ latched' = latched \cup ({r.latch} \ {"none"})
            /\ handler' = InChain("hedging", k, n, r)
    BY <1>2, Zenon
  <1>5. OutcomeOK(r, caps)
    BY <1>1, <1>3, OutcomesType
  <1> HIDE DEF fail
  <1>6. pending' \in [Keys -> Pair \cup {NoPair}]
    BY <1>4, <1>5 DEF OutcomeOK, LedgerInv, TypeOK
  <1>7. marks' \in [Keys -> Mark \cup {NoMark}]
    <2>1. [phase |-> o.phase, n |-> n] \in Mark
      BY <1>1, <1>3 DEF Order, Mark
    <2> QED BY <1>4, <2>1 DEF LedgerInv, TypeOK
  <1>8. /\ open_orders' \in [Keys -> Order \cup {NoOrder}]
        /\ UNCHANGED <<inplay_halted, utc, day, file>>
    BY DEF Book, LedgerInv, TypeOK
  <1> QED BY <1>1, <1>3, <1>4, <1>5, <1>6, <1>7, <1>8, ChainStep

\* A hedge chain that raises preserves the invariant, latched or not.
LEMMA RaiseStep ==
    ASSUME LedgerInv, NEW k \in Keys, HedgeRaises(k)
    PROVE  LedgerInv'
  <1> DEFINE o == open_orders[k]
             latches == /\ o.errors + 1 >= MaxHedgeErrors
                        /\ "orphan_position" \notin latched
             latch == IF latches THEN "orphan_position" ELSE "none"
             r(n) == Outcome(CommitStake(caps, n * o.price, o.phase), FALSE,
                             NoPair, latch)
  <1>1. k \in OpenKeys /\ o \in Order
    BY DEF HedgeRaises, OpenKeys, LedgerInv, TypeOK
  <1>2. PICK n \in 1..(o.size - o.matched) :
          /\ caps' = r(n).caps
          /\ latched' = latched \cup ({r(n).latch} \ {"none"})
          /\ handler' = InChain("raised", k, n, r(n))
    BY Zenon DEF HedgeRaises
  <1>3. n \in Nat \ {0} /\ o.price \in Nat /\ o.phase \in Phase
    BY <1>1 DEF Order
  <1>4. Books(caps, CommitStake(caps, n * o.price, o.phase))
    <2>1. n * o.price \in Nat
      BY <1>3, NatProduct
    <2> QED BY <1>3, <2>1, CommitStakeBooks DEF LedgerInv, TypeOK
  <1>5. OutcomeOK(r(n), caps)
    <2>1. FALSE \in BOOLEAN /\ NoPair \in Pair \cup {NoPair} /\ latch \in Latches
      BY DEF Latches
    <2> QED BY <1>4, <2>1, OutcomeType, Zenon DEF LedgerInv, TypeOK
  <1> HIDE DEF r
  <1>6. open_orders' \in [Keys -> Order \cup {NoOrder}]
    <2>1. [o EXCEPT !.errors = o.errors + 1] \in Order
      BY <1>1 DEF Order
    <2>2. open_orders' = [open_orders EXCEPT ![k] = [o EXCEPT !.errors = o.errors + 1]]
      BY DEF HedgeRaises
    <2> QED BY <2>1, <2>2 DEF LedgerInv, TypeOK
  <1>7. /\ pending' \in [Keys -> Pair \cup {NoPair}]
        /\ marks' \in [Keys -> Mark \cup {NoMark}]
        /\ UNCHANGED <<inplay_halted, utc, day, file>>
    BY DEF HedgeRaises, LedgerInv, TypeOK
  <1> QED BY <1>1, <1>2, <1>3, <1>5, <1>6, <1>7, ChainStep

\* Leaving the handler without consuming the fill preserves the invariant.
LEMMA AbandonStep ==
    ASSUME LedgerInv, Abandon
    PROVE  LedgerInv'
  BY DEF Abandon, LedgerInv, TypeOK, PhasesAddUp, HandlerOK, OrphanSticky,
         Stage, Idle

\* One cancel of a sweep inside a fill's handler preserves the invariant.
LEMMA SweepStep ==
    ASSUME LedgerInv, NEW k \in Keys, Sweep(k)
    PROVE  LedgerInv'
  <1>1. handler' \in Running /\ HandlerOK'
    BY DEF Sweep, LedgerInv, TypeOK, HandlerOK, Running, Idle, Stage
  <1>2. /\ caps' \in CapsRecord /\ AddsUp(caps')
        /\ caps'.halted = caps.halted /\ caps'.halt_reason = caps.halt_reason
        /\ open_orders' \in [Keys -> Order \cup {NoOrder}]
    <2>1. CASE UNCHANGED <<caps, open_orders>>
      BY <2>1 DEF LedgerInv, TypeOK, PhasesAddUp
    <2>2. CASE /\ k \in OpenKeys
               /\ caps' = Released(caps, open_orders[k])
               /\ open_orders' = [open_orders EXCEPT ![k] = NoOrder]
      <3>1. open_orders[k] \in Order
        BY <2>2 DEF OpenKeys, LedgerInv, TypeOK
      <3>2. open_orders' \in [Keys -> Order \cup {NoOrder}]
        BY <2>2 DEF LedgerInv, TypeOK
      <3> QED BY <2>2, <3>1, <3>2, ReleasedType
    <2> QED BY <2>1, <2>2 DEF Sweep
  <1> QED BY <1>1, <1>2 DEF Sweep, LedgerInv, TypeOK, PhasesAddUp, OrphanSticky

\* Consuming the fill and writing the daily file preserve the invariant.
LEMMA ConsumeStep ==
    ASSUME LedgerInv, Consume
    PROVE  LedgerInv'
  <1> DEFINE k == handler.key
             trips == TripsInplay(caps, handler.bad)
  <1>1. /\ handler \in Running /\ k \in Keys
        /\ handler.order \in Order /\ handler.n \in Nat \ {0}
    BY DEF Consume, LedgerInv, TypeOK, HandlerOK, Running, Idle, Stage
  <1>2. trips \in BOOLEAN
    BY DEF TripsInplay
  <1> HIDE DEF trips
  <1>3. open_orders' \in [Keys -> Order \cup {NoOrder}]
    <2>1. CASE k \notin OpenKeys
      BY <2>1 DEF Consume, LedgerInv, TypeOK
    <2>2. CASE k \in OpenKeys
      <3> DEFINE o == open_orders[k]
                 done == [o EXCEPT !.matched = o.matched + handler.n, !.errors = 0]
      <3>1. o \in Order
        BY <2>2 DEF OpenKeys, LedgerInv, TypeOK
      <3>2. done \in Order
        <4>1. o.matched + handler.n \in Nat /\ 0 \in Nat
          BY <1>1, <3>1 DEF Order
        <4> DEFINE m == o.matched + handler.n
        <4> HIDE DEF o, m
        <4> QED BY <3>1, <4>1 DEF Order, m
      <3>3. open_orders' = [open_orders EXCEPT ![k] = done]
        BY <2>2 DEF Consume
      <3> HIDE DEF done
      <3> QED BY <3>2, <3>3 DEF LedgerInv, TypeOK
    <2> QED BY <2>1, <2>2
  <1>4. handler' \in Running /\ HandlerOK'
    <2>1. handler' = [handler EXCEPT !.stage = "stopping", !.trips = trips,
                                     !.todo = IF trips THEN OpenInplay ELSE {}]
      BY DEF Consume, trips
    <2>2. (IF trips THEN OpenInplay ELSE {}) \in SUBSET Keys
      BY DEF OpenInplay, OpenKeys
    <2> QED BY <1>1, <1>2, <2>1, <2>2 DEF Running, HandlerOK, Stage
  <1>5. inplay_halted' \in BOOLEAN /\ UNCHANGED <<caps, pending, marks, latched, utc, day>>
    BY <1>2 DEF Consume, LedgerInv, TypeOK, trips
  <1>6. file' \in Snapshot /\ AddsUp(file')
    BY PersistType DEF Consume, LedgerInv, TypeOK, PhasesAddUp
  <1> QED BY <1>3, <1>4, <1>5, <1>6
          DEF LedgerInv, TypeOK, PhasesAddUp, OrphanSticky

\* The handler's own close of a filled order preserves the invariant.
LEMMA FinishStep ==
    ASSUME LedgerInv, Finish
    PROVE  LedgerInv'
  <1> DEFINE k == handler.key
             o == handler.order
  <1>1. o \in Order
    BY DEF Finish, LedgerInv, HandlerOK
  <1>2. caps' = Released(caps, o) \/ caps' = caps
    BY DEF Finish
  <1>3. /\ caps' \in CapsRecord /\ AddsUp(caps')
        /\ caps'.halted = caps.halted /\ caps'.halt_reason = caps.halt_reason
    BY <1>1, <1>2, ReleasedType DEF LedgerInv, TypeOK, PhasesAddUp
  <1>4. open_orders' \in [Keys -> Order \cup {NoOrder}]
    BY DEF Finish, LedgerInv, TypeOK
  <1>5. file' \in Snapshot /\ AddsUp(file')
    <2>1. TRUE \in BOOLEAN
      OBVIOUS
    <2>2. Persist(caps, TRUE) \in Snapshot /\ AddsUp(Persist(caps, TRUE))
      BY <2>1, PersistType, Zenon DEF LedgerInv, TypeOK, PhasesAddUp
    <2> QED BY <2>2 DEF Finish, LedgerInv, TypeOK, PhasesAddUp
  <1>6. handler' = Idle /\ UNCHANGED <<pending, marks, inplay_halted, latched, utc, day>>
    BY DEF Finish
  <1> QED BY <1>3, <1>4, <1>5, <1>6
          DEF LedgerInv, TypeOK, PhasesAddUp, HandlerOK, OrphanSticky, Stage, Idle

\* Resolving a pending pair is a booking, whichever way it is resolved.
LEMMA ResolveBooks ==
    ASSUME LedgerInv, NEW k \in Keys, ResolvePending(k)
    PROVE  Books(caps, caps')
  <1> DEFINE p == pending[k]
             c(bid, confirmed) ==
               IF confirmed THEN AdjustPnl(caps, p.n * p.net, p.phase)
               ELSE CommitStake(AdjustPnl(caps, -(p.n * (p.price - bid)), p.phase),
                                p.n * bid, p.phase)
  <1>1. PICK bid \in HedgePrices, confirmed \in BOOLEAN :
          caps' = c(bid, confirmed)
    BY Zenon DEF ResolvePending
  <1>2. /\ p.n \in Nat /\ p.price \in Nat /\ p.net \in Int /\ p.phase \in Phase
        /\ bid \in Nat
    <2>1. p \in Pair /\ bid \in Nat
      BY CapsLedgerAssumption DEF ResolvePending, LedgerInv, TypeOK
    <2> QED BY <2>1 DEF Pair
  <1>3. /\ p.n * p.net \in Int /\ p.n * (p.price - bid) \in Int
        /\ p.n * bid \in Nat
    BY <1>2, NatProduct, IntProduct
  <1>4. -(p.n * (p.price - bid)) \in Int
    BY <1>3
  <1>5. Books(caps, AdjustPnl(caps, p.n * p.net, p.phase))
    BY <1>2, <1>3, AdjustPnlBooks DEF LedgerInv, TypeOK
  <1>6. Books(caps, CommitStake(AdjustPnl(caps, -(p.n * (p.price - bid)), p.phase),
                                p.n * bid, p.phase))
    BY <1>2, <1>3, <1>4, AdjustThenCommit DEF LedgerInv, TypeOK
  <1> QED BY <1>1, <1>5, <1>6

\* Resolving a deferred pair preserves the invariant.
LEMMA ResolveStep ==
    ASSUME LedgerInv, NEW k \in Keys, ResolvePending(k)
    PROVE  LedgerInv'
  <1>1. \E bad \in BOOLEAN, trips \in BOOLEAN :
          /\ inplay_halted' = (inplay_halted \/ trips)
          /\ handler' = IF trips
                        THEN [stage |-> "settling", key |-> k,
                              order |-> NoOrder, n |-> 0, bad |-> bad,
                              trips |-> TRUE, todo |-> OpenInplay]
                        ELSE Idle
    BY DEF ResolvePending, TripsInplay, Bad
  <1>2. OpenInplay \in SUBSET Keys
    BY DEF OpenInplay, OpenKeys
  <1>3. handler' \in Running \cup {Idle} /\ HandlerOK' /\ inplay_halted' \in BOOLEAN
    BY <1>1, <1>2 DEF Running, Idle, HandlerOK, Stage, LedgerInv, TypeOK
  <1>4. /\ pending' \in [Keys -> Pair \cup {NoPair}]
        /\ UNCHANGED <<open_orders, marks, latched, utc, day, file>>
    BY DEF ResolvePending, LedgerInv, TypeOK
  <1> QED BY <1>3, <1>4, ResolveBooks
          DEF Books, LedgerInv, TypeOK, PhasesAddUp, OrphanSticky

\* Writing down what a resolved pair did preserves the invariant.
LEMMA SettleStep ==
    ASSUME LedgerInv, Settle
    PROVE  LedgerInv'
  <1>1. TRUE \in BOOLEAN
    OBVIOUS
  <1>2. Persist(caps, TRUE) \in Snapshot /\ AddsUp(Persist(caps, TRUE))
    BY <1>1, PersistType, Zenon DEF LedgerInv, TypeOK, PhasesAddUp
  <1> QED BY <1>2 DEF Settle, LedgerInv, TypeOK, PhasesAddUp, HandlerOK,
                      OrphanSticky, Stage, Idle

\* Restating a provisional mark moves only money, total and phase alike.
LEMMA RestateBooks ==
    ASSUME LedgerInv, NEW k \in Keys, Restate(k)
    PROVE  Books(caps, caps')
  <1>1. PICK bid \in HedgePrices :
          caps' = AdjustPnl(caps, marks[k].n * bid, marks[k].phase)
    BY DEF Restate
  <1>2. marks[k].n * bid \in Int /\ marks[k].phase \in Phase
    <2>1. marks[k].n \in Nat /\ marks[k].phase \in Phase /\ bid \in Nat
      BY CapsLedgerAssumption DEF Restate, LedgerInv, TypeOK, Mark
    <2> QED BY <2>1, NatProduct
  <1> QED BY <1>1, <1>2, AdjustPnlBooks DEF LedgerInv, TypeOK

\* Restating a provisional mark preserves the invariant.
LEMMA RestateStep ==
    ASSUME LedgerInv, NEW k \in Keys, Restate(k)
    PROVE  LedgerInv'
  <1>1. Books(caps, caps')
    BY RestateBooks
  <1>2. caps' \in CapsRecord /\ AddsUp(caps')
    BY <1>1 DEF Books, LedgerInv, PhasesAddUp
  <1>3. file' \in Snapshot /\ AddsUp(file')
    BY <1>2, PersistType DEF Restate, LedgerInv, TypeOK
  <1>4. /\ marks' \in [Keys -> Mark \cup {NoMark}]
        /\ UNCHANGED <<open_orders, pending, inplay_halted, latched, utc, day, handler>>
    BY DEF Restate, LedgerInv, TypeOK
  <1> QED BY <1>1, <1>2, <1>3, <1>4
          DEF Books, LedgerInv, TypeOK, PhasesAddUp, HandlerOK, OrphanSticky, Stage

\* Midnight and the heartbeat's write preserve the invariant.
LEMMA ClockStep ==
    ASSUME LedgerInv, Midnight \/ Heartbeat
    PROVE  LedgerInv'
  <1>1. CASE Midnight
    BY <1>1 DEF Midnight, LedgerInv, TypeOK, PhasesAddUp, HandlerOK,
                OrphanSticky, Stage
  <1>2. CASE Heartbeat
    <2>1. file' \in Snapshot /\ AddsUp(file')
      BY <1>2, PersistType DEF Heartbeat, LedgerInv, TypeOK, PhasesAddUp
    <2> QED BY <1>2, <2>1 DEF Heartbeat, LedgerInv, TypeOK, PhasesAddUp,
                              HandlerOK, OrphanSticky, Stage
  <1> QED BY <1>1, <1>2

\* The day roll preserves the invariant: a sticky halt keeps its reason.
LEMMA RollStep ==
    ASSUME LedgerInv, RollDay
    PROVE  LedgerInv'
  <1> DEFINE c == RollCaps(caps)
  <1>1. /\ c \in CapsRecord /\ AddsUp(c)
        /\ caps.halt_reason \in StickyHalts
             => c.halted = caps.halted /\ c.halt_reason = caps.halt_reason
        /\ c.halted => caps.halted /\ c.halt_reason = caps.halt_reason
    BY RollCapsType DEF LedgerInv, TypeOK
  <1> HIDE DEF c
  <1>2. caps' = c /\ inplay_halted' = FALSE /\ day' = utc /\ file' = Persist(caps', FALSE)
    BY DEF RollDay, c
  <1>3. file' \in Snapshot /\ AddsUp(file')
    <2>1. FALSE \in BOOLEAN
      OBVIOUS
    <2> QED BY <1>1, <1>2, <2>1, PersistType, Zenon DEF LedgerInv, TypeOK
  <1> QED BY <1>1, <1>2, <1>3
          DEF RollDay, LedgerInv, TypeOK, PhasesAddUp, HandlerOK, OrphanSticky,
              Stage, Days

\* Clearing an orphan preserves the invariant.
LEMMA ClearStep ==
    ASSUME LedgerInv, ClearOrphan
    PROVE  LedgerInv'
  <1>1. caps' \in CapsRecord /\ AddsUp(caps') /\ (caps'.halted => caps'.halt_reason # "none")
    BY DEF ClearOrphan, LedgerInv, TypeOK, PhasesAddUp, CapsRecord, AddsUp,
           HaltReasons
  <1> QED BY <1>1 DEF ClearOrphan, LedgerInv, TypeOK, PhasesAddUp, HandlerOK,
                      OrphanSticky, Stage

\* What a restart rebuilds from the daily file and the latch files.
LEMMA RestoredType ==
    ASSUME LedgerInv
    PROVE  /\ Restored \in CapsRecord /\ AddsUp(Restored)
           /\ Restored.open_quotes = 0
           /\ Restored.reserved_stake = 0
           /\ Restored.reserved_by_phase = [ph \in Phase |-> 0]
           /\ Restored.halted => Restored.halt_reason # "none"
           /\ "orphan_position" \in latched =>
                Restored.halted /\ Restored.halt_reason \in StickyHalts
  <1> DEFINE c == IF file.day = utc
                  THEN [FreshCaps EXCEPT
                          !.stake_today = file.stake_today,
                          !.fills_today = file.fills_today,
                          !.pnl_today = file.pnl_today,
                          !.stake_by_phase = file.stake_by_phase,
                          !.pnl_by_phase = file.pnl_by_phase,
                          !.inplay_budget_halted = file.inplay_budget_halted]
                  ELSE FreshCaps
             why == IF "booking_quarantine" \in latched THEN "booking_quarantine"
                    ELSE "orphan_position"
  <1>1. /\ c \in CapsRecord /\ AddsUp(c) /\ c.open_quotes = 0 /\ ~c.halted
        /\ c.reserved_stake = 0 /\ c.reserved_by_phase = [ph \in Phase |-> 0]
    <2>1. file \in Snapshot /\ AddsUp(file)
      BY DEF LedgerInv, TypeOK, PhasesAddUp
    <2>2. CASE file.day = utc
      <3> DEFINE g == FreshCaps
      <3>1. /\ g \in CapsRecord /\ AddsUp(g) /\ g.open_quotes = 0 /\ ~g.halted
            /\ g.reserved_stake = 0 /\ g.reserved_by_phase = [ph \in Phase |-> 0]
        BY FreshCapsType
      <3> HIDE DEF g
      <3>2. c = [g EXCEPT
                          !.stake_today = file.stake_today,
                          !.fills_today = file.fills_today,
                          !.pnl_today = file.pnl_today,
                          !.stake_by_phase = file.stake_by_phase,
                          !.pnl_by_phase = file.pnl_by_phase,
                          !.inplay_budget_halted = file.inplay_budget_halted]
        BY <2>2 DEF g
      <3> HIDE DEF c
      <3> QED BY <2>1, <3>1, <3>2 DEF CapsRecord, Snapshot, AddsUp
    <2>3. CASE file.day # utc
      BY <2>3, FreshCapsType
    <2> QED BY <2>2, <2>3
  <1>2. why \in StickyHalts /\ why # "none" /\ why \in HaltReasons
    BY DEF StickyHalts, HaltReasons
  <1>3. Restored = IF latched = {} THEN c
                   ELSE [c EXCEPT !.halted = TRUE, !.halt_reason = why]
    BY DEF Restored
  <1> HIDE DEF c, why
  <1> QED BY <1>1, <1>2, <1>3 DEF CapsRecord, AddsUp

\* A crash and the reload of the files preserve the invariant.
LEMMA RestartStep ==
    ASSUME LedgerInv, Restart
    PROVE  LedgerInv'
  <1>1. caps' = Restored /\ UNCHANGED <<marks, latched, utc, file>>
    BY DEF Restart
  <1>2. /\ caps' \in CapsRecord /\ AddsUp(caps')
        /\ caps'.halted => caps'.halt_reason # "none"
        /\ OrphanSticky'
    BY <1>1, RestoredType DEF OrphanSticky
  <1>3. (file.day = utc /\ file.inplay_halted) \in BOOLEAN
    OBVIOUS
  <1> QED BY <1>1, <1>2, <1>3
          DEF Restart, LedgerInv, TypeOK, PhasesAddUp, HandlerOK, Stage, Idle, Days

\* Every step of the ledger preserves the invariant.
LEMMA LedgerStep == LedgerInv /\ [Next]_vars => LedgerInv'
  <1> SUFFICES ASSUME LedgerInv, [Next]_vars PROVE LedgerInv'
    OBVIOUS
  <1>1. CASE UNCHANGED vars
    BY <1>1 DEF vars, LedgerInv, TypeOK, PhasesAddUp, HandlerOK, OrphanSticky,
                Stage
  <1>2. ASSUME NEW k \in Keys,
               \/ PlaceOrReprice(k) \/ Close(k) \/ Book(k) \/ HedgeRaises(k)
               \/ Sweep(k) \/ ResolvePending(k) \/ Restate(k)
        PROVE  LedgerInv'
    BY <1>2, PlaceStep, CloseStep, BookStep, RaiseStep, SweepStep, ResolveStep,
       RestateStep
  <1>3. CASE HealSlots \/ Abandon \/ Consume \/ Finish \/ Settle
    BY <1>3, HealStep, AbandonStep, ConsumeStep, FinishStep, SettleStep
  <1>4. CASE Midnight \/ Heartbeat \/ RollDay \/ ClearOrphan \/ Restart
    BY <1>4, ClockStep, RollStep, ClearStep, RestartStep
  <1> QED BY <1>1, <1>2, <1>3, <1>4 DEF Next

\* In every reachable state the ledger's inductive invariant holds.
THEOREM LedgerInvariant == Spec => []LedgerInv
  BY LedgerInit, LedgerStep, PTL DEF Spec

\* Every variable keeps its type, whatever the executor, the venue and the
\* clock do, and across crashes.
THEOREM TypeCorrect == Spec => []TypeOK
  <1>1. LedgerInv => TypeOK
    BY DEF LedgerInv
  <1> QED BY <1>1, LedgerInvariant, PTL

\* The per-phase splits of stake and pnl sum to the totals in memory and on
\* disk: commit_stake, on_fill, adjust_pnl, roll_day, persist and reload.
THEOREM PhaseTotals == Spec => []PhasesAddUp
  <1>1. LedgerInv => PhasesAddUp
    BY DEF LedgerInv
  <1> QED BY <1>1, LedgerInvariant, PTL

\* No sequence of latches, day rolls, quarantines and crashes resumes live
\* quoting while an orphan position is latched.
THEOREM OrphanStaysHalted == Spec => []OrphanHalts
  <1>1. LedgerInv => OrphanHalts
    BY DEF LedgerInv, OrphanSticky, OrphanHalts
  <1> QED BY <1>1, LedgerInvariant, PTL

-----------------------------------------------------------------------------
(***************************************************************************)
(* The slot counter, when the venue never reads a filled order as absent.  *)
(***************************************************************************)
\* The order being hedged stays open until its fill is consumed, and a
\* complete one until the handler ends: only Finish may close it.
HedgedStaysOpen ==
    /\ Stage = "hedging" =>
         /\ handler.key \in OpenKeys \ handler.todo
         /\ open_orders[handler.key] = handler.order
    /\ Stage = "stopping" =>
         /\ handler.key \in OpenKeys =>
              /\ open_orders[handler.key].size = handler.order.size
              /\ open_orders[handler.key].matched
                   = handler.order.matched + handler.n
              /\ open_orders[handler.key].pair = handler.order.pair
              /\ open_orders[handler.key].phase = handler.order.phase
         /\ handler.order.matched + handler.n >= handler.order.size
              => handler.key \in OpenKeys

SlotInv ==
    /\ SlotsBacked
    /\ SlotLimit
    /\ HedgedStaysOpen

\* An order is never the record that stands for none.
LEMMA OrderIsSome == \A o \in Order : o # NoOrder
  BY DEF Order, NoOrder

\* Closing an open key frees one slot in the count of tracked orders.
LEMMA CloseCount ==
    ASSUME LedgerInv, SlotsBacked, NEW k \in OpenKeys,
           open_orders' = [open_orders EXCEPT ![k] = NoOrder]
    PROVE  /\ OpenKeys' = OpenKeys \ {k}
           /\ Cardinality(OpenKeys') = Cardinality(OpenKeys) - 1
           /\ Floor0(caps.open_quotes - 1) = Cardinality(OpenKeys')
           /\ Cardinality(OpenKeys') \in Nat
  <1>1. OpenKeys' = OpenKeys \ {k}
    BY DEF OpenKeys, LedgerInv, TypeOK
  <1>2. IsFiniteSet(OpenKeys) /\ Cardinality(OpenKeys) \in Nat
    BY OpenKeysFinite DEF OpenKeys
  <1>3. Cardinality(OpenKeys \ {k}) = Cardinality(OpenKeys) - 1
    BY <1>2, FS_RemoveElement
  <1>4. Cardinality(OpenKeys') \in Nat
    BY <1>1, OpenKeysFinite DEF OpenKeys
  <1> QED BY <1>1, <1>2, <1>3, <1>4 DEF SlotsBacked, Floor0

\* Placing and repricing keep the counter equal to the tracked orders.
LEMMA SlotsPlace ==
    ASSUME LedgerInv, SlotInv, NEW k \in Keys, PlaceOrReprice(k)
    PROVE  SlotInv'
  <1>1. PICK ph \in Phase, pair \in Nat, placed \in BOOLEAN, new \in Order :
             LET c == AfterCancel(k)
                 asked == CanPlaceCaps(c, pair, ph)
             IN  /\ placed => CanPlace(c, pair, ph)
                 /\ caps' = IF placed THEN OnOpen(asked, pair, ph) ELSE asked
                 /\ open_orders' = [open_orders EXCEPT ![k] =
                                      IF placed THEN new ELSE NoOrder]
                 /\ new.phase = ph /\ new.pair = pair
    BY PlaceFacts
  <1> DEFINE c == AfterCancel(k)
             asked == CanPlaceCaps(c, pair, ph)
             rest == OpenKeys \ {k}
  <1>2. /\ c \in CapsRecord /\ c.open_quotes \in Nat
        /\ c.open_quotes = IF open_orders[k] = NoOrder THEN caps.open_quotes
                           ELSE Floor0(caps.open_quotes - 1)
    BY AfterCancelType DEF CapsRecord
  <1> HIDE DEF c
  <1>3. Books(c, asked)
    BY <1>2, CanPlaceCapsBooks
  <1>4. asked \in CapsRecord /\ asked.open_quotes = c.open_quotes
    BY <1>3 DEF Books
  <1> HIDE DEF asked
  <1>5. OnOpen(asked, pair, ph).open_quotes = c.open_quotes + 1
    BY <1>4, OnOpenType
  <1>6. IsFiniteSet(OpenKeys) /\ Cardinality(OpenKeys) \in Nat
        /\ IsFiniteSet(rest) /\ Cardinality(rest) \in Nat
    BY OpenKeysFinite DEF OpenKeys
  <1>7. Cardinality(rest) = c.open_quotes /\ Cardinality(rest) <= Cardinality(OpenKeys)
    <2>1. CASE k \in OpenKeys
      <3>1. Cardinality(rest) = Cardinality(OpenKeys) - 1
        BY <1>6, <2>1, FS_RemoveElement
      <3> QED BY <1>2, <1>6, <2>1, <3>1 DEF SlotInv, SlotsBacked, Floor0, OpenKeys
    <2>2. CASE k \notin OpenKeys
      <3>1. rest = OpenKeys
        BY <2>2
      <3>2. open_orders[k] = NoOrder
        BY <2>2 DEF OpenKeys
      <3>3. caps.open_quotes = Cardinality(OpenKeys)
        BY DEF SlotInv, SlotsBacked
      <3> HIDE DEF rest
      <3> QED BY <1>2, <1>6, <3>1, <3>2, <3>3
    <2> QED BY <2>1, <2>2
  <1>8. SlotsBacked' /\ SlotLimit'
    <2>1. CASE placed
      <3>1. OpenKeys' = rest \cup {k}
        BY <1>1, <2>1, OrderIsSome DEF OpenKeys, LedgerInv, TypeOK
      <3>2. Cardinality(OpenKeys') = c.open_quotes + 1
        BY <1>6, <1>7, <3>1, FS_AddElement
      <3>3. caps'.open_quotes = c.open_quotes + 1
        BY <1>1, <1>5, <2>1 DEF asked, c
      <3>4. ~(c.open_quotes >= MaxOpenQuotes)
        BY <1>1, <2>1 DEF CanPlace, RefusedBeforeStake, c
      <3> QED BY <1>2, <3>2, <3>3, <3>4, LiveCapsAssumption
              DEF SlotsBacked, SlotLimit
    <2>2. CASE ~placed
      <3>1. OpenKeys' = rest
        BY <1>1, <2>2 DEF OpenKeys, LedgerInv, TypeOK
      <3>2. caps' = asked
        BY <1>1, <2>2 DEF asked, c
      <3> QED BY <1>4, <1>6, <1>7, <3>1, <3>2, LiveCapsAssumption
              DEF SlotInv, SlotsBacked, SlotLimit
    <2> QED BY <2>1, <2>2
  <1>9. handler = Idle /\ handler' = handler
    BY DEF PlaceOrReprice
  <1> QED BY <1>8, <1>9 DEF SlotInv, HedgedStaysOpen, Stage, Idle

\* An order that leaves the table with its slot, outside or inside a handler
\* that does not depend on it, keeps the slot invariant.
LEMMA SlotsClose ==
    ASSUME LedgerInv, SlotInv, NEW k \in OpenKeys,
           caps' = Released(caps, open_orders[k]),
           open_orders' = [open_orders EXCEPT ![k] = NoOrder],
           HedgedStaysOpen'
    PROVE  SlotInv'
  <1>1. k \in Keys /\ open_orders[k] \in Order
    BY DEF OpenKeys, LedgerInv, TypeOK
  <1>2. caps'.open_quotes = Floor0(caps.open_quotes - 1)
    BY <1>1, ReleasedType
  <1>3. /\ Cardinality(OpenKeys') = Cardinality(OpenKeys) - 1
        /\ Floor0(caps.open_quotes - 1) = Cardinality(OpenKeys')
        /\ Cardinality(OpenKeys') \in Nat
    BY CloseCount DEF SlotInv
  <1>4. Cardinality(OpenKeys) \in Nat /\ Cardinality(OpenKeys) <= MaxOpenQuotes
    BY OpenKeysFinite DEF OpenKeys, SlotInv, SlotLimit
  <1>5. SlotsBacked' /\ SlotLimit'
    BY <1>2, <1>3, <1>4, LiveCapsAssumption DEF SlotsBacked, SlotLimit
  <1> QED BY <1>5 DEF SlotInv

\* Neither the table nor the counter moves.
LEMMA SlotsKept ==
    ASSUME SlotInv, caps'.open_quotes = caps.open_quotes, OpenKeys' = OpenKeys,
           HedgedStaysOpen'
    PROVE  SlotInv'
  BY DEF SlotInv, SlotsBacked, SlotLimit

\* A chain's end leaves the table of open keys, and the hedged order, alone.
LEMMA SlotsChain ==
    ASSUME LedgerInv, SlotInv, ~EmptyReads, NEW k \in Keys,
           Book(k) \/ HedgeRaises(k)
    PROVE  SlotInv'
  <1> DEFINE o == open_orders[k]
  <1>1. k \in OpenKeys /\ o \in Order
    BY DEF Book, HedgeRaises, OpenKeys, LedgerInv, TypeOK
  <1>2. SweepAll(k) = OpenKeys \ {k}
    BY DEF SweepAll
  <1>3. CASE Book(k)
    <2> DEFINE fail(n) == Failed(CommitStake(caps, n * o.price, o.phase), o, n)
    <2>0. PICK n \in 1..(o.size - o.matched) :
            \E r \in Outcomes(k, n) \cup {fail(n)} :
                /\ caps' = r.caps
                /\ handler' = InChain("hedging", k, n, r)
      BY <1>3, Zenon DEF Book
    <2>1. PICK r \in Outcomes(k, n) \cup {fail(n)} :
            /\ caps' = r.caps
            /\ handler' = InChain("hedging", k, n, r)
      BY <2>0, Zenon
    <2>2. n \in Nat \ {0}
      BY <1>1 DEF Order
    <2>3. OutcomeOK(r, caps)
      BY <1>1, <2>1, <2>2, OutcomesType
    <2>4. open_orders' = open_orders
      BY <1>3 DEF Book
    <2>5. HedgedStaysOpen'
      BY <1>1, <1>2, <2>1, <2>4 DEF HedgedStaysOpen, InChain, OpenKeys, Stage
    <2> QED BY <2>1, <2>3, <2>4, <2>5, SlotsKept DEF OutcomeOK, OpenKeys
  <1>4. CASE HedgeRaises(k)
    <2>1. open_orders' = [open_orders EXCEPT ![k] = [o EXCEPT !.errors = o.errors + 1]]
      BY <1>4 DEF HedgeRaises
    <2>2. [o EXCEPT !.errors = o.errors + 1] # NoOrder
      BY <1>1, OrderIsSome DEF Order
    <2>3. OpenKeys' = OpenKeys
      BY <1>1, <2>1, <2>2 DEF OpenKeys, LedgerInv, TypeOK
    <2>4. Stage' = "raised"
      <3>1. \E n, r : handler' = InChain("raised", k, n, r)
        BY <1>4, Zenon DEF HedgeRaises
      <3> QED BY <3>1 DEF InChain, Stage
    <2>5. PICK n \in 1..(o.size - o.matched), latch \in Latches :
            caps' = Latch(CommitStake(caps, n * o.price, o.phase), latch)
      BY <1>4 DEF HedgeRaises, Outcome, Latches
    <2>6. caps'.open_quotes = caps.open_quotes
      <3>1. n \in Nat /\ o.price \in Nat /\ o.phase \in Phase
        BY <1>1 DEF Order
      <3>2. n * o.price \in Nat
        BY <3>1, NatProduct
      <3> DEFINE d == CommitStake(caps, n * o.price, o.phase)
      <3>3. d \in CapsRecord /\ d.open_quotes = caps.open_quotes
        BY <3>1, <3>2, CommitStakeBooks DEF Books, LedgerInv, TypeOK
      <3> HIDE DEF d
      <3> QED BY <2>5, <3>3, LatchType DEF d
    <2>7. HedgedStaysOpen'
      BY <2>4 DEF HedgedStaysOpen
    <2> QED BY <2>3, <2>6, <2>7, SlotsKept
  <1> QED BY <1>3, <1>4

\* A cancel frees exactly the slot of the order it closes.
LEMMA SlotsSweep ==
    ASSUME LedgerInv, SlotInv, ~EmptyReads, NEW k \in Keys,
           Sweep(k) \/ Close(k)
    PROVE  SlotInv'
  <1>1. \/ k \in OpenKeys /\ caps' = Released(caps, open_orders[k])
                           /\ open_orders' = [open_orders EXCEPT ![k] = NoOrder]
        \/ UNCHANGED <<caps, open_orders>>
    BY DEF Sweep, Close
  <1>2. \/ /\ handler'.stage = handler.stage /\ handler'.key = handler.key
           /\ handler'.order = handler.order /\ handler'.n = handler.n
           /\ handler'.todo \subseteq handler.todo
        \/ handler = Idle /\ handler' = Idle
    BY DEF Sweep, Close, LedgerInv, TypeOK, Running
  <1>3. HedgedStaysOpen'
    <2>1. CASE handler = Idle
      BY <1>2, <2>1 DEF HedgedStaysOpen, Stage, Idle, Sweep, Close
    <2>2. CASE handler # Idle /\ open_orders' = open_orders
      BY <1>2, <2>2 DEF SlotInv, HedgedStaysOpen, Stage, OpenKeys, Idle
    <2>3. CASE handler # Idle /\ open_orders' = [open_orders EXCEPT ![k] = NoOrder]
      <3>1. OpenKeys' = OpenKeys \ {k}
        BY <2>3 DEF OpenKeys, LedgerInv, TypeOK
      <3>2. CASE k # handler.key
        <4>1. \A j \in Keys : j # k => open_orders'[j] = open_orders[j]
          BY <2>3 DEF LedgerInv, TypeOK
        <4>2. handler.key \in Keys
          BY <2>2, <2>3 DEF LedgerInv, TypeOK, Running
        <4> QED BY <1>2, <2>3, <3>1, <3>2, <4>1, <4>2
                DEF SlotInv, HedgedStaysOpen, Stage, Idle
      <3>3. CASE k = handler.key
        <4>1. CASE UNCHANGED open_orders
          BY <1>2, <2>3, <4>1 DEF SlotInv, HedgedStaysOpen, Stage, OpenKeys, Idle
        <4>2. CASE open_orders' # open_orders
          <5>1. k \in handler.todo /\ k \in OpenKeys
                /\ open_orders[k].matched < open_orders[k].size
            BY <2>3, <3>3, <4>2 DEF Sweep, Close
          <5>2. handler.stage # "hedging"
            BY <3>3, <5>1 DEF SlotInv, HedgedStaysOpen, Stage
          <5>3. open_orders[k] \in Order
            BY <5>1 DEF OpenKeys, LedgerInv, TypeOK
          <5>4. handler.stage = "stopping" =>
                  ~(handler.order.matched + handler.n >= handler.order.size)
            <6>1. handler.stage = "stopping" =>
                    /\ open_orders[k].size = handler.order.size
                    /\ open_orders[k].matched = handler.order.matched + handler.n
              BY <3>3, <5>1 DEF SlotInv, HedgedStaysOpen, Stage
            <6> QED BY <5>1, <5>3, <6>1 DEF Order
          <5> QED BY <1>2, <2>3, <3>1, <3>3, <5>2, <5>4
                  DEF HedgedStaysOpen, Stage, Idle
        <4> QED BY <4>1, <4>2
      <3> QED BY <3>2, <3>3
    <2> QED BY <1>1, <2>1, <2>2, <2>3
  <1>4. CASE UNCHANGED <<caps, open_orders>>
    BY <1>3, <1>4, SlotsKept DEF OpenKeys
  <1> QED BY <1>1, <1>3, <1>4, SlotsClose

\* Consuming a fill opens and closes no order.
LEMMA SlotsConsume ==
    ASSUME LedgerInv, SlotInv, Consume
    PROVE  SlotInv'
  <1> DEFINE k == handler.key
             o == open_orders[k]
             done == [o EXCEPT !.matched = o.matched + handler.n, !.errors = 0]
  <1>1. /\ handler \in Running /\ k \in OpenKeys /\ o = handler.order
        /\ o \in Order
    BY DEF Consume, LedgerInv, TypeOK, HandlerOK, Idle, Stage, SlotInv,
           HedgedStaysOpen
  <1>2. open_orders' = [open_orders EXCEPT ![k] = done]
    BY <1>1 DEF Consume
  <1>3. /\ done # NoOrder /\ done.size = o.size /\ done.matched = o.matched + handler.n
        /\ done.pair = o.pair /\ done.phase = o.phase
    BY <1>1 DEF Order, NoOrder
  <1> HIDE DEF done
  <1>4. OpenKeys' = OpenKeys /\ open_orders'[k] = done
    BY <1>1, <1>2, <1>3 DEF OpenKeys, LedgerInv, TypeOK
  <1>5. /\ handler'.stage = "stopping" /\ handler'.key = k
        /\ handler'.order = handler.order /\ handler'.n = handler.n
    BY <1>1 DEF Consume, Running
  <1>6. HedgedStaysOpen'
    BY <1>1, <1>3, <1>4, <1>5 DEF HedgedStaysOpen, Stage
  <1>7. caps' = caps
    BY DEF Consume
  <1> QED BY <1>4, <1>6, <1>7, SlotsKept

\* The handler's close frees the slot of an order that is still tracked.
LEMMA SlotsFinish ==
    ASSUME LedgerInv, SlotInv, Finish
    PROVE  SlotInv'
  <1> DEFINE k == handler.key
             o == handler.order
  <1>1. o \in Order /\ handler.n \in Nat
    BY DEF Finish, LedgerInv, HandlerOK
  <1>2. HedgedStaysOpen'
    BY DEF Finish, HedgedStaysOpen, Stage, Idle
  <1>3. CASE UNCHANGED <<caps, open_orders>>
    BY <1>2, <1>3, SlotsKept DEF OpenKeys
  <1>4. CASE /\ k \in OpenKeys
             /\ caps' = Released(caps, o)
             /\ open_orders' = [open_orders EXCEPT ![k] = NoOrder]
    <2>1. caps'.open_quotes = Floor0(caps.open_quotes - 1)
      BY <1>1, <1>4, ReleasedType
    <2>2. /\ Cardinality(OpenKeys') = Cardinality(OpenKeys) - 1
          /\ Floor0(caps.open_quotes - 1) = Cardinality(OpenKeys')
      BY <1>4, CloseCount DEF SlotInv
    <2>3. Cardinality(OpenKeys) \in Nat /\ Cardinality(OpenKeys) <= MaxOpenQuotes
      BY OpenKeysFinite DEF OpenKeys, SlotInv, SlotLimit
    <2>4. SlotsBacked' /\ SlotLimit'
      BY <2>1, <2>2, <2>3, LiveCapsAssumption DEF SlotsBacked, SlotLimit
    <2> QED BY <1>2, <2>4 DEF SlotInv
  <1>5. o.matched + handler.n >= o.size => k \in OpenKeys
    BY DEF Finish, SlotInv, HedgedStaysOpen
  <1> QED BY <1>3, <1>4, <1>5 DEF Finish

\* After a restart nothing is tracked and no slot is taken.
LEMMA SlotsRestart ==
    ASSUME LedgerInv, Restart
    PROVE  SlotInv'
  <1>1. OpenKeys' = {}
    BY DEF Restart, OpenKeys
  <1>2. Cardinality(OpenKeys') = 0
    BY <1>1, FS_EmptySet
  <1>3. caps'.open_quotes = 0
    BY RestoredType DEF Restart
  <1>4. HedgedStaysOpen'
    BY DEF Restart, HedgedStaysOpen, Stage, Idle
  <1> QED BY <1>2, <1>3, <1>4, LiveCapsAssumption
          DEF SlotInv, SlotsBacked, SlotLimit

\* The handlers that neither open nor close an order.
LEMMA SlotsRest ==
    ASSUME LedgerInv, SlotInv,
           \/ \E k \in Keys : ResolvePending(k) \/ Restate(k)
           \/ HealSlots \/ Abandon \/ Settle \/ Midnight \/ RollDay
           \/ Heartbeat \/ ClearOrphan \/ UNCHANGED vars
    PROVE  SlotInv'
  <1>1. ~HealSlots
    BY DEF HealSlots, SlotInv, SlotsBacked
  <1>2. OpenKeys' = OpenKeys /\ open_orders' = open_orders
    BY <1>1 DEF ResolvePending, Restate, Abandon, Settle, Midnight, RollDay,
                Heartbeat, ClearOrphan, vars, OpenKeys
  <1>3. handler' = handler \/ Stage' \notin {"hedging", "stopping"}
    <2>1. ASSUME NEW k \in Keys, ResolvePending(k)
          PROVE  Stage' \in {"idle", "settling"}
      <3>1. \/ handler' = Idle
            \/ \E bad : handler' = [stage |-> "settling", key |-> k, order |-> NoOrder,
                                  n |-> 0, bad |-> bad, trips |-> TRUE, todo |-> OpenInplay]
        BY <2>1, Zenon DEF ResolvePending
      <3> QED BY <3>1 DEF Stage, Idle
    <2>2. Abandon \/ Settle => handler' = Idle
      BY DEF Abandon, Settle
    <2>a. Idle.stage = "idle"
      BY DEF Idle
    <2>3. ASSUME NEW k \in Keys, Restate(k) PROVE handler' = handler
      BY <2>3 DEF Restate
    <2>4. Midnight \/ RollDay \/ Heartbeat \/ ClearOrphan \/ UNCHANGED vars
            => handler' = handler
      BY DEF Midnight, RollDay, Heartbeat, ClearOrphan, vars
    <2> QED BY <1>1, <2>1, <2>2, <2>a, <2>3, <2>4 DEF Stage
  <1>4. HedgedStaysOpen'
    BY <1>2, <1>3 DEF SlotInv, HedgedStaysOpen, Stage
  <1>5. caps'.open_quotes = caps.open_quotes
    <2>1. ASSUME NEW k \in Keys, ResolvePending(k) PROVE caps'.open_quotes = caps.open_quotes
      BY <2>1, ResolveBooks DEF Books
    <2>2. ASSUME NEW k \in Keys, Restate(k) PROVE caps'.open_quotes = caps.open_quotes
      BY <2>2, RestateBooks DEF Books
    <2>3. CASE RollDay
      BY <2>3, RollCapsType DEF RollDay, LedgerInv, TypeOK
    <2>4. CASE ClearOrphan
      BY <2>4 DEF ClearOrphan, LedgerInv, TypeOK, CapsRecord
    <2>5. CASE Abandon \/ Settle \/ Midnight \/ Heartbeat \/ UNCHANGED vars
      BY <2>5 DEF Abandon, Settle, Midnight, Heartbeat, vars
    <2> QED BY <1>1, <2>1, <2>2, <2>3, <2>4, <2>5
  <1> QED BY <1>2, <1>4, <1>5, SlotsKept

\* The first start has no order and no slot taken.
LEMMA SlotInit == Init => SlotInv
  <1> SUFFICES ASSUME Init PROVE SlotInv
    OBVIOUS
  <1>1. OpenKeys = {}
    BY DEF Init, OpenKeys
  <1>2. Cardinality(OpenKeys) = 0 /\ caps.open_quotes = 0
    BY <1>1, FS_EmptySet, FreshCapsType DEF Init
  <1> QED BY <1>2, LiveCapsAssumption
          DEF Init, SlotInv, SlotsBacked, SlotLimit, HedgedStaysOpen, Stage, Idle

\* Unless filled orders read back as absent, every step keeps the count.
LEMMA SlotStep == ~EmptyReads /\ LedgerInv /\ SlotInv /\ [Next]_vars => SlotInv'
  <1> SUFFICES ASSUME ~EmptyReads, LedgerInv, SlotInv, [Next]_vars PROVE SlotInv'
    OBVIOUS
  <1>1. ASSUME NEW k \in Keys, PlaceOrReprice(k) \/ Close(k) \/ Book(k)
                               \/ HedgeRaises(k) \/ Sweep(k)
        PROVE  SlotInv'
    BY <1>1, SlotsPlace, SlotsChain, SlotsSweep
  <1>2. CASE Consume \/ Finish \/ Restart
    BY <1>2, SlotsConsume, SlotsFinish, SlotsRestart
  <1>3. CASE \/ \E k \in Keys : ResolvePending(k) \/ Restate(k)
             \/ HealSlots \/ Abandon \/ Settle \/ Midnight \/ RollDay
             \/ Heartbeat \/ ClearOrphan \/ UNCHANGED vars
    BY <1>3, SlotsRest
  <1> QED BY <1>1, <1>2, <1>3 DEF Next

\* If a filled order never reads back as absent, the slot counter is always
\* the number of tracked orders: over reprices, partial and complete fills,
\* sweeps inside a handler and crashes.  With EmptyReads a sweep may close the
\* order its handler closes again, and the counter falls behind (README, 4).
THEOREM SlotsAccounted ==
    ASSUME ~EmptyReads
    PROVE  Spec => []SlotsBacked
  <1>1. SlotInv => SlotsBacked
    BY DEF SlotInv
  <1>2. LedgerInv /\ SlotInv /\ [Next]_vars => SlotInv'
    BY SlotStep
  <1> QED BY <1>1, <1>2, SlotInit, LedgerInvariant, PTL DEF Spec

\* Under the same assumption the orders at rest never outnumber
\* max_open_quotes, in the middle of a reprice or a sweep as well.
THEOREM QuotesBounded ==
    ASSUME ~EmptyReads
    PROVE  Spec => []SlotLimit
  <1>1. SlotInv => SlotLimit
    BY DEF SlotInv
  <1>2. LedgerInv /\ SlotInv /\ [Next]_vars => SlotInv'
    BY SlotStep
  <1> QED BY <1>1, <1>2, SlotInit, LedgerInvariant, PTL DEF Spec

-----------------------------------------------------------------------------
(***************************************************************************)
(* The reservations, when the venue never reads a filled order as absent.  *)
(* SumTheorems has what is needed of sums over the orders.                 *)
(***************************************************************************)
\* What the order of each key reserves, and the open keys of one phase.
Pairs == [k \in Keys |-> open_orders[k].pair]
OpenIn(ph) == {k \in OpenKeys : open_orders[k].phase = ph}

ReserveInv ==
    /\ caps.reserved_stake = Total(Pairs, OpenKeys)
    /\ \A ph \in Phase : caps.reserved_by_phase[ph] = Total(Pairs, OpenIn(ph))

\* The sum the property takes is the one of SumTheorems.
LEMMA ProjectedIsTotal ==
    ASSUME NEW S \in SUBSET Keys
    PROVE  Projected(S) = Total(Pairs, S)
  <1> DEFINE Takes(it) ==
                it = [s \in SUBSET S |->
                        IF s = {} THEN 0
                        ELSE LET x == CHOOSE x \in s : TRUE
                             IN  open_orders[x].pair + it[s \ {x}]]
  <1>1. ASSUME NEW it PROVE Sums(it, Pairs, S) <=> Takes(it)
    <2>1. \A s \in SUBSET S : s # {} =>
            Pick(s) \in s /\ Pairs[Pick(s)] = open_orders[Pick(s)].pair
      BY DEF Pick, Pairs
    <2> QED BY <2>1 DEF Sums, Pick
  <1> QED BY <1>1, ZenonT(40) DEF Projected, MapThenSumSet, MapThenFoldSet, Total

\* ReserveInv is the property.
LEMMA ReserveIsBacked == ReserveInv => ReservationsBacked
  <1>1. OpenKeys \in SUBSET Keys /\ \A ph : OpenIn(ph) \in SUBSET Keys
    BY DEF OpenKeys, OpenIn
  <1>2. Projected(OpenKeys) = Total(Pairs, OpenKeys)
    BY <1>1, ProjectedIsTotal
  <1>3. ASSUME NEW ph \in Phase
        PROVE  Projected({k \in OpenKeys : open_orders[k].phase = ph})
                 = Total(Pairs, OpenIn(ph))
    BY <1>1, ProjectedIsTotal DEF OpenIn
  <1> QED BY <1>2, <1>3 DEF ReserveInv, ReservationsBacked

\* The open keys, and those of a phase, are finite, and what they reserve is a
\* natural number.
LEMMA OpenPairs ==
    ASSUME LedgerInv
    PROVE  /\ IsFiniteSet(OpenKeys) /\ \A x \in OpenKeys : Pairs[x] \in Nat
           /\ \A ph : /\ IsFiniteSet(OpenIn(ph))
                      /\ OpenIn(ph) \subseteq OpenKeys
  <1>1. IsFiniteSet(OpenKeys)
    BY OpenKeysFinite DEF OpenKeys
  <1>2. \A x \in OpenKeys : open_orders[x] \in Order
    BY DEF OpenKeys, LedgerInv, TypeOK
  <1>3. \A x \in OpenKeys : Pairs[x] \in Nat
    BY <1>2 DEF Pairs, OpenKeys, Order
  <1>4. ASSUME NEW ph PROVE IsFiniteSet(OpenIn(ph)) /\ OpenIn(ph) \subseteq OpenKeys
    BY <1>1, FS_Subset DEF OpenIn
  <1> QED BY <1>1, <1>3, <1>4

\* Taking a number out of a sum that has it leaves the sum of the others.
LEMMA TakenOut ==
    ASSUME NEW S, IsFiniteSet(S), NEW g, \A x \in S : g[x] \in Nat, NEW k \in S
    PROVE  Floor0(Total(g, S) - g[k]) = Total(g, S \ {k})
  <1>1. IsFiniteSet(S \ {k})
    BY FS_Subset
  <1>2. Nat \in {Nat, Int} /\ \A x \in S : g[x] \in Int
    OBVIOUS
  <1>3. Total(g, S \ {k}) \in Nat
    BY <1>1, <1>2, TotalType
  <1>4. Total(g, S) = g[k] + Total(g, S \ {k})
    BY <1>2, TotalWithout
  <1> QED BY <1>3, <1>4 DEF Floor0

\* A cancelled order gives back what it reserved, and no other does.
LEMMA CancelReserve ==
    ASSUME LedgerInv, ReserveInv, NEW k \in Keys
    PROVE  LET c == AfterCancel(k)
           IN  /\ c.reserved_stake = Total(Pairs, OpenKeys \ {k})
               /\ \A ph \in Phase :
                    c.reserved_by_phase[ph] = Total(Pairs, OpenIn(ph) \ {k})
  <1>1. CASE k \notin OpenKeys
    <2>1. AfterCancel(k) = caps
      BY <1>1 DEF AfterCancel, OpenKeys
    <2>2. OpenKeys \ {k} = OpenKeys /\ \A ph : OpenIn(ph) \ {k} = OpenIn(ph)
      BY <1>1 DEF OpenIn
    <2> QED BY <2>1, <2>2 DEF ReserveInv
  <1>2. CASE k \in OpenKeys
    <2> DEFINE o == open_orders[k]
               c == AfterCancel(k)
    <2>1. o \in Order /\ o.phase \in Phase /\ o.pair = Pairs[k] /\ o.pair \in Nat
      BY <1>2 DEF OpenKeys, Pairs, LedgerInv, TypeOK, Order
    <2>2. /\ c.reserved_stake = Floor0(caps.reserved_stake - o.pair)
          /\ c.reserved_by_phase = TakeFrom(caps.reserved_by_phase, o.phase, o.pair)
      <3>1. c = Released(caps, o)
        BY <1>2 DEF AfterCancel, OpenKeys
      <3> QED BY <2>1, <3>1, ReleasedType
    <2> HIDE DEF c
    <2>3. c.reserved_stake = Total(Pairs, OpenKeys \ {k})
      BY <1>2, <2>1, <2>2, OpenPairs, TakenOut DEF ReserveInv
    <2>4. ASSUME NEW ph \in Phase
          PROVE  c.reserved_by_phase[ph] = Total(Pairs, OpenIn(ph) \ {k})
      <3>1. caps.reserved_by_phase \in [Phase -> Nat]
        BY DEF LedgerInv, TypeOK, CapsRecord
      <3>2. CASE ph = o.phase
        <4>1. k \in OpenIn(ph)
          BY <1>2, <3>2 DEF OpenIn
        <4>2. c.reserved_by_phase[ph] = Floor0(caps.reserved_by_phase[ph] - o.pair)
          BY <2>2, <3>1, <3>2 DEF TakeFrom
        <4>3. \A x \in OpenIn(ph) : Pairs[x] \in Nat
          BY OpenPairs
        <4>4. Floor0(Total(Pairs, OpenIn(ph)) - Pairs[k]) = Total(Pairs, OpenIn(ph) \ {k})
          BY <4>1, <4>3, OpenPairs, TakenOut
        <4> QED BY <2>1, <4>2, <4>4 DEF ReserveInv
      <3>3. CASE ph # o.phase
        <4>1. OpenIn(ph) \ {k} = OpenIn(ph)
          BY <3>3 DEF OpenIn
        <4>2. c.reserved_by_phase[ph] = caps.reserved_by_phase[ph]
          BY <2>2, <3>1, <3>3 DEF TakeFrom
        <4> QED BY <4>1, <4>2 DEF ReserveInv
      <3> QED BY <3>2, <3>3
    <2> QED BY <2>3, <2>4 DEF c
  <1> QED BY <1>1, <1>2

\* What is reserved is the same where no order came, went or changed its pair.
LEMMA ReserveKept ==
    ASSUME LedgerInv, ReserveInv, SameReserve(caps, caps'), OpenKeys' = OpenKeys,
           \A x \in OpenKeys : /\ open_orders'[x].pair = open_orders[x].pair
                               /\ open_orders'[x].phase = open_orders[x].phase
    PROVE  ReserveInv'
  <1>1. OpenKeys \subseteq Keys /\ \A x \in OpenKeys : Pairs'[x] = Pairs[x]
    BY DEF Pairs, OpenKeys
  <1>2. Total(Pairs', OpenKeys) = Total(Pairs, OpenKeys)
    BY <1>1, OpenPairs, TotalSame
  <1>3. ASSUME NEW ph \in Phase
        PROVE  OpenIn(ph)' = OpenIn(ph) /\ Total(Pairs', OpenIn(ph)) = Total(Pairs, OpenIn(ph))
    <2>1. OpenIn(ph)' = OpenIn(ph)
      BY DEF OpenIn
    <2>2. Total(Pairs', OpenIn(ph)) = Total(Pairs, OpenIn(ph))
      BY <1>1, OpenPairs, TotalSame
    <2> QED BY <2>1, <2>2
  <1> QED BY <1>2, <1>3 DEF ReserveInv, SameReserve

\* An order leaves and gives back what it reserved.
LEMMA ReserveClose ==
    ASSUME LedgerInv, ReserveInv, NEW k \in Keys,
           SameReserve(AfterCancel(k), caps'),
           open_orders' = [open_orders EXCEPT ![k] = NoOrder]
    PROVE  ReserveInv'
  <1>1. OpenKeys' = OpenKeys \ {k}
    BY DEF OpenKeys, LedgerInv, TypeOK
  <1>2. \A x \in OpenKeys \ {k} : open_orders'[x] = open_orders[x]
    BY DEF OpenKeys, LedgerInv, TypeOK
  <1>3. \A x \in OpenKeys \ {k} : Pairs'[x] = Pairs[x]
    BY <1>2 DEF Pairs, OpenKeys
  <1>4. Total(Pairs', OpenKeys \ {k}) = Total(Pairs, OpenKeys \ {k})
    <2>1. IsFiniteSet(OpenKeys \ {k})
      BY OpenPairs, FS_Subset
    <2> QED BY <1>3, <2>1, TotalSame
  <1>5. ASSUME NEW ph \in Phase
        PROVE  /\ OpenIn(ph)' = OpenIn(ph) \ {k}
               /\ Total(Pairs', OpenIn(ph) \ {k}) = Total(Pairs, OpenIn(ph) \ {k})
    <2>1. OpenIn(ph)' = OpenIn(ph) \ {k}
      BY <1>1, <1>2 DEF OpenIn
    <2>2. IsFiniteSet(OpenIn(ph) \ {k}) /\ OpenIn(ph) \ {k} \subseteq OpenKeys \ {k}
      BY OpenPairs, FS_Subset
    <2> QED BY <1>3, <2>1, <2>2, TotalSame
  <1> QED BY <1>1, <1>4, <1>5, CancelReserve DEF ReserveInv, SameReserve

\* A placed order reserves its pair, in the pool of its phase, beside what the
\* orders under the other keys do.
LEMMA ReservePlace ==
    ASSUME LedgerInv, ReserveInv, NEW k \in Keys, PlaceOrReprice(k)
    PROVE  ReserveInv'
  <1>1. PICK ph \in Phase, pair \in Nat, placed \in BOOLEAN, new \in Order :
             LET c == AfterCancel(k)
                 asked == CanPlaceCaps(c, pair, ph)
             IN  /\ placed => CanPlace(c, pair, ph)
                 /\ caps' = IF placed THEN OnOpen(asked, pair, ph) ELSE asked
                 /\ open_orders' = [open_orders EXCEPT ![k] =
                                      IF placed THEN new ELSE NoOrder]
                 /\ new.phase = ph /\ new.pair = pair
    BY PlaceFacts
  <1> DEFINE c == AfterCancel(k)
             asked == CanPlaceCaps(c, pair, ph)
  <1>2. c \in CapsRecord
    BY AfterCancelType
  <1>3. asked \in CapsRecord /\ SameReserve(c, asked)
    BY <1>2, CanPlaceCapsBooks DEF Books
  <1>4. CASE ~placed
    BY <1>1, <1>3, <1>4, ReserveClose
  <1>5. CASE placed
    <2> DEFINE d == OnOpen(asked, pair, ph)
               rest == OpenKeys \ {k}
               restIn(p) == OpenIn(p) \ {k}
    <2>1. /\ d.reserved_stake = c.reserved_stake + pair
          /\ d.reserved_by_phase = AddTo(c.reserved_by_phase, ph, pair)
      <3> HIDE DEF asked
      <3> QED BY <1>3, OnOpenType DEF SameReserve
    <2>2. caps' = d
      BY <1>1, <1>5
    <2>3. /\ c.reserved_stake = Total(Pairs, rest)
          /\ c.reserved_by_phase \in [Phase -> Nat]
          /\ \A p \in Phase : c.reserved_by_phase[p] = Total(Pairs, restIn(p))
      BY <1>2, CancelReserve DEF CapsRecord
    <2> HIDE DEF d, c
    <2>4. open_orders' = [open_orders EXCEPT ![k] = new]
      BY <1>1, <1>5
    <2>5. /\ \A x \in rest : open_orders'[x] = open_orders[x]
          /\ OpenKeys' = rest \cup {k} /\ open_orders'[k] = new
      BY <2>4, OrderIsSome DEF OpenKeys, LedgerInv, TypeOK
    <2>6. Pairs'[k] = pair /\ \A x \in rest : Pairs'[x] = Pairs[x] /\ Pairs[x] \in Nat
      BY <1>1, <2>5, OpenPairs DEF Pairs, OpenKeys
    <2>7. ASSUME NEW S \in SUBSET rest
          PROVE  /\ Total(Pairs', S) = Total(Pairs, S)
                 /\ Total(Pairs', S \cup {k}) = pair + Total(Pairs, S)
      <3>1. IsFiniteSet(S) /\ IsFiniteSet(S \cup {k}) /\ (S \cup {k}) \ {k} = S
        BY OpenPairs, FS_Subset, FS_AddElement
      <3>2. Total(Pairs', S) = Total(Pairs, S)
        BY <2>6, <3>1, TotalSame
      <3>3. \A x \in S \cup {k} : Pairs'[x] \in Int
        BY <2>6
      <3>4. Total(Pairs', S \cup {k}) = Pairs'[k] + Total(Pairs', (S \cup {k}) \ {k})
        BY <3>1, <3>3, TotalWithout
      <3> QED BY <2>6, <3>1, <3>2, <3>4
    <2>8. caps'.reserved_stake = Total(Pairs', OpenKeys')
      <3>1. Total(Pairs', OpenKeys') = pair + Total(Pairs, rest)
        BY <2>5, <2>7
      <3>2. Total(Pairs, rest) \in Nat
        BY <1>2, <2>3 DEF CapsRecord
      <3> QED BY <2>1, <2>2, <2>3, <3>1, <3>2
    <2>9. ASSUME NEW p \in Phase
          PROVE  caps'.reserved_by_phase[p] = Total(Pairs', OpenIn(p)')
      <3>1. restIn(p) \in SUBSET rest
        BY OpenPairs
      <3>2. CASE p = ph
        <4>1. OpenIn(p)' = restIn(p) \cup {k}
          BY <1>1, <2>5, <3>2 DEF OpenIn
        <4>2. caps'.reserved_by_phase[p] = c.reserved_by_phase[p] + pair
          BY <2>1, <2>2, <2>3, <3>2 DEF AddTo
        <4>3. Total(Pairs', OpenIn(p)') = pair + Total(Pairs, restIn(p))
          BY <2>7, <3>1, <4>1
        <4> QED BY <2>3, <4>2, <4>3
      <3>3. CASE p # ph
        <4>1. OpenIn(p)' = restIn(p)
          BY <1>1, <2>5, <3>3 DEF OpenIn
        <4>2. caps'.reserved_by_phase[p] = c.reserved_by_phase[p]
          BY <2>1, <2>2, <2>3, <3>3 DEF AddTo
        <4> QED BY <2>3, <2>7, <3>1, <4>1, <4>2
      <3> QED BY <3>2, <3>3
    <2> QED BY <2>8, <2>9 DEF ReserveInv
  <1> QED BY <1>4, <1>5

\* The chain's end, a raise and a consumed fill move no reservation.
LEMMA ReserveChain ==
    ASSUME LedgerInv, SlotInv, ReserveInv, Consume \/ \E k \in Keys : Book(k) \/ HedgeRaises(k)
    PROVE  ReserveInv'
  <1>1. CASE Consume
    <2> DEFINE k == handler.key
               o == open_orders[k]
               done == [o EXCEPT !.matched = o.matched + handler.n, !.errors = 0]
    <2>1. /\ handler \in Running /\ k \in OpenKeys /\ o \in Order
      BY <1>1 DEF Consume, LedgerInv, TypeOK, HandlerOK, Idle, Stage, SlotInv,
                  HedgedStaysOpen
    <2>2. open_orders' = [open_orders EXCEPT ![k] = done] /\ caps' = caps
      BY <1>1, <2>1 DEF Consume
    <2>3. done # NoOrder /\ done.pair = o.pair /\ done.phase = o.phase
      BY <2>1 DEF Order, NoOrder
    <2> HIDE DEF done
    <2>4. /\ OpenKeys' = OpenKeys
          /\ \A x \in OpenKeys : /\ open_orders'[x].pair = open_orders[x].pair
                                 /\ open_orders'[x].phase = open_orders[x].phase
      BY <2>1, <2>2, <2>3 DEF OpenKeys, LedgerInv, TypeOK
    <2> QED BY <2>2, <2>4, ReserveKept DEF SameReserve
  <1>2. ASSUME NEW k \in Keys, Book(k) PROVE ReserveInv'
    <2> DEFINE o == open_orders[k]
               fail(n) == Failed(CommitStake(caps, n * o.price, o.phase), o, n)
    <2>1. PICK n \in 1..(o.size - o.matched) :
            \E r \in Outcomes(k, n) \cup {fail(n)} : caps' = r.caps
      BY <1>2, Zenon DEF Book
    <2>2. PICK r \in Outcomes(k, n) \cup {fail(n)} : caps' = r.caps
      BY <2>1, Zenon
    <2>3. k \in OpenKeys /\ n \in Nat \ {0}
      BY <1>2 DEF Book, OpenKeys, LedgerInv, TypeOK, Order
    <2>4. OutcomeOK(r, caps)
      BY <2>2, <2>3, OutcomesType
    <2>5. open_orders' = open_orders
      BY <1>2 DEF Book
    <2> QED BY <2>2, <2>4, <2>5, ReserveKept DEF OutcomeOK, OpenKeys
  <1>3. ASSUME NEW k \in Keys, HedgeRaises(k) PROVE ReserveInv'
    <2> DEFINE o == open_orders[k]
               more == [o EXCEPT !.errors = o.errors + 1]
    <2>1. k \in OpenKeys /\ o \in Order
      BY <1>3 DEF HedgeRaises, OpenKeys, LedgerInv, TypeOK
    <2>2. open_orders' = [open_orders EXCEPT ![k] = more]
      BY <1>3 DEF HedgeRaises
    <2>3. more # NoOrder /\ more.pair = o.pair /\ more.phase = o.phase
      BY <2>1, OrderIsSome DEF Order
    <2> HIDE DEF more
    <2>4. /\ OpenKeys' = OpenKeys
          /\ \A x \in OpenKeys : /\ open_orders'[x].pair = open_orders[x].pair
                                 /\ open_orders'[x].phase = open_orders[x].phase
      BY <2>1, <2>2, <2>3 DEF OpenKeys, LedgerInv, TypeOK
    <2>5. PICK n \in 1..(o.size - o.matched), latch \in Latches :
            caps' = Latch(CommitStake(caps, n * o.price, o.phase), latch)
      BY <1>3 DEF HedgeRaises, Outcome, Latches
    <2>6. n \in Nat /\ o.price \in Nat /\ o.phase \in Phase
      BY <2>1 DEF Order
    <2>7. n * o.price \in Nat
      BY <2>6, NatProduct
    <2> DEFINE d == CommitStake(caps, n * o.price, o.phase)
    <2>8. d \in CapsRecord /\ SameReserve(caps, d)
      BY <2>6, <2>7, CommitStakeBooks DEF Books, LedgerInv, TypeOK
    <2> HIDE DEF d
    <2>9. SameReserve(d, Latch(d, latch))
      BY <2>8, LatchType
    <2>10. caps' = Latch(d, latch)
      BY <2>5 DEF d
    <2>11. SameReserve(caps, caps')
      BY <2>8, <2>9, <2>10 DEF SameReserve
    <2> QED BY <2>4, <2>11, ReserveKept
  <1> QED BY <1>1, <1>2, <1>3

\* A cancel, in a sweep or outside, and the close at a handler's end.
LEMMA ReserveEnds ==
    ASSUME LedgerInv, SlotInv, ReserveInv,
           Finish \/ \E k \in Keys : Sweep(k) \/ Close(k)
    PROVE  ReserveInv'
  <1>1. CASE UNCHANGED <<caps, open_orders>>
    BY <1>1, ReserveKept DEF SameReserve, OpenKeys
  <1>2. ASSUME NEW k \in OpenKeys, caps' = Released(caps, open_orders[k]),
               open_orders' = [open_orders EXCEPT ![k] = NoOrder]
        PROVE  ReserveInv'
    <2>1. k \in Keys /\ AfterCancel(k) = caps'
      BY <1>2 DEF AfterCancel, OpenKeys
    <2> QED BY <1>2, <2>1, ReserveClose DEF SameReserve
  <1>3. ASSUME NEW k \in Keys, Sweep(k) \/ Close(k) PROVE ReserveInv'
    BY <1>1, <1>2, <1>3 DEF Sweep, Close
  <1>4. CASE Finish
    <2> DEFINE k == handler.key
               o == handler.order
    <2>1. o \in Order
      BY <1>4 DEF Finish, LedgerInv, HandlerOK
    <2>2. CASE /\ k \in OpenKeys
               /\ caps' = Released(caps, o)
               /\ open_orders' = [open_orders EXCEPT ![k] = NoOrder]
      <3>1. open_orders[k].pair = o.pair /\ open_orders[k].phase = o.phase
        BY <1>4, <2>2 DEF Finish, SlotInv, HedgedStaysOpen
      <3>2. caps' = Released(caps, open_orders[k])
        BY <2>2, <3>1 DEF Released
      <3> QED BY <1>2, <2>2, <3>2
    <2>3. o.matched + handler.n >= o.size => k \in OpenKeys
      BY <1>4 DEF Finish, SlotInv, HedgedStaysOpen
    <2> QED BY <1>1, <1>4, <2>2, <2>3 DEF Finish
  <1> QED BY <1>3, <1>4

\* After a restart nothing is reserved.
LEMMA ReserveRestart ==
    ASSUME LedgerInv, Restart
    PROVE  ReserveInv'
  <1>1. OpenKeys' = {} /\ \A ph \in Phase : OpenIn(ph)' = {}
    BY DEF Restart, OpenKeys, OpenIn
  <1>2. Total(Pairs', {}) = 0
    BY TotalGives, FS_EmptySet
  <1>3. caps'.reserved_stake = 0 /\ caps'.reserved_by_phase = [ph \in Phase |-> 0]
    BY RestoredType DEF Restart
  <1> QED BY <1>1, <1>2, <1>3 DEF ReserveInv

\* The handlers that neither open nor close an order move no reservation.
LEMMA ReserveRest ==
    ASSUME LedgerInv, ReserveInv,
           \/ \E k \in Keys : ResolvePending(k) \/ Restate(k)
           \/ HealSlots \/ Abandon \/ Settle \/ Midnight \/ RollDay
           \/ Heartbeat \/ ClearOrphan \/ UNCHANGED vars
    PROVE  ReserveInv'
  <1>1. OpenKeys' = OpenKeys /\ open_orders' = open_orders
    BY DEF ResolvePending, Restate, HealSlots, Abandon, Settle, Midnight, RollDay,
           Heartbeat, ClearOrphan, vars, OpenKeys
  <1>2. SameReserve(caps, caps')
    <2>1. ASSUME NEW k \in Keys, ResolvePending(k) PROVE SameReserve(caps, caps')
      BY <2>1, ResolveBooks DEF Books
    <2>2. ASSUME NEW k \in Keys, Restate(k) PROVE SameReserve(caps, caps')
      BY <2>2, RestateBooks DEF Books
    <2>3. CASE RollDay
      BY <2>3, RollCapsType DEF RollDay, LedgerInv, TypeOK
    <2>4. CASE ClearOrphan \/ HealSlots
      BY <2>4 DEF ClearOrphan, HealSlots, LedgerInv, TypeOK, CapsRecord, SameReserve
    <2>5. CASE Abandon \/ Settle \/ Midnight \/ Heartbeat \/ UNCHANGED vars
      BY <2>5 DEF Abandon, Settle, Midnight, Heartbeat, vars, SameReserve
    <2> QED BY <2>1, <2>2, <2>3, <2>4, <2>5
  <1> QED BY <1>1, <1>2, ReserveKept

\* The first start reserves nothing.
LEMMA ReserveInit == Init => ReserveInv
  <1> SUFFICES ASSUME Init PROVE ReserveInv
    OBVIOUS
  <1>1. OpenKeys = {} /\ \A ph : OpenIn(ph) = {}
    BY DEF Init, OpenKeys, OpenIn
  <1>2. Total(Pairs, {}) = 0
    BY TotalGives, FS_EmptySet
  <1>3. caps.reserved_stake = 0 /\ caps.reserved_by_phase = [ph \in Phase |-> 0]
    BY FreshCapsType DEF Init
  <1> QED BY <1>1, <1>2, <1>3 DEF ReserveInv

\* Every step keeps the reservations, unless a filled order reads back as absent.
LEMMA ReserveStep == LedgerInv /\ SlotInv /\ ReserveInv /\ [Next]_vars => ReserveInv'
  <1> SUFFICES ASSUME LedgerInv, SlotInv, ReserveInv, [Next]_vars PROVE ReserveInv'
    OBVIOUS
  <1>1. ASSUME NEW k \in Keys, PlaceOrReprice(k) PROVE ReserveInv'
    BY <1>1, ReservePlace
  <1>2. CASE Consume \/ \E k \in Keys : Book(k) \/ HedgeRaises(k)
    BY <1>2, ReserveChain
  <1>3. CASE Finish \/ \E k \in Keys : Sweep(k) \/ Close(k)
    BY <1>3, ReserveEnds
  <1>4. CASE Restart
    BY <1>4, ReserveRestart
  <1>5. CASE \/ \E k \in Keys : ResolvePending(k) \/ Restate(k)
             \/ HealSlots \/ Abandon \/ Settle \/ Midnight \/ RollDay
             \/ Heartbeat \/ ClearOrphan \/ UNCHANGED vars
    BY <1>5, ReserveRest
  <1> QED BY <1>1, <1>2, <1>3, <1>4, <1>5 DEF Next

\* If a filled order never reads back as absent, what the caps hold reserved is
\* to the cent what the resting orders reserve, in total and in each phase's pool:
\* over reprices, partial fills, sweeps inside a handler, day rolls and crashes
\* (on_open, on_close and every path an order ends by).
THEOREM ReservationsAccounted ==
    ASSUME ~EmptyReads
    PROVE  Spec => []ReservationsBacked
  <1>1. LedgerInv /\ SlotInv /\ [Next]_vars => SlotInv'
    BY SlotStep
  <1> QED BY <1>1, SlotInit, ReserveInit, ReserveStep, ReserveIsBacked,
             LedgerInvariant, PTL DEF Spec

-----------------------------------------------------------------------------
(* The slot counter whatever the venue reads back.                         *)

\* Closing key k and giving one slot back leaks none, tracked or not.
LEMMA LeakClose ==
    ASSUME LedgerInv, NoSlotLeaked, NEW k,
           caps'.open_quotes = Floor0(caps.open_quotes - 1),
           open_orders' = [open_orders EXCEPT ![k] = NoOrder]
    PROVE  NoSlotLeaked'
  <1>1. /\ IsFiniteSet(OpenKeys) /\ Cardinality(OpenKeys) \in Nat
        /\ Cardinality(OpenKeys \ {k}) \in Nat
    BY OpenKeysFinite DEF OpenKeys
  <1>2. OpenKeys' = OpenKeys \ {k}
    BY DEF OpenKeys, LedgerInv, TypeOK
  <1>3. Cardinality(OpenKeys \ {k}) >= Cardinality(OpenKeys) - 1
    <2>1. CASE k \in OpenKeys
      <3>1. Cardinality(OpenKeys \ {k}) = Cardinality(OpenKeys) - 1
        BY <1>1, <2>1, FS_RemoveElement
      <3> QED BY <1>1, <3>1
    <2>2. CASE k \notin OpenKeys
      <3>1. OpenKeys \ {k} = OpenKeys
        BY <2>2
      <3> QED BY <1>1, <3>1
    <2> QED BY <2>1, <2>2
  <1>4. caps.open_quotes \in Nat
    BY DEF LedgerInv, TypeOK, CapsRecord
  <1> QED BY <1>1, <1>2, <1>3, <1>4 DEF NoSlotLeaked, Floor0

\* Neither the tracked keys nor the counter moves.
LEMMA LeakKept ==
    ASSUME NoSlotLeaked, caps'.open_quotes = caps.open_quotes, OpenKeys' = OpenKeys
    PROVE  NoSlotLeaked'
  BY DEF NoSlotLeaked

\* Placing and repricing leak no slot.
LEMMA LeakPlace ==
    ASSUME LedgerInv, NoSlotLeaked, NEW k \in Keys, PlaceOrReprice(k)
    PROVE  NoSlotLeaked'
  <1>1. PICK ph \in Phase, pair \in Nat, placed \in BOOLEAN, new \in Order :
             LET c == AfterCancel(k)
                 asked == CanPlaceCaps(c, pair, ph)
             IN  /\ caps' = IF placed THEN OnOpen(asked, pair, ph) ELSE asked
                 /\ open_orders' = [open_orders EXCEPT ![k] =
                                      IF placed THEN new ELSE NoOrder]
    BY PlaceFacts
  <1> DEFINE c == AfterCancel(k)
             asked == CanPlaceCaps(c, pair, ph)
             rest == OpenKeys \ {k}
  <1>2. /\ c \in CapsRecord /\ c.open_quotes \in Nat
        /\ c.open_quotes = IF open_orders[k] = NoOrder THEN caps.open_quotes
                           ELSE Floor0(caps.open_quotes - 1)
    BY AfterCancelType DEF CapsRecord
  <1> HIDE DEF c
  <1>3. asked \in CapsRecord /\ asked.open_quotes = c.open_quotes
    BY <1>2, CanPlaceCapsBooks DEF Books
  <1> HIDE DEF asked
  <1>4. OnOpen(asked, pair, ph).open_quotes = c.open_quotes + 1
    BY <1>3, OnOpenType
  <1>5. IsFiniteSet(OpenKeys) /\ Cardinality(OpenKeys) \in Nat
        /\ IsFiniteSet(rest) /\ Cardinality(rest) \in Nat
    BY OpenKeysFinite DEF OpenKeys
  <1>6. caps.open_quotes <= Cardinality(OpenKeys) /\ caps.open_quotes \in Nat
    BY DEF NoSlotLeaked, LedgerInv, TypeOK, CapsRecord
  <1>7. c.open_quotes <= Cardinality(rest)
    <2>1. CASE k \in OpenKeys
      <3>1. Cardinality(rest) = Cardinality(OpenKeys) - 1
        BY <1>5, <2>1, FS_RemoveElement
      <3> QED BY <1>2, <1>5, <1>6, <2>1, <3>1 DEF Floor0, OpenKeys
    <2>2. CASE k \notin OpenKeys
      <3>1. rest = OpenKeys /\ open_orders[k] = NoOrder
        BY <2>2 DEF OpenKeys
      <3> HIDE DEF rest
      <3> QED BY <1>2, <1>6, <3>1
    <2> QED BY <2>1, <2>2
  <1>8. CASE placed
    <2>1. OpenKeys' = rest \cup {k}
      BY <1>1, <1>8, OrderIsSome DEF OpenKeys, LedgerInv, TypeOK
    <2>2. Cardinality(OpenKeys') = Cardinality(rest) + 1
      BY <1>5, <2>1, FS_AddElement
    <2>3. caps'.open_quotes = c.open_quotes + 1
      BY <1>1, <1>4, <1>8 DEF asked, c
    <2> QED BY <1>2, <1>5, <1>7, <2>2, <2>3 DEF NoSlotLeaked
  <1>9. CASE ~placed
    <2>1. OpenKeys' = rest
      BY <1>1, <1>9 DEF OpenKeys, LedgerInv, TypeOK
    <2>2. caps' = asked
      BY <1>1, <1>9 DEF asked, c
    <2> QED BY <1>3, <1>7, <2>1, <2>2 DEF NoSlotLeaked
  <1> QED BY <1>8, <1>9

\* The outcomes of a hedge chain, returned or raised, leave the slots alone.
LEMMA LeakChain ==
    ASSUME LedgerInv, NEW k \in Keys, Book(k) \/ HedgeRaises(k)
    PROVE  caps'.open_quotes = caps.open_quotes /\ OpenKeys' = OpenKeys
  <1> DEFINE o == open_orders[k]
  <1>1. k \in OpenKeys /\ o \in Order
    BY DEF Book, HedgeRaises, OpenKeys, LedgerInv, TypeOK
  <1>2. CASE Book(k)
    <2> DEFINE fail(n) == Failed(CommitStake(caps, n * o.price, o.phase), o, n)
    <2>1. PICK n \in 1..(o.size - o.matched) :
            \E r \in Outcomes(k, n) \cup {fail(n)} : caps' = r.caps
      BY <1>2, Zenon DEF Book
    <2>2. n \in Nat \ {0}
      BY <1>1 DEF Order
    <2>3. PICK r \in Outcomes(k, n) \cup {fail(n)} : caps' = r.caps
      BY <2>1, Zenon
    <2>4. OutcomeOK(r, caps)
      BY <1>1, <2>2, <2>3, OutcomesType
    <2>5. open_orders' = open_orders
      BY <1>2 DEF Book
    <2> QED BY <2>3, <2>4, <2>5 DEF OutcomeOK, OpenKeys
  <1>3. CASE HedgeRaises(k)
    <2>1. open_orders' = [open_orders EXCEPT ![k] = [o EXCEPT !.errors = o.errors + 1]]
      BY <1>3 DEF HedgeRaises
    <2>2. [o EXCEPT !.errors = o.errors + 1] # NoOrder
      BY <1>1, OrderIsSome DEF Order
    <2>3. OpenKeys' = OpenKeys
      BY <1>1, <2>1, <2>2 DEF OpenKeys, LedgerInv, TypeOK
    <2>4. PICK n \in 1..(o.size - o.matched), latch \in Latches :
            caps' = Latch(CommitStake(caps, n * o.price, o.phase), latch)
      BY <1>3 DEF HedgeRaises, Outcome, Latches
    <2>5. n \in Nat /\ o.price \in Nat /\ o.phase \in Phase
      BY <1>1 DEF Order
    <2>6. n * o.price \in Nat
      BY <2>5, NatProduct
    <2> DEFINE d == CommitStake(caps, n * o.price, o.phase)
    <2>7. d \in CapsRecord /\ d.open_quotes = caps.open_quotes
      BY <2>5, <2>6, CommitStakeBooks DEF Books, LedgerInv, TypeOK
    <2> HIDE DEF d
    <2> QED BY <2>3, <2>4, <2>7, LatchType DEF d
  <1> QED BY <1>2, <1>3

\* Every step of the ledger keeps the counter at or below the tracked orders.
LEMMA LeakStep == LedgerInv /\ NoSlotLeaked /\ [Next]_vars => NoSlotLeaked'
  <1> SUFFICES ASSUME LedgerInv, NoSlotLeaked, [Next]_vars PROVE NoSlotLeaked'
    OBVIOUS
  <1>1. ASSUME NEW k \in Keys, PlaceOrReprice(k) PROVE NoSlotLeaked'
    BY <1>1, LeakPlace
  <1>2. ASSUME NEW k \in Keys, Book(k) \/ HedgeRaises(k) PROVE NoSlotLeaked'
    BY <1>2, LeakChain, LeakKept
  <1>3. ASSUME NEW k \in Keys, Close(k) \/ Sweep(k) PROVE NoSlotLeaked'
    <2>1. CASE UNCHANGED <<caps, open_orders>>
      BY <2>1, LeakKept DEF OpenKeys
    <2>2. CASE /\ k \in OpenKeys /\ caps' = Released(caps, open_orders[k])
               /\ open_orders' = [open_orders EXCEPT ![k] = NoOrder]
      <3>1. open_orders[k] \in Order
        BY <2>2 DEF OpenKeys, LedgerInv, TypeOK
      <3> QED BY <2>2, <3>1, ReleasedType, LeakClose
    <2> QED BY <1>3, <2>1, <2>2 DEF Close, Sweep
  <1>4. CASE Finish
    <2>1. handler.order \in Order
      BY <1>4 DEF Finish, LedgerInv, HandlerOK
    <2>2. CASE UNCHANGED <<caps, open_orders>>
      BY <2>2, LeakKept DEF OpenKeys
    <2>3. CASE /\ caps' = Released(caps, handler.order)
               /\ open_orders' = [open_orders EXCEPT ![handler.key] = NoOrder]
      BY <2>1, <2>3, ReleasedType, LeakClose
    <2> QED BY <1>4, <2>2, <2>3 DEF Finish
  <1>5. CASE Consume
    <2> DEFINE k == handler.key
               o == open_orders[k]
               done == [o EXCEPT !.matched = o.matched + handler.n, !.errors = 0]
    <2>1. CASE k \notin OpenKeys
      BY <1>5, <2>1, LeakKept DEF Consume, OpenKeys
    <2>2. CASE k \in OpenKeys
      <3>1. open_orders' = [open_orders EXCEPT ![k] = done] /\ caps' = caps
        BY <1>5, <2>2 DEF Consume
      <3>2. done # NoOrder /\ o # NoOrder /\ k \in Keys
        BY <2>2 DEF OpenKeys, LedgerInv, TypeOK, Order, NoOrder
      <3> HIDE DEF done
      <3>3. OpenKeys' = OpenKeys
        BY <3>1, <3>2 DEF OpenKeys, LedgerInv, TypeOK
      <3> QED BY <3>1, <3>3, LeakKept
    <2> QED BY <2>1, <2>2
  <1>6. CASE HealSlots
    <2>1. OpenKeys' = OpenKeys /\ caps'.open_quotes = Cardinality(OpenKeys)
      BY <1>6 DEF HealSlots, OpenKeys, LedgerInv, TypeOK, CapsRecord
    <2>2. Cardinality(OpenKeys) \in Nat
      BY OpenKeysFinite DEF OpenKeys
    <2> QED BY <2>1, <2>2 DEF NoSlotLeaked
  <1>7. CASE Restart
    <2>1. OpenKeys' = {}
      BY <1>7 DEF Restart, OpenKeys
    <2>2. Cardinality(OpenKeys') = 0 /\ caps'.open_quotes = 0
      BY <1>7, <2>1, FS_EmptySet, RestoredType DEF Restart
    <2> QED BY <2>2 DEF NoSlotLeaked
  <1>8. ASSUME NEW k \in Keys, ResolvePending(k) \/ Restate(k) PROVE NoSlotLeaked'
    <2>1. Books(caps, caps')
      BY <1>8, ResolveBooks, RestateBooks
    <2>2. OpenKeys' = OpenKeys
      BY <1>8 DEF ResolvePending, Restate, OpenKeys
    <2> QED BY <2>1, <2>2, LeakKept DEF Books
  <1>9. CASE RollDay
    BY <1>9, RollCapsType, LeakKept DEF RollDay, LedgerInv, TypeOK, OpenKeys
  <1>10. CASE ClearOrphan
    <2>1. caps'.open_quotes = caps.open_quotes
      BY <1>10 DEF ClearOrphan, LedgerInv, TypeOK, CapsRecord
    <2> QED BY <1>10, <2>1, LeakKept DEF ClearOrphan, OpenKeys
  <1>11. CASE Abandon \/ Settle \/ Midnight \/ Heartbeat \/ UNCHANGED vars
    BY <1>11, LeakKept DEF Abandon, Settle, Midnight, Heartbeat, vars, OpenKeys
  <1> QED BY <1>1, <1>2, <1>3, <1>4, <1>5, <1>6, <1>7, <1>8, <1>9, <1>10, <1>11
          DEF Next

\* Whatever the venue reads a filled order back as, no path takes a slot that
\* no tracked order holds: a lost slot would cost a quote for the whole day.
THEOREM SlotsNeverLeak == Spec => []NoSlotLeaked
  <1>1. Init => NoSlotLeaked
    <2> SUFFICES ASSUME Init PROVE NoSlotLeaked
      OBVIOUS
    <2>1. OpenKeys = {}
      BY DEF Init, OpenKeys
    <2>2. Cardinality(OpenKeys) = 0 /\ caps.open_quotes = 0
      BY <2>1, FS_EmptySet, FreshCapsType DEF Init
    <2> QED BY <2>2 DEF NoSlotLeaked
  <1> QED BY <1>1, LeakStep, LedgerInvariant, PTL DEF Spec

-----------------------------------------------------------------------------
(* What a placement may never do.                                          *)

\* A new order appears only by PlaceOrReprice, under its own key.
LEMMA PlacesOnlyByPlacing ==
    ASSUME LedgerInv, [Next]_vars, NEW k \in Keys, Places(k)
    PROVE  PlaceOrReprice(k)
  <1>1. ~UNCHANGED open_orders
    BY DEF Places
  <1>2. ASSUME NEW j \in Keys,
               Close(j) \/ Sweep(j) \/ Book(j) \/ ResolvePending(j) \/ Restate(j)
        PROVE  FALSE
    <2>1. open_orders' = open_orders \/ open_orders' = [open_orders EXCEPT ![j] = NoOrder]
      BY <1>2 DEF Close, Sweep, Book, ResolvePending, Restate
    <2> QED BY <2>1 DEF Places, LedgerInv, TypeOK
  <1>3. ASSUME NEW j \in Keys, PlaceOrReprice(j), j # k PROVE FALSE
    <2>1. PICK x : open_orders' = [open_orders EXCEPT ![j] = x]
      BY <1>3, PlaceFacts
    <2> QED BY <1>3, <2>1 DEF Places, LedgerInv, TypeOK
  <1>4. ASSUME NEW j \in Keys, HedgeRaises(j) PROVE FALSE
    <2> DEFINE o == open_orders[j]
    <2>1. o \in Order
      BY <1>4 DEF HedgeRaises, OpenKeys, LedgerInv, TypeOK
    <2>2. open_orders' = [open_orders EXCEPT ![j] = [o EXCEPT !.errors = o.errors + 1]]
      BY <1>4 DEF HedgeRaises
    <2>3. [o EXCEPT !.errors = o.errors + 1].errors # 0
      BY <2>1 DEF Order
    <2> QED BY <2>2, <2>3 DEF Places, LedgerInv, TypeOK
  <1>5. CASE Consume
    <2> DEFINE j == handler.key
               o == open_orders[j]
               done == [o EXCEPT !.matched = o.matched + handler.n, !.errors = 0]
    <2>1. j \in OpenKeys /\ open_orders' = [open_orders EXCEPT ![j] = done]
      BY <1>1, <1>5 DEF Consume
    <2>2. o \in Order /\ handler.n \in Nat \ {0}
      BY <1>5, <2>1 DEF Consume, OpenKeys, LedgerInv, TypeOK, HandlerOK
    <2>3. done.matched # 0
      BY <2>2 DEF Order
    <2> HIDE DEF done
    <2> QED BY <2>1, <2>3 DEF Places, LedgerInv, TypeOK
  <1>6. CASE Finish \/ Restart
    BY <1>6 DEF Finish, Restart, Places, LedgerInv, TypeOK
  <1>7. CASE HealSlots \/ Abandon \/ Settle \/ Midnight \/ RollDay \/ Heartbeat
             \/ ClearOrphan \/ UNCHANGED vars
    BY <1>1, <1>7 DEF HealSlots, Abandon, Settle, Midnight, RollDay, Heartbeat,
                      ClearOrphan, vars
  <1> QED BY <1>2, <1>3, <1>4, <1>5, <1>6, <1>7 DEF Next

\* Once a day's realized loss has reached its limit no order comes to rest
\* that day, whatever became of the halt that first said so.
THEOREM NoQuoteAfterLoss == Spec => LossStopsPlacing
  <1>1. ASSUME LedgerInv, [Next]_vars
        PROVE  \A k \in Keys : Places(k) =>
                 /\ caps.pnl_today > -MaxDailyLoss
                 /\ open_orders'[k].phase = "inplay" /\ InplayMaxLoss > 0
                      => caps.pnl_by_phase["inplay"] > -InplayMaxLoss
    <2> SUFFICES ASSUME NEW k \in Keys, Places(k)
                 PROVE  /\ caps.pnl_today > -MaxDailyLoss
                        /\ open_orders'[k].phase = "inplay" /\ InplayMaxLoss > 0
                             => caps.pnl_by_phase["inplay"] > -InplayMaxLoss
      OBVIOUS
    <2>1. PlaceOrReprice(k)
      BY <1>1, PlacesOnlyByPlacing
    <2>2. PICK ph \in Phase, pair \in Nat, placed \in BOOLEAN, new \in Order :
             LET c == AfterCancel(k)
             IN  /\ placed => CanPlace(c, pair, ph)
                 /\ open_orders' = [open_orders EXCEPT ![k] =
                                      IF placed THEN new ELSE NoOrder]
                 /\ new.phase = ph /\ new.pair = pair
      BY <1>1, <2>1, PlaceFacts
    <2>3. placed /\ open_orders'[k].phase = ph
      BY <1>1, <2>2 DEF Places, LedgerInv, TypeOK
    <2> DEFINE c == AfterCancel(k)
    <2>4. /\ c \in CapsRecord /\ c.pnl_today = caps.pnl_today
          /\ c.pnl_by_phase = caps.pnl_by_phase
      BY <1>1, AfterCancelType
    <2>5. ~RefusedBeforeStake(c, pair, ph)
      BY <2>2, <2>3 DEF CanPlace
    <2> HIDE DEF c
    <2>6. c.pnl_today > -MaxDailyLoss /\ ~c.halted
      BY <2>4, <2>5, LiveCapsAssumption DEF RefusedBeforeStake, CapsRecord
    <2>7. ph = "inplay" /\ InplayMaxLoss > 0 => c.pnl_by_phase["inplay"] > -InplayMaxLoss
      <3>1. ph = "inplay" => ~CheckInplayLoss(c).inplay_budget_halted
        BY <2>5, <2>6 DEF RefusedBeforeStake, InplayChecked
      <3>2. c.pnl_by_phase["inplay"] \in Int
        BY <2>4 DEF CapsRecord, Phase
      <3> QED BY <2>4, <3>1, <3>2, LiveCapsAssumption DEF CheckInplayLoss, CapsRecord
    <2> QED BY <2>3, <2>4, <2>6, <2>7
  <1> QED BY <1>1, LedgerInvariant, PTL DEF Spec, LossStopsPlacing

\* Deciding whether a quote may be placed commits no stake.
LEMMA AskedCommits ==
    ASSUME NEW c \in CapsRecord, NEW proj \in Nat, NEW ph \in Phase,
           NEW any \in Phase
    PROVE  CommittedStake(CanPlaceCaps(c, proj, ph), any) = CommittedStake(c, any)
  BY DEF CanPlaceCaps, InplayChecked, CheckInplayLoss, Halt, CapsRecord,
         CommittedStake

\* Opening a quote commits its pair cost to its own phase only, unless the
\* phases share one pool.
LEMMA OpenCommits ==
    ASSUME NEW c \in CapsRecord, NEW proj \in Nat, NEW ph \in Phase,
           NEW other \in Phase \ {ph}
    PROVE  /\ CommittedStake(OnOpen(c, proj, ph), ph) = CommittedStake(c, ph) + proj
           /\ InplayPool > 0 => CommittedStake(OnOpen(c, proj, ph), other)
                                = CommittedStake(c, other)
  BY LiveCapsAssumption DEF OnOpen, AddTo, CapsRecord, CommittedStake, Phase

\* Cancelling the order under the key never commits more.
LEMMA CancelCommits ==
    ASSUME LedgerInv, NEW k \in Keys, NEW any \in Phase
    PROVE  CommittedStake(AfterCancel(k), any) <= CommittedStake(caps, any)
  <1>1. /\ caps \in CapsRecord
        /\ CommittedStake(caps, any) \in Int
    BY DEF LedgerInv, TypeOK, CapsRecord, CommittedStake
  <1>2. CASE open_orders[k] = NoOrder
    BY <1>1, <1>2 DEF AfterCancel
  <1>3. CASE open_orders[k] # NoOrder
    <2> DEFINE o == open_orders[k]
    <2>1. o.pair \in Nat /\ o.phase \in Phase
      BY <1>3 DEF LedgerInv, TypeOK, Order
    <2>2. AfterCancel(k) = OnClose(caps, o.pair, o.phase)
      BY <1>3 DEF AfterCancel, Released
    <2>3. /\ Floor0(caps.reserved_stake - o.pair) <= caps.reserved_stake
          /\ TakeFrom(caps.reserved_by_phase, o.phase, o.pair)[any]
               <= caps.reserved_by_phase[any]
          /\ TakeFrom(caps.reserved_by_phase, o.phase, o.pair)[any] \in Nat
          /\ Floor0(caps.reserved_stake - o.pair) \in Nat
      BY <1>1, <2>1 DEF TakeFrom, Floor0, CapsRecord
    <2> DEFINE d == AfterCancel(k)
    <2>4. /\ d.stake_today = caps.stake_today
          /\ d.stake_by_phase = caps.stake_by_phase
          /\ d.reserved_stake = Floor0(caps.reserved_stake - o.pair)
          /\ d.reserved_by_phase = TakeFrom(caps.reserved_by_phase, o.phase, o.pair)
      BY <1>1, <2>2 DEF OnClose, CapsRecord
    <2>5. /\ caps.stake_today \in Nat /\ caps.stake_by_phase[any] \in Nat
          /\ caps.reserved_stake \in Nat /\ caps.reserved_by_phase[any] \in Nat
      BY <1>1 DEF CapsRecord
    <2> HIDE DEF d, o
    <2> QED BY <2>3, <2>4, <2>5 DEF CommittedStake, d
  <1> QED BY <1>2, <1>3

\* A placement fits its phase's pool, and with fenced pools takes nothing of
\* what the other phase may still place.
THEOREM PlacementsFitPools == Spec => PoolsRespected
  <1> DEFINE Fit(k) ==
        LET ph == open_orders'[k].phase
        IN  /\ CommittedStake(caps', ph) <= PoolFor(ph)
            /\ \A other \in Phase \ {ph} :
                 InplayPool > 0 =>
                   CommittedStake(caps', other) <= CommittedStake(caps, other)
  <1>1. ASSUME LedgerInv, [Next]_vars
        PROVE  \A k \in Keys : Places(k) => Fit(k)
    <2> SUFFICES ASSUME NEW k \in Keys, Places(k) PROVE Fit(k)
      OBVIOUS
    <2>1. PlaceOrReprice(k)
      BY <1>1, PlacesOnlyByPlacing
    <2>2. PICK ph \in Phase, pair \in Nat, placed \in BOOLEAN, new \in Order :
             LET c == AfterCancel(k)
                 asked == CanPlaceCaps(c, pair, ph)
             IN  /\ placed => CanPlace(c, pair, ph)
                 /\ caps' = IF placed THEN OnOpen(asked, pair, ph) ELSE asked
                 /\ open_orders' = [open_orders EXCEPT ![k] =
                                      IF placed THEN new ELSE NoOrder]
                 /\ new.phase = ph /\ new.pair = pair
      BY <1>1, <2>1, PlaceFacts
    <2>3. placed /\ open_orders'[k].phase = ph
      BY <1>1, <2>2 DEF Places, LedgerInv, TypeOK
    <2> DEFINE c == AfterCancel(k)
               asked == CanPlaceCaps(c, pair, ph)
    <2>4. c \in CapsRecord
      BY <1>1, AfterCancelType
    <2>5. /\ \A any \in Phase : CommittedStake(c, any) <= CommittedStake(caps, any)
          /\ CommittedStake(c, ph) + pair <= PoolFor(ph)
      <3>1. ~OverPool(c, pair, ph)
        BY <2>2, <2>3 DEF CanPlace
      <3>2. CommittedStake(c, ph) \in Int /\ PoolFor(ph) \in Int
        BY <2>4, LiveCapsAssumption DEF CommittedStake, CapsRecord, PoolFor
      <3> QED BY <1>1, <3>1, <3>2, CancelCommits DEF OverPool
    <2> HIDE DEF c
    <2>6. /\ \A any \in Phase : CommittedStake(asked, any) = CommittedStake(c, any)
          /\ asked \in CapsRecord
      BY <2>4, AskedCommits, CanPlaceCapsBooks DEF Books
    <2> HIDE DEF asked
    <2>7. caps' = OnOpen(asked, pair, ph)
      BY <2>2, <2>3 DEF asked, c
    <2>8. \A other \in Phase \ {ph} :
            /\ CommittedStake(caps', ph) = CommittedStake(asked, ph) + pair
            /\ InplayPool > 0 =>
                 CommittedStake(caps', other) = CommittedStake(asked, other)
      BY <2>6, <2>7, OpenCommits
    <2>9. Phase \ {ph} # {}
      BY DEF Phase
    <2>10. CommittedStake(caps', ph) = CommittedStake(asked, ph) + pair
      BY <2>8, <2>9
    <2> QED BY <2>3, <2>5, <2>6, <2>8, <2>10
  <1> QED BY <1>1, LedgerInvariant, PTL DEF Spec, PoolsRespected

-----------------------------------------------------------------------------
(* Crashes: the fills counted today and the stops of in-play are on disk   *)
(* whenever no handler runs, so a restart gives back no rail.              *)

\* A realized in-play loss at the sub-cap has latched it.
LossLatched(c) ==
    (InplayMaxLoss > 0 /\ c.pnl_by_phase["inplay"] <= -InplayMaxLoss)
        => c.inplay_budget_halted

Stopped(c, ih) == ih \/ c.inplay_budget_halted

\* Between handlers, and once a fill is consumed, the file of the day holds
\* at least the fills counted in memory and any stop of in-play; the circuit
\* alone lags by the sweep of the handler that tripped it.
Written ==
    day = utc =>
        /\ Stage \in {"idle", "raised", "stopping"} =>
             file.day = utc /\ file.fills_today >= caps.fills_today
        /\ Stage \in {"idle", "raised"} \/ (Stage = "stopping" /\ ~handler.trips)
             => (Stopped(caps, inplay_halted) => Stopped(file, file.inplay_halted))

RailInv ==
    /\ LossLatched(caps)
    /\ LossLatched(file)
    /\ day <= utc
    /\ Written

\* d counts no fewer fills than c and keeps c's stop of in-play.
Rails(c, d) ==
    /\ d \in CapsRecord
    /\ d.fills_today >= c.fills_today
    /\ c.inplay_budget_halted => d.inplay_budget_halted
    /\ LossLatched(c) => LossLatched(d)

\* Rails of rails are rails.
LEMMA RailsTrans ==
    ASSUME NEW c \in CapsRecord, NEW d \in CapsRecord, NEW e,
           Rails(c, d), Rails(d, e)
    PROVE  Rails(c, e)
  BY DEF Rails, CapsRecord

\* commit_stake moves no fill, no pnl and no rail.
LEMMA CommitStakeRails ==
    ASSUME NEW c \in CapsRecord, NEW usd \in Nat, NEW ph \in Phase
    PROVE  LET d == CommitStake(c, usd, ph)
           IN  Rails(c, d) /\ d.fills_today = c.fills_today
               /\ d.inplay_budget_halted = c.inplay_budget_halted
  <1>1. CommitStake(c, usd, ph) \in CapsRecord
    BY CommitStakeBooks DEF Books
  <1> QED BY <1>1 DEF CommitStake, CapsRecord, Rails, LossLatched

\* _halt moves no fill, no pnl and no rail of in-play.
LEMMA HaltRails ==
    ASSUME NEW c \in CapsRecord, NEW why \in HaltReasons \ {"none"}
    PROVE  Rails(c, Halt(c, why)) /\ Halt(c, why).fills_today = c.fills_today
  <1>1. Halt(c, why) \in CapsRecord
    BY HaltBooks DEF Books
  <1> QED BY <1>1 DEF Halt, CapsRecord, Rails, LossLatched

\* Latching an orphan or a quarantine moves no rail of in-play.
LEMMA LatchRails ==
    ASSUME NEW c, NEW d \in CapsRecord, Rails(c, d), NEW why \in Latches
    PROVE  Rails(c, Latch(d, why)) /\ Latch(d, why).fills_today = d.fills_today
  <1>1. Latch(d, why) \in CapsRecord
    BY LatchType
  <1> QED BY <1>1 DEF Latch, CapsRecord, Rails, LossLatched

\* adjust_pnl counts no fill and leaves a loss at the sub-cap latched.
LEMMA AdjustPnlRails ==
    ASSUME NEW c \in CapsRecord, NEW usd \in Int, NEW ph \in Phase,
           c.halted => c.halt_reason # "none"
    PROVE  LET d == AdjustPnl(c, usd, ph)
           IN  Rails(c, d) /\ d.fills_today = c.fills_today /\ LossLatched(d)
  <1> DEFINE g == AddTo(c.pnl_by_phase, ph, usd)
             a == [c EXCEPT !.pnl_today = @ + usd, !.pnl_by_phase = g]
             e == CheckInplayLoss(a)
             d == CheckDailyLoss(e)
  <1>1. d \in CapsRecord
    BY AdjustPnlBooks DEF Books, AdjustPnl
  <1>2. g \in [Phase -> Int] /\ c.pnl_today + usd \in Int
    <2>1. c.pnl_by_phase \in [Phase -> Int] /\ c.pnl_today \in Int
      BY DEF CapsRecord
    <2> QED BY <2>1, AddToInt
  <1> HIDE DEF g
  <1>3. /\ a \in CapsRecord /\ a.fills_today = c.fills_today
        /\ a.inplay_budget_halted = c.inplay_budget_halted
    BY <1>2 DEF CapsRecord
  <1> HIDE DEF a
  <1>4. /\ e \in CapsRecord /\ e.fills_today = c.fills_today
        /\ c.inplay_budget_halted => e.inplay_budget_halted
        /\ LossLatched(e)
    BY <1>3 DEF CheckInplayLoss, CapsRecord, LossLatched
  <1> HIDE DEF e
  <1>5. /\ d.fills_today = c.fills_today
        /\ d.inplay_budget_halted = e.inplay_budget_halted
        /\ d.pnl_by_phase = e.pnl_by_phase
    BY <1>4 DEF CheckDailyLoss, Halt, CapsRecord
  <1>6. c.fills_today \in Nat
    BY DEF CapsRecord
  <1> HIDE DEF d
  <1>7. Rails(c, d) /\ d.fills_today = c.fills_today /\ LossLatched(d)
    BY <1>1, <1>4, <1>5, <1>6 DEF Rails, LossLatched
  <1> QED BY <1>7 DEF d, e, a, g, AdjustPnl

\* on_fill counts the fill, booked or implausible.
LEMMA OnFillRails ==
    ASSUME NEW c \in CapsRecord, NEW pnl \in Int, NEW locked \in BOOLEAN,
           NEW ph \in Phase, c.halted => c.halt_reason # "none"
    PROVE  Rails(c, OnFill(c, pnl, locked, ph))
  <1> DEFINE d == [c EXCEPT !.fills_today = @ + 1]
  <1>1. d \in CapsRecord /\ Rails(c, d) /\ (d.halted => d.halt_reason # "none")
    BY DEF CapsRecord, Rails, LossLatched
  <1>2. "implausible_fill_pnl" \in HaltReasons \ {"none"}
    BY DEF HaltReasons, StickyHalts
  <1> HIDE DEF d
  <1>3. Rails(d, Halt(d, "implausible_fill_pnl")) /\ Rails(d, AdjustPnl(d, pnl, ph))
    BY <1>1, <1>2, HaltRails, AdjustPnlRails
  <1>4. Rails(c, Halt(d, "implausible_fill_pnl")) /\ Rails(c, AdjustPnl(d, pnl, ph))
    BY <1>1, <1>3, RailsTrans
  <1> QED BY <1>4 DEF OnFill, d

\* A leg committed before or after a counted fill.
LEMMA FillCommitRails ==
    ASSUME NEW c \in CapsRecord, c.halted => c.halt_reason # "none",
           NEW usd \in Nat, NEW pnl \in Int, NEW locked \in BOOLEAN,
           NEW ph \in Phase
    PROVE  /\ Rails(c, OnFill(CommitStake(c, usd, ph), pnl, locked, ph))
           /\ Rails(c, CommitStake(OnFill(c, pnl, locked, ph), usd, ph))
  <1> DEFINE d == CommitStake(c, usd, ph)
             e == OnFill(c, pnl, locked, ph)
  <1>1. Books(c, d) /\ Rails(c, d) /\ Rails(c, e)
    BY CommitStakeBooks, CommitStakeRails, OnFillRails
  <1>2. d \in CapsRecord /\ (d.halted => d.halt_reason # "none") /\ e \in CapsRecord
    BY <1>1 DEF Books, Rails
  <1> HIDE DEF d, e
  <1>3. Rails(d, OnFill(d, pnl, locked, ph)) /\ Rails(e, CommitStake(e, usd, ph))
    BY <1>2, OnFillRails, CommitStakeRails
  <1>4. Rails(c, OnFill(d, pnl, locked, ph)) /\ Rails(c, CommitStake(e, usd, ph))
    BY <1>1, <1>2, <1>3, RailsTrans
  <1> QED BY <1>4 DEF d, e

\* The pnl restated, then a leg committed.
LEMMA AdjustCommitRails ==
    ASSUME NEW c \in CapsRecord, c.halted => c.halt_reason # "none",
           NEW usd \in Nat, NEW pnl \in Int, NEW ph \in Phase
    PROVE  LET d == CommitStake(AdjustPnl(c, pnl, ph), usd, ph)
           IN  Rails(c, d) /\ d.fills_today = c.fills_today /\ LossLatched(d)
  <1> DEFINE e == AdjustPnl(c, pnl, ph)
  <1>1. Rails(c, e) /\ e.fills_today = c.fills_today /\ LossLatched(e)
    BY AdjustPnlRails
  <1>2. e \in CapsRecord
    BY <1>1 DEF Rails
  <1> HIDE DEF e
  <1>3. /\ Rails(e, CommitStake(e, usd, ph))
        /\ CommitStake(e, usd, ph).fills_today = e.fills_today
    BY <1>2, CommitStakeRails
  <1>4. Rails(c, CommitStake(e, usd, ph))
    BY <1>1, <1>2, <1>3, RailsTrans
  <1>5. LossLatched(CommitStake(e, usd, ph))
    BY <1>1, <1>3 DEF Rails
  <1> QED BY <1>1, <1>3, <1>4, <1>5 DEF e

\* Every outcome of the hedge chain keeps the rails and takes back no fill.
LEMMA OutcomesRails ==
    ASSUME LedgerInv, NEW k \in Keys, k \in OpenKeys, NEW n \in Nat \ {0},
           NEW r \in Outcomes(k, n) \cup
             {Failed(CommitStake(caps, n * open_orders[k].price,
                                 open_orders[k].phase), open_orders[k], n)}
    PROVE  Rails(caps, r.caps)
  <1> DEFINE o == open_orders[k]
             c == CommitStake(caps, n * o.price, o.phase)
  <1>1. /\ o \in Order /\ o.phase \in Phase /\ o.price \in Nat
        /\ HedgePrices \subseteq Nat /\ Payout \in Nat
    BY CapsLedgerAssumption DEF LedgerInv, TypeOK, OpenKeys, Order
  <1>2. Books(caps, c) /\ Rails(caps, c)
    BY <1>1, NatProduct, CommitStakeBooks, CommitStakeRails DEF LedgerInv, TypeOK
  <1>3. c \in CapsRecord /\ (c.halted => c.halt_reason # "none")
    BY <1>2 DEF Books, LedgerInv
  <1> HIDE DEF c
  <1>4. \A d, bad, pair : \A latch \in Latches :
          Rails(c, d) => Rails(caps, Outcome(d, bad, pair, latch).caps)
    <2> SUFFICES ASSUME NEW d, NEW bad, NEW pair, NEW latch \in Latches, Rails(c, d)
                 PROVE  Rails(caps, Outcome(d, bad, pair, latch).caps)
      OBVIOUS
    <2>1. Rails(caps, d)
      BY <1>2, <1>3, RailsTrans DEF LedgerInv, TypeOK
    <2>2. Outcome(d, bad, pair, latch).caps = Latch(d, latch)
      BY DEF Outcome
    <2>3. d \in CapsRecord
      BY <2>1 DEF Rails
    <2>4. Rails(caps, Latch(d, latch))
      BY <2>1, <2>3, LatchRails
    <2> QED BY <2>2, <2>4
  <1>5. /\ TRUE \in BOOLEAN /\ FALSE \in BOOLEAN
        /\ {"none", "orphan_position", "booking_quarantine"} \subseteq Latches
    BY DEF Latches
  <1>6. ASSUME NEW hp \in HedgePrices
        PROVE  Rails(caps, Locked(c, o, n, hp).caps)
    <2>1. n * hp \in Nat /\ n * (Payout - o.price - hp) \in Int
      BY <1>1, NatProduct, IntProduct
    <2>2. Rails(c, OnFill(CommitStake(c, n * hp, o.phase),
                          n * (Payout - o.price - hp), TRUE, o.phase))
      BY <1>1, <1>3, <1>5, <2>1, FillCommitRails
    <2> QED BY <1>4, <1>5, <2>2 DEF Locked
  <1>7. ASSUME NEW hp \in HedgePrices
        PROVE  Rails(caps, Deferred(c, o, n, hp).caps)
    <2>1. n * hp \in Nat /\ 0 \in Int
      BY <1>1, NatProduct
    <2>2. Rails(c, OnFill(CommitStake(c, n * hp, o.phase), 0, TRUE, o.phase))
      BY <1>1, <1>3, <1>5, <2>1, FillCommitRails, Zenon
    <2> QED BY <1>4, <1>5, <2>2 DEF Deferred
  <1>8. ASSUME NEW hp \in HedgePrices, NEW bid \in HedgePrices, n > 1
        PROVE  Rails(caps, Partial(c, o, n, hp, bid).caps)
    <2> DEFINE sub == Payout - o.price - hp
               cost == (n - 1) * (o.price - bid)
               booked == OnFill(CommitStake(c, hp, o.phase), sub, TRUE, o.phase)
               d == CommitStake(AdjustPnl(booked, -cost, o.phase), (n - 1) * bid,
                                o.phase)
    <2>1. /\ hp \in Nat /\ sub \in Int /\ cost \in Int /\ -cost \in Int
          /\ (n - 1) * bid \in Nat
      <3>1. n - 1 \in Nat /\ bid \in Nat /\ o.price - bid \in Int /\ hp \in Nat
        BY <1>1, <1>8
      <3>2. cost \in Int
        BY <3>1, IntProduct
      <3> QED BY <1>1, <3>1, <3>2, NatProduct
    <2> HIDE DEF sub, cost
    <2>2. Books(c, booked) /\ Rails(c, booked)
      BY <1>1, <1>3, <1>5, <2>1, FillThenCommit, FillCommitRails, Zenon
    <2>3. booked \in CapsRecord /\ (booked.halted => booked.halt_reason # "none")
      BY <1>3, <2>2 DEF Books
    <2> HIDE DEF booked
    <2>4. Rails(booked, d)
      BY <1>1, <2>1, <2>3, AdjustCommitRails
    <2> HIDE DEF d
    <2>5. Rails(c, d)
      BY <1>3, <2>2, <2>3, <2>4, RailsTrans
    <2> QED BY <1>4, <1>5, <2>5 DEF Partial, sub, cost, booked, d
  <1>9. ASSUME NEW bid \in HedgePrices
        PROVE  Rails(caps, Unwound(c, o, n, bid).caps)
    <2>1. n * bid \in Nat /\ -(n * (o.price - bid)) \in Int
      BY <1>1, NatProduct, IntProduct
    <2>2. Rails(c, CommitStake(OnFill(c, -(n * (o.price - bid)), FALSE, o.phase),
                               n * bid, o.phase))
      BY <1>1, <1>3, <1>5, <2>1, FillCommitRails
    <2> QED BY <1>4, <1>5, <2>2 DEF Unwound
  <1>10. Rails(caps, Refused(c).caps)
    <2>1. Rails(c, c)
      BY <1>3 DEF Rails, CapsRecord
    <2> QED BY <1>4, <1>5, <2>1 DEF Refused
  <1>11. Rails(caps, Failed(c, o, n).caps)
    <2>1. n * o.price \in Nat
      BY <1>1, NatProduct
    <2>2. -(n * o.price) \in Int
      BY <2>1
    <2>3. Rails(c, OnFill(c, -(n * o.price), FALSE, o.phase))
      BY <1>1, <1>3, <1>5, <2>2, OnFillRails
    <2> QED BY <1>4, <1>5, <2>3 DEF Failed
  <1>12. \/ \E hp \in HedgePrices : r = Locked(c, o, n, hp)
         \/ \E hp \in HedgePrices : r = Deferred(c, o, n, hp)
         \/ \E hp, bid \in HedgePrices : n > 1 /\ r = Partial(c, o, n, hp, bid)
         \/ \E bid \in HedgePrices : r = Unwound(c, o, n, bid)
         \/ r = Refused(c)
         \/ r = Failed(c, o, n)
    BY DEF Outcomes, c
  <1> QED BY <1>6, <1>7, <1>8, <1>9, <1>10, <1>11, <1>12

-----------------------------------------------------------------------------
(* What each handler does to the rails.                                    *)

\* d agrees with c on the fills counted and on everything of in-play's rail.
SameRails(c, d) ==
    /\ d.fills_today = c.fills_today
    /\ d.inplay_budget_halted = c.inplay_budget_halted
    /\ d.pnl_by_phase = c.pnl_by_phase

\* A handler that leaves the rails, the file and the clock alone, ends where
\* the file was already due, or is not there yet.
LEMMA RailsKept ==
    ASSUME LedgerInv, RailInv, SameRails(caps, caps'),
           UNCHANGED <<inplay_halted, utc, day, file>>,
           \/ Stage' \notin {"idle", "raised", "stopping"}
           \/ Stage \in {"idle", "raised"}
           \/ /\ Stage = "stopping" /\ Stage' = "stopping"
              /\ handler'.trips = handler.trips
    PROVE  RailInv'
  BY DEF RailInv, SameRails, LossLatched, Written, Stopped, Stage

\* What a handler that writes the daily file leaves: the file and the memory
\* agree on fills and rails, and it is the file of this day.
LEMMA RailsPersisted ==
    ASSUME LedgerInv, LossLatched(caps'), day' <= utc', NEW ih \in BOOLEAN,
           caps' \in CapsRecord, utc' = utc,
           file' = Persist(caps', ih),
           Stage' \in {"idle", "raised"} \/ (Stage' = "stopping" /\ ~handler'.trips)
             => (inplay_halted' => ih)
    PROVE  RailInv'
  <1>1. /\ file'.day = utc' /\ file'.fills_today = caps'.fills_today
        /\ file'.pnl_by_phase = caps'.pnl_by_phase
        /\ file'.inplay_budget_halted = caps'.inplay_budget_halted
        /\ file'.inplay_halted = ih
    BY DEF Persist
  <1>2. caps'.fills_today \in Nat
    BY DEF CapsRecord
  <1>3. Written'
    BY <1>1, <1>2 DEF Written, Stopped, Stage
  <1>4. LossLatched(file')
    BY <1>1 DEF LossLatched
  <1> QED BY <1>3, <1>4 DEF RailInv, LossLatched

\* An order that leaves moves no rail.
LEMMA ReleasedRails ==
    ASSUME NEW c \in CapsRecord, NEW o \in Order
    PROVE  SameRails(c, Released(c, o))
  BY DEF Released, OnClose, CapsRecord, SameRails

\* Asking and placing move no rail: the sub-cap was latched by the booking.
LEMMA PlaceRails ==
    ASSUME LedgerInv, RailInv, NEW k \in Keys, PlaceOrReprice(k)
    PROVE  SameRails(caps, caps')
  <1>1. PICK ph \in Phase, pair \in Nat, placed \in BOOLEAN, new \in Order :
             LET c == AfterCancel(k)
                 asked == CanPlaceCaps(c, pair, ph)
             IN  caps' = IF placed THEN OnOpen(asked, pair, ph) ELSE asked
    BY PlaceFacts
  <1> DEFINE c == AfterCancel(k)
             asked == CanPlaceCaps(c, pair, ph)
  <1>2. c \in CapsRecord
    BY AfterCancelType
  <1>3. SameRails(caps, c)
    <2>1. CASE open_orders[k] = NoOrder
      BY <2>1 DEF AfterCancel, SameRails
    <2>2. CASE open_orders[k] # NoOrder
      <3>1. open_orders[k] \in Order /\ caps \in CapsRecord
        BY <2>2 DEF LedgerInv, TypeOK
      <3> QED BY <2>2, <3>1, ReleasedRails DEF AfterCancel
    <2> QED BY <2>1, <2>2
  <1>4. LossLatched(c)
    BY <1>3 DEF SameRails, RailInv, LossLatched
  <1> HIDE DEF c
  <1>5. SameRails(c, asked) /\ asked \in CapsRecord
    <2>1. asked \in CapsRecord
      BY <1>2, CanPlaceCapsBooks DEF Books
    <2>2. SameRails(c, InplayChecked(c, ph))
      <3>1. SameRails(c, CheckInplayLoss(c))
        BY <1>2, <1>4 DEF CheckInplayLoss, LossLatched, SameRails, CapsRecord
      <3> QED BY <3>1 DEF InplayChecked, SameRails
    <2>3. \A why : SameRails(c, Halt(c, why))
      BY <1>2 DEF Halt, SameRails, CapsRecord
    <2> QED BY <2>1, <2>2, <2>3 DEF CanPlaceCaps
  <1> HIDE DEF asked
  <1>6. SameRails(asked, OnOpen(asked, pair, ph))
    BY <1>5 DEF OnOpen, SameRails, CapsRecord
  <1>7. caps' = IF placed THEN OnOpen(asked, pair, ph) ELSE asked
    BY <1>1 DEF asked, c
  <1> QED BY <1>3, <1>5, <1>6, <1>7 DEF SameRails

\* A raised chain commits its rest leg and moves no rail.
LEMMA RaiseRails ==
    ASSUME LedgerInv, NEW k \in Keys, HedgeRaises(k)
    PROVE  SameRails(caps, caps')
  <1> DEFINE o == open_orders[k]
  <1>1. o \in Order
    BY DEF HedgeRaises, OpenKeys, LedgerInv, TypeOK
  <1>2. PICK n \in 1..(o.size - o.matched), latch \in Latches :
          caps' = Latch(CommitStake(caps, n * o.price, o.phase), latch)
    BY DEF HedgeRaises, Outcome, Latches
  <1>3. n * o.price \in Nat /\ o.phase \in Phase
    <2>1. n \in Nat /\ o.price \in Nat /\ o.phase \in Phase
      BY <1>1 DEF Order
    <2> QED BY <2>1, NatProduct
  <1> DEFINE d == CommitStake(caps, n * o.price, o.phase)
  <1>4. d \in CapsRecord /\ SameRails(caps, d)
    <2>1. d \in CapsRecord
      BY <1>3, CommitStakeBooks DEF Books, LedgerInv, TypeOK
    <2> QED BY <2>1 DEF CommitStake, SameRails, LedgerInv, TypeOK, CapsRecord
  <1> HIDE DEF d
  <1> QED BY <1>2, <1>4 DEF d, Latch, SameRails, CapsRecord

\* Booking a fill takes back none and keeps a stop of in-play.
LEMMA BookRails ==
    ASSUME LedgerInv, NEW k \in Keys, Book(k)
    PROVE  Rails(caps, caps')
  <1> DEFINE o == open_orders[k]
             fail(n) == Failed(CommitStake(caps, n * o.price, o.phase), o, n)
  <1>1. k \in OpenKeys /\ o \in Order
    BY DEF Book, OpenKeys, LedgerInv, TypeOK
  <1>2. PICK n \in 1..(o.size - o.matched) :
          \E r \in Outcomes(k, n) \cup {fail(n)} : caps' = r.caps
    BY Zenon DEF Book
  <1>3. n \in Nat \ {0}
    BY <1>1 DEF Order
  <1>4. PICK r \in Outcomes(k, n) \cup {fail(n)} : caps' = r.caps
    BY <1>2, Zenon
  <1> QED BY <1>1, <1>3, <1>4, OutcomesRails

\* Resolving a pair counts no fill, and trips the circuit if it broke a rail.
LEMMA ResolveRails ==
    ASSUME LedgerInv, NEW k \in Keys, ResolvePending(k)
    PROVE  /\ Rails(caps, caps') /\ caps'.fills_today = caps.fills_today
           /\ LossLatched(caps')
  <1> DEFINE p == pending[k]
             c(bid, confirmed) ==
               IF confirmed THEN AdjustPnl(caps, p.n * p.net, p.phase)
               ELSE CommitStake(AdjustPnl(caps, -(p.n * (p.price - bid)), p.phase),
                                p.n * bid, p.phase)
  <1>1. PICK bid \in HedgePrices, confirmed \in BOOLEAN : caps' = c(bid, confirmed)
    BY Zenon DEF ResolvePending
  <1>2. /\ p.n \in Nat /\ p.price \in Nat /\ p.net \in Int /\ p.phase \in Phase
        /\ bid \in Nat
    <2>1. p \in Pair /\ bid \in Nat
      BY CapsLedgerAssumption DEF ResolvePending, LedgerInv, TypeOK
    <2> QED BY <2>1 DEF Pair
  <1>3. /\ p.n * p.net \in Int /\ p.n * (p.price - bid) \in Int
        /\ p.n * bid \in Nat
    BY <1>2, NatProduct, IntProduct
  <1>4. -(p.n * (p.price - bid)) \in Int
    BY <1>3
  <1>5. caps \in CapsRecord /\ (caps.halted => caps.halt_reason # "none")
    BY DEF LedgerInv, TypeOK
  <1>6. CASE confirmed
    <2>1. caps' = AdjustPnl(caps, p.n * p.net, p.phase)
      BY <1>1, <1>6
    <2> QED BY <1>2, <1>3, <1>5, <2>1, AdjustPnlRails
  <1>7. CASE ~confirmed
    <2>1. caps' = CommitStake(AdjustPnl(caps, -(p.n * (p.price - bid)), p.phase),
                              p.n * bid, p.phase)
      BY <1>1, <1>7
    <2> QED BY <1>2, <1>3, <1>4, <1>5, <2>1, AdjustCommitRails
  <1> QED BY <1>6, <1>7

\* Restating a mark counts no fill and keeps a stop of in-play.
LEMMA RestateRails ==
    ASSUME LedgerInv, NEW k \in Keys, Restate(k)
    PROVE  /\ Rails(caps, caps') /\ caps'.fills_today = caps.fills_today
           /\ LossLatched(caps')
  <1>1. PICK bid \in HedgePrices :
          caps' = AdjustPnl(caps, marks[k].n * bid, marks[k].phase)
    BY DEF Restate
  <1>2. marks[k].n * bid \in Int /\ marks[k].phase \in Phase
    <2>1. marks[k].n \in Nat /\ marks[k].phase \in Phase /\ bid \in Nat
      BY CapsLedgerAssumption DEF Restate, LedgerInv, TypeOK, Mark
    <2> QED BY <2>1, NatProduct
  <1> QED BY <1>1, <1>2, AdjustPnlRails DEF LedgerInv, TypeOK

\* A reload takes the fills, the pnl and both stops from the file of the day.
LEMMA RestoredRails ==
    ASSUME LedgerInv
    PROVE  IF file.day = utc
           THEN SameRails(file, Restored)
           ELSE SameRails(FreshCaps, Restored)
  <1> DEFINE g == FreshCaps
             c == [g EXCEPT !.stake_today = file.stake_today,
                            !.fills_today = file.fills_today,
                            !.pnl_today = file.pnl_today,
                            !.stake_by_phase = file.stake_by_phase,
                            !.pnl_by_phase = file.pnl_by_phase,
                            !.inplay_budget_halted = file.inplay_budget_halted]
             d == IF file.day = utc THEN c ELSE g
             why == IF "booking_quarantine" \in latched THEN "booking_quarantine"
                    ELSE "orphan_position"
  <1>1. g \in CapsRecord /\ file \in Snapshot
    BY FreshCapsType DEF LedgerInv, TypeOK
  <1>2. Restored = IF latched = {} THEN d
                   ELSE [d EXCEPT !.halted = TRUE, !.halt_reason = why]
    BY DEF Restored
  <1> HIDE DEF g, why
  <1>3. c \in CapsRecord /\ SameRails(file, c)
    BY <1>1 DEF CapsRecord, Snapshot, SameRails
  <1> HIDE DEF c
  <1>4. d \in CapsRecord
        /\ IF file.day = utc THEN SameRails(file, d) ELSE SameRails(g, d)
    BY <1>1, <1>3 DEF SameRails
  <1> HIDE DEF d
  <1>5. SameRails(d, Restored)
    BY <1>2, <1>4 DEF SameRails, CapsRecord
  <1> QED BY <1>4, <1>5 DEF SameRails, g

\* Nothing has been counted, lost or written at the first start.
LEMMA RailInit == Init => RailInv
  <1> SUFFICES ASSUME Init PROVE RailInv
    OBVIOUS
  <1>1. /\ caps = FreshCaps /\ day = NoDay /\ utc = 0
        /\ file.pnl_by_phase = FreshCaps.pnl_by_phase
    BY DEF Init, Persist
  <1>2. FreshCaps.pnl_by_phase["inplay"] = 0
    BY DEF FreshCaps, Phase
  <1> QED BY <1>1, <1>2, LiveCapsAssumption
          DEF RailInv, LossLatched, Written, NoDay

\* Every step of the ledger keeps the rails written.
LEMMA RailStep == LedgerInv /\ RailInv /\ [Next]_vars => RailInv'
  <1> SUFFICES ASSUME LedgerInv, RailInv, [Next]_vars PROVE RailInv'
    OBVIOUS
  <1>0. /\ caps \in CapsRecord /\ caps' \in CapsRecord /\ LedgerInv'
        /\ LossLatched(caps) /\ day \in Int /\ utc \in Nat /\ day <= utc
        /\ inplay_halted \in BOOLEAN /\ Idle.stage = "idle"
    BY LedgerStep DEF LedgerInv, TypeOK, RailInv, Days, NoDay, Idle
  <1>1. ASSUME NEW k \in Keys, PlaceOrReprice(k) PROVE RailInv'
    <2>1. handler = Idle /\ UNCHANGED <<inplay_halted, utc, day, file, handler>>
      BY <1>1 DEF PlaceOrReprice
    <2> QED BY <1>0, <1>1, <2>1, PlaceRails, RailsKept DEF Stage
  <1>2. ASSUME NEW k \in Keys, Close(k) PROVE RailInv'
    <2>1. open_orders[k] \in Order
      BY <1>2 DEF Close, OpenKeys, LedgerInv, TypeOK
    <2>2. SameRails(caps, caps')
      BY <1>0, <1>2, <2>1, ReleasedRails DEF Close
    <2>3. UNCHANGED <<inplay_halted, utc, day, file, handler>>
      BY <1>2 DEF Close
    <2> QED BY <2>2, <2>3 DEF RailInv, SameRails, LossLatched, Written, Stopped, Stage
  <1>3. ASSUME NEW k \in Keys, Book(k) PROVE RailInv'
    <2>1. Rails(caps, caps') /\ UNCHANGED <<inplay_halted, utc, day, file>>
      BY <1>3, BookRails DEF Book
    <2>2. Stage' = "hedging"
      BY <1>3 DEF Book, InChain, Stage
    <2> QED BY <1>0, <2>1, <2>2 DEF RailInv, Rails, LossLatched, Written
  <1>4. ASSUME NEW k \in Keys, HedgeRaises(k) PROVE RailInv'
    <2>1. handler = Idle /\ UNCHANGED <<inplay_halted, utc, day, file>>
      BY <1>4 DEF HedgeRaises
    <2> QED BY <1>0, <1>4, <2>1, RaiseRails, RailsKept DEF Stage
  <1>5. CASE Abandon
    <2>1. Stage = "raised" /\ UNCHANGED <<caps, inplay_halted, utc, day, file>>
      BY <1>5 DEF Abandon
    <2> QED BY <2>1, RailsKept DEF SameRails
  <1>6. ASSUME NEW k \in Keys, Sweep(k) PROVE RailInv'
    <2>1. SameRails(caps, caps')
      <3>1. CASE UNCHANGED caps
        BY <3>1 DEF SameRails
      <3>2. CASE k \in OpenKeys /\ caps' = Released(caps, open_orders[k])
        <4>1. open_orders[k] \in Order
          BY <3>2 DEF OpenKeys, LedgerInv, TypeOK
        <4> QED BY <1>0, <3>2, <4>1, ReleasedRails
      <3> QED BY <1>6, <3>1, <3>2 DEF Sweep
    <2>2. UNCHANGED <<inplay_halted, utc, day, file>>
      BY <1>6 DEF Sweep
    <2>3. Stage' = Stage /\ handler'.trips = handler.trips
      BY <1>6 DEF Sweep, Stage, LedgerInv, TypeOK, Running
    <2> QED BY <2>1, <2>2, <2>3
            DEF RailInv, SameRails, LossLatched, Written, Stopped
  <1>7. CASE Consume
    <2> DEFINE trips == TripsInplay(caps, handler.bad)
    <2>1. /\ caps' = caps /\ utc' = utc /\ day' = day
          /\ file' = Persist(caps', inplay_halted)
          /\ inplay_halted' = (inplay_halted \/ trips)
      BY <1>7 DEF Consume
    <2>2. Stage' = "stopping" /\ handler'.trips = trips
      <3>1. handler \in Running
        BY <1>7 DEF Consume, Stage, LedgerInv, TypeOK, Idle
      <3> QED BY <1>7, <3>1 DEF Consume, Stage, Running
    <2> HIDE DEF trips
    <2> QED BY <1>0, <2>1, <2>2, RailsPersisted
  <1>8. CASE Finish
    <2>1. handler.order \in Order
      BY <1>8 DEF Finish, LedgerInv, HandlerOK
    <2>2. SameRails(caps, caps')
      <3>1. caps' = caps \/ caps' = Released(caps, handler.order)
        BY <1>8 DEF Finish
      <3> QED BY <1>0, <2>1, <3>1, ReleasedRails DEF SameRails
    <2>3. /\ UNCHANGED <<inplay_halted, utc, day>> /\ Stage = "stopping"
          /\ Stage' = "idle"
          /\ file' = IF handler.trips THEN Persist(caps, TRUE) ELSE file
      BY <1>0, <1>8 DEF Finish, Stage
    <2>4. CASE handler.trips
      <3>1. /\ file'.day = utc' /\ file'.fills_today = caps'.fills_today
            /\ file'.pnl_by_phase = caps'.pnl_by_phase
            /\ file'.inplay_halted
            /\ file'.inplay_budget_halted = caps'.inplay_budget_halted
        BY <2>2, <2>3, <2>4 DEF Persist, SameRails
      <3>2. caps'.fills_today \in Nat
        BY <1>0 DEF CapsRecord
      <3>3. LossLatched(caps') /\ LossLatched(file')
        BY <1>0, <2>2, <3>1 DEF SameRails, LossLatched
      <3>4. Written'
        BY <3>1, <3>2 DEF Written, Stopped
      <3> QED BY <1>0, <2>3, <3>3, <3>4 DEF RailInv, LossLatched
    <2>5. CASE ~handler.trips
      BY <2>2, <2>3, <2>5
         DEF RailInv, SameRails, LossLatched, Written, Stopped
    <2> QED BY <2>4, <2>5
  <1>9. ASSUME NEW k \in Keys, ResolvePending(k) PROVE RailInv'
    <2>1. /\ Rails(caps, caps') /\ caps'.fills_today = caps.fills_today
          /\ LossLatched(caps')
      BY <1>9, ResolveRails
    <2>2. Stage = "idle" /\ UNCHANGED <<utc, day, file>>
      BY <1>9 DEF ResolvePending, Stage, Idle
    <2>3. PICK bad :
            /\ inplay_halted' = (inplay_halted \/ TripsInplay(caps', bad))
            /\ IF TripsInplay(caps', bad) THEN Stage' = "settling"
               ELSE Stage' = "idle"
      <3>1. \E bad, order, n, todo :
              /\ inplay_halted' = (inplay_halted \/ TripsInplay(caps', bad))
              /\ handler' = IF TripsInplay(caps', bad)
                            THEN [stage |-> "settling", key |-> k,
                                  order |-> order, n |-> n, bad |-> bad,
                                  trips |-> TRUE, todo |-> todo]
                            ELSE Idle
        BY <1>9 DEF ResolvePending
      <3> QED BY <3>1 DEF Stage, Idle
    <2>4. CASE TripsInplay(caps', bad)
      BY <2>1, <2>2, <2>3, <2>4 DEF RailInv, LossLatched, Written
    <2>5. CASE ~TripsInplay(caps', bad)
      <3>1. /\ inplay_halted' = inplay_halted
            /\ inplay_halted \/ ~caps'.inplay_budget_halted
        BY <1>0, <2>3, <2>5 DEF TripsInplay
      <3> QED BY <2>1, <2>2, <2>3, <2>5, <3>1
              DEF RailInv, LossLatched, Written, Stopped
    <2> QED BY <2>4, <2>5
  <1>10. CASE Settle
    <2>1. caps' = caps /\ utc' = utc /\ day' = day /\ file' = Persist(caps', TRUE)
      BY <1>10 DEF Settle
    <2> QED BY <1>0, <2>1, RailsPersisted, Zenon
  <1>11. ASSUME NEW k \in Keys, Restate(k) PROVE RailInv'
    <2>1. LossLatched(caps')
      BY <1>11, RestateRails
    <2>2. /\ utc' = utc /\ day' = day /\ file' = Persist(caps', inplay_halted)
          /\ inplay_halted' = inplay_halted
      BY <1>11 DEF Restate
    <2> QED BY <1>0, <2>1, <2>2, RailsPersisted
  <1>12. CASE Midnight
    <2>1. utc' = utc + 1 /\ UNCHANGED <<caps, day, file>>
      BY <1>12 DEF Midnight
    <2> QED BY <1>0, <2>1 DEF RailInv, LossLatched, Written
  <1>13. CASE RollDay
    <2>1. /\ caps' = RollCaps(caps) /\ inplay_halted' = FALSE
          /\ day' = utc /\ utc' = utc /\ file' = Persist(caps', FALSE)
      BY <1>13 DEF RollDay
    <2>2. LossLatched(caps')
      <3>1. caps'.pnl_by_phase["inplay"] = 0
        BY <1>0, <2>1 DEF RollCaps, CapsRecord, Phase
      <3> QED BY <3>1, LiveCapsAssumption DEF LossLatched
    <2>3. day' <= utc'
      BY <1>0, <2>1
    <2>4. FALSE \in BOOLEAN /\ ~inplay_halted'
      BY <2>1
    <2> QED BY <1>0, <2>1, <2>2, <2>3, <2>4, RailsPersisted, Zenon
  <1>14. CASE Heartbeat
    <2>1. /\ utc' = utc /\ day' = day /\ caps' = caps
          /\ file' = Persist(caps', inplay_halted) /\ inplay_halted' = inplay_halted
      BY <1>14 DEF Heartbeat
    <2> QED BY <1>0, <2>1, RailsPersisted
  <1>15. CASE HealSlots \/ ClearOrphan
    <2>1. SameRails(caps, caps') /\ UNCHANGED <<inplay_halted, utc, day, file, handler>>
      BY <1>0, <1>15 DEF HealSlots, ClearOrphan, SameRails, CapsRecord
    <2>2. handler = Idle
      BY <1>15 DEF HealSlots, ClearOrphan
    <2> QED BY <1>0, <2>1, <2>2, RailsKept DEF Stage
  <1>16. CASE Restart
    <2>1. /\ caps' = Restored /\ UNCHANGED <<utc, file>> /\ Stage' = "idle"
          /\ inplay_halted' = (file.day = utc /\ file.inplay_halted)
          /\ day' = IF file.day = utc THEN utc ELSE NoDay
      BY <1>16 DEF Restart, Stage, Idle
    <2>2. CASE file.day = utc
      <3>1. SameRails(file, caps')
        BY <2>1, <2>2, RestoredRails
      <3>2. file.fills_today \in Nat /\ inplay_halted' = file.inplay_halted
        BY <2>1, <2>2 DEF LedgerInv, TypeOK, Snapshot
      <3> QED BY <1>0, <2>1, <2>2, <3>1, <3>2
              DEF RailInv, SameRails, LossLatched, Written, Stopped
    <2>3. CASE file.day # utc
      <3>1. SameRails(FreshCaps, caps')
        BY <2>1, <2>3, RestoredRails
      <3>2. FreshCaps.pnl_by_phase["inplay"] = 0
        BY DEF FreshCaps, Phase
      <3>3. LossLatched(caps')
        BY <3>1, <3>2, LiveCapsAssumption DEF SameRails, LossLatched
      <3> QED BY <1>0, <2>1, <2>3, <3>3 DEF RailInv, LossLatched, Written, NoDay
    <2> QED BY <2>2, <2>3
  <1>17. CASE UNCHANGED vars
    BY <1>17 DEF vars, RailInv, LossLatched, Written, Stopped, Stage
  <1> QED BY <1>1, <1>2, <1>3, <1>4, <1>5, <1>6, <1>7, <1>8, <1>9, <1>10, <1>11,
             <1>12, <1>13, <1>14, <1>15, <1>16, <1>17 DEF Next

\* While the counters belong to the clock's day, no handler and no crash
\* between two handlers takes back a fill or lets a stopped in-play resume.
THEOREM RailsKeptAcrossCrashes == Spec => RailsSurvive
  <1>1. ASSUME LedgerInv, RailInv, [Next]_vars, handler = Idle, day = utc
        PROVE  /\ caps'.fills_today >= caps.fills_today
               /\ Stopped(caps, inplay_halted) => Stopped(caps', inplay_halted')
    <2>1. caps \in CapsRecord /\ caps.fills_today \in Nat /\ Stage = "idle"
          /\ ~(handler \in Running) /\ Idle.stage = "idle"
      BY <1>1 DEF LedgerInv, TypeOK, CapsRecord, Stage, Idle, Running
    <2>2. CASE SameRails(caps, caps') /\ inplay_halted' = inplay_halted
      BY <2>1, <2>2 DEF SameRails, Stopped
    <2>3. ASSUME NEW k \in Keys, PlaceOrReprice(k) \/ Close(k) \/ HedgeRaises(k)
          PROVE  SameRails(caps, caps') /\ inplay_halted' = inplay_halted
      <3>1. Close(k) => SameRails(caps, caps')
        BY <1>1, <2>1, ReleasedRails DEF Close, OpenKeys, LedgerInv, TypeOK
      <3> QED BY <1>1, <2>3, <3>1, PlaceRails, RaiseRails
              DEF PlaceOrReprice, Close, HedgeRaises
    <2>4. ASSUME NEW k \in Keys, Book(k) \/ ResolvePending(k) \/ Restate(k)
          PROVE  Rails(caps, caps') /\ (inplay_halted => inplay_halted')
      <3>1. Rails(caps, caps')
        BY <1>1, <2>4, BookRails, ResolveRails, RestateRails
      <3>2. CASE Book(k) \/ Restate(k)
        BY <3>1, <3>2 DEF Book, Restate
      <3>3. CASE ResolvePending(k)
        <4>1. \E trips : inplay_halted' = (inplay_halted \/ trips)
          BY <3>3, Zenon DEF ResolvePending
        <4> QED BY <3>1, <4>1
      <3> QED BY <2>4, <3>2, <3>3
    <2>5. CASE Rails(caps, caps') /\ (inplay_halted => inplay_halted')
      BY <2>5 DEF Rails, Stopped
    <2>6. CASE HealSlots \/ ClearOrphan \/ Midnight \/ Heartbeat \/ UNCHANGED vars
      <3>1. SameRails(caps, caps') /\ inplay_halted' = inplay_halted
        BY <2>1, <2>6 DEF HealSlots, ClearOrphan, Midnight, Heartbeat, vars,
                          SameRails, CapsRecord
      <3> QED BY <2>2, <3>1
    <2>7. CASE Restart
      <3>1. file.day = utc /\ file.fills_today >= caps.fills_today
            /\ (Stopped(caps, inplay_halted) => Stopped(file, file.inplay_halted))
        BY <1>1, <2>1 DEF RailInv, Written
      <3>2. SameRails(file, caps') /\ inplay_halted' = file.inplay_halted
        BY <1>1, <2>7, <3>1, RestoredRails DEF Restart, LedgerInv, TypeOK, Snapshot
      <3> QED BY <3>1, <3>2 DEF SameRails, Stopped
    <2>8. ~RollDay /\ ~Abandon /\ ~Consume /\ ~Finish /\ ~Settle
          /\ \A k \in Keys : ~Sweep(k)
      BY <1>1, <2>1 DEF RollDay, Abandon, Consume, Finish, Settle, Sweep
    <2> QED BY <1>1, <2>2, <2>3, <2>4, <2>5, <2>6, <2>7, <2>8 DEF Next
  <1>2. LedgerInv /\ RailInv /\ [Next]_vars =>
          [handler = Idle /\ day = utc =>
             /\ caps'.fills_today >= caps.fills_today
             /\ (inplay_halted \/ caps.inplay_budget_halted) =>
                    (inplay_halted \/ caps.inplay_budget_halted)']_vars
    BY <1>1 DEF Stopped
  <1> QED BY <1>2, RailInit, RailStep, LedgerInvariant, PTL DEF Spec, RailsSurvive
=============================================================================
