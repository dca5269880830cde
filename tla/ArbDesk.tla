------------------------------- MODULE ArbDesk -------------------------------
(***************************************************************************)
(* The parts of the system that decide and account around the maker's      *)
(* books: the taker that fires both legs of an arbitrage, the odds scan,   *)
(* the arithmetic of quotes and sizes, the lifetime counters, the maker's  *)
(* process, the pairing of the two venues' markets, the watch of the match *)
(* trees, the price loop, the sale of a fill that could not be hedged, and *)
(* the odds scan of several sports with the rows it makes.                 *)
(*                                                                         *)
(* They share no variable: what one reads of another is an input its       *)
(* module chooses freely.  A behaviour of this specification is a          *)
(* behaviour of one of them, the others at rest; part says which.          *)
(***************************************************************************)
EXTENDS Integers, Sequences, FiniteSets

CONSTANTS
    KalshiLegs, PolyLegs, MaxSize, MinPoly, Prints, MaxErrors, MaxTrades, MaxLoss, Faults,
    Scans, Signatures, MaxNow, MaxAge, Dedup, Interval, Allowance, Margin, RefreshMin,
    CatalogCost, Tournaments, OddsCalls, Slips,
    Target, QuoteUsd, MinShares, PerTrade, Bankroll,
    QuoteInputs, SizeInputs, SplitInputs, PlanInputs,
    Corrections, Implausible, MaxDay, MaxStarts, MaxEvents, MaxLadder,
    Makers, NoOwner, Smoke,
    Listings,
    Contests, Window,
    Fixtures, MaxBuilds, MaxEnded, MaxGames, PerSport, TreeSlips,
    Markets, MaxPasses, DriftLast, LiveAllowed, LoopSlips,
    Contract, Tolerance, PolyMin, FillSizes, MaxBought, Attempts, EntryPrice, Bids,
    Ceiling, Mishaps,
    OddsSports, OddsEvery, Wanted, Cups, DayLength, Reprobe, LastTime, OddsSlips,
    Boards, AskPrices, TakerFee

ASSUME TakerAssumption ==
    /\ IsFiniteSet(KalshiLegs) /\ IsFiniteSet(PolyLegs)
    /\ KalshiLegs \cup PolyLegs # {} /\ KalshiLegs \cap PolyLegs = {}
    /\ MaxSize \in Nat /\ MinPoly \in Nat

\* No owner is no maker; the trees list finitely many games, each at its time.
ASSUME MakerAssumption ==
    /\ NoOwner \notin Makers
    /\ IsFiniteSet(Fixtures) /\ \A g \in Fixtures : g.kick \in Nat
    /\ MaxGames \in Nat /\ PerSport \in Nat

\* The tolerance is less than anything that can be sold; no price is negative.
ASSUME ExitAssumption ==
    /\ Contract \in Nat /\ PolyMin \in Nat /\ Tolerance \in Nat
    /\ Tolerance < Contract /\ Tolerance < PolyMin
    /\ EntryPrice \in Nat /\ Bids \subseteq Nat /\ FillSizes \subseteq Nat

\* A scan's name is none of the marks a lock file may hold instead; a lock is
\* fresh when it is taken.
ASSUME ScanAssumption ==
    /\ Scans \cap {"none", "dead", "torn"} = {} /\ IsFiniteSet(Signatures)
    /\ MaxNow \in Nat /\ MaxAge \in Nat \ {0} /\ Dedup \in Nat /\ Interval \in Nat
    /\ Allowance \in Nat /\ Margin \in Nat /\ RefreshMin \in Nat
    /\ CatalogCost \in Nat /\ Tournaments \in Nat /\ OddsCalls \in Nat

\* Sports and markets are names; days have a length.
ASSUME OddsAssumption ==
    /\ OddsSports \in Seq(DOMAIN Wanted) /\ Wanted \in [DOMAIN Wanted -> Seq(STRING)]
    /\ DayLength \in Nat \ {0} /\ Reprobe \in Nat /\ LastTime \in Nat

\* Finitely many corrections are ordered, finitely many markets priced.
ASSUME CountAssumption == IsFiniteSet(Corrections) /\ IsFiniteSet(Markets)

VARIABLES
    part,
    halted, held, phase, trade, fills, excess, rows, errors, fired, cooling,
    clock, lock, scan, acct, budget, catalogs, names, found, read, csv, beat, told, unsaved,
    deal, answer,
    today, life, tuning, asked, starts, begun, written, events,
    holder, proc, build, todo, unswept, enabled, armFile, rest, smoke,
    listing, tree,
    contest, event, nodes,
    file, locked, watch, mtimes, statted, trees, universe, subscribed, resting, ended, unread,
    dayNow, kicked, cycle, passes, inplay, eligible, offers, attempted, paper, saved, sheet,
    lossy, doubled,
    site, have, kept, bid, bought, unseen, chain, naked, round, sale, carried, booked, marked,
    stopped, exits, loss, odd,
    time, lastRun, dropped, cupFile, quota, panel, turn, charged, drops, refusedEver, gaps,
    board, stage, claims, asks, table

Taker == INSTANCE TakerEngine
Scanner == INSTANCE ScanCycle
Prices == INSTANCE PriceMath
Life == INSTANCE LifetimeBook
Maker == INSTANCE MakerProcess
Soccer == INSTANCE MatchTree
Sports == INSTANCE SportPairing
Watch == INSTANCE UniverseWatch
Loop == INSTANCE PriceLoop
Exit == INSTANCE ExitSale
Odds == INSTANCE OddsScan
Rows == INSTANCE OddsRows

takerVars == <<halted, held, phase, trade, fills, excess, rows, errors, fired, cooling>>
scanVars == <<clock, lock, scan, acct, budget, catalogs, names, found, read, csv, beat,
              told, unsaved>>
priceVars == <<deal, answer>>
lifeVars == <<today, life, tuning, asked, starts, begun, written, events>>
makerVars == <<holder, proc, build, todo, unswept, enabled, armFile, rest, smoke>>
treeVars == <<listing, tree>>
pairVars == <<contest, event, nodes>>
watchVars == <<file, locked, watch, mtimes, statted, trees, universe, subscribed, resting,
               ended, unread>>
loopVars == <<dayNow, kicked, cycle, passes, inplay, eligible, offers, attempted, paper,
              saved, sheet, lossy, doubled>>
exitVars == <<site, have, kept, bid, bought, unseen, chain, naked, round, sale, carried,
              booked, marked, stopped, exits, loss, odd>>
oddsVars == <<time, lastRun, dropped, cupFile, quota, panel, turn, charged, drops, refusedEver,
              gaps>>
rowVars == <<board, stage, claims, asks, table>>

vars == <<part, takerVars, scanVars, priceVars, lifeVars, makerVars, treeVars, pairVars,
          watchVars, loopVars, exitVars, oddsVars, rowVars>>

Parts == {"taker", "scan", "prices", "life", "maker", "soccer", "sports", "watch", "loop", "exit",
          "odds", "rows"}

\* A part at rest is in one of its initial states, whichever.
Init ==
    /\ part \in Parts
    /\ Taker!Init /\ Scanner!Init /\ Watch!Init /\ Loop!Init /\ Odds!Init
    /\ IF part = "prices" THEN Prices!Init ELSE deal = "at rest" /\ answer = "at rest"
    /\ IF part = "soccer" THEN Soccer!Init ELSE listing = "at rest" /\ tree = "at rest"
    /\ IF part = "sports" THEN Sports!Init
       ELSE contest = "at rest" /\ event = "at rest" /\ nodes = "at rest"
    /\ IF part = "rows" THEN Rows!Init
       ELSE board = "at rest" /\ stage = "at rest" /\ claims = "at rest" /\ asks = "at rest"
            /\ table = "at rest"
    /\ Life!Init /\ (part # "life" => tuning.applied = {})
    /\ Maker!Init /\ (part # "maker" => enabled /\ armFile)
    /\ Exit!Init /\ (part # "exit" => site = "kalshi")

\* Only the part p moves.
Only(p) ==
    /\ part = p /\ UNCHANGED part
    /\ IF p = "taker" THEN TRUE ELSE UNCHANGED takerVars
    /\ IF p = "scan" THEN TRUE ELSE UNCHANGED scanVars
    /\ IF p = "prices" THEN TRUE ELSE UNCHANGED priceVars
    /\ IF p = "life" THEN TRUE ELSE UNCHANGED lifeVars
    /\ IF p = "maker" THEN TRUE ELSE UNCHANGED makerVars
    /\ IF p = "soccer" THEN TRUE ELSE UNCHANGED treeVars
    /\ IF p = "sports" THEN TRUE ELSE UNCHANGED pairVars
    /\ IF p = "watch" THEN TRUE ELSE UNCHANGED watchVars
    /\ IF p = "loop" THEN TRUE ELSE UNCHANGED loopVars
    /\ IF p = "exit" THEN TRUE ELSE UNCHANGED exitVars
    /\ IF p = "odds" THEN TRUE ELSE UNCHANGED oddsVars
    /\ IF p = "rows" THEN TRUE ELSE UNCHANGED rowVars

Next ==
    \/ Only("taker") /\ Taker!Next
    \/ Only("scan") /\ Scanner!Next
    \/ Only("prices") /\ Prices!Next
    \/ Only("life") /\ Life!Next
    \/ Only("maker") /\ Maker!Next
    \/ Only("soccer") /\ Soccer!Next
    \/ Only("sports") /\ Sports!Next
    \/ Only("watch") /\ Watch!Next
    \/ Only("loop") /\ Loop!Next
    \/ Only("exit") /\ Exit!Next
    \/ Only("odds") /\ Odds!Next
    \/ Only("rows") /\ Rows!Next

Spec == Init /\ [][Next]_vars

-----------------------------------------------------------------------------
\* Every part keeps the types of its state.
TypeOK ==
    CASE part = "taker" -> Taker!TypeOK
      [] part = "scan" -> Scanner!TypeOK
      [] part = "prices" -> Prices!TypeOK
      [] part = "life" -> Life!TypeOK
      [] part = "maker" -> Maker!TypeOK
      [] part = "soccer" -> Soccer!TypeOK
      [] part = "sports" -> Sports!TypeOK
      [] part = "watch" -> Watch!TypeOK
      [] part = "loop" -> Loop!TypeOK
      [] part = "exit" -> Exit!TypeOK
      [] part = "odds" -> Odds!TypeOK
      [] part = "rows" -> Rows!TypeOK

\* The taker implements the hedge desk: every trade leaves the account hedged,
\* or sold back, or halted (TakerEngine: _execute, cmd_place, _unwind).
TakerImplements == Taker!Implements

\* One scan at a time, the requests kept back for the month, one row for a
\* signature seen twice, heartbeats apart (ScanCycle: run.py); of several sports
\* the panels, credits and refused markets in step (OddsScan: toa.py, state.py).
ScanKept ==
    /\ part = "scan" => Scanner!ScanKept
    /\ part = "odds" => Odds!OddsKept

\* A quote nets its target behind the hedge, a size is the best the book
\* gives, stakes fit the caps, a plan fits both ladders (PriceMath: engine.py,
\* og_sizing.py, executor/sizing.py).
PricesRight == part = "prices" => Prices!PricesRight

\* What is counted is what happened: the taker's ledger, the lifetime numbers
\* through restarts and restatements, the paper maker's day and its sheet
\* (TakerEngine: ledger; LifetimeBook: state.py; PriceLoop: papermaker.py).
CountersTell ==
    /\ part = "taker" => Taker!LedgerTells
    /\ part = "life" => Life!LifeKept
    /\ part = "loop" => Loop!LoopKept

\* One maker at a time, no order of a dead one left behind an armed start, and
\* the feeds, trees and universe of a running one follow the files
\* (MakerProcess: singleton.py, __main__.py; UniverseWatch: universe.py).
RuntimeKept ==
    /\ part = "maker" => Maker!ProcessKept
    /\ part = "watch" => Watch!WatchKept

\* The two sides of a traded node are the same bet, and an event is taken for
\* one game only (MatchTree: match_rules.py, tree_builder.py; SportPairing:
\* sports_*.py, families_*.py); the legs of a row are two sides of one bet on one
\* contest (OddsRows: match.py, tiers.py).
PairsSound ==
    /\ part = "soccer" => Soccer!TreeSound
    /\ part = "sports" => Sports!PairsAgree /\ Sports!OneEventEach
    /\ part = "rows" => Rows!RowsSound

\* A naked fill is sold once, without touching what is held on purpose, or the
\* bot stops; what the sales lost is booked (ExitSale: _unwind_and_record).
ExitKept == part = "exit" => Exit!ExitKept
=============================================================================
