------------------------------- MODULE PriceMath -------------------------------
(***************************************************************************)
(* The arithmetic money is decided by: the price and size of a resting     *)
(* quote (quotes.py), the size an arbitrage really has (og_sizing.py), the *)
(* stakes the scanner splits (arbitrage.py) and the taker's planned size   *)
(* and edge (engine.py, fees_sizing.py).                                   *)
(*                                                                         *)
(* Money is in millionths of a dollar, exact for every price in cents: the *)
(* floating point of the code and the tolerances that absorb it are left   *)
(* out.  A ladder is a sequence of levels in ascending price.  Fixed odds  *)
(* d are given by their inverse, 100/d cents.  Series that charge makers a *)
(* fee are left out (rest_maker_rate = 0).                                 *)
(***************************************************************************)
EXTENDS Integers, Sequences, FiniteSets, FiniteSetsExt

CONSTANTS
    Target,       \* target_net, in millionths
    QuoteUsd,     \* quote_usd, in millionths
    MinShares,    \* min_shares
    PerTrade,     \* max_per_trade_usd, in millionths
    Bankroll,     \* bankroll_total, in millionths
    QuoteInputs, SizeInputs, SplitInputs, PlanInputs

VARIABLES
    deal,       \* the books and odds a decision is taken on
    answer      \* the decision

priceVars == <<deal, answer>>
-----------------------------------------------------------------------------
Cent == 10000
Dollar == 100 * Cent

\* hedge_taker_fee, exchange_fee_rate, _exch_fee_rate: per share, at k cents.
Fee(venue, k) ==
    CASE venue = "kalshi" -> 7 * k * (100 - k)
      [] venue = "polymarket" -> 500 * Min({k, 100 - k})
      [] OTHER -> 0

SumOver(f) == MapThenSumSet(LAMBDA i : f[i], DOMAIN f)

Depth(ladder) == SumOver([i \in DOMAIN ladder |-> ladder[i].size])

\* walk_book: what the first n units take of each level.
Taken(ladder, n) ==
    [i \in DOMAIN ladder |->
        LET before == Depth(SubSeq(ladder, 1, i - 1))
        IN  Max({0, Min({ladder[i].size, n - before})})]

Cost(ladder, n) == SumOver([i \in DOMAIN ladder |-> Taken(ladder, n)[i] * ladder[i].price * Cent])
Filled(ladder, n) == SumOver(Taken(ladder, n))

\* _walk_fee
WalkFee(venue, ladder, n) ==
    SumOver([i \in DOMAIN ladder |-> Taken(ladder, n)[i] * Fee(venue, ladder[i].price)])
-----------------------------------------------------------------------------
(* A resting quote, in a book of one-cent ticks.  A price of 0 is no price. *)

NetAt(d, q) == Dollar - q - d.hedge[1].price * Cent - Fee(d.venue, d.hedge[1].price)

\* compute_floor
EconomicFloor(d) == NetAt(d, 0) - Target

RoundDownTick(x) == (x \div Cent) * Cent

\* Mutant: prices are rounded up to the tick.
QuotePriceUp(d) ==
    LET bid == d.bid * Cent
        cap == IF d.bid = 0 THEN EconomicFloor(d) ELSE Min({EconomicFloor(d), bid + Cent})
    IN  RoundDownTick(cap + Cent - 1)

QuotePrice(d) ==
    LET bid == d.bid * Cent
        cap == IF d.bid = 0 THEN EconomicFloor(d) ELSE Min({EconomicFloor(d), bid + Cent})
    IN  RoundDownTick(cap)

\* The shares within a tick of the hedge's best ask cover the quote.
Covered(d, q) ==
    LET near == {i \in DOMAIN d.hedge : d.hedge[i].price <= d.hedge[1].price + 1}
        depth == MapThenSumSet(LAMBDA i : d.hedge[i].size, near)
    IN  depth >= MinShares /\ depth * q >= QuoteUsd

\* compute_quote
ComputeQuote(d) ==
    LET q == QuotePrice(d)
    IN  CASE EconomicFloor(d) < Cent -> [viable |-> FALSE, why |-> "floor_below_tick", price |-> 0]
          [] q < Cent -> [viable |-> FALSE, why |-> "quote_below_tick", price |-> 0]
          [] d.ask # 0 /\ q > (d.ask - 1) * Cent ->
                [viable |-> FALSE, why |-> "would_cross", price |-> q]
          [] ~Covered(d, q) -> [viable |-> FALSE, why |-> "hedge_too_thin", price |-> q]
          [] d.bid # 0 /\ q < d.bid * Cent -> [viable |-> FALSE, why |-> "behind_best", price |-> q]
          [] OTHER -> [viable |-> TRUE, why |-> "ok", price |-> q]
-----------------------------------------------------------------------------
(* The honest size.  A leg has a ladder, or fixed odds up to a payout. *)

IsBook(leg) == leg.ladder # <<>>
LegDepth(leg) == IF IsBook(leg) THEN Depth(leg.ladder) ELSE leg.max
LegCost(leg, n) == IF IsBook(leg) THEN Cost(leg.ladder, n) ELSE n * leg.inverse * Cent
LegFee(leg, n) == IF IsBook(leg) THEN WalkFee(leg.book, leg.ladder, n) ELSE 0

TotalCost(legs, n) == SumOver([i \in DOMAIN legs |-> LegCost(legs[i], n)])
TotalFee(legs, n) == SumOver([i \in DOMAIN legs |-> LegFee(legs[i], n)])

\* The profit of an equal payout of n on every leg.
Profit(legs, n) == n * Dollar - TotalCost(legs, n) - TotalFee(legs, n)

Ends(leg) ==
    IF IsBook(leg) THEN {Depth(SubSeq(leg.ladder, 1, i)) : i \in DOMAIN leg.ladder} ELSE {leg.max}

CapR(legs) == Min({LegDepth(legs[i]) : i \in DOMAIN legs})
Breakpoints(legs) == {Min({b, CapR(legs)}) : b \in UNION {Ends(legs[i]) : i \in DOMAIN legs}}

\* What the n-th unit of payout costs, fees included.
Marginal(legs, n) == Dollar - (Profit(legs, n) - Profit(legs, n - 1))

\* R_star: the last breakpoint reached before a stretch that costs a dollar.
RStar(legs) ==
    Max({0} \cup {b \in Breakpoints(legs) :
        \A c \in Breakpoints(legs) : c <= b => Marginal(legs, c) < Dollar})

\* honest_size, its capped size rounded down to a whole payout.
HonestSize(legs) ==
    LET best == RStar(legs)
        n == IF TotalCost(legs, best) <= Bankroll THEN best
             ELSE Max({k \in 0..best : TotalCost(legs, k) <= Bankroll})
    IN  [best |-> best, size |-> n]
-----------------------------------------------------------------------------
(* The scanner's split: for each outcome the best odds, then equal payouts. *)

\* select_legs: of every outcome the candidate with the best odds, and of those
\* the one with the larger limit.
SelectLegs(outcomes) ==
    [o \in DOMAIN outcomes |->
        CHOOSE c \in outcomes[o] :
            \A x \in outcomes[o] :
                c.inverse < x.inverse \/ (c.inverse = x.inverse /\ c.limit >= x.limit)]

SumS(legs) == SumOver([i \in DOMAIN legs |-> legs[i].inverse])

\* compute_arb: the leg whose limit binds, and the payout it allows, as a
\* fraction of its inverse odds.
Binding(legs) ==
    CHOOSE b \in DOMAIN legs :
        \A i \in DOMAIN legs :
            legs[b].limit * legs[i].inverse <= legs[i].limit * legs[b].inverse

\* The stake of leg i, in units of 1/inverse of the binding leg.
Stake(legs, i) == legs[Binding(legs)].limit * legs[i].inverse
-----------------------------------------------------------------------------
(* The taker's plan. *)

\* plan_size: within the cap at the detected prices, and within 80% of the
\* thinnest book.
PlanSize(d) ==
    LET sum == SumOver([i \in DOMAIN d |-> d[i].price]) * Cent
        thin == Min({Depth(d[i].ladder) : i \in DOMAIN d})
    IN  Min({PerTrade \div sum, (thin * 8) \div 10})

CeilCent(x) == ((x + Cent - 1) \div Cent) * Cent

\* edge_after_costs_n: Kalshi's fee is of the average price and rounded up to
\* the cent; fees are given here for a walk of one price.
PlanFee(leg, n) ==
    IF leg.venue = "kalshi" THEN CeilCent(n * Fee("kalshi", leg.ladder[1].price))
    ELSE n * Fee("polymarket", leg.ladder[1].price)

OnePrice(leg, n) == n <= leg.ladder[1].size

Edge(d, n) ==
    n * Dollar - SumOver([i \in DOMAIN d |-> Cost(d[i].ladder, n) + PlanFee(d[i], n)])
-----------------------------------------------------------------------------
Unanswered == [of |-> "none"]

Inputs ==
    [of : {"quote"}, with : QuoteInputs] \cup [of : {"size"}, with : SizeInputs]
        \cup [of : {"split"}, with : SplitInputs] \cup [of : {"plan"}, with : PlanInputs]

TypeOK == answer = Unanswered \/ answer.of = deal.of

Init == deal \in Inputs /\ answer = Unanswered

Decide(kind, result) ==
    /\ answer = Unanswered /\ deal.of = kind
    /\ answer' = [of |-> kind, is |-> result]
    /\ UNCHANGED deal

Next ==
    \/ deal.of = "quote" /\ Decide("quote", ComputeQuote(deal.with))
    \/ deal.of = "size" /\ Decide("size", HonestSize(deal.with))
    \/ deal.of = "split" /\ Decide("split", SelectLegs(deal.with))
    \/ deal.of = "plan" /\ Decide("plan", PlanSize(deal.with))

Spec == Init /\ [][Next]_priceVars
-----------------------------------------------------------------------------
\* The prices at which resting still nets the target, no more than a tick over
\* the best bid.
Worthy(d) ==
    {q \in {k * Cent : k \in 1..99} :
        NetAt(d, q) >= Target /\ (d.bid # 0 => q <= (d.bid + 1) * Cent)}

\* A quote is the best worthy price, below the ask and not below the bid, with
\* its hedge covered; and where none is made, that price lacks one of these.
QuoteSound ==
    answer.of = "quote" =>
        LET d == deal.with
            good(q) == /\ d.ask = 0 \/ q < d.ask * Cent
                       /\ d.bid = 0 \/ q >= d.bid * Cent
                       /\ Covered(d, q)
        IN  IF answer.is.viable
            THEN answer.is.price = Max(Worthy(d)) /\ good(answer.is.price)
            ELSE Worthy(d) = {} \/ ~good(Max(Worthy(d)))

\* No payout earns more than the honest size, none earns anything where there is
\* no such size, every leg fills it and a bankroll only makes it smaller, never
\* losing.
HonestIsBest ==
    answer.of = "size" =>
        LET legs == deal.with
        IN  /\ \A n \in 0..CapR(legs) : Profit(legs, n) <= Profit(legs, answer.is.best)
            /\ \A i \in DOMAIN legs :
                  IsBook(legs[i]) => Filled(legs[i].ladder, answer.is.best) = answer.is.best
            /\ TotalCost(legs, answer.is.size) <= Bankroll
            /\ Profit(legs, answer.is.size) >= 0

\* The chosen legs have the smallest sum of inverse odds, no stake exceeds its
\* limit and one of them reaches it.
StakesFit ==
    answer.of = "split" =>
        LET legs == answer.is
            cap(i) == legs[i].limit * legs[Binding(legs)].inverse
            outcomes == deal.with
        IN  /\ \A o \in DOMAIN outcomes : \A c \in outcomes[o] :
                  SumS(legs) <= SumS([legs EXCEPT ![o] = c])
            /\ \A i \in DOMAIN legs : Stake(legs, i) <= cap(i)
            /\ \E i \in DOMAIN legs : Stake(legs, i) = cap(i)

\* The books fill a planned size on every leg; at one price per leg, an edge that
\* is left after the fees at that size is left at the honest size too.
PlanCovered ==
    answer.of = "plan" =>
        LET d == deal.with
            n == answer.is
            legs == [i \in DOMAIN d |->
                        [ladder |-> d[i].ladder, book |-> d[i].venue, inverse |-> 0, max |-> 0]]
        IN  /\ n >= 0
            /\ \A i \in DOMAIN d : Filled(d[i].ladder, n) = n
            /\ (Edge(d, n) > 0 /\ \A i \in DOMAIN d : OnePrice(d[i], n))
                  => RStar(legs) >= 1

\* Every decision is what its definition asks for.
PricesRight == QuoteSound /\ HonestIsBest /\ StakesFit /\ PlanCovered
=============================================================================
