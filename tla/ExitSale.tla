-------------------------------- MODULE ExitSale --------------------------------
(***************************************************************************)
(* The sale of a naked fill on one instrument (pregame_exec.py:            *)
(* _unwind_and_record, the verified unwinds of the two venues, the bounded *)
(* auto-flatten, dust) and the account's fill sweep, to which the sales    *)
(* come back as fills of no order of ours.                                 *)
(*                                                                         *)
(* Amounts are in fractions of a contract: fills are fractional, Kalshi    *)
(* sells whole contracts.  Prices are per fraction.                        *)
(***************************************************************************)
EXTENDS Integers, FiniteSets, FiniteSetsExt

CONSTANTS
    Contract,     \* one contract
    Tolerance,    \* HEDGE_SHARE_TOL
    PolyMin,      \* MIN_TRADABLE["polymarket"]
    FillSizes,    \* the sizes of a fill
    MaxBought,    \* bound: all that fills
    Attempts,     \* UNWIND_MAX_ATTEMPTS
    EntryPrice, Bids,     \* the price of the fills, the prices a sale may get
    Ceiling,      \* auto_flatten_max_usd
    Mishaps       \* what a run lets happen

VARIABLES
    site,       \* the venue of the instrument
    have,       \* the position the venue holds for us
    kept,       \* _expected_shares: what we hold on purpose
    bid,        \* our order still rests on the instrument's book
    bought,     \* all that has filled
    unseen,     \* what has filled and was not detected yet
    chain,      \* where the fill chain is
    round,      \* 2 in auto-flatten
    naked,      \* the shares the chain is to sell
    sale,       \* the loop of _verified_unwind
    carried,    \* the cost of the first sale, once auto-flatten is tried
    booked,     \* the losses booked to the day
    marked,     \* a provisional mark was left for the instrument
    stopped,    \* orphan: the halt is latched
    exits,      \* the exits the account's sweep has not shown yet
    loss,       \* history: what the sales really lost
    odd         \* history: what went wrong that no read could show

exitVars == <<site, have, kept, bid, bought, unseen, chain, naked, round, sale, carried,
              booked, marked, stopped, exits, loss, odd>>
-----------------------------------------------------------------------------
Unread == -1
NoSale == [toSell |-> 0, prev |-> Unread, left |-> Unread, was |-> 0, tries |-> 0, cost |-> 0]

TypeOK ==
    /\ site \in {"kalshi", "polymarket"} /\ have \in Int /\ kept \in Nat
    /\ bid \in BOOLEAN /\ bought \in 0..MaxBought /\ unseen \in 0..MaxBought
    /\ chain \in {"idle", "pull", "sell", "read", "book"}
    /\ naked \in Nat /\ round \in 1..2
    /\ sale \in [toSell : Nat, prev : Nat \cup {Unread}, left : Nat \cup {Unread}, was : Int,
                 tries : 0..Attempts, cost : Int]
    /\ carried \in Int /\ booked \in Int /\ marked \in BOOLEAN /\ stopped \in BOOLEAN
    /\ exits \in Nat /\ loss \in Int /\ odd \subseteq {"lost", "stale", "blind", "late"}

Init ==
    /\ site \in {"kalshi", "polymarket"}
    /\ have = 0 /\ kept = 0 /\ bid = TRUE /\ bought = 0 /\ unseen = 0
    /\ chain = "idle" /\ naked = 0 /\ round = 1 /\ sale = NoSale /\ carried = 0
    /\ booked = 0 /\ marked = FALSE /\ stopped = FALSE /\ exits = 0
    /\ loss = 0 /\ odd = {}
-----------------------------------------------------------------------------
Abs(x) == IF x < 0 THEN 0 - x ELSE x
MinTradable == IF site = "kalshi" THEN Contract ELSE PolyMin

\* What an order to sell x asks for: whole contracts on Kalshi.
Sellable(x) == IF site = "kalshi" THEN (x \div Contract) * Contract ELSE x

\* As flat as the venue lets a position get.
Flat(left) == IF site = "kalshi" THEN left < Contract ELSE left <= Tolerance

\* Mutant: the target is zero.
LeftOfAll(r) == Abs(r)

\* The naked part of a position read: what is kept on purpose is not for sale.
Left(r) == Max({0, Abs(r) - kept})

\* _untracked_fill and _reverify_explained: no more than expected.
Explained == Abs(have) - kept <= Tolerance

-----------------------------------------------------------------------------
\* Our resting order fills, with the mishap "late" also while a sale is under way.
RestFills(n) ==
    /\ bid /\ bought + n <= MaxBought
    /\ chain = "idle" \/ "late" \in Mishaps
    /\ have' = have + n /\ bought' = bought + n /\ unseen' = unseen + n
    /\ odd' = IF chain = "idle" THEN odd ELSE odd \cup {"late"}
    /\ UNCHANGED <<site, kept, bid, chain, naked, round, sale, carried, booked, marked,
                   stopped, exits, loss>>

\* The fill is detected: a part of it is hedged and registered as expected, the
\* rest of it is to be sold.
Detect ==
    /\ chain = "idle" /\ unseen > 0 /\ ~stopped
    /\ \E part \in {0, Sellable(unseen), unseen} :
          /\ kept' = kept + part
          /\ naked' = unseen - part
          /\ chain' = IF part < unseen THEN "pull" ELSE "idle"
    /\ unseen' = 0
    /\ UNCHANGED <<site, have, bid, bought, round, sale, carried, booked, marked, stopped,
                   exits, loss, odd>>

\* _book_dust: too little for an order becomes a leg we expect.
BookDust ==
    /\ chain = "pull" /\ round = 1 /\ naked < MinTradable
    /\ kept' = kept + naked /\ marked' = TRUE
    /\ chain' = "idle" /\ naked' = 0
    /\ UNCHANGED <<site, have, bid, bought, unseen, round, sale, carried, booked, stopped,
                   exits, loss, odd>>

\* _pull_own_book_side: our own orders leave the book the sale goes into; a cancel
\* that fails does not stop the sale.
PullOwnBookSide ==
    /\ chain = "pull" /\ (round = 2 \/ naked >= MinTradable)
    /\ chain' = "sell"
    /\ bid' \in (IF "uncancelled" \in Mishaps THEN {FALSE, bid} ELSE {FALSE})
    /\ sale' = [NoSale EXCEPT !.toSell = Sellable(naked)]
    /\ UNCHANGED <<site, have, kept, bought, unseen, naked, round, carried, booked, marked,
                   stopped, exits, loss, odd>>

\* Killed by our own bid on Kalshi, refused on Polymarket beyond the balance.
Killed == \/ site = "kalshi" /\ bid
          \/ site = "polymarket" /\ sale.toSell > have

\* What the book gives for an order of n.
Taken(n) ==
    IF Killed THEN {0} ELSE IF "thin" \in Mishaps THEN {n, Sellable(n \div 2), 0} ELSE {n}

\* place_market_sell, _kalshi_unwind_sell: the answer of an executed sale may be
\* lost.
Sell ==
    /\ chain = "sell" /\ chain' = "read"
    /\ \E got \in Taken(sale.toSell), px \in Bids, answered \in BOOLEAN :
          LET paid == (EntryPrice - px) * got
          IN  /\ answered \/ ("lost" \in Mishaps /\ got > 0)
              /\ have' = have - got /\ loss' = loss + paid
              /\ exits' = IF site = "kalshi" /\ got > 0 THEN exits + 1 ELSE exits
              /\ odd' = IF answered THEN odd ELSE odd \cup {"lost"}
              /\ sale' = [sale EXCEPT !.was = have, !.tries = @ + 1,
                                      !.cost = IF answered THEN @ + paid ELSE @]
    /\ UNCHANGED <<site, kept, bid, bought, unseen, naked, round, carried, booked, marked,
                   stopped>>

\* _settle_kalshi_flat, settle_conditional_balance: the position, or after all the
\* polls the one before the sale, or nothing.
Reads ==
    {<<Left(have), {}>>}
        \cup (IF "stale" \in Mishaps /\ sale.was # have
              THEN {<<Left(sale.was), {"stale"}>>} ELSE {})
        \cup (IF "blind" \in Mishaps THEN {<<Unread, {"blind"}>>} ELSE {})

\* Another sale of what is left: not without a read, not when flat, not when the
\* last one made no progress.
Again(left) ==
    /\ left # Unread /\ ~Flat(left) /\ sale.tries < Attempts
    /\ sale.prev = Unread \/ left < sale.prev - Tolerance

ReadBack ==
    /\ chain = "read"
    /\ \E r \in Reads :
          /\ odd' = odd \cup r[2]
          /\ IF Again(r[1])
             THEN /\ sale' = [sale EXCEPT !.left = r[1], !.prev = r[1],
                                          !.toSell = Sellable(r[1])]
                  /\ chain' = "sell"
             ELSE /\ sale' = [sale EXCEPT !.left = r[1]] /\ chain' = "book"
    /\ UNCHANGED <<site, have, kept, bid, bought, unseen, naked, round, carried, booked,
                   marked, stopped, exits, loss>>
-----------------------------------------------------------------------------
ProvenFlat == sale.left # Unread /\ Flat(sale.left)

\* What the first sale left, the whole when that is unknown.
StillNaked == IF sale.left = Unread THEN naked ELSE sale.left

\* The cost of the sales so far.
Cost == carried + sale.cost

\* _orphan_detected: latched, unless the venue's position is expected; that is asked
\* only of an instrument with an expected leg.
Orphaned == stopped' = ~(kept > 0 /\ Explained)

\* The sale left us flat: what it cost is booked.
BookSale ==
    /\ chain = "book" /\ ProvenFlat
    /\ booked' = booked + Cost
    /\ chain' = "idle" /\ naked' = 0 /\ round' = 1 /\ carried' = 0 /\ sale' = NoSale
    /\ UNCHANGED <<site, have, kept, bid, bought, unseen, marked, stopped, exits, loss, odd>>

\* _auto_flatten_orphan: what is left is sold once more when all of it is affordable.
AutoFlatten ==
    /\ chain = "book" /\ ~ProvenFlat /\ round = 1
    /\ EntryPrice * StillNaked <= Ceiling
    /\ naked' = StillNaked /\ carried' = sale.cost
    /\ round' = 2 /\ chain' = "pull" /\ sale' = NoSale
    /\ UNCHANGED <<site, have, kept, bid, bought, unseen, booked, marked, stopped, exits, loss,
                   odd>>

\* It is not, or that sale did not leave us flat either: the worst case is booked,
\* beside the cost of the first sale, and a human is called.
Orphan ==
    /\ chain = "book" /\ ~ProvenFlat
    /\ round = 2 \/ EntryPrice * StillNaked > Ceiling
    /\ booked' = booked + (IF round = 2 THEN EntryPrice * naked + carried
                           ELSE EntryPrice * StillNaked + sale.cost)
    /\ marked' = TRUE /\ Orphaned
    /\ chain' = "idle" /\ naked' = 0 /\ round' = 1 /\ carried' = 0 /\ sale' = NoSale
    /\ UNCHANGED <<site, have, kept, bid, bought, unseen, exits, loss, odd>>

\* poll_kalshi_fills, _untracked_fill: an exit comes back as a fill of no order of
\* ours; what we hold decides.
SweepExit ==
    /\ chain = "idle" /\ exits > 0 /\ ~stopped
    /\ exits' = exits - 1
    /\ IF Explained THEN UNCHANGED stopped ELSE Orphaned
    /\ UNCHANGED <<site, have, kept, bid, bought, unseen, chain, naked, round, sale, carried,
                   booked, marked, loss, odd>>

Next ==
    \/ \E n \in FillSizes : RestFills(n)
    \/ Detect \/ BookDust \/ PullOwnBookSide \/ Sell \/ ReadBack
    \/ BookSale \/ AutoFlatten \/ Orphan \/ SweepExit

Spec == Init /\ [][Next]_exitVars
-----------------------------------------------------------------------------
\* A sale never eats the legs kept on purpose, unless it was repeated unread or on
\* a position of before, or the order filled again under it.
KeptLegsStay == odd \cap {"blind", "stale", "late"} = {} => have >= kept

\* Every fill detected ends hedged, sold or dust, or the halt is latched.
SoldOrStopped ==
    (chain = "idle" /\ unseen = 0 /\ ~stopped /\ odd \cap {"blind", "stale", "late"} = {})
        => have - kept < MinTradable

\* The day is booked what the sales lost, and no less where a worst case stands in.
LossBooked ==
    (chain = "idle" /\ odd = {}) =>
        /\ booked >= loss
        /\ ~marked => booked = loss

\* A sale sells what is naked, and what it lost is in the books.
ExitKept == KeptLegsStay /\ SoldOrStopped /\ LossBooked

\* Dust is no orphan (the comments of _unwind_and_record, lines 3471-3475, and of
\* _verified_unwind_kalshi, line 3769): no halt over less than a contract.
DustNeverHalts == stopped /\ odd = {} => marked \/ have - kept >= Contract
=============================================================================
