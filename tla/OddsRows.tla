------------------------------- MODULE OddsRows -------------------------------
(***************************************************************************)
(* The rows of the multi-sport odds scan (og_multi: match.py, tiers.py):   *)
(* the service's events are matched to the games of the tree, the asks the *)
(* rows need are fetched from the exchanges, and of each two-way market    *)
(* the best prices of two books are put together where they leave a gain.  *)
(*                                                                         *)
(* A price is its inverse in cents.  A name has tokens and a surname; of a *)
(* team only the tokens are read.  A bet says what really wins it.  How a  *)
(* row is sized is PriceMath's.                                            *)
(***************************************************************************)
EXTENDS Integers, Sequences, SequencesExt

CONSTANTS
    Boards,     \* what the tree and the service hold: a sport, its games, its events
    Window,     \* MLB_COMMENCE_TOLERANCE_MIN, in half hours
    AskPrices,  \* the asks an exchange may have
    TakerFee    \* cents an exchange takes of a leg

VARIABLES
    board,
    stage,
    claims,     \* game |-> the event matched to it, or Unmatched
    asks,       \* what was fetched: venue and node |-> its ask, 0 for none
    table       \* the rows built

rowVars == <<board, stage, claims, asks, table>>

Unmatched == [contest |-> 0]

Over == [id |-> "over", tokens |-> {"over"}, last |-> "over"]
Under == [id |-> "under", tokens |-> {"under"}, last |-> "under"]

Books == {"pinnacle", "1xbet"}
Exchanges == {"kalshi", "polymarket"}

\* Between equal prices the one with the larger limit; 1xbet has none, and the
\* exchanges' depth is taken to be below Pinnacle's limit.
Preference == <<"pinnacle", "kalshi", "polymarket", "1xbet">>
-----------------------------------------------------------------------------
(* The events: match_events. *)

Contained(p, q) == p.tokens \subseteq q.tokens \/ q.tokens \subseteq p.tokens

\* name_eq: two spellings of one name, by the surname or all tokens of one.
NameEq(p, q) == (board.sport # "mlb" /\ p.last = q.last) \/ Contained(p, q)

Gap(x, y) == IF x > y THEN x - y ELSE y - x

\* _mlb_match
SameGame(e, g) ==
    /\ \/ NameEq(e.people[1], g.people[1]) /\ NameEq(e.people[2], g.people[2])
       \/ NameEq(e.people[1], g.people[2]) /\ NameEq(e.people[2], g.people[1])
    /\ Gap(e.start, g.start) <= Window

\* _combat_match, on the surnames of the tree's winner nodes and of its title.
SameBout(e, g) ==
    LET theirs == {e.people[1].last, e.people[2].last}
        ours == {g.people[1].last, g.people[2].last} \cup g.title
    IN  Cardinality(theirs) = 2 /\ theirs \subseteq ours /\ Gap(e.day, g.day) <= 1

\* _match_one: an event that fits several games is refused.
Fits(e) == {g \in board.games : IF board.sport = "mlb" THEN SameGame(e, g) ELSE SameBout(e, g)}

\* The first event that fits a game, and only it, is kept.
ClaimOf(g) ==
    LET own == SelectSeq(board.events, LAMBDA e : Fits(e) = {g})
    IN  IF own = <<>> THEN Unmatched ELSE own[1]
-----------------------------------------------------------------------------
(* The books of an event: _index_books.  Of two entries under one book's   *)
(* name the first stands.                                                  *)

NoEntry == [fresh |-> FALSE, outs |-> <<>>]

Entry(e, book, market) ==
    LET posted == SelectSeq(e.books, LAMBDA b : b.slug = book /\ b.market = market)
    IN  IF posted = <<>> THEN NoEntry ELSE posted[1]

Leg(book, inverse, bet, of, fresh) ==
    [book |-> book, inverse |-> inverse, bet |-> bet, of |-> of, fresh |-> fresh]

Bet(fam, who, line) == [fam |-> fam, who |-> who, line |-> line]

\* The two nodes of a market of the tree, by its key: _enrich_families.
Families(g) ==
    {{Bet("winner", g.people[1], 0), Bet("winner", g.people[2], 0)}}
        \cup (IF board.sport # "mlb" THEN {}
              ELSE {{Bet("total", Over, n), Bet("total", Under, n)} : n \in g.lines})

MarketOf(fam) == IF fam = "winner" THEN "h2h" ELSE "totals"

\* _book_price: the first outcome that is the node's; none of a stale book.
BookLegs(e, node) ==
    LET IsNodes(o) == IF node.fam = "winner" THEN NameEq(o.who, node.who)
                      ELSE o.who = node.who /\ o.line = node.line
        said(b) == SelectSeq(Entry(e, b, MarketOf(node.fam)).outs, LAMBDA o : o.inverse > 0 /\ IsNodes(o))
        posting == {b \in Books : Entry(e, b, MarketOf(node.fam)).fresh /\ said(b) # <<>>}
    IN  {Leg(b, said(b)[1].inverse, Bet(node.fam, said(b)[1].who, said(b)[1].line), e.contest,
             Entry(e, b, MarketOf(node.fam)).fresh) : b \in posting}

\* _has_book_coverage
IsCovered(e, nodes) ==
    \E b \in Books : \E n \in nodes :
        LET entry == Entry(e, b, MarketOf(n.fam))
        IN  /\ entry.fresh /\ entry.outs # <<>>
            /\ n.fam = "total" => \A m \in nodes : \E o \in ToSet(entry.outs) : o.who = m.who /\ o.line = m.line

\* exchange_jobs: the asks that the rows of covered markets need.
Jobs ==
    UNION {UNION {Exchanges \X {<<g, n>> : n \in nodes} :
                    nodes \in {f \in Families(g) : IsCovered(claims[g], f)}} :
           g \in {x \in board.games : claims[x] # Unmatched}}

\* _exchange_candidates: what the node's venues pay is the node's own bet.
ExchangeLegs(g, node) ==
    {Leg(v, asks[<<v, <<g, node>>>>], node, g.contest, TRUE) :
        v \in {x \in Exchanges : asks[<<x, <<g, node>>>>] > 0}}
-----------------------------------------------------------------------------
(* The rows. *)

Place(book) == CHOOSE i \in DOMAIN Preference : Preference[i] = book

\* select_legs, one outcome.
Best(legs) ==
    CHOOSE c \in legs : \A x \in legs :
        c.inverse < x.inverse \/ (c.inverse = x.inverse /\ Place(c.book) <= Place(x.book))

SumOf(legs) == legs[1].inverse + legs[2].inverse

FeeOf(legs) == TakerFee * Cardinality({i \in {1, 2} : legs[i].book \in Exchanges})

\* _finish and _build_row: two outcomes, two books and a gain before fees; a
\* trap is a row whose gain the fees eat.
Rows(g, tier, one, two) ==
    LET legs == <<Best(one), Best(two)>>
    IN  IF one = {} \/ two = {} THEN {}
        ELSE IF legs[1].book = legs[2].book \/ SumOf(legs) >= 100 THEN {}
             ELSE {[game |-> g, tier |-> tier, legs |-> legs, trap |-> SumOf(legs) + FeeOf(legs) >= 100]}

\* _tier_a_family
TierA(g, e) ==
    UNION {LET one == CHOOSE n \in nodes : TRUE
               two == CHOOSE n \in nodes : n # one
               All(n) == ExchangeLegs(g, n) \cup BookLegs(e, n)
           IN  Rows(g, "A", All(one), All(two)) :
           nodes \in {f \in Families(g) : IsCovered(e, f)}}

\* What both books post of a market without an exchange's; neither may be stale.
Posted(e, market) ==
    UNION {{Leg(b, o.inverse, Bet(market, o.who, o.line), e.contest, Entry(e, b, market).fresh) :
               o \in {x \in ToSet(Entry(e, b, market).outs) : x.inverse > 0}} : b \in Books}

BothFresh(e, market) == \A b \in Books : Entry(e, b, market).fresh

\* _tb_totals: the lines both books have; in baseball not those of the tree.
OffTree(g, e) ==
    LET lines(b) == {o.line : o \in {x \in ToSet(Entry(e, b, "totals").outs) : x.inverse > 0}}
        Side(who, n) == {l \in Posted(e, "totals") : l.bet = Bet("totals", who, n)}
    IN  IF ~BothFresh(e, "totals") THEN {}
        ELSE UNION {Rows(g, "B", Side(Over, n), Side(Under, n)) :
                       n \in (lines("pinnacle") \cap lines("1xbet"))
                             \ (IF board.sport = "mlb" THEN g.lines ELSE {})}

\* Points that are one another's negative.
Opposite(p) == \A o, x \in p : o.who # x.who => o.line + x.line = 0

\* _tb_spreads: the same two sides at both books, at the same opposite points,
\* a run and a half in baseball.
Spreads(g, e) ==
    LET Of(b) == {[who |-> o.who, line |-> o.line] :
                    o \in {x \in ToSet(Entry(e, b, "spreads").outs) : x.inverse > 0}}
        p == Of("pinnacle")
        sides == {o.who : o \in p}
        one == CHOOSE w \in sides : TRUE
        Side(w) == {l \in Posted(e, "spreads") : l.bet.who = w}
    IN  IF board.sport = "ufc" \/ ~BothFresh(e, "spreads") \/ p # Of("1xbet") THEN {}
        ELSE IF Cardinality(sides) # 2 \/ ~Opposite(p) THEN {}
        ELSE IF board.sport = "mlb" /\ \E o \in p : o.line \notin {3, 0 - 3} THEN {}
        ELSE Rows(g, "B", Side(one), Side(CHOOSE w \in sides : w # one))
-----------------------------------------------------------------------------
Init ==
    /\ board \in Boards /\ stage = "matching"
    /\ claims = [g \in board.games |-> Unmatched] /\ asks = <<>> /\ table = {}

Match ==
    /\ stage = "matching" /\ stage' = "fetching"
    /\ claims' = [g \in board.games |-> ClaimOf(g)]
    /\ UNCHANGED <<board, asks, table>>

\* _fetch_ladders: an ask that cannot be read is none.
Fetch ==
    /\ stage = "fetching" /\ stage' = "building"
    /\ asks' \in [Jobs -> {0} \cup AskPrices]
    /\ UNCHANGED <<board, claims, table>>

\* build_rows
Build ==
    /\ stage = "building" /\ stage' = "built"
    /\ table' = UNION {TierA(g, claims[g]) \cup OffTree(g, claims[g]) \cup Spreads(g, claims[g]) :
                         g \in {x \in board.games : claims[x] # Unmatched}}
    /\ UNCHANGED <<board, claims, asks>>

Next == Match \/ Fetch \/ Build

Spec == Init /\ [][Next]_rowVars
-----------------------------------------------------------------------------
TypeOK ==
    /\ \A g \in board.games : claims[g] = Unmatched \/ claims[g] \in ToSet(board.events)
    /\ stage \in {"matching", "fetching", "building", "built"}
    /\ \A r \in table : r.game \in board.games /\ r.tier \in {"A", "B"}

\* Whichever way the contest ends one of the two bets wins, and only one.
Covers(b, c) ==
    CASE b.fam \in {"winner"} -> c.fam = "winner" /\ b.who.id # c.who.id
      [] b.fam \in {"total", "totals"} -> {b.who, c.who} = {Over, Under} /\ b.line = c.line
      [] b.fam = "spreads" -> b.who.id # c.who.id /\ b.line + c.line = 0

\* The legs of a row are of the row's own contest and two sides of one bet, at
\* two books, none stale; no row of the books' own
\* markets has an exchange's leg ("A mis-matched event mints a phantom arb",
\* match.py; "NEVER merged with an exchange leg", tiers.py).
RowsSound ==
    \A r \in table :
        /\ \A i \in {1, 2} : r.legs[i].of = r.game.contest /\ r.legs[i].fresh
        /\ Covers(r.legs[1].bet, r.legs[2].bet)
        /\ r.legs[1].book # r.legs[2].book
        /\ r.tier = "B" => {r.legs[1].book, r.legs[2].book} \subseteq Books
=============================================================================
