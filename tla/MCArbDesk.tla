------------------------------ MODULE MCArbDesk ------------------------------
(***************************************************************************)
(* The inputs of the parts of ArbDesk that are functions of what a venue   *)
(* lists or a book holds.                                                  *)
(***************************************************************************)
EXTENDS ArbDesk, FiniteSets

L == INSTANCE MatchListings
S == INSTANCE SportContests
B == INSTANCE OddsBoards

\* Names of which none contains the other team's.
PlainListings == L!ListingsOf({L!Own("home"), L!Own("away")}, L!Apart)

EveryContest == S!AllContests
EveryBoard == B!AllBoards
-----------------------------------------------------------------------------
\* Ladders of one level or two, in cents and shares.
Level(p, s) == [price |-> p, size |-> s]
Ladders(P) ==
    {<<Level(p, s), Level(p + g, t)>> : p \in P, s \in {1, 3}, g \in {1, 4}, t \in {1, 3}}
        \cup {<<Level(p, s)>> : p \in P, s \in {1, 6}}

\* Books with a bid, an ask, both, neither, one tick wide or none.
MCQuoteInputs ==
    [bid : {0, 40, 44, 45, 46}, ask : {0, 46, 47, 50}, venue : {"kalshi", "polymarket"},
     hedge : Ladders(48..57)]

BookLegs == [ladder : Ladders({42, 47, 51}), book : {"kalshi", "polymarket"}, inverse : {0}, max : {0}]
FixedLegs == [ladder : {<<>>}, book : {"pinnacle"}, inverse : {40, 50}, max : {2, 5}]
MCSizeInputs == {<<a, b>> : a \in BookLegs, b \in BookLegs \cup FixedLegs}

Candidates == [inverse : {30, 40, 45}, limit : {1, 5}]
MCSplitInputs == [1..2 -> {C \in SUBSET Candidates : Cardinality(C) \in 1..2}]

MCPlanInputs ==
    {<<[venue |-> "kalshi", price |-> k[1].price, ladder |-> k],
       [venue |-> "polymarket", price |-> p[1].price, ladder |-> p]>> :
        k \in Ladders({40, 48}), p \in Ladders({45, 51})}
-----------------------------------------------------------------------------
\* Two games of soccer, one of baseball, a fight, in the order they start.
Fixture(sport, kick) == [sport |-> sport, kick |-> kick, id |-> kick]
FourGames == {Fixture("soccer", 1), Fixture("soccer", 2), Fixture("ufc", 3), Fixture("mlb", 4)}
-----------------------------------------------------------------------------
\* A sport of one key and one of tournaments, scanned at different intervals.
TwoSports == <<"mlb", "tennis">>
TwoIntervals == [s \in {"mlb", "tennis"} |-> IF s = "mlb" THEN 2 ELSE 1]
OneToDrop == [s \in {"mlb", "tennis"} |-> IF s = "mlb" THEN <<"spreads">> ELSE <<>>]
=============================================================================
