------------------------------ MODULE MatchTree ------------------------------
(***************************************************************************)
(* The match tree of a soccer game (match_rules.py, tree_builder.py and    *)
(* the parsers of polymarket.py): each market either venue lists becomes   *)
(* outcomes under canonical keys, the outcomes of the two venues that have *)
(* the same key become a node, and the nodes of a two-way market are what  *)
(* an arbitrage is made of.                                                *)
(*                                                                         *)
(* A name is what the rules tell apart in it: the team it means, whether   *)
(* it is that team's normalised name, the teams whose normalised name it   *)
(* contains (inside) or is contained in (within), and the teams the club   *)
(* matcher takes it for.  Lines are doubled: n2 = 3 is the line 1.5.       *)
(* Player markets, which are never traded, are left out.                   *)
(***************************************************************************)
EXTENDS Integers, Sequences, FiniteSets

CONSTANT Listings       \* the series of one venue and the event of the other a game may have

VARIABLES
    listing,    \* the markets of the game at Kalshi and at Polymarket
    tree        \* its nodes and its unmatched options

treeVars == <<listing, tree>>

Roles == {"home", "away"}
Opponent(t) == IF t = "home" THEN "away" ELSE "home"
NoTeam == "none"
NoName == [team |-> NoTeam, exact |-> FALSE, inside |-> {}, within |-> {}, club |-> {}]
-----------------------------------------------------------------------------
(* Which team a name is taken for.  The home team is always tried first.   *)

FirstOf(S) == IF "home" \in S THEN "home" ELSE IF "away" \in S THEN "away" ELSE NoTeam

\* _team_in, and the teams of half_result_side
TeamIn(s) == FirstOf(s.inside)

\* GameCtx.side_for_team
SideFor(s) == IF s.inside # {} THEN FirstOf(s.inside) ELSE FirstOf(s.club)

\* _team_role_in
RoleIn(s) == IF s.exact THEN s.team ELSE SideFor(s)

\* The key of a name that is not looked up: its own normalised form.
OwnKey(s) == IF s.exact THEN s.team ELSE "other"

\* _poly_total_team: a name nobody knows is a team of its own.
TotalTeam(s) ==
    LET known == FirstOf(s.inside \cup s.within)
    IN  IF s = NoName THEN NoTeam ELSE IF known = NoTeam THEN "other" ELSE known
-----------------------------------------------------------------------------
(* The outcomes of one market: a sequence of canonical keys, each with the *)
(* side of the market that backs it (its Yes, Over or named token first).  *)

Key(type, half, team, line, side) ==
    [type |-> type, half |-> half, team |-> team, line |-> line, side |-> side, score |-> <<0, 0>>]

Backed(m, key, first) == [key |-> key, on |-> [market |-> m, first |-> first]]
Only(m, key) == <<Backed(m, key, TRUE)>>
Both(m, key, one, other) ==
    <<Backed(m, [key EXCEPT !.side = one], TRUE), Backed(m, [key EXCEPT !.side = other], FALSE)>>

\* goals_over_to_line, corners_plus_to_line, team_total_over_to_line,
\* spread_cover_to_line: the half-line a threshold stands for.
LineOf(m) == IF m.n2 % 2 # 0 THEN m.n2 ELSE m.n2 - 1

Result(m, side) == Key(m.fam, m.half, NoTeam, 0, side)

Score(m, away, home) == Only(m, [Key(m.fam, "", NoTeam, 0, "score") EXCEPT !.score = <<away, home>>])

\* kalshi_outcomes
KalshiOutcomes(m) ==
    LET team == TeamIn(m.who)
        side == IF m.fam = "result" THEN team ELSE SideFor(m.who)
        role == RoleIn(m.who)
    IN  CASE m.fam \in {"moneyline", "result", "first_to_score"} ->
                IF m.who = NoName THEN Only(m, Result(m, "neither"))
                ELSE IF side = NoTeam THEN <<>> ELSE Only(m, Result(m, side))
          [] m.fam = "total" /\ m.who # NoName ->
                IF team = NoTeam THEN <<>>
                ELSE Both(m, Key("team_total", "", team, LineOf(m), ""), "over", "under")
          [] m.fam = "total" -> Both(m, Key("total", m.half, NoTeam, LineOf(m), ""), "over", "under")
          [] m.fam = "corners" -> Both(m, Key("corners", "", team, LineOf(m), ""), "over", "under")
          [] m.fam = "btts" -> Both(m, Key("btts", m.half, NoTeam, 0, ""), "yes", "no")
          [] m.fam = "spread" ->
                IF m.half # "" \/ role = NoTeam THEN <<>>
                ELSE Both(m, Key("spread", "", role, LineOf(m), ""), "cover", "plus")
          [] m.fam = "advance" ->
                IF team = NoTeam THEN <<>>
                ELSE Both(m, Key("advance", "", NoTeam, 0, ""), team, Opponent(team))
          [] m.fam = "exact_score" ->
                IF m.who = NoName THEN Score(m, m.score[1], m.score[1])
                ELSE CASE role = "away" -> Score(m, m.score[1], m.score[2])
                       [] role = "home" -> Score(m, m.score[2], m.score[1])
                       [] OTHER -> <<>>

\* _poly_spread_outcomes: the favourite is the named team, or its opponent
\* when the named team is given goals.
SpreadOutcomes(m) ==
    IF m.wording = "minus"
    THEN Both(m, Key("spread", "", OwnKey(m.who), m.n2, ""), "cover", "plus")
    ELSE Both(m, Key("spread", "", OwnKey(m.opp), m.n2, ""), "plus", "cover")

\* poly_exact_score
PolyScore(m) ==
    LET one == RoleIn(m.who)  two == RoleIn(m.opp)
        of(role) == IF two = role THEN m.score[2] ELSE m.score[1]
    IN  CASE {one, two} = Roles -> Score(m, of("away"), of("home"))
          [] m.score[1] = m.score[2] -> Score(m, m.score[1], m.score[2])
          [] OTHER -> <<>>

\* _poly_event_outcomes
PolyOutcomes(m) ==
    LET total == TotalTeam(m.who)
    IN  CASE m.event \in {"moneyline", "result", "first_to_score"} ->
                IF m.who = NoName THEN Only(m, Result(m, "neither"))
                ELSE IF SideFor(m.who) = NoTeam THEN <<>> ELSE Only(m, Result(m, SideFor(m.who)))
          [] m.event = "more" /\ m.fam = "spread" -> SpreadOutcomes(m)
          [] m.event = "more" /\ m.fam = "total" ->
                Both(m, Key(IF total = NoTeam THEN "total" ELSE "team_total", m.half, total, m.n2, ""),
                     "over", "under")
          [] m.event = "more" /\ m.fam = "btts" -> Both(m, Key("btts", m.half, NoTeam, 0, ""), "yes", "no")
          [] m.event = "more" /\ m.fam = "advance" ->
                IF TeamIn(m.who) = NoTeam THEN <<>>
                ELSE Both(m, Key("advance", "", NoTeam, 0, ""), TeamIn(m.who), Opponent(TeamIn(m.who)))
          [] m.event = "corners" /\ m.half # "" -> <<>>
          [] m.fam = "corners" -> Both(m, Key("corners", "", TeamIn(m.who), m.n2, ""), "over", "under")
          [] m.event = "advance" ->
                IF SideFor(m.who) = NoTeam THEN <<>>
                ELSE Only(m, Key("advance", "", NoTeam, 0, SideFor(m.who)))
          [] m.event = "exact_score" -> PolyScore(m)
-----------------------------------------------------------------------------
(* The options of a venue: the first outcome under each key.               *)

Flat(seqs) ==
    LET flat[i \in 0..Len(seqs)] == IF i = 0 THEN <<>> ELSE flat[i - 1] \o seqs[i]
    IN  flat[Len(seqs)]

FirstUnderEach(s) == {s[i] : i \in {j \in DOMAIN s : \A h \in 1..(j - 1) : s[h].key # s[j].key}}

\* kalshi_options
KalshiOptions(series) == FirstUnderEach(Flat([i \in DOMAIN series |-> KalshiOutcomes(series[i])]))

\* parse_event_legs: a 1x2 event has one draw and two teams, or is no event.
ThreeWay(event) ==
    /\ Len(event) = 3
    /\ Cardinality({i \in DOMAIN event : event[i].who = NoName}) = 1

\* poly_options
PolyOptions(event) ==
    IF event # <<>> /\ event[1].event = "moneyline" /\ ~ThreeWay(event) THEN {}
    ELSE FirstUnderEach(Flat([i \in DOMAIN event |-> PolyOutcomes(event[i])]))

Unsaid == "unsaid"
CountMarkets == {"total", "team_total", "corners"}

\* COUNT_MARKETS: those of a whole match
Counts(key) == key.type \in CountMarkets /\ key.half = ""

\* join_game: one settles on the tie and the other does not say so
TwoLegMismatch(k, p) == (k.on.market.scope = "tie") # (p.on.market.scope = "tie")

\* join_game: both say what they count, and say different things
PeriodMismatch(k, p) ==
    /\ Counts(k.key)
    /\ k.on.market.period # Unsaid
    /\ p.on.market.period # Unsaid
    /\ k.on.market.period # p.on.market.period

Unbuilt == [built |-> FALSE]

\* join_game
Joined(ks, ps) ==
    LET met == {x \in ks \X ps : x[1].key = x[2].key}
        nodes == {x \in met : ~TwoLegMismatch(x[1], x[2]) /\ ~PeriodMismatch(x[1], x[2])}
        keys == {x[1].key : x \in nodes}
    IN  [built |-> TRUE,
         nodes |-> {[key |-> x[1].key, kalshi |-> x[1].on, poly |-> x[2].on] : x \in nodes},
         unmatched |-> {<<"kalshi", k>> : k \in {o \in ks : o.key \notin keys}}
                  \cup {<<"polymarket", p>> : p \in {o \in ps : o.key \notin keys}}]

TwoWay == {"total", "team_total", "corners", "btts", "spread", "advance"}

\* collect_markets: the markets of which both sides are nodes
TwoOutcome(nodes) ==
    {pair \in nodes \X nodes :
        /\ pair[1].key.type \in TwoWay
        /\ pair[1].key.side # pair[2].key.side
        /\ [pair[1].key EXCEPT !.side = ""] = [pair[2].key EXCEPT !.side = ""]}
-----------------------------------------------------------------------------
(* What a side really pays on, in every result of a game: the goals (or    *)
(* corners) of each stage, who scored first, who went through.             *)

Stages == {"1h", "2h", "et"}
Results == [goals : [Stages -> [Roles -> 0..1]], first : Roles \cup {NoTeam}, through : Roles]

Counted(m) ==
    IF m.half # "" THEN {m.half} ELSE IF m.period = "full_game" THEN Stages ELSE {"1h", "2h"}

Goals(r, stages, t) ==
    (IF "1h" \in stages THEN r.goals["1h"][t] ELSE 0)
  + (IF "2h" \in stages THEN r.goals["2h"][t] ELSE 0)
  + (IF "et" \in stages THEN r.goals["et"][t] ELSE 0)

Lead(m, r, t) == Goals(r, Counted(m), t) - Goals(r, Counted(m), Opponent(t))

Tally(m, r) ==
    IF m.who = NoName THEN Goals(r, Counted(m), "home") + Goals(r, Counted(m), "away")
    ELSE Goals(r, Counted(m), m.who.team)

\* Over a half-line, or at least a whole number.
Reaches(m, x) == IF m.wording = "plus" THEN 2 * x >= m.n2 ELSE 2 * x > m.n2

YesPays(m, r) ==
    LET t == m.who.team
    IN  CASE m.fam \in {"moneyline", "result"} /\ m.scope = "tie" -> r.through = t
          [] m.fam \in {"moneyline", "result"} ->
                IF m.who = NoName THEN Lead(m, r, "home") = 0 ELSE Lead(m, r, t) > 0
          [] m.fam = "first_to_score" -> r.first = t
          [] m.fam \in {"total", "corners"} -> Reaches(m, Tally(m, r))
          [] m.fam = "btts" -> \A x \in Roles : Goals(r, Counted(m), x) > 0
          [] m.fam = "spread" ->
                IF m.wording = "given" THEN 2 * Lead(m, r, t) + m.n2 > 0 ELSE Reaches(m, Lead(m, r, t))
          [] m.fam = "advance" -> r.through = t
          [] m.fam = "exact_score" ->
                IF m.who = NoName THEN \A x \in Roles : Goals(r, Counted(m), x) = m.score[1]
                ELSE /\ Goals(r, Counted(m), t) = m.score[1]
                     /\ Goals(r, Counted(m), Opponent(t)) = m.score[2]

Pays(on, r) == YesPays(on.market, r) = on.first
-----------------------------------------------------------------------------
Init == listing \in Listings /\ tree = Unbuilt

\* build_tree, _pair_world_cup, _pair_competition: a fetch that fails leaves
\* the options of its venue out.
BuildTree(down) ==
    /\ ~tree.built
    /\ tree' = Joined(IF "kalshi" \in down THEN {} ELSE KalshiOptions(listing.kalshi),
                      IF "polymarket" \in down THEN {} ELSE PolyOptions(listing.poly))
    /\ UNCHANGED listing

Next == \E down \in SUBSET {"kalshi", "polymarket"} : BuildTree(down)

Spec == Init /\ [][Next]_treeVars
-----------------------------------------------------------------------------
Nodes(ks, ps) == [key : {o.key : o \in ks}, kalshi : {o.on : o \in ks}, poly : {o.on : o \in ps}]

TypeOK ==
    LET ks == KalshiOptions(listing.kalshi)  ps == PolyOptions(listing.poly)
    IN  tree.built =>
            /\ tree.nodes \subseteq Nodes(ks, ps)
            /\ tree.unmatched \subseteq ({"kalshi"} \X ks) \cup ({"polymarket"} \X ps)

\* A venue that does not say what it counts settles as nobody here knows.
Says(m) == m.fam \notin {"total", "corners"} \/ m.half # "" \/ m.period # Unsaid
Known(n) == Says(n.kalshi.market) /\ Says(n.poly.market)

\* The same key is the same bet (match_rules.py 3-5): in every result the
\* Kalshi side of a node pays if and only if its Polymarket side does.
SameBet ==
    tree.built =>
        \A n \in tree.nodes : Known(n) => \A r \in Results : Pays(n.kalshi, r) = Pays(n.poly, r)

\* One side at one venue and the other side at the other venue is a hedge
\* (mk_spread, kalshi_outcomes "true complements"): exactly one of them pays.
SidesComplement ==
    tree.built =>
        \A pair \in TwoOutcome(tree.nodes) :
            Known(pair[1]) /\ Known(pair[2]) =>
                \A r \in Results : Pays(pair[1].kalshi, r) # Pays(pair[2].poly, r)


\* A tree is right: a key is one bet, and the two sides of a market are a
\* hedge at whichever venues they are bought.
TreeSound == SameBet /\ SidesComplement
=============================================================================
