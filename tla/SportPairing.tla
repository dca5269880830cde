----------------------------- MODULE SportPairing -----------------------------
(***************************************************************************)
(* The pairing of a baseball game, a tennis match or a fight               *)
(* (sports_mlb.py, sports_tennis.py, sports_ufc.py and the families): the  *)
(* event of Polymarket that is this contest's is looked for, each venue's  *)
(* markets become bets under keys, two bets under one key become a node,   *)
(* and what the venues say of abnormal endings flags, notes or refuses it. *)
(*                                                                         *)
(* A rule of a market is how it settles one kind of ending (its facets);   *)
(* dumb is the facets its text does not let the parsers read.  A person is *)
(* written with tokens, of which last is the surname; spells is the        *)
(* surnames that can be read in a question naming it.  Times are half      *)
(* hours, dates are days, a line n stands for n + 1/2.                     *)
(***************************************************************************)
EXTENDS Integers, Sequences, SequencesExt

CONSTANTS
    Contests,   \* the contests, with what the two venues list for them
    Window      \* half hours between the starts of a game and of an event taken for it

VARIABLES
    contest,
    event,      \* the Polymarket event found, Unsought or NoEvent
    nodes       \* what was paired, or Unpaired

pairVars == <<contest, event, nodes>>

Unsought == [slug |-> "?"]
NoEvent == [slug |-> ""]
Unpaired == {[mark |-> "unpaired"]}
Unread == "unread"

\* What a parser makes of a market's text.
Reads(m, facet) == IF facet \in m.dumb THEN Unread ELSE m.rule[facet]

Apart(x, y) == IF x > y THEN x - y ELSE y - x
-----------------------------------------------------------------------------
(* The event.  series is the window of events fetched beforehand, which    *)
(* may have failed; lost is the slugs whose own lookup failed.             *)

SamePlayer(p, q) == p.tokens \subseteq q.tokens \/ q.tokens \subseteq p.tokens

\* _player_names: of the markets' full names one is kept for each surname,
\* and the title only orders them.
Named(c, last) ==
    LET told == {i \in DOMAIN c.kalshi : c.kalshi[i].fam = "winner" /\ c.kalshi[i].on.last = last}
    IN  IF told = {} THEN [tokens |-> {last}, last |-> last, spells |-> {last}, id |-> Unread]
        ELSE c.kalshi[CHOOSE i \in told : \A j \in told : i <= j].on

People(c) == <<Named(c, c.title[1]), Named(c, c.title[2])>>

SamePair(c, e) ==
    LET p == People(c)
    IN  \/ SamePlayer(p[1], e.people[1]) /\ SamePlayer(p[2], e.people[2])
        \/ SamePlayer(p[1], e.people[2]) /\ SamePlayer(p[2], e.people[1])

\* The event found: the first of those that pass.
FirstOf(events) == IF events = <<>> THEN NoEvent ELSE events[1]

NearDay(c, e) == Apart(c.day, e.day) <= 1

\* _within_90min
InTime(c, e) == Apart(c.start, e.start) <= Window

\* The slugs of a game, in order: each half of a doubleheader tries its own first.
SlugOrder(half) ==
    CASE half = "G2" -> <<"dh2", "base">> [] half = "G1" -> <<"base", "dh1">> [] OTHER -> <<"base">>

GameEvent(c, lost, series) ==
    LET At(suffix) == FirstOf(SelectSeq(c.events, LAMBDA e : e.slug = suffix /\ e.day = c.day))
        tried == SelectSeq(SlugOrder(c.half), LAMBDA s : /\ s \notin lost
                                                       /\ At(s) # NoEvent
                                                       /\ InTime(c, At(s)))
    IN  IF tried # <<>> THEN At(tried[1])
        ELSE FirstOf(SelectSeq(series, LAMBDA e : e.day = c.day /\ InTime(c, e)))

\* construct_slugs has only the surnames, which two matches may share.
MatchEvent(c, lost, series) ==
    LET bySlug == FirstOf(SelectSeq(c.events,
                      LAMBDA e : /\ e.slug \notin lost
                                 /\ {e.people[1].last, e.people[2].last} = ToSet(c.title)
                                 /\ NearDay(c, e)))
    IN  IF bySlug # NoEvent THEN bySlug
        ELSE FirstOf(SelectSeq(series, LAMBDA e : NearDay(c, e) /\ SamePair(c, e)))

\* Slugs of fights cannot be constructed.
FightEvent(c, lost, series) == FirstOf(SelectSeq(series, LAMBDA e : NearDay(c, e) /\ SamePair(c, e)))

EventOf(c, lost, series) ==
    CASE c.kind = "mlb" -> GameEvent(c, lost, series)
      [] c.kind = "tennis" -> MatchEvent(c, lost, series)
      [] c.kind = "ufc" -> FightEvent(c, lost, series)
-----------------------------------------------------------------------------
(* The bets.  A bet is a market and the side of it; yes is whether the bet *)
(* wins when what the market names happens.                                *)

Bet(key, m, on, yes) == [key |-> key, market |-> m, on |-> on, yes |-> yes]

\* Both sides of a total, and of a moneyline.
OverUnder(m) == {Bet(<<"total_runs", m.line, TRUE>>, m, "", TRUE),
            Bet(<<"total_runs", m.line, FALSE>>, m, "", FALSE)}
EachSide(m) == {Bet(<<"ml2", side>>, m, side, TRUE) : side \in {"away", "home"}}

\* kalshi_mlb_options, kalshi_tennis_options, kalshi_ufc_options: the last
\* market under a key stands.
KalshiBetsOf(c, m) ==
    CASE m.fam = "ml2" -> {Bet(<<"ml2", m.on>>, m, m.on, TRUE)}
      [] m.fam = "total_runs" -> OverUnder(m)
      [] m.fam = "winner" -> IF \E p \in ToSet(People(c)) : SamePlayer(m.on, p)
                             THEN {Bet(<<"winner", m.on.last>>, m, m.on, TRUE)} ELSE {}
      [] OTHER -> {}

KalshiBets(c) ==
    LET Of(i) == KalshiBetsOf(c, c.kalshi[i])
    IN  UNION {{b \in Of(i) : \A j \in DOMAIN c.kalshi : j > i => \A d \in Of(j) : d.key # b.key} :
               i \in DOMAIN c.kalshi}

\* _our_surname: of the player taken for the name in tennis, of the name itself in a fight.
OurLast(c, name) ==
    LET p == People(c)
        taken == IF SamePlayer(name, p[1]) THEN p[1].last
                 ELSE IF SamePlayer(name, p[2]) THEN p[2].last ELSE ""
    IN  IF c.kind = "tennis" \/ taken = "" THEN taken ELSE name.last

\* _players_are_ours, _fighters_are_ours
AreOurs(c, outs) ==
    LET lasts == {OurLast(c, outs[1]), OurLast(c, outs[2])} IN Cardinality(lasts \ {""}) = 2

\* Mutant: a market is taken for what it has the shape of.
StagedMlbByShape(m) == IF m.shape = "ou" THEN OverUnder(m) ELSE EachSide(m)

\* poly_mlb_options, before the collisions: a market whose text names another
\* family is excluded, and one that stays must also name this game's.
StagedMlb(m) ==
    IF "excluded" \in m.says \/ "identity" \notin m.says THEN {}
    ELSE IF m.shape = "ou" THEN OverUnder(m) ELSE EachSide(m)

\* poly_tennis_options, poly_ufc_options: the market of the event's own slug.
StagedWinner(c, m) ==
    IF m.main /\ "excluded" \notin m.says /\ m.shape = "names" /\ AreOurs(c, m.outs)
    THEN {Bet(<<"winner", OurLast(c, m.outs[i])>>, m, m.outs[i], TRUE) : i \in {1, 2}}
    ELSE {}

\* The collision rule: a key two markets claim is dropped.
Unambiguous(markets) ==
    LET claims(b) == {i \in DOMAIN markets : \E d \in StagedMlb(markets[i]) : d.key = b.key}
    IN  {b \in UNION {StagedMlb(markets[i]) : i \in DOMAIN markets} : Cardinality(claims(b)) = 1}

PolyBets(c, e) ==
    IF e = NoEvent THEN {}
    ELSE IF c.kind = "mlb" THEN Unambiguous(e.markets)
         ELSE UNION {StagedWinner(c, e.markets[i]) : i \in DOMAIN e.markets}
-----------------------------------------------------------------------------
(* The guards: what a node is marked with, or "refused".  Only "" and the  *)
(* notes are traded.                                                       *)

Risk == "risk"
Refused == "refused"

\* _apply_rain_guard
Rain(k, p) ==
    IF Reads(k, "short") = "official" /\ Reads(p, "short") = "official" THEN "" ELSE Risk

\* _apply_walkover_guard and _apply_dnc_guard: how the venues settle an
\* incomplete contest must be the official winner's, and how they settle none
\* at all is told, or flagged when it cannot be read.
Guard(k, p, started, never, note) ==
    IF "price" \in {Reads(k, started), Reads(p, started)} THEN Refused
    ELSE IF Unread \in {Reads(k, never), Reads(p, never)} THEN Risk
         ELSE IF Reads(k, never) # Reads(p, never) THEN note ELSE ""

MarkOf(c, k, p) ==
    CASE c.kind = "mlb" -> IF k.key[1] = "total_runs" THEN Rain(k.market, p.market) ELSE ""
      [] c.kind = "tennis" -> Guard(k.market, p.market, "winner", "walkover", "walkover_50_50")
      [] c.kind = "ufc" -> Guard(k.market, p.market, "winner", "dnc", "dnc_50_50")

Node(k, p, mark) == [kalshi |-> k, poly |-> p, mark |-> mark]

\* join_mlb, join_tennis, join_ufc
Joined(c, K, P) ==
    LET twins == {x \in K \X P : x[1].key = x[2].key}
    IN  {Node(x[1], x[2], MarkOf(c, x[1], x[2])) :
            x \in {y \in twins : MarkOf(c, y[1], y[2]) # Refused}}
-----------------------------------------------------------------------------
(* The families of a registry: each claims its markets on both venues.     *)

YesNo(k, p, key, mark) ==
    {Node(Bet(key, k, k.on, yes), Bet(key, p, p.on, yes), mark) : yes \in BOOLEAN}

Claimed(s, fam) == SelectSeq(s, LAMBDA m : m.fam = fam)

\* _build_gtd: the first market of each venue; what a text leaves unsaid is
\* what "going the distance" means.
Meaning(v, standard) == IF v = "unstated" THEN standard ELSE v

Distance(K, P) ==
    LET k == K[1]
        p == P[1]
        Differ(facet, standard) ==
            /\ Unread \notin {Reads(k, facet), Reads(p, facet)}
            /\ Meaning(Reads(k, facet), standard) # Meaning(Reads(p, facet), standard)
    IN  IF K = <<>> \/ P = <<>> THEN {}
        ELSE IF Differ("scorecard", "yes") \/ Differ("technical", "no") THEN {}
             ELSE YesNo(k, p, <<"distance">>,
                        IF Reads(k, "nc") # Reads(p, "nc") THEN "dnc_50_50" ELSE "")

\* _build_method: only the knockout has a twin, the first unclaimed market in
\* whose question the fighter's surname is read; the two must agree on
\* disqualification.
Twin(k, P, claimed) ==
    LET such == {i \in DOMAIN P \ claimed : P[i].how = "kotko" /\ k.on.last \in P[i].on.spells}
    IN  IF such = {} THEN 0 ELSE CHOOSE i \in such : \A j \in such : i <= j

Methods(K, P) ==
    LET kos == SelectSeq(K, LAMBDA m : m.how = "kotko")
        twin == [i \in DOMAIN kos |->
                    Twin(kos[i], P, IF i = 1 THEN {} ELSE {Twin(kos[1], P, {})})]
    IN  UNION {IF twin[i] = 0 \/ kos[i].rule.dq # P[twin[i]].rule.dq THEN {}
               ELSE YesNo(kos[i], P[twin[i]], <<"method_by_kotko", kos[i].on.last>>, "") :
               i \in DOMAIN kos}

\* _build_total_sets: a market on the number of sets, or a sum of exact scores
\* that is never traded.
TotalSets(K, P) ==
    LET native == SelectSeq(K, LAMBDA m : m.how = "native")
        agreed(k, p) == Reads(k, "forfeit") = Reads(p, "forfeit") /\ Reads(k, "forfeit") # Unread
    IN  IF P = <<>> \/ K = <<>> THEN {}
        ELSE IF native # <<>>
             THEN YesNo(native[1], P[1], <<"total_sets">>, IF agreed(native[1], P[1]) THEN "" ELSE Risk)
             ELSE YesNo(K[1], P[1], <<"total_sets">>, Risk)

\* run_registry over the families of a sport; rounds are never paired (_build_rounds).
Families(c, e) ==
    LET P == IF e = NoEvent THEN <<>> ELSE SelectSeq(e.markets, LAMBDA m : ~m.main)
        Paired(Build(_, _), fam) == Build(Claimed(c.kalshi, fam), Claimed(P, fam))
    IN  CASE c.kind = "mlb" -> {}
          [] c.kind = "tennis" -> Paired(TotalSets, "total_sets")
          [] c.kind = "ufc" -> Paired(Distance, "distance") \cup Paired(Methods, "method")
-----------------------------------------------------------------------------
Init == contest \in Contests /\ event = Unsought /\ nodes = Unpaired

\* resolve_poly_event
Resolve ==
    /\ event = Unsought
    /\ \E lost \in SUBSET {contest.events[i].slug : i \in DOMAIN contest.events}, fetched \in BOOLEAN :
          event' = EventOf(contest, lost, IF fetched THEN contest.events ELSE <<>>)
    /\ UNCHANGED <<contest, nodes>>

\* pair_markets
PairMarkets ==
    /\ event # Unsought /\ nodes = Unpaired
    /\ nodes' = Joined(contest, KalshiBets(contest), PolyBets(contest, event)) \cup Families(contest, event)
    /\ UNCHANGED <<contest, event>>

Next == Resolve \/ PairMarkets

Spec == Init /\ [][Next]_pairVars
-----------------------------------------------------------------------------
(* What the bets pay.  An ending says who won, how, what was counted (runs *)
(* or sets) and what was counted of the first half.                        *)

Ending(win, how, count, first) == [win |-> win, how |-> how, count |-> count, first |-> first]

Endings(kind) ==
    CASE kind = "mlb" -> {Ending(w, h, n, f) : w \in {"away", "home"}, h \in {"full", "short"},
                                               n \in 1..3, f \in 0..1}
      [] kind = "tennis" -> {Ending(w, h, n, 0) : w \in {"a", "b"}, h \in {"played", "retired", "walkover"},
                                                  n \in {2, 3}}
      [] kind = "ufc" -> {Ending(w, h, 0, 0) : w \in {"a", "b"}, h \in {"kotko", "dq", "decision", "technical",
                                                                       "unofficial"}}
                         \cup {Ending("", h, 0, 0) : h \in {"scorecard draw", "technical draw", "nc", "cancelled"}}

Says(happened) == IF happened THEN "yes" ELSE "no"

\* The winner's market of a match or a fight on the person id.
WinnerPays(m, id, o) ==
    CASE o.how = "walkover" -> m.rule.walkover
      [] o.how \in {"scorecard draw", "technical draw", "nc", "cancelled"} -> m.rule.dnc
      [] o.how \in {"retired", "unofficial"} /\ m.rule.winner = "price" -> "price"
      [] OTHER -> Says(o.win = id)

\* What the market settles at, of what it names: "yes", "no" or a refund.
Settles(m, on, o) ==
    CASE m.fam = "ml2" -> Says(o.win = on)
      [] m.fam = "total_runs" -> IF o.how = "short" /\ m.rule.short = "void" THEN "void"
                                 ELSE Says(o.count > m.line)
      [] m.fam = "first five" -> Says(o.first > m.line)
      [] m.fam = "run line" -> Says(o.win = on /\ o.count > 1)
      [] m.fam = "winner" -> WinnerPays(m, on.id, o)
      [] m.fam = "set winner" -> Says(o.win = on.id /\ o.count = 2)
      [] m.fam = "total_sets" -> IF o.how # "played" /\ m.rule.forfeit = "fifty" THEN "fifty"
                                 ELSE Says(o.count = 3)
      [] m.fam = "distance" ->
            CASE o.how \in {"technical", "technical draw"} -> Meaning(m.rule.technical, "no")
              [] o.how = "scorecard draw" -> Meaning(m.rule.scorecard, "yes")
              [] o.how \in {"nc", "cancelled"} -> m.rule.nc
              [] OTHER -> Says(o.how = "decision")
      [] m.fam = "method" ->
            IF o.how \in {"nc", "cancelled"} THEN m.rule.nc
            ELSE Says(o.win = m.on.id /\ (o.how = "kotko" \/ (o.how = "dq" /\ m.rule.dq)))

Turned(v) == IF v = "yes" THEN "no" ELSE IF v = "no" THEN "yes" ELSE v

Pays(b, o) ==
    LET v == Settles(b.market, b.on, o) IN IF b.yes THEN v ELSE Turned(v)

\* The endings a note warns of.
Warned(mark) ==
    CASE mark = "walkover_50_50" -> {"walkover"}
      [] mark = "dnc_50_50" -> {"scorecard draw", "technical draw", "nc", "cancelled"}
      [] OTHER -> {}

TypeOK ==
    /\ event \in {Unsought, NoEvent} \cup ToSet(contest.events)
    /\ nodes = Unpaired \/ \A n \in nodes : n.mark \in {"", Risk, "walkover_50_50", "dnc_50_50"}

\* The two sides of a node that is traded settle alike in every ending but
\* those its note names (sports_*.py, families_*.py: "identity before shape",
\* the settlement guards).
PairsAgree ==
    nodes # Unpaired =>
        \A n \in nodes : n.mark # Risk =>
            \A o \in Endings(contest.kind) :
                o.how \notin Warned(n.mark) => Pays(n.kalshi, o) = Pays(n.poly, o)

\* The event taken for a game is that game's, also in a doubleheader
\* (resolve_poly_event of sports_mlb.py).
OneEventEach ==
    contest.kind = "mlb" /\ event \notin {Unsought, NoEvent} => event.number = contest.number
=============================================================================
