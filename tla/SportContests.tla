---------------------------- MODULE SportContests ----------------------------
(***************************************************************************)
(* Games, matches and fights with what the two venues list for them, in    *)
(* the forms SportPairing tells apart.  Constant expressions only.         *)
(***************************************************************************)
EXTENDS Integers, Sequences, TLC

Person(id, tokens, last) == [id |-> id, tokens |-> tokens, last |-> last, spells |-> {last}]

Ann == Person("a", {"ann", "lee"}, "lee")
AnnBare == Person("a", {"lee"}, "lee")
AnnLong == Person("a", {"ann", "mo", "lee"}, "lee")
Bea == Person("b", {"bea", "kim"}, "kim")
BeaLee == Person("b", {"bea", "lee"}, "lee")      \* of Ann's surname
Other == Person("other", {"cat", "kim"}, "kim")   \* somebody else of Bea's surname
None == Person("", {}, "")

Market(fam, on, how, rule, dumb) ==
    [fam |-> fam, on |-> on, how |-> how, line |-> 1, rule |-> rule, dumb |-> dumb]

Offer(m, shape, outs, main, says) ==
    [fam |-> m.fam, on |-> m.on, how |-> m.how, line |-> m.line, rule |-> m.rule, dumb |-> m.dumb,
     shape |-> shape, outs |-> outs, main |-> main, says |-> says]

Event(slug, day, start, number, people, markets) ==
    [slug |-> slug, day |-> day, start |-> start, number |-> number, people |-> people,
     markets |-> markets]

Contest(kind, half, number, start, title, kalshi, events) ==
    [kind |-> kind, half |-> half, number |-> number, day |-> 0, start |-> start, title |-> title,
     kalshi |-> kalshi, events |-> events]

Hidings(facet) == {{}, {facet}}
-----------------------------------------------------------------------------
(* Baseball: single games with every mixture of Polymarket's markets, and  *)
(* doubleheaders under every naming of their two halves.                   *)

Runs(rule, dumb) == Market("total_runs", "", "", [short |-> rule], dumb)
Moneyline == Market("ml2", "", "", <<>>, {})

MlbKalshi ==
    {<<[Moneyline EXCEPT !.on = "away"], [Moneyline EXCEPT !.on = "home"], Runs(rule, dumb)>> :
        rule \in {"official", "void"}, dumb \in Hidings("short")}

\* The moneyline, totals that name the game, and markets that only look like
\* them: first five innings, run lines, a bare over and under.
Teams == <<"away", "home">>
Sides == <<"over", "under">>

MlbOffers ==
    {Offer(Moneyline, "names", Teams, FALSE, {"identity"}),
     Offer([Moneyline EXCEPT !.fam = "run line"], "names", Teams, FALSE, {"identity", "excluded"}),
     Offer([Runs("official", {}) EXCEPT !.fam = "first five"], "ou", Sides, FALSE, {"identity", "excluded"}),
     Offer([Runs("official", {}) EXCEPT !.fam = "first five"], "ou", Sides, FALSE, {})}
    \cup {Offer(Runs("official", dumb), "ou", Sides, FALSE, {"identity"}) : dumb \in Hidings("short")}

Ours(number, slug, start) == Event(slug, 0, start, number, <<>>, <<>>)

SingleGames ==
    {Contest("mlb", "", 1, 0, <<>>, k, <<[Ours(1, "base", 0) EXCEPT !.markets = <<x, y, z>>]>>) :
        k \in MlbKalshi, x \in MlbOffers, y \in MlbOffers, z \in MlbOffers}

Slugs == {"base", "dh1", "dh2"}

\* The halves start seven half hours apart, and an event may be listed half an
\* hour off.
Doubleheaders ==
    {Contest("mlb", h[1], h[2], (h[2] - 1) * 7, <<>>, <<>>, <<Ours(1, x, s), Ours(2, y, t)>>) :
        h \in {<<"G1", 1>>, <<"G2", 2>>, <<"", 1>>, <<"", 2>>}, x \in Slugs, y \in Slugs,
        s \in {0, 1}, t \in {6, 7}}
-----------------------------------------------------------------------------
(* Tennis and fights.  How an incomplete contest settles is readable       *)
(* wherever it is not by the official winner.                              *)

Winner(on, rule, dumb) == Market("winner", on, "", rule, dumb)

Rules(never, values) == {[winner |-> w] @@ (never :> v) : w \in {"official", "price"}, v \in values}

PairOf(p, q, rule, dumb) == <<Winner(p, rule, dumb), Winner(q, rule, dumb)>>
MainOf(p, q, rule, dumb) == Offer(Winner(None, rule, dumb), "names", <<p, q>>, TRUE, {})

People == {<<Ann, Bea>>, <<Ann, BeaLee>>, <<AnnBare, Bea>>}
Listed == {<<Ann, Bea>>, <<Bea, AnnLong>>, <<Ann, BeaLee>>, <<Ann, Other>>}

Forfeits == {"fifty", "played"}
Sets(how, rule, dumb) == Market("total_sets", None, how, [forfeit |-> rule], dumb)

SetWinner == Offer([Winner(None, [winner |-> "official", walkover |-> "fifty"], {}) EXCEPT !.fam = "set winner"],
                   "names", <<Ann, Bea>>, FALSE, {})

Match(names, k, sets, events) ==
    Contest("tennis", "", 1, 0, <<names[1].last, names[2].last>>, k \o sets, events)

Walkovers == Rules("walkover", {"fifty", "price"})

\* Every pair of rules for the winner of a match.
RuledMatches ==
    {Match(<<Ann, Bea>>, PairOf(Ann, Bea, kr, kd), <<>>,
           <<Event("one", 0, 0, 1, <<Ann, Bea>>, <<SetWinner, MainOf(Bea, Ann, pr, pd)>>)>>) :
        kr \in Walkovers, pr \in Walkovers, kd \in Hidings("walkover"), pd \in Hidings("walkover")}

\* Every way to write the players, in one event or two, a day off or not.
Plain == [winner |-> "official", walkover |-> "fifty"]
NamedMatches ==
    {Match(n, PairOf(n[1], n[2], Plain, {}), <<>>,
           <<Event("one", d, 0, 1, x, <<MainOf(x[1], x[2], Plain, {})>>),
             Event("two", 1 - d, 0, 2, y, <<MainOf(y[1], y[2], Plain, {})>>)>>) :
        n \in People, x \in Listed, y \in Listed, d \in 0..2}

\* Every way to list the number of sets of a match of three.
SetMatches ==
    {Match(<<Ann, Bea>>, PairOf(Ann, Bea, Plain, {}), <<Sets(how, kf, kd)>>,
           <<Event("one", 0, 0, 1, <<Ann, Bea>>,
                   <<MainOf(Ann, Bea, Plain, {}), Offer(Sets("native", pf, pd), "ou", Sides, FALSE, {})>>)>>) :
        how \in {"native", "exact"}, kf \in Forfeits, pf \in Forfeits,
        kd \in Hidings("forfeit"), pd \in Hidings("forfeit")}

Draws == Rules("dnc", {"fifty", "price", "void"})

Fight(k, events) == Contest("ufc", "", 1, 0, <<"lee", "kim">>, k, events)

RuledFights ==
    {Fight(PairOf(Ann, Bea, kr, kd),
           <<Event("one", 0, 0, 1, <<Ann, Bea>>, <<MainOf(Bea, Ann, pr, pd)>>)>>) :
        kr \in Draws, pr \in Draws, kd \in Hidings("dnc"), pd \in Hidings("dnc")}

Drawn == [winner |-> "official", dnc |-> "fifty"]

NamedFights ==
    {[m EXCEPT !.kind = "ufc",
               !.kalshi = PairOf(m.kalshi[1].on, m.kalshi[2].on, Drawn, {}),
               !.events = [i \in 1..2 |-> [m.events[i] EXCEPT !.markets =
                    <<MainOf(m.events[i].people[1], m.events[i].people[2], Drawn, {})>>]]] :
        m \in NamedMatches}

Facets == {[scorecard |-> s, technical |-> t, nc |-> n] :
              s \in {"yes", "no", "unstated"}, t \in {"yes", "no", "unstated"}, n \in {"fifty", "price"}}

Going(rule, dumb) == Market("distance", None, "", rule, dumb)
Knockout(on, dq) == Market("method", on, "kotko", [dq |-> dq, nc |-> "fifty"], {})
Submission(on) == Market("method", on, "submission", [dq |-> FALSE, nc |-> "fifty"], {})

Yes(m) == Offer(m, "yesno", <<"yes", "no">>, FALSE, {"excluded"})

DistanceFights ==
    {Fight(<<Going(kf, {})>>, <<Event("one", 0, 0, 1, <<Ann, Bea>>, <<Yes(Going(pf, {}))>>)>>) :
        kf \in Facets, pf \in Facets}

MethodFights ==
    {Fight(<<Knockout(Ann, d[1]), Submission(Ann), Knockout(Bea, d[2])>>,
           <<Event("one", 0, 0, 1, <<Ann, Bea>>,
                   IF turned THEN <<Yes(Knockout(Bea, d[4])), Yes(Submission(Ann)), Yes(Knockout(Ann, d[3]))>>
                   ELSE <<Yes(Submission(Ann)), Yes(Knockout(Ann, d[3])), Yes(Knockout(Bea, d[4]))>>)>>) :
        d \in [1..4 -> BOOLEAN], turned \in BOOLEAN}
-----------------------------------------------------------------------------
AllContests ==
    SingleGames \cup Doubleheaders \cup RuledMatches \cup NamedMatches \cup SetMatches
        \cup RuledFights \cup NamedFights \cup DistanceFights \cup MethodFights
=============================================================================
