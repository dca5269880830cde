---------------------------- MODULE MatchListings ----------------------------
(***************************************************************************)
(* What the two venues list for a game, over a set of names: every pair of *)
(* a Kalshi series and a Polymarket event, in the wordings each venue      *)
(* uses.  Constant expressions only; MatchTree says what they mean.        *)
(***************************************************************************)
EXTENDS Integers, Sequences

\* How a venue writes a team: its own name, a longer form of it, a form only
\* the club matcher knows, or a name that contains the other team's.
Own(t) == [team |-> t, exact |-> TRUE, inside |-> {t}, within |-> {t}, club |-> {t}]
Longer(t) == [team |-> t, exact |-> FALSE, inside |-> {t}, within |-> {}, club |-> {t}]
Shorter(t) == [team |-> t, exact |-> FALSE, inside |-> {}, within |-> {t}, club |-> {t}]
Alias(t) == [team |-> t, exact |-> FALSE, inside |-> {}, within |-> {}, club |-> {t}]

\* The away team's name contains the home team's (Niger v Nigeria).
Nested == {[team |-> "away", exact |-> TRUE, inside |-> {"home", "away"}, within |-> {"away"},
            club |-> {"away"}],
           [team |-> "home", exact |-> TRUE, inside |-> {"home"}, within |-> {"home", "away"},
            club |-> {"home"}]}

Apart == {Own("home"), Own("away"), Longer("away"), Shorter("home"), Alias("away")}

Nobody == [team |-> "none", exact |-> FALSE, inside |-> {}, within |-> {}, club |-> {}]
-----------------------------------------------------------------------------
Market(fam, event) ==
    [fam |-> fam, event |-> event, half |-> "", who |-> Nobody, opp |-> Nobody, n2 |-> 1,
     wording |-> "over", period |-> "regulation", scope |-> "single_game", score |-> <<0, 0>>]

Halves == {"1h", "2h"}
Periods == {"regulation", "full_game", "unsaid"}
Scopes == {"single_game", "tie", "unsaid"}
Scores == {<<1, 0>>, <<2, 1>>}

Of(S, t) == {s \in S : s.team = t}

\* One market for each team and one for neither, in the two orders.
Triple(m, a, b) == <<[m EXCEPT !.who = a], [m EXCEPT !.who = b], m>>
Triples(S, M) ==
    UNION {UNION {{Triple(m, h, a), Triple(m, a, h)} : m \in M} : h \in Of(S, "home"), a \in Of(S, "away")}

ThreeWays(S, event(_)) ==
    Triples(S, {[Market("moneyline", event("moneyline")) EXCEPT !.scope = s] : s \in Scopes})
    \cup Triples(S, {[Market("result", event("result")) EXCEPT !.half = h] : h \in Halves})
    \cup Triples(S, {Market("first_to_score", event("first_to_score"))})

\* Corners of a team only under a name the plain lookup finds.
Found(S) == {s \in S : s.inside # {}}

\* The thresholds of a Kalshi title: "over 1.5" and "2+".
Thresholds(m) ==
    {[m EXCEPT !.n2 = n] : n \in {1, 3}} \cup {[m EXCEPT !.n2 = n, !.wording = "plus"] : n \in {2, 4}}

Kalshi(S) ==
    LET event(x) == "series"
        one(M) == {<<m>> : m \in M}
        total == Market("total", "series")
        corners == Market("corners", "series")
    IN  ThreeWays(S, event)
        \cup one(UNION {Thresholds([total EXCEPT !.period = p]) : p \in Periods})
        \cup one(UNION {Thresholds([total EXCEPT !.half = h]) : h \in Halves})
        \cup one({[total EXCEPT !.who = s, !.n2 = n, !.period = p] :
                    s \in S, n \in {1, 3}, p \in Periods})
        \cup one(UNION {Thresholds([corners EXCEPT !.who = s, !.period = p]) :
                    s \in Found(S) \cup {Nobody}, p \in Periods})
        \cup one({[Market("btts", "series") EXCEPT !.half = h] : h \in Halves \cup {""}})
        \cup one(UNION {Thresholds([Market("spread", "series") EXCEPT !.who = s, !.half = h]) :
                    s \in S, h \in {"", "1h"}})
        \cup one({[Market("advance", "series") EXCEPT !.who = s, !.scope = "tie"] : s \in S})
        \cup one({[Market("exact_score", "series") EXCEPT !.who = s, !.score = x] :
                    s \in S, x \in Scores})
        \cup one({[Market("exact_score", "series") EXCEPT !.score = <<1, 1>>]})

Polymarket(S) ==
    LET event(x) == x
        one(M) == {<<m>> : m \in M}
        total == Market("total", "more")
        corners == {[Market("corners", e) EXCEPT !.period = p] : e \in {"more", "corners"}, p \in Periods}
        spread == Market("spread", "more")
    IN  ThreeWays(S, event)
        \cup {Triple(Market("moneyline", "moneyline"), h, h) : h \in Of(S, "home")}
        \cup {<<[Market("moneyline", "moneyline") EXCEPT !.who = s], Market("moneyline", "moneyline")>> :
                s \in S}
        \cup one({[total EXCEPT !.who = s, !.n2 = n, !.period = p] :
                    s \in S \cup {Nobody}, n \in {1, 3}, p \in Periods})
        \cup one({[total EXCEPT !.who = s, !.n2 = n, !.half = h] :
                    s \in S \cup {Nobody}, n \in {1, 3}, h \in Halves})
        \cup one({[m EXCEPT !.who = s, !.n2 = n] : m \in corners, s \in Found(S) \cup {Nobody}, n \in {1, 3}})
        \cup one({[Market("corners", "corners") EXCEPT !.half = h] : h \in Halves})
        \cup one({[Market("btts", "more") EXCEPT !.half = h] : h \in Halves \cup {""}})
        \cup one(UNION {{[spread EXCEPT !.who = h, !.opp = a, !.n2 = n, !.wording = w],
                         [spread EXCEPT !.who = a, !.opp = h, !.n2 = n, !.wording = w]} :
                    h \in Of(S, "home"), a \in Of(S, "away"), n \in {1, 3}, w \in {"minus", "given"}})
        \cup one({[Market("advance", e) EXCEPT !.who = s, !.scope = "tie"] :
                    s \in S, e \in {"more", "advance"}})
        \cup {<<[m EXCEPT !.who = h], [m EXCEPT !.who = a]>> :
                m \in {[Market("advance", "advance") EXCEPT !.scope = "tie"]},
                h \in Of(S, "home"), a \in Of(S, "away")}
        \cup one(UNION {{[Market("exact_score", "exact_score") EXCEPT !.who = h, !.opp = a, !.score = x],
                         [Market("exact_score", "exact_score") EXCEPT !.who = a, !.opp = h, !.score = x]} :
                    h \in Of(S, "home"), a \in Of(S, "away"), x \in Scores \cup {<<1, 1>>}})

\* A series and an event about the same kind of thing; the kinds that share
\* none of their keys' types need not be crossed.
Kind(m) == IF m.fam \in {"total", "corners", "btts", "spread"} THEN "counts" ELSE "results"

ListingsOf(K, P) ==
    {x \in [kalshi : Kalshi(K), poly : Polymarket(P)] : Kind(x.kalshi[1]) = Kind(x.poly[1])}
=============================================================================
