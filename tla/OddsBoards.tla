------------------------------ MODULE OddsBoards ------------------------------
(***************************************************************************)
(* What the tree and the odds service hold, in the forms OddsRows tells    *)
(* apart: boards of several games and events, with one way to post odds,   *)
(* and boards of one game, with every way.  Constant expressions only.     *)
(***************************************************************************)
EXTENDS Integers, Sequences

Name(id, tokens, last) == [id |-> id, tokens |-> tokens, last |-> last]

Ann == Name("ann", {"ann", "lee"}, "lee")
AnnLong == Name("ann", {"ann", "mo", "lee"}, "lee")
Bea == Name("bea", {"bea", "kim"}, "kim")
Cat == Name("cat", {"cat", "kim"}, "kim")   \* of Bea's surname
Dee == Name("dee", {"dee", "ray"}, "ray")
Eve == Name("eve", {"eve", "lee"}, "lee")   \* of Ann's surname

Oaks == Name("oaks", {"port", "oaks"}, "")
OaksShort == Name("oaks", {"oaks"}, "")
Elms == Name("elms", {"bay", "elms"}, "")

Over == Name("over", {"over"}, "over")
Under == Name("under", {"under"}, "under")

Out(who, line, inverse) == [who |-> who, line |-> line, inverse |-> inverse]
Post(slug, market, fresh, outs) == [slug |-> slug, market |-> market, fresh |-> fresh, outs |-> outs]

Game(contest, people, day, start) ==
    [contest |-> contest, people |-> people, title |-> {}, day |-> day, start |-> start, lines |-> {8}]

Event(contest, people, day, start, books) ==
    [contest |-> contest, people |-> people, day |-> day, start |-> start, books |-> books]

Board(sport, games, events) == [sport |-> sport, games |-> games, events |-> events]
-----------------------------------------------------------------------------
(* Which event is which game's, told by the totals of the books. *)

Posting == <<Post("pinnacle", "totals", TRUE, <<Out(Over, 9, 45), Out(Under, 9, 57)>>),
             Post("1xbet", "totals", TRUE, <<Out(Over, 9, 52), Out(Under, 9, 50)>>)>>

\* A title may leave a word of the stage.  Two players share a surname with others, and both surnames of the first
\* match return three days later.
Bouts == {<<1, <<Ann, Bea>>, 1>>, <<2, <<Cat, Dee>>, 1>>, <<3, <<Ann, Dee>>, 2>>, <<4, <<Eve, Cat>>, 4>>}

PeopleOf(b) == {<<b[2][2], b[2][1]>>} \cup (IF b[1] = 1 THEN {<<AnnLong, Bea>>} ELSE {})

\* The service's day may be the next.
EventsOf(b) == {Event(b[1], p, b[3] + d, 0, Posting) : p \in PeopleOf(b), d \in {0, 1}}

BoutBoards ==
    {Board("tennis", {Game(b[1], b[2], b[3], 0) : b \in tree}, <<x, y>>) :
        tree \in {t \in SUBSET Bouts : t # {}},
        x \in UNION {EventsOf(b) : b \in Bouts}, y \in UNION {EventsOf(b) : b \in Bouts}}

\* The same surnames two days apart, with both matches in the tree.
Close == {<<1, <<Ann, Bea>>, 1>>, <<4, <<Eve, Cat>>, 3>>}

CloseBoards ==
    {Board("ufc", {[Game(b[1], b[2], b[3], 0) EXCEPT !.title = t] : b \in Close}, <<x, y>>) :
        t \in {{}, {"final"}},
        x \in UNION {EventsOf(b) : b \in Close}, y \in UNION {EventsOf(b) : b \in Close}}

\* The halves of a doubleheader start seven half hours apart, and the service
\* may be half an hour off.
Halves == {<<1, 0>>, <<2, 7>>}

HalfEvents == {Event(h[1], p, 0, h[2] + d, Posting) :
                  h \in Halves, p \in {<<Oaks, Elms>>, <<Elms, OaksShort>>}, d \in {0, 1}}

HalfBoards ==
    {Board("mlb", {Game(h[1], <<Oaks, Elms>>, 0, h[2]) : h \in tree}, <<x, y>>) :
        tree \in {t \in SUBSET Halves : t # {}}, x \in HalfEvents, y \in HalfEvents}
-----------------------------------------------------------------------------
(* What of a book's odds is a leg of what. *)

Prices == {<<45, 57>>, <<57, 45>>, <<50, 52>>}
BothWays(a, b) == {<<a, b>>, <<b, a>>}

WinnerPosts(slug, people) ==
    UNION {{Post(slug, "h2h", fresh, outs) : fresh \in BOOLEAN,
            outs \in BothWays(Out(people[1], 0, p[1]), Out(people[2], 0, p[2]))} : p \in Prices}

Totals(n, p) == <<Out(Over, n, p[1]), Out(Under, n, p[2])>>

TotalPosts(slug) ==
    {Post(slug, "totals", fresh, Totals(n, p)) : fresh \in BOOLEAN, n \in {8, 9}, p \in Prices}
        \cup {Post(slug, "totals", TRUE, Totals(8, p) \o Totals(9, p)) : p \in Prices}
        \cup {Post(slug, "totals", TRUE, <<Out(Over, n, 45)>>) : n \in {8, 9}}

\* Points in half runs; 5 against 3 is what no book should post.
SpreadPosts(slug, people) ==
    {Post(slug, "spreads", fresh, <<Out(people[1], x[1], p[1]), Out(people[2], x[2], p[2])>>) :
        fresh \in BOOLEAN, x \in {<<3, 0 - 3>>, <<0 - 3, 3>>, <<5, 0 - 5>>, <<5, 0 - 3>>}, p \in Prices}

Pairs(P, Q) == {<<p, q>> : p \in P, q \in Q}

\* Two entries that are one book's to the scanner.
Twice(people) == {<<a, b, c>> : a \in WinnerPosts("pinnacle", people), b \in WinnerPosts("pinnacle", people),
                                c \in {Post("1xbet", "h2h", TRUE, <<Out(people[1], 0, 50), Out(people[2], 0, 52)>>)}}

One(sport, people, books) == Board(sport, {Game(1, people, 0, 0)}, <<Event(1, people, 0, 0, books)>>)

PriceBoards ==
    {One(s, <<Ann, Bea>>, books) :
        s \in {"tennis", "ufc"},
        books \in Pairs(TotalPosts("pinnacle"), TotalPosts("1xbet"))
                  \cup Pairs(SpreadPosts("pinnacle", <<Ann, Bea>>), SpreadPosts("1xbet", <<Ann, Bea>>))}
    \cup {One("mlb", <<Oaks, Elms>>, books) :
        books \in Pairs(TotalPosts("pinnacle"), TotalPosts("1xbet"))
                  \cup Pairs(SpreadPosts("pinnacle", <<Oaks, Elms>>), SpreadPosts("1xbet", <<Oaks, Elms>>))}
    \cup {One(s[1], s[2], books) :
        s \in {<<"tennis", <<Ann, Bea>>>>}, books \in Twice(<<Ann, Bea>>)}
    \cup {One("mlb", <<Oaks, Elms>>, books) :
        books \in Pairs(WinnerPosts("pinnacle", <<Oaks, Elms>>), WinnerPosts("1xbet", <<Oaks, Elms>>))}

AllBoards == BoutBoards \cup CloseBoards \cup HalfBoards \cup PriceBoards
=============================================================================
