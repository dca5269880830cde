------------------------------ MODULE QuoteDriver ------------------------------
(***************************************************************************)
(* The quote driver of the maker (driver.py): one pass over the candidates *)
(* arms, keeps or takes back a quote on each, by phase of the game, shocks,*)
(* freshness, thin hedges and persistence; shadow quotes fill on public    *)
(* prints (fills.py) and live ones are the executor's orders.              *)
(*                                                                         *)
(* The candidates are the lines of one game, one direction each.  A pass   *)
(* is atomic and reads its books once; what it reads, what the executor    *)
(* answers and whether a cancel goes through is chosen by each pass.       *)
(***************************************************************************)
EXTENDS Integers, Sequences, SequencesExt, FiniteSets

CONSTANTS
    Lines,        \* sequence of the candidates, in the order of a pass
    Kickoff, Cutoff, MaxTime,
    FreezeTime,   \* freeze_s
    Grace,        \* stale_grace_s
    PersistTime,  \* persist_ms
    HedgePersist, \* hedge_persist_s
    ThinLimit, ThinWindow, ThinCooldown

Cands == Range(Lines)
Never == -1

\* What a pass may find on a line ("gone": no book, too good to be true or over
\* the leg's cap), and what the executor answers in it.
Looks == {"gone", "shock", "stale", "behind", "thin", "poor", "good"}
Executor == [says : {"shadow", "place", "decline"}, cancels : BOOLEAN]

VARIABLES
    now,      \* the time
    lines,    \* the universe: candidates of the tree on disk
    quotes,   \* live orders, shadow quotes and when they were armed
    rails,    \* freeze_until, viable_since, stale_since, thin refusals, cooldowns
    good,     \* history: since when every pass found the line worth quoting
    calm,     \* history: when the last shock in the game is over for the line
    passed    \* history: the last pass was at this very time

driverVars == <<now, lines, quotes, rails, good, calm, passed>>

NoTimes == [c \in Cands |-> Never]

Init ==
    /\ now = 0 /\ lines = Cands
    /\ quotes = [live |-> {}, shadow |-> {}, stuck |-> {}, early |-> {}]
    /\ rails = [frozen |-> NoTimes, viable |-> NoTimes, stale |-> NoTimes,
                thin |-> [c \in Cands |-> {}], cooling |-> NoTimes]
    /\ good = NoTimes /\ calm = NoTimes
    /\ passed = FALSE

Phase == IF now < Kickoff - Cutoff THEN "pre"
         ELSE IF now < Kickoff THEN "gap" ELSE "inplay"
InPlay == Phase = "inplay"

\* Shocks and staleness are looked at in play only, nothing is in the gap.
LooksNow == CASE Phase = "pre" -> Looks \ {"shock", "stale"}
              [] Phase = "gap" -> {"gone"}
              [] OTHER -> Looks

-----------------------------------------------------------------------------
(* One candidate of a pass; s holds the quotes (q) and the rails (r).      *)

\* _expire_if_open: a cancel that does not go through leaves the order open.
ExpireIfOpen(s, c, a) ==
    [s EXCEPT !.q.live = IF a.cancels THEN @ \ {c} ELSE @,
              !.q.stuck = IF a.cancels \/ c \notin s.q.live THEN @ \ {c} ELSE @ \cup {c},
              !.q.shadow = @ \ {c}]

Unviable(s, c) == [s EXCEPT !.r.viable[c] = Never]
TakeBack(s, c, a) == Unviable(ExpireIfOpen(s, c, a), c)

\* Mutant: a shock freezes the line it is seen on.
FrozenOne(s, c, a) ==
    [s EXCEPT !.r.frozen[c] = now + FreezeTime, !.r.viable[c] = Never,
              !.q.shadow = @ \ {c}, !.q.live = @ \ {c}]

\* _freeze_node: every line of the game is frozen and its quotes taken back.
Frozen(s, c, a) ==
    [s EXCEPT !.r.frozen = [d \in Cands |-> IF d \in lines /\ @[d] < now + FreezeTime
                                            THEN now + FreezeTime ELSE @[d]],
              !.r.viable[c] = Never,
              !.q.shadow = {}, !.q.live = IF a.cancels THEN {} ELSE @,
              !.q.stuck = IF a.cancels THEN {} ELSE @ \cup s.q.live]

\* Not fresh in play: kept for the grace, taken back after it.
Stale(s, c, a) ==
    LET since == IF s.r.stale[c] = Never THEN now ELSE s.r.stale[c]
        t == Unviable([s EXCEPT !.r.stale[c] = since], c)
    IN  IF now - since >= Grace THEN ExpireIfOpen(t, c, a) ELSE t

\* place_or_reprice may refuse; an order that was open may go with it.
Quoted(s, c, a) ==
    [s EXCEPT !.q.live = IF a.says = "place" THEN @ \cup {c} ELSE @,
              !.q.stuck = @ \ {c},
              !.q.early = IF InPlay /\ c \notin s.q.live /\ a.says = "place"
                             /\ (good[c] = Never \/ now - good[c] < PersistTime)
                          THEN @ \cup {c} ELSE @]

\* fills.arm: a shadow quote is armed or repriced.
Armed(s, c) ==
    [s EXCEPT !.q.shadow = @ \cup {c},
              !.q.early = IF InPlay /\ c \notin s.q.shadow
                             /\ (good[c] = Never \/ now - good[c] < PersistTime)
                          THEN @ \cup {c} ELSE @]

RecentThin(s, c) == \E t \in s.r.thin[c] : t >= now - ThinWindow

\* _note_thin_refusal: the third within the window cools the line down.
ThinRefused(s, c) ==
    LET times == {t \in s.r.thin[c] : t >= now - ThinWindow} \cup {now}
    IN  [s EXCEPT !.r.thin[c] = times,
                  !.r.cooling[c] = IF Cardinality(times) >= ThinLimit
                                   THEN now + ThinCooldown ELSE @]

\* A quote worth having: it must last in play, and after thin refusals, before
\* it is handed to the executor or armed in the shadow.
Wanted(s, c, a) ==
    LET waits == InPlay \/ RecentThin(s, c)
        need == IF InPlay THEN PersistTime ELSE HedgePersist
    IN  IF waits /\ s.r.viable[c] = Never THEN [s EXCEPT !.r.viable[c] = now]
        ELSE IF waits /\ now - s.r.viable[c] < need THEN s
        ELSE LET t == IF waits THEN s ELSE Unviable(s, c)
             IN  IF InPlay /\ a.says = "decline" THEN ExpireIfOpen(t, c, a)
                 ELSE IF a.says # "shadow" THEN Quoted(t, c, a) ELSE Armed(t, c)

\* The decision on a line that may be quoted: cooling down,
\* behind the best, hedge too thin, not worth it, or wanted.
Judged(s, c, look, a) ==
    IF now < s.r.cooling[c] THEN TakeBack(s, c, a)
    ELSE CASE look = "behind" ->
                IF c \in s.q.live /\ a.says # "shadow" THEN Unviable(s, c) ELSE TakeBack(s, c, a)
           [] look = "thin" -> TakeBack(ThinRefused(s, c), c, a)
           [] look = "poor" -> TakeBack(s, c, a)
           [] OTHER -> Wanted(s, c, a)

Evaluated(s, c, look, a) ==
    IF look = "gone" \/ Phase = "gap" \/ (InPlay /\ now < s.r.frozen[c])
    THEN TakeBack(s, c, a)
    ELSE IF InPlay /\ look = "shock" THEN Frozen(s, c, a)
    ELSE IF InPlay /\ look = "stale" THEN Stale(s, c, a)
    ELSE Judged(IF InPlay THEN [s EXCEPT !.r.stale[c] = Never] ELSE s, c, look, a)

Worth(c, look, s) ==
    /\ look = "good" /\ now >= s.r.cooling[c] /\ (InPlay => now >= s.r.frozen[c])

-----------------------------------------------------------------------------

\* refresh_quotes: the candidates of the universe, one after the other.
RefreshQuotes ==
    /\ ~passed
    /\ \E look \in [lines -> LooksNow], a \in Executor :
        /\ LET todo == SelectSeq(Lines, LAMBDA c : c \in lines)
               step(s, c) == Evaluated(s, c, look[c], a)
               s == FoldLeft(step, [q |-> quotes, r |-> rails], todo)
           IN  /\ quotes' = s.q /\ rails' = s.r
               /\ good' = [c \in Cands |->
                             IF c \in lines /\ Worth(c, look[c], s)
                             THEN IF good[c] = Never THEN now ELSE good[c]
                             ELSE Never]
        /\ calm' = IF InPlay /\ \E c \in lines : look[c] = "shock" /\ now >= calm[c]
                   THEN [c \in Cands |-> IF c \in lines THEN now + FreezeTime ELSE calm[c]]
                   ELSE calm
    /\ passed' = TRUE
    /\ UNCHANGED <<now, lines>>

\* consume_print: the quote is gone, its fill counted or vetoed.
PublicPrint ==
    \E c \in quotes.shadow :
        /\ quotes' = [quotes EXCEPT !.shadow = @ \ {c}]
        /\ UNCHANGED <<now, lines, rails, good, calm, passed>>

\* The executor's own book: a live order fills or is swept.
OrderEnds ==
    \E c \in quotes.live :
        /\ quotes' = [quotes EXCEPT !.live = @ \ {c}, !.stuck = @ \ {c}]
        /\ UNCHANGED <<now, lines, rails, good, calm, passed>>

\* set_universe on a new tree: what is gone loses its quotes and its clocks.
SetUniverse ==
    \E U \in SUBSET Cands : \E cancels \in BOOLEAN :
        /\ U # lines
        /\ lines' = U
        /\ quotes' = [quotes EXCEPT !.shadow = @ \cap U, !.early = @ \cap U,
                                    !.live = IF cancels THEN @ \cap U ELSE @,
                                    !.stuck = IF cancels THEN @ \cap U ELSE @ \cup (quotes.live \ U)]
        /\ rails' = [rails EXCEPT
                !.viable = [c \in Cands |-> IF c \in U THEN @[c] ELSE Never],
                !.stale = [c \in Cands |-> IF c \in U THEN @[c] ELSE Never]]
        /\ good' = [c \in Cands |-> IF c \in U THEN good[c] ELSE Never]
        /\ UNCHANGED <<now, calm, passed>>

\* expire_kickoff, between passes: shadow quotes do not live into the gap.
ExpireKickoff ==
    /\ Phase = "gap" /\ quotes.shadow # {}
    /\ \E cancels \in BOOLEAN :
        LET went == IF cancels THEN quotes.live \cap quotes.shadow ELSE {}
        IN  quotes' = [quotes EXCEPT !.shadow = {}, !.live = @ \ went, !.stuck = @ \ went]
    /\ UNCHANGED <<now, lines, rails, good, calm, passed>>

\* Time passes, with at least one pass of the loop in each unit of it.
Tick ==
    /\ now < MaxTime /\ passed
    /\ now' = now + 1 /\ passed' = FALSE
    /\ UNCHANGED <<lines, quotes, rails, good, calm>>

Next ==
    \/ RefreshQuotes \/ PublicPrint \/ OrderEnds
    \/ SetUniverse \/ ExpireKickoff \/ Tick

-----------------------------------------------------------------------------
TypeOK ==
    /\ now \in 0 .. MaxTime /\ lines \subseteq Cands
    /\ quotes \in [live : SUBSET Cands, shadow : SUBSET Cands, stuck : SUBSET Cands,
                   early : SUBSET Cands]
    /\ rails.viable \in [Cands -> {Never} \cup 0 .. MaxTime]

Open == quotes.shadow \cup (quotes.live \ quotes.stuck)

\* Once a pass is over no quote stands on a frozen line in play, in the gap
\* before kickoff or on a line that cools down, whichever line of the game the
\* shock was seen on and in whatever order the pass came to it; and in play no
\* quote was armed before its line was worth it for the whole persistence
\* (refresh_quotes, _freeze_node, set_universe).
Standing == passed =>
    \A c \in Open \cap lines : /\ Phase # "gap"
                               /\ InPlay => now >= calm[c]
                               /\ now >= rails.cooling[c]
QuotesJustified == Standing /\ quotes.early = {}
=============================================================================
