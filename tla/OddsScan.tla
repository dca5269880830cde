------------------------------- MODULE OddsScan -------------------------------
(***************************************************************************)
(* The odds scan of several sports (og_multi: scan.py, toa.py, state.py),  *)
(* a fresh process per cycle.  A cycle takes its time once, and for every  *)
(* sport that is due finds the service's keys, asks for the odds, learns   *)
(* which markets the service refuses, accounts the credits, writes the     *)
(* panel and stamps the sport.  Cycles do not overlap: one loop runs them. *)
(*                                                                         *)
(* Time is counted in steps of the shortest interval.  The winner's market *)
(* is always asked for and never refused; the markets below are the rest.  *)
(***************************************************************************)
EXTENDS Integers, Sequences, SequencesExt

CONSTANTS
    OddsSports,  \* enabled_sports, in order
    OddsEvery,   \* sport |-> interval_s
    Wanted,      \* sport |-> DESIRED_MARKETS but the winner's, in order
    Cups,        \* the tournaments tennis may have, each a key; other sports are their own key
    DayLength,
    Reprobe,     \* REPROBE_DAYS
    LastTime,    \* bound: the end of time
    OddsSlips    \* what a run lets happen: "lost", "crash", "disk", "unread"

VARIABLES
    time,
    lastRun,     \* last_run.json
    dropped,     \* toa_capabilities.json: when each market was dropped at a key
    cupFile,     \* toa_tennis_keys.json
    quota,       \* quota.json
    panel,       \* og_current_<sport>.json: the cycle's time and the markets served
    turn,        \* the cycle under way
    charged,     \* the credits of the answers the day's cycles received
    drops,       \* when each market was last dropped at a key
    refusedEver, \* the markets ever refused
    gaps         \* what happened so far: the OddsSlips, "unnamed", "again"

oddsVars == <<time, lastRun, dropped, cupFile, quota, panel, turn, charged,
              drops, refusedEver, gaps>>
-----------------------------------------------------------------------------
Long == 0 - Reprobe * DayLength    \* so long ago that it does not matter, or never
Day(t) == t \div DayLength

KeysOf == (ToSet(OddsSports) \ {"tennis"}) \cup Cups
Droppable == UNION {ToSet(Wanted[s]) : s \in ToSet(OddsSports)}
NoDrops == [k \in KeysOf |-> [m \in Droppable |-> Long]]

Idle == [at |-> "idle", now |-> 0, todo |-> <<>>, sport |-> "", keys |-> {}, key |-> "",
         ask |-> {}, caps |-> NoDrops, credits |-> 0, last |-> 0, served |-> {}]

Asleep == [Idle EXCEPT !.at = "asleep"]
Steps == {"idle", "asleep", "pick", "resolve", "key", "ask", "caps", "quota", "rows", "panel", "stamp"}

TypeOK ==
    /\ time \in 0..LastTime /\ refusedEver \subseteq Droppable
    /\ \A s \in DOMAIN lastRun : lastRun[s] \in Long..LastTime
    /\ \A k \in DOMAIN dropped : \A m \in DOMAIN dropped[k] : dropped[k][m] \in Long..LastTime
    /\ cupFile.keys \subseteq Cups /\ quota.used \in Nat /\ turn.at \in Steps
    /\ \A s \in DOMAIN panel : panel[s].at \in Long..LastTime

Init ==
    /\ time = 0
    /\ lastRun = [s \in ToSet(OddsSports) |-> Long] /\ dropped = NoDrops
    /\ cupFile = [day |-> 0 - 1, keys |-> {}] /\ quota = [day |-> 0 - 1, used |-> 0]
    /\ panel = [s \in ToSet(OddsSports) |-> [at |-> Long, served |-> {}]]
    /\ turn = Idle /\ charged = 0 /\ drops = NoDrops
    /\ refusedEver = {} /\ gaps = {}

Unseen == UNCHANGED <<time, refusedEver>>
Files == UNCHANGED <<lastRun, dropped, cupFile, quota, panel>>
Accounts == UNCHANGED <<charged, drops>>

\* A mishap happens once.
MayMeet(slip) == slip \in OddsSlips /\ gaps \cap OddsSlips = {}

Goes(from, to) == turn.at = from /\ turn' = [turn EXCEPT !.at = to]
-----------------------------------------------------------------------------
(* The cycle: run_cycle and scan_sport. *)

Begin ==
    /\ turn = Idle
    /\ turn' = [Idle EXCEPT !.at = "pick", !.now = time, !.todo = OddsSports]
    /\ Unseen /\ Files /\ Accounts /\ UNCHANGED gaps

IsDue(s) == turn.now - lastRun[s] >= OddsEvery[s]

\* The next sport that is due.  Its scan reads the capabilities first; a file
\* that cannot be read is an empty one.
Pick ==
    /\ turn.at = "pick" /\ turn.todo # <<>>
    /\ LET s == Head(turn.todo)
           rest == [Idle EXCEPT !.at = "pick", !.now = turn.now, !.todo = Tail(turn.todo)]
       IN  \/ ~IsDue(s) /\ turn' = rest /\ UNCHANGED gaps
           \/ IsDue(s) /\ turn' = [rest EXCEPT !.at = "resolve", !.sport = s, !.caps = dropped]
                       /\ UNCHANGED gaps
           \/ /\ IsDue(s) /\ MayMeet("unread")
              /\ turn' = [rest EXCEPT !.at = "resolve", !.sport = s]
              /\ gaps' = gaps \cup {"unread"}
    /\ Unseen /\ Files /\ Accounts

End ==
    /\ turn.at = "pick" /\ turn.todo = <<>> /\ turn' = Asleep
    /\ Unseen /\ Files /\ Accounts /\ UNCHANGED gaps

Fetched(served) ==
    [Idle EXCEPT !.at = "rows", !.now = turn.now, !.todo = turn.todo, !.sport = turn.sport,
                 !.served = served]

\* run_toa raised, which a failing disk makes it do: the scan goes on with no
\* odds, and what it spent is forgotten.
NoOdds ==
    /\ turn' = Fetched({})
    /\ MayMeet("disk") /\ gaps' = gaps \cup {"disk"}

\* resolve_sport_keys: the tournaments are discovered once a day, with a
\* request that is free; a failed one leaves those known last.
Resolve ==
    /\ turn.at = "resolve"
    /\ LET With(keys) == turn' = [turn EXCEPT !.at = "key", !.keys = keys]
           now == Day(turn.now)
       IN  \/ turn.sport # "tennis" /\ With({turn.sport}) /\ UNCHANGED <<cupFile, gaps>>
           \/ turn.sport = "tennis" /\ cupFile.day = now /\ With(cupFile.keys) /\ UNCHANGED <<cupFile, gaps>>
           \/ /\ turn.sport = "tennis" /\ cupFile.day # now
              /\ \/ \E active \in SUBSET Cups : /\ With(active) /\ UNCHANGED gaps
                                               /\ cupFile' = [day |-> now, keys |-> active]
                 \/ With(cupFile.keys) /\ UNCHANGED <<cupFile, gaps>>
                 \/ NoOdds /\ UNCHANGED cupFile
    /\ Unseen /\ Accounts /\ UNCHANGED <<lastRun, dropped, quota, panel>>
-----------------------------------------------------------------------------
(* The requests: fetch_events. *)

\* Whether the week since a drop is over, by the whole days in between.
MayAsk(at) == (turn.now - at) \div DayLength >= Reprobe

\* desired_markets
DesiredAt(k) == {m \in ToSet(Wanted[turn.sport]) : MayAsk(turn.caps[k][m])}

TakeKey ==
    /\ turn.at = "key"
    /\ \/ \E k \in turn.keys :
             /\ turn' = [turn EXCEPT !.at = "ask", !.keys = @ \ {k}, !.key = k, !.ask = DesiredAt(k)]
             /\ gaps' = IF \E m \in DesiredAt(k) : turn.now - drops[k][m] < Reprobe * DayLength
                        THEN gaps \cup {"again"} ELSE gaps
       \/ turn.keys = {} /\ turn' = [turn EXCEPT !.at = "caps", !.key = "", !.last = 0] /\ UNCHANGED gaps
    /\ Unseen /\ Files /\ Accounts

\* _get and _call_credits: an answer says what the request cost.
Answers(to, cost) ==
    /\ turn' = [to EXCEPT !.credits = @ + cost, !.last = cost]
    /\ charged' = charged + cost

Served ==
    /\ turn.at = "ask"
    /\ Answers([turn EXCEPT !.at = "key", !.ask = {}, !.served = @ \cup {"winner"} \cup turn.ask],
               Cardinality(turn.ask) + 1)
    /\ Unseen /\ Files /\ UNCHANGED <<drops, gaps>>

\* The last of the markets asked for, in the order they are wanted.
LastAsked ==
    LET w == Wanted[turn.sport] IN w[Max({i \in DOMAIN w : w[i] \in turn.ask})]

\* What is dropped after a refusal: what it names, or the last market.
Drop(bad) == [turn.caps EXCEPT ![turn.key] = [m \in Droppable |-> IF m \in bad THEN turn.now ELSE @[m]]]

\* A refused request, taken to cost a credit, is repeated at once without them.
Refused ==
    /\ turn.at = "ask" /\ turn.ask # {}
    /\ \E bad \in SUBSET turn.ask :
         LET off == IF bad = {} THEN {LastAsked} ELSE bad
         IN  /\ Answers([turn EXCEPT !.ask = @ \ off, !.caps = Drop(off)], 1)
             /\ drops' = [drops EXCEPT ![turn.key] =
                            [m \in Droppable |-> IF m \in off THEN turn.now ELSE @[m]]]
             /\ refusedEver' = refusedEver \cup bad
             /\ gaps' = IF bad = {} THEN gaps \cup {"unnamed"} ELSE gaps
    /\ Files /\ UNCHANGED time

\* Any other failure ends the key.  Without an answer the cost of the answer
\* before is counted a second time.
Fails ==
    /\ turn.at = "ask"
    /\ \/ Answers([turn EXCEPT !.at = "key", !.ask = {}], 0) /\ UNCHANGED gaps
       \/ /\ MayMeet("lost")
          /\ turn' = [turn EXCEPT !.at = "key", !.ask = {}, !.credits = @ + turn.last]
          /\ gaps' = gaps \cup {"lost"} /\ UNCHANGED charged
    /\ Unseen /\ Files /\ UNCHANGED drops
-----------------------------------------------------------------------------
(* What is written down: save_capabilities, record_credits, _write_sport,  *)
(* mark_ran.                                                               *)

SaveCaps ==
    /\ turn.at = "caps"
    /\ \/ turn' = [turn EXCEPT !.at = "quota", !.caps = NoDrops] /\ dropped' = turn.caps
          /\ UNCHANGED gaps
       \/ NoOdds /\ UNCHANGED dropped
    /\ Unseen /\ Accounts /\ UNCHANGED <<lastRun, cupFile, quota, panel>>

RecordCredits ==
    /\ turn.at = "quota"
    /\ LET today == Day(turn.now)
           From(used) == turn' = Fetched(turn.served) /\ quota' = [day |-> today, used |-> used + turn.credits]
       IN  \/ From(IF quota.day = today THEN quota.used ELSE 0) /\ UNCHANGED gaps
           \/ MayMeet("unread") /\ From(0) /\ gaps' = gaps \cup {"unread"}
           \/ NoOdds /\ UNCHANGED quota
    /\ Unseen /\ Accounts /\ UNCHANGED <<lastRun, dropped, cupFile, panel>>

\* The rows are built, or an error ends this sport's scan (run_cycle).
Assemble ==
    /\ Goes("rows", "panel") \/ Goes("rows", "pick")
    /\ Unseen /\ Files /\ Accounts /\ UNCHANGED gaps

WritePanel ==
    /\ \/ /\ Goes("panel", "stamp") /\ UNCHANGED gaps
          /\ panel' = [panel EXCEPT ![turn.sport] = [at |-> turn.now, served |-> turn.served]]
       \/ MayMeet("disk") /\ Goes("panel", "pick") /\ gaps' = gaps \cup {"disk"} /\ UNCHANGED panel
    /\ Unseen /\ Accounts /\ UNCHANGED <<lastRun, dropped, cupFile, quota>>

MarkRan ==
    /\ LET From(stamps) == Goes("stamp", "pick") /\ lastRun' = [stamps EXCEPT ![turn.sport] = turn.now]
       IN  \/ From(lastRun) /\ UNCHANGED gaps
           \/ MayMeet("unread") /\ From([s \in ToSet(OddsSports) |-> Long]) /\ gaps' = gaps \cup {"unread"}
           \/ MayMeet("disk") /\ Goes("stamp", "pick") /\ gaps' = gaps \cup {"disk"} /\ UNCHANGED lastRun
    /\ Unseen /\ Accounts /\ UNCHANGED <<dropped, cupFile, quota, panel>>
-----------------------------------------------------------------------------
\* The process dies; what it had not written is lost.
Crash ==
    /\ MayMeet("crash") /\ turn \notin {Idle, Asleep}
    /\ turn' = Asleep /\ gaps' = gaps \cup {"crash"}
    /\ Unseen /\ Files /\ Accounts

\* The loop sleeps the shortest interval between cycles (run_og_multi_loop.ps1);
\* the time within one would not be read.
Wake ==
    /\ turn = Asleep /\ turn' = Idle
    /\ time < LastTime /\ time' = time + 1
    /\ charged' = IF Day(time') = Day(time) THEN charged ELSE 0
    /\ UNCHANGED <<drops, refusedEver, gaps>> /\ Files

Next ==
    \/ Begin \/ Pick \/ End \/ Resolve \/ TakeKey \/ Served \/ Refused \/ Fails
    \/ SaveCaps \/ RecordCredits \/ Assemble \/ WritePanel \/ MarkRan \/ Crash \/ Wake

Spec == Init /\ [][Next]_oddsVars
-----------------------------------------------------------------------------
Lossy == {"crash", "disk", "unread"}

\* A sport is not stamped as scanned without the panel of that scan.
StampedIsShown == \A s \in ToSet(OddsSports) : panel[s].at >= lastRun[s]

\* Between cycles the day's total is what the answers cost, and with answers
\* lost no less (_call_credits: "exact per-cycle spend").
QuotaTells ==
    (turn = Asleep /\ gaps \cap Lossy = {} /\ quota.day = Day(time)) =>
        /\ quota.used >= charged
        /\ "lost" \notin gaps => quota.used = charged

\* A dropped market is asked for again after a week at the earliest.
ProbedWeekly == gaps \cap Lossy = {} => "again" \notin gaps

\* "a 422 never costs a cycle its data": a panel with odds has every market
\* the service never refused, if refusals named theirs.
RefusalCostsNoData ==
    "unnamed" \notin gaps =>
        \A s \in ToSet(OddsSports) :
            panel[s].served # {} => {"winner"} \cup (ToSet(Wanted[s]) \ refusedEver) \subseteq panel[s].served

OddsKept == StampedIsShown /\ QuotaTells /\ ProbedWeekly /\ RefusalCostsNoData
=============================================================================
