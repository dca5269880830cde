------------------------------- MODULE PriceLoop -------------------------------
(***************************************************************************)
(* A sport's price loop (genz/engine.py) and its paper maker               *)
(* (papermaker.py).  A cycle is a process of its own: it classifies the    *)
(* markets by the time it started, prices them, gives at most one          *)
(* arbitrage to the executor, writes the rows of all of them, and then     *)
(* lets the paper maker observe the pre-game books, whose state it loads   *)
(* from a file and saves again.                                            *)
(*                                                                         *)
(* A market has one paper quote.  What a book shows of it is one of what   *)
(* _one tells apart.  The daily sheet is the number of its rows of a kind. *)
(***************************************************************************)
EXTENDS Integers, Sequences, FiniteSets

CONSTANTS
    Markets,      \* the two-way markets of the tree
    MaxPasses,    \* bound: the cycles of a day
    DriftLast,    \* the later of DRIFT_CYCLES
    LiveAllowed,  \* ExecConfig.live_allowed
    LoopSlips     \* what a run lets happen: "raise", "disk", "crash", "late"

VARIABLES
    dayNow,      \* the UTC day, 1 or 2
    kicked,      \* the markets whose game has started
    cycle,       \* where the cycle is
    passes,      \* bound: the cycles begun today
    inplay,      \* the markets in play when the cycle began
    eligible,    \* the pre-game markets both venues show open
    offers,      \* the arbitrages found, best first, still to be decided
    attempted,   \* the markets given to the executor for a live trade
    paper,       \* the PaperMaker in memory
    saved,       \* its state file
    sheet,       \* the rows of today's sheet, counted by kind
    lossy,       \* history: rows of today were lost
    doubled      \* history: rows of today were written and their state was not

loopVars == <<dayNow, kicked, cycle, passes, inplay, eligible, offers, attempted, paper,
              saved, sheet, lossy, doubled>>
-----------------------------------------------------------------------------
\* requotes is history: how many quotes replaced one.
FreshPaper(d) ==
    [day |-> d, no |-> 0, quotes |-> {}, made |-> 0, fills |-> 0, expired |-> 0,
     requotes |-> 0, drifts |-> {}]

EmptySheet == [made |-> 0, fills |-> 0, expired |-> 0, drifts |-> 0]
Views == {"unpriced", "through", "unviable", "same", "better"}

TypeOK ==
    /\ dayNow \in 1..2 /\ kicked \subseteq Markets /\ passes \in 0..MaxPasses
    /\ cycle \in {"idle", "begun", "deciding", "papering", "observed", "sheeted"}
    /\ inplay \subseteq Markets /\ eligible \subseteq Markets
    /\ offers \in Seq(Markets) /\ attempted \subseteq Markets
    /\ {paper, saved} \subseteq
        [day : 0..2, no : 0..MaxPasses, quotes : SUBSET Markets, made : Nat, fills : Nat,
         expired : Nat, requotes : Nat, drifts : SUBSET (Markets \X (1..MaxPasses))]
    /\ sheet \in [made : Nat, fills : Nat, expired : Nat, drifts : Nat]
    /\ lossy \in BOOLEAN /\ doubled \in BOOLEAN

Init ==
    /\ dayNow = 1 /\ kicked = {} /\ cycle = "idle" /\ passes = 0
    /\ inplay = {} /\ eligible = {} /\ offers = <<>> /\ attempted = {}
    /\ paper = FreshPaper(0) /\ saved = FreshPaper(0) /\ sheet = EmptySheet
    /\ lossy = FALSE /\ doubled = FALSE
-----------------------------------------------------------------------------
(* The price cycle. *)

Orders(S) == {o \in [1..Cardinality(S) -> S] : \A i, j \in DOMAIN o : o[i] = o[j] => i = j}

\* run_loop, run_cycle: the phases are those of this moment.
Begin ==
    /\ cycle = "idle" /\ passes < MaxPasses
    /\ cycle' = "begun" /\ passes' = passes + 1
    /\ inplay' = kicked
    /\ eligible' = {} /\ offers' = <<>> /\ attempted' = {}
    /\ UNCHANGED <<dayNow, kicked, paper, saved, sheet, lossy, doubled>>

\* price_markets, _venues_desynced, find_arbs: a market stays out when its venues
\* are in different states; any of the others may be an arbitrage.
Price ==
    /\ cycle = "begun" /\ cycle' = "deciding"
    /\ \E S \in SUBSET Markets : \E A \in SUBSET S : \E o \in Orders(A) :
          eligible' = S \ inplay /\ offers' = o
    /\ UNCHANGED <<dayNow, kicked, passes, inplay, attempted, paper, saved,
                   sheet, lossy, doubled>>

\* want_live: one attempt per cycle.
MayTry(m) == LiveAllowed /\ attempted = {}

\* An in-play market is recorded only; the guards (settlement risk, plausibility,
\* period, totals) reject a market or pass it on, a low confidence keeps it dry.
Verdict(m) ==
    IF m \in inplay THEN {"inplay_collect"}
    ELSE {"rejected", "dry"} \cup (IF MayTry(m) THEN {"live"} ELSE {})

Decide ==
    /\ cycle = "deciding" /\ offers # <<>>
    /\ LET m == Head(offers)
       IN  \E v \in Verdict(m) :
              attempted' = IF v = "live" THEN attempted \cup {m} ELSE attempted
    /\ offers' = Tail(offers)
    /\ UNCHANGED <<dayNow, kicked, cycle, passes, inplay, eligible, paper, saved,
                   sheet, lossy, doubled>>

\* append_arbs, write_heartbeat, write_snapshot: a row for every offer decided.
Record ==
    /\ cycle = "deciding" /\ offers = <<>>
    /\ cycle' = "papering"
    /\ UNCHANGED <<dayNow, kicked, passes, inplay, eligible, offers, attempted, paper,
                   saved, sheet, lossy, doubled>>

\* run_loop catches what a cycle raises: its rows are not written.
CycleRaises ==
    /\ "raise" \in LoopSlips /\ cycle = "deciding"
    /\ cycle' = "idle"
    /\ UNCHANGED <<dayNow, kicked, passes, inplay, eligible, offers, attempted, paper,
                   saved, sheet, lossy, doubled>>
-----------------------------------------------------------------------------
(* The paper maker. *)

\* _one: a quote that is traded through fills, one without a price that pays
\* expires, and the others stay, some at a better price.
Left(q, view) == {m \in q : view[m] \notin {"through", "unviable"}}

\* The quotes of the day, after _reset_day.
Today(p) == IF p.day = dayNow THEN p ELSE FreshPaper(dayNow)

\* _one over the markets of K, in the cycle of number p.no.
Looked(p, K, view) ==
    LET old == p.quotes \cap K
        new == {m \in K \ p.quotes : view[m] \in {"same", "better"}}
        again == {m \in old : view[m] = "better"}
        hit == {m \in old : view[m] = "through"}
    IN  [p EXCEPT !.quotes = Left(old, view) \cup new \cup (p.quotes \ K),
                  !.made = @ + Cardinality(new) + Cardinality(again),
                  !.requotes = @ + Cardinality(again),
                  !.fills = @ + Cardinality(hit),
                  !.expired = @ + Cardinality({m \in old : view[m] = "unviable"}),
                  !.drifts = @ \cup {<<m, p.no>> : m \in hit}]

\* A quote not seen in this cycle expires.
Expired(p) ==
    [p EXCEPT !.expired = @ + Cardinality(p.quotes \ eligible), !.quotes = @ \cap eligible]

\* _process_drift: a fill old enough leaves.
Drifted(p) == [p EXCEPT !.drifts = {d \in @ : p.no - d[2] < DriftLast}]

\* run, observe: the state is loaded, and the books are looked at.  An error on
\* the way leaves what was done so far in memory, and its rows nowhere.
Observe ==
    /\ cycle = "papering" /\ paper.day = 0
    /\ \E view \in [eligible -> Views] :
          LET p == [Today(saved) EXCEPT !.no = @ + 1]
          IN  \/ /\ paper' = Drifted(Expired(Looked(p, eligible, view)))
                 /\ cycle' = "observed" /\ UNCHANGED lossy
              \/ /\ "raise" \in LoopSlips /\ cycle' = "sheeted" /\ lossy' = TRUE
                 /\ \E K \in SUBSET eligible : paper' = Looked(p, K, view)
    /\ UNCHANGED <<dayNow, kicked, passes, inplay, eligible, offers, attempted, saved, sheet, doubled>>

\* The rows this cycle has for the sheet: what its counters gained.
Gained(p) ==
    LET old == Today(saved)
    IN  [made |-> p.made - old.made, fills |-> p.fills - old.fills,
         expired |-> p.expired - old.expired,
         drifts |-> p.fills - old.fills + Cardinality(old.drifts) - Cardinality(p.drifts)]

\* _append_csv; when it raises, the summary is not written and the state is saved
\* all the same.
AppendCsv ==
    /\ cycle = "observed" /\ cycle' = "sheeted"
    /\ \/ /\ sheet' = [k \in DOMAIN sheet |-> sheet[k] + Gained(paper)[k]]
          /\ UNCHANGED lossy
       \/ "disk" \in LoopSlips /\ lossy' = TRUE /\ UNCHANGED sheet
    /\ UNCHANGED <<dayNow, kicked, passes, inplay, eligible, offers, attempted, paper, saved, doubled>>

\* save_state: one replacement of the file; the process ends.
SaveState ==
    /\ cycle = "sheeted" /\ cycle' = "idle"
    /\ saved' = paper /\ paper' = FreshPaper(0)
    /\ UNCHANGED <<dayNow, kicked, passes, inplay, eligible, offers, attempted, sheet, lossy, doubled>>

\* The process is killed.
CycleDies ==
    /\ "crash" \in LoopSlips /\ cycle # "idle" /\ cycle' = "idle"
    /\ doubled' = (doubled \/ cycle = "sheeted")
    /\ paper' = FreshPaper(0)
    /\ UNCHANGED <<dayNow, kicked, passes, inplay, eligible, offers, attempted, saved, sheet, lossy>>
-----------------------------------------------------------------------------
\* A game starts; with the slip "late" also while a cycle runs.
KickOff(m) ==
    /\ m \notin kicked /\ ("late" \in LoopSlips \/ cycle = "idle")
    /\ kicked' = kicked \cup {m}
    /\ UNCHANGED <<dayNow, cycle, passes, inplay, eligible, offers, attempted, paper, saved, sheet, lossy, doubled>>

\* The day ends between two cycles: its sheet is another file.
NextDay ==
    /\ cycle = "idle" /\ dayNow = 1 /\ dayNow' = 2 /\ passes' = 0
    /\ sheet' = EmptySheet /\ lossy' = FALSE /\ doubled' = FALSE
    /\ UNCHANGED <<kicked, cycle, inplay, eligible, offers, attempted, paper,
                   saved>>

Next ==
    \/ Begin \/ Price \/ Decide \/ Record \/ CycleRaises
    \/ Observe \/ AppendCsv \/ SaveState \/ CycleDies
    \/ \E m \in Markets : KickOff(m)
    \/ NextDay

Spec == Init /\ [][Next]_loopVars
-----------------------------------------------------------------------------
\* A cycle tries one live trade, never of a market in play when it began.
OneAttempt == Cardinality(attempted) <= 1 /\ attempted \cap inplay = {}

\* Every quote ever made today rests, was filled, expired or was replaced.
Balanced(p) == p.made = Cardinality(p.quotes) + p.fills + p.expired + p.requotes

\* Between cycles the day's sheet tells what the counters count, unless rows were
\* lost or a state was.
SheetTells ==
    (cycle = "idle" /\ saved.day = dayNow) =>
        /\ ~doubled => /\ sheet.made <= saved.made /\ sheet.fills <= saved.fills
                       /\ sheet.expired <= saved.expired
        /\ ~lossy => /\ sheet.made >= saved.made /\ sheet.fills >= saved.fills
                     /\ sheet.expired >= saved.expired
                     /\ sheet.drifts + Cardinality(saved.drifts) >= saved.fills

\* No fill of the day waits for its drift beyond the last of DRIFT_CYCLES.
DriftsDue == (~lossy /\ saved.day = dayNow) => \A d \in saved.drifts : saved.no - d[2] < DriftLast

\* A cycle trades once and before the start, and what the paper maker counted
\* over its processes is what it wrote.
LoopKept == OneAttempt /\ Balanced(paper) /\ Balanced(saved) /\ SheetTells /\ DriftsDue

\* No live trade of a game that has started (engine.py: "live forbidden in-play").
NoneInPlay == [][\A m \in attempted' \ attempted : m \notin kicked]_loopVars
=============================================================================
