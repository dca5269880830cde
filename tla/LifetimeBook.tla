------------------------------ MODULE LifetimeBook ------------------------------
(***************************************************************************)
(* The counters the maker keeps over its life (state.py): the realized     *)
(* money with its untracked and exit parts, the corrections applied once   *)
(* by key, the ladder of achievable edges and the count of starts, in      *)
(* memory and in one file each.                                            *)
(*                                                                         *)
(* An event is worth one dollar.  A ladder is the number of its samples.   *)
(* Some fields are history: hedged is what the events of paired trades     *)
(* were worth, times is how often each correction was counted, sampled is  *)
(* the day of the ladder's last sample.                                    *)
(***************************************************************************)
EXTENDS Integers, FiniteSets

CONSTANTS
    Corrections,   \* the keys of the restatements a person may order
    Implausible,   \* those whose amount sane_settled refuses
    MaxDay, MaxStarts,     \* bounds: the days, the starts of one day
    MaxEvents,     \* bound on the money events
    MaxLadder      \* bound on the samples of a ladder

VARIABLES
    today,         \* the UTC day
    life,          \* MakerState in memory; Down when no process runs
    tuning,        \* maker_rt_tuning.json; Lost when it does not parse
    asked,         \* the keys in the restatements file
    starts,        \* maker_rt_runstate.json: a day and the starts counted on it
    begun,         \* history: the starts of today
    written,       \* history: the last write of the tuning file took place
    events         \* the money events so far, bounded

lifeVars == <<today, life, tuning, asked, starts, begun, written, events>>
-----------------------------------------------------------------------------
NoDay == 0
Zero ==
    [day |-> NoDay, pnl |-> 0, untracked |-> 0, exits |-> 0, hedged |-> 0, applied |-> {},
     times |-> [k \in Corrections |-> 0], logged |-> {}, ladder |-> 0, sampled |-> NoDay]

Down == [Zero EXCEPT !.day = 0 - 1]
Lost == [Zero EXCEPT !.ladder = 0 - 1]

\* What is written of it.
Saved(b) == [b EXCEPT !.day = NoDay]

Running == life.day # Down.day

Books ==
    [day : -1..MaxDay, pnl : Int, untracked : Int, exits : Int, hedged : Int,
     applied : SUBSET Corrections, times : [Corrections -> Nat],
     logged : SUBSET Corrections, ladder : -1..MaxLadder, sampled : 0..MaxDay]

TypeOK ==
    /\ today \in 1..MaxDay /\ asked \subseteq Corrections
    /\ life \in Books /\ tuning \in Books
    /\ starts \in [day : 0..MaxDay, n : Nat] /\ begun \in 0..MaxStarts
    /\ written \in BOOLEAN /\ events \in 0..MaxEvents

\* The file may be one an older build wrote, which logged no correction.
Init ==
    /\ today = 1 /\ life = Down /\ asked = {} /\ starts = [day |-> 0, n |-> 0]
    /\ \E K \in SUBSET (Corrections \ Implausible) :
          tuning = [Zero EXCEPT !.applied = K, !.pnl = 0 - Cardinality(K),
                                !.exits = 0 - Cardinality(K),
                                !.times = [k \in Corrections |-> IF k \in K THEN 1 ELSE 0]]
    /\ begun = 0 /\ written = TRUE /\ events = 0
-----------------------------------------------------------------------------
\* persist_tuning: one atomic write of the whole file, skipped when the file stays
\* locked.
Persist(b) == \/ tuning' = Saved(b) /\ written' = TRUE
              \/ UNCHANGED tuning /\ written' = FALSE

\* Mutant: the keys of the corrections do not survive midnight.
RolledForgets(b) ==
    IF b.day = today THEN b ELSE [b EXCEPT !.day = today, !.ladder = 0, !.applied = {}]

\* _roll: on a new day everything is reset but the counters it names.
Rolled(b) == IF b.day = today THEN b ELSE [b EXCEPT !.day = today, !.ladder = 0]

\* apply_restatements: each key that is not yet among the applied ones is counted;
\* an implausible amount is refused and its key stays free.  A key applied by an
\* older build is logged now.
ToApply(b) == asked \ (b.applied \cup Implausible)

Restated(b) ==
    [b EXCEPT !.pnl = @ - Cardinality(ToApply(b)), !.exits = @ - Cardinality(ToApply(b)),
              !.times = [k \in Corrections |-> @[k] + (IF k \in ToApply(b) THEN 1 ELSE 0)],
              !.applied = @ \cup ToApply(b),
              !.logged = @ \cup ToApply(b) \cup (asked \cap b.applied)]

\* load_tuning: a file that does not parse is moved aside, and all begins at zero.
Loaded == IF tuning = Lost THEN Zero ELSE tuning

\* The start: bump_restart, load_tuning, apply_restatements.  The state has no day
\* until its first event.
Start ==
    /\ ~Running /\ begun < MaxStarts
    /\ LET counted == IF starts.day = today THEN starts.n ELSE 0
       IN  starts' \in {[day |-> today, n |-> counted + 1], starts}
    /\ begun' = begun + 1
    /\ LET b == Restated(Loaded)
       IN  /\ life' = b
           /\ IF b.logged # Loaded.logged THEN Persist(b)
              ELSE UNCHANGED tuning /\ written' = (tuning # Lost)
    /\ UNCHANGED <<today, asked, events>>

\* A crash loses what the memory holds.
Crash == Running /\ life' = Down /\ UNCHANGED <<today, tuning, asked, starts, begun, written, events>>

\* The shutdown persists once more.
ShutDown ==
    /\ Running /\ Persist(life) /\ life' = Down
    /\ UNCHANGED <<today, asked, starts, begun, events>>

\* record_achievable: a sample, in memory only.
Sample ==
    /\ Running /\ Rolled(life).ladder < MaxLadder
    /\ life' = [Rolled(life) EXCEPT !.ladder = @ + 1, !.sampled = today]
    /\ UNCHANGED <<today, tuning, asked, starts, begun, written, events>>

\* maybe_persist_tuning, on the heartbeat.
Heartbeat == Running /\ Persist(life) /\ UNCHANGED <<today, life, asked, starts, begun, events>>

Booked(b) ==
    /\ Running /\ events < MaxEvents
    /\ events' = events + 1
    /\ life' = b /\ Persist(b)
    /\ UNCHANGED <<today, asked, starts, begun>>

\* record: an exit costs what it says; a settled pair or an untracked one pays; a
\* mark that was corrected counts as untracked.
Exit ==
    Booked([Rolled(life) EXCEPT !.pnl = @ - 1, !.exits = @ - 1])

Settled == Booked([Rolled(life) EXCEPT !.pnl = @ + 1, !.hedged = @ + 1])

OffTheBooks == Booked([Rolled(life) EXCEPT !.pnl = @ + 1, !.untracked = @ + 1])

\* record refuses an implausible settlement: the day rolls, nothing is counted.
RefuseRow ==
    /\ Running /\ life' = Rolled(life)
    /\ UNCHANGED <<today, tuning, asked, starts, begun, written, events>>

\* A person orders a correction, the file is damaged, the day ends.
Ask(k) ==
    /\ k \notin asked /\ asked' = asked \cup {k}
    /\ UNCHANGED <<today, life, tuning, starts, begun, written, events>>

Damage ==
    /\ tuning # Lost /\ ~Running /\ tuning' = Lost
    /\ UNCHANGED <<today, life, asked, starts, begun, written, events>>

Midnight ==
    /\ today < MaxDay /\ today' = today + 1 /\ begun' = 0
    /\ UNCHANGED <<life, tuning, asked, starts, written, events>>

Next ==
    \/ Start \/ Crash \/ ShutDown \/ Sample \/ Heartbeat
    \/ Exit \/ Settled \/ OffTheBooks \/ RefuseRow
    \/ \E k \in Corrections : Ask(k)
    \/ Damage \/ Midnight

Spec == Init /\ [][Next]_lifeVars
-----------------------------------------------------------------------------
\* A correction has been counted once if its key is among the applied ones, and
\* never otherwise.
CountedOnce(b) == \A k \in Corrections : b.times[k] = IF k \in b.applied THEN 1 ELSE 0

\* What is neither untracked nor an exit is what paired trades earned.
HedgedIsRest(b) == b.pnl - b.untracked - b.exits = b.hedged

\* The money on disk is the money in memory, unless the last write was skipped.
Money(b) == <<b.pnl, b.untracked, b.exits, b.applied, b.logged>>

\* Across crashes, damaged files and days: every correction counts exactly once,
\* the parts add up, the file is behind only by a write that was skipped, what is
\* applied is also explained, and no start is counted twice.
LifeKept ==
    /\ CountedOnce(life) /\ HedgedIsRest(life)
    /\ tuning # Lost => CountedOnce(tuning) /\ HedgedIsRest(tuning)
    /\ Running /\ written => Money(tuning) = Money(life)
    /\ starts.day = today => starts.n <= begun

\* The ladder a day has gathered outlives a restart within that day: once a process
\* has read it back, no event makes it shorter (test_achievable_ladders_survive_a_
\* restart, AUDIT_CLOSEOUT.md N27).
LadderKept ==
    [][(Running /\ life'.day # Down.day /\ life.sampled = today)
          => life'.ladder >= life.ladder]_lifeVars
=============================================================================
