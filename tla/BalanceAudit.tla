----------------------------- MODULE BalanceAudit -----------------------------
(***************************************************************************)
(* The audit of the venues' balances against the books (balance.py): three *)
(* fixed slots a day, a run on a worker of its own, a store of snapshots   *)
(* with the baseline every later comparison is made from.                  *)
(*                                                                         *)
(* A run abandoned at its deadline goes on: it may write the store while,  *)
(* or after, the run that replaced it does.  A run on the command line is  *)
(* another process, started by hand while no run writes.                   *)
(***************************************************************************)
EXTENDS Integers, Sequences, SequencesExt

CONSTANTS
    Runners,    \* the worker's threads: the running one and abandoned ones
    MaxSlot,    \* bound: slots
    MaxTrouble  \* bound: failed reads, hung calls, restarts and runs by hand

Free == "free"
NoSnap == [slot |-> -1, ok |-> FALSE, flat |-> FALSE]
NoRunner == "none"

VARIABLES
    slot,     \* slot_at_or_before(now)
    audit,    \* the file: baseline, baseline_v1, baseline_v2, last_slot, snapshots
    runner,   \* per thread: where run_once is, its snapshot, how many it saw in the store
    inflight, \* the worker's key ("balance",): the runner whose answer is awaited
    gate,     \* _retry_not_before has passed
    trouble   \* failed reads, hung calls, restarts and runs by hand so far

balanceVars == <<slot, audit, runner, inflight, gate, trouble>>

EmptyAudit == [base |-> NoSnap, v1 |-> NoSnap, v2 |-> FALSE, last |-> 0, snaps |-> <<>>]
IdleRunner == [at |-> Free, snap |-> NoSnap, loaded |-> 0]
Entry(snap) == [slot |-> snap.slot, ok |-> snap.ok]

\* A store begun before the rule that a baseline is flat may hold one that is not.
OldBase == [slot |-> 0, ok |-> TRUE, flat |-> FALSE]

Init ==
    /\ slot = 1
    /\ audit \in {EmptyAudit, [EmptyAudit EXCEPT !.base = OldBase, !.snaps = <<Entry(OldBase)>>]}
    /\ runner = [r \in Runners |-> IdleRunner]
    /\ inflight = NoRunner
    /\ gate = TRUE
    /\ trouble = 0

-----------------------------------------------------------------------------

\* is_flat
IsFlat(snap) == snap.ok /\ snap.flat

\* The first flat snapshot is the baseline; one that is not flat is replaced,
\* once, and kept.
Rebased(a, snap) ==
    IF ~IsFlat(snap) THEN a
    ELSE IF a.base = NoSnap THEN [a EXCEPT !.base = snap]
    ELSE IF ~a.v2 /\ ~IsFlat(a.base)
    THEN [a EXCEPT !.base = snap, !.v1 = a.base, !.v2 = TRUE]
    ELSE a

Appended(a, snap, consume) ==
    LET b == [Rebased(a, snap) EXCEPT !.snaps = Append(@, Entry(snap))]
    IN  IF consume THEN [b EXCEPT !.last = snap.slot] ELSE b

\* Mutant: what was loaded for the comparison is what is written back.
PersistedLoaded(r) ==
    Appended([audit EXCEPT !.snaps = SubSeq(@, 1, runner[r].loaded)],
             runner[r].snap, runner[r].snap.ok)

\* _persist: load, change and write under the lock.
Persisted(r) == Appended(audit, runner[r].snap, runner[r].snap.ok)

\* due_slot
Due == audit.last < slot

\* maybe_run, on the heartbeat; worker.submit takes one run at a time.
MaybeRun ==
    /\ gate /\ Due /\ inflight = NoRunner
    /\ \E r \in Runners :
        /\ runner[r].at = Free
        /\ runner' = [runner EXCEPT ![r] = [IdleRunner EXCEPT !.at = "read", !.snap.slot = slot]]
        /\ inflight' = r
    /\ gate' = FALSE
    /\ UNCHANGED <<slot, audit, trouble>>

GateOpens ==
    /\ ~gate /\ gate' = TRUE
    /\ UNCHANGED <<slot, audit, runner, inflight, trouble>>

\* read_venues: every failure is a snapshot that is not ok.
ReadVenues(r) ==
    /\ runner[r].at = "read"
    /\ \E ok, flat \in BOOLEAN :
        /\ ~ok => trouble < MaxTrouble /\ ~flat
        /\ runner' = [runner EXCEPT ![r].at = "load", ![r].snap.ok = ok, ![r].snap.flat = flat]
        /\ trouble' = trouble + IF ok THEN 0 ELSE 1
    /\ UNCHANGED <<slot, audit, inflight, gate>>

\* A venue's call does not return; it may much later.  (The worker starts
\* another thread, so one is always left.)
Hangs(r) ==
    /\ runner[r].at = "read" /\ trouble < MaxTrouble
    /\ \E q \in Runners \ {r} : runner[q].at # "stuck"
    /\ runner' = [runner EXCEPT ![r].at = "stuck"]
    /\ trouble' = trouble + 1
    /\ UNCHANGED <<slot, audit, inflight, gate>>

Returns(r) ==
    /\ runner[r].at = "stuck" /\ inflight # r
    /\ runner' = [runner EXCEPT ![r].at = "load", ![r].snap.ok = TRUE, ![r].snap.flat = TRUE]
    /\ UNCHANGED <<slot, audit, inflight, gate, trouble>>

\* run_once loads the store for the snapshot to compare with.
LoadStore(r) ==
    /\ runner[r].at = "load"
    /\ runner' = [runner EXCEPT ![r].at = "persist", ![r].loaded = Len(audit.snaps)]
    /\ UNCHANGED <<slot, audit, inflight, gate, trouble>>

\* _persist, the report and the answer: a late answer is dropped.
Persist(r) ==
    /\ runner[r].at = "persist"
    /\ audit' = Persisted(r)
    /\ runner' = [runner EXCEPT ![r] = IdleRunner]
    /\ inflight' = IF inflight = r THEN NoRunner ELSE inflight
    /\ UNCHANGED <<slot, gate, trouble>>

\* The deadline frees the key and the thread goes on.
Abandon ==
    /\ inflight # NoRunner /\ runner[inflight].at = "stuck"
    /\ inflight' = NoRunner
    /\ UNCHANGED <<slot, audit, runner, gate, trouble>>

\* run_cli: another process, no lock between them.
RunCli ==
    /\ trouble < MaxTrouble
    /\ \E flat \in BOOLEAN :
        audit' = Appended(audit, [slot |-> 0, ok |-> TRUE, flat |-> flat], FALSE)
    /\ trouble' = trouble + 1
    /\ UNCHANGED <<slot, runner, inflight, gate>>

NextSlot ==
    /\ slot < MaxSlot /\ slot' = slot + 1
    /\ UNCHANGED <<audit, runner, inflight, gate, trouble>>

Restart ==
    /\ trouble < MaxTrouble
    /\ runner' = [r \in Runners |-> IdleRunner]
    /\ inflight' = NoRunner /\ gate' = TRUE
    /\ trouble' = trouble + 1
    /\ UNCHANGED <<slot, audit>>

RunStep(r) == ReadVenues(r) \/ LoadStore(r) \/ Persist(r)

Next ==
    \/ MaybeRun \/ GateOpens \/ Abandon \/ RunCli \/ NextSlot \/ Restart
    \/ \E r \in Runners : RunStep(r) \/ Hangs(r) \/ Returns(r)

-----------------------------------------------------------------------------
TypeOK ==
    /\ slot \in 1 .. MaxSlot /\ audit.last \in 0 .. MaxSlot
    /\ \A r \in Runners : runner[r].at \in {Free, "read", "stuck", "load", "persist"}
    /\ inflight \in Runners \cup {NoRunner} /\ gate \in BOOLEAN

\* The store never loses a snapshot, and the baseline moves at most once after
\* it is set: from one taken with a pair open to a flat one, with the old one
\* kept; abandoned, replaced and manual runs and restarts do not change that
\* (_persist).
BaselineMoves ==
    /\ IsFlat(audit'.base)
    /\ \/ audit.base = NoSnap /\ audit'.v2 = audit.v2
       \/ ~IsFlat(audit.base) /\ ~audit.v2 /\ audit'.v2 /\ audit'.v1 = audit.base
StoreStep ==
    /\ IsPrefix(audit.snaps, audit'.snaps)
    /\ Len(audit'.snaps) <= Len(audit.snaps) + 1
    /\ audit.v2 => audit'.v2
    /\ audit'.base = audit.base \/ BaselineMoves
StoreKept == [][StoreStep]_balanceVars

\* However a run fails, hangs or dies with its process, the last slot is
\* recorded in the end (maybe_run, due_slot, _persist).
SlotsRecorded == <>[](slot = MaxSlot => audit.last = MaxSlot)
=============================================================================
