------------------------------- MODULE ScanCycle -------------------------------
(***************************************************************************)
(* The scanner (run.py): a process per scan, started by a loop and by      *)
(* persons.  A scan takes the lock file, reads the budget of requests,     *)
(* refreshes the cached catalogs and names, fetches the odds, merges what  *)
(* it found into the CSV, sends an alert or a heartbeat and gives the lock *)
(* back.                                                                   *)
(*                                                                         *)
(* Time is counted in steps of the shortest delay.  An opportunity is its  *)
(* signature.  A request costs one unit whether or not it is answered, the *)
(* worst the code's own count allows.                                      *)
(***************************************************************************)
EXTENDS Integers, Sequences, FiniteSets

CONSTANTS
    Scans,          \* the processes that may run a scan
    Signatures,     \* the opportunities
    MaxNow,         \* bound: the end of time
    MaxAge,         \* scan_lock_max_age_s
    Dedup,          \* csv_dedup_minutes
    Interval,       \* heartbeat_min_interval_min
    Allowance,      \* the requests left when the month begins
    Margin,         \* safety_margin
    RefreshMin,     \* refresh_min_remaining
    CatalogCost,    \* the requests of refresh_catalogs
    Tournaments,    \* the requests of refresh_names, one per tournament
    OddsCalls,      \* the requests of the odds, one per usable book
    Slips           \* what a run lets happen: "slow", "together", "disk"

VARIABLES
    clock,
    lock,        \* the lock file: the scan whose pid it holds, and since when
    scan,        \* process |-> where its scan is
    acct,        \* process |-> when its scan began, the requests it read as left and used
    budget,      \* the requests left, at the provider
    catalogs,    \* the cached catalogs: missing, stale or fresh
    names,       \* the cached names of the fixtures are fresh
    found,       \* process |-> the opportunities its scan found
    read,        \* process |-> the CSV as its scan read it
    csv,         \* the CSV: its rows in order, with the time of their detection
    beat,        \* last_heartbeat_utc in notify_state.json, or never
    told,        \* the times heartbeats were sent
    unsaved      \* a scan ended between sending a heartbeat and saving its time

scanVars == <<clock, lock, scan, acct, budget, catalogs, names, found, read, csv, beat,
              told, unsaved>>
-----------------------------------------------------------------------------
Never == 0 - Interval

NoAcct == [now |-> 0, left |-> 0, used |-> 0]
NoLock == [pid |-> "none", at |-> 0]
Pids == Scans \cup {"none", "dead", "torn"}
Phases == {"idle", "taking", "budget", "catalogs", "names", "odds", "emit", "merged",
           "written", "sent", "done"}
Rows == [sig : Signatures, at : 0..MaxNow]

\* A scan that holds the lock, as its process believes.
InCycle(p) == scan[p] \notin {"idle", "taking"}

TypeOK ==
    /\ clock \in 0..MaxNow
    /\ lock \in [pid : Pids, at : 0..MaxNow]
    /\ scan \in [Scans -> Phases]
    /\ acct \in [Scans -> [now : 0..MaxNow, left : 0..Allowance, used : Nat]]
    /\ budget \in 0..Allowance
    /\ catalogs \in {"missing", "stale", "fresh"} /\ names \in BOOLEAN
    /\ found \in [Scans -> SUBSET Signatures]
    /\ read \in [Scans -> Seq(Rows)] /\ csv \in Seq(Rows)
    /\ beat \in {Never} \cup 0..MaxNow /\ told \subseteq 0..MaxNow /\ unsaved \in BOOLEAN

Init ==
    /\ clock = 0 /\ lock = NoLock
    /\ scan = [p \in Scans |-> "idle"]
    /\ acct = [p \in Scans |-> NoAcct]
    /\ budget = Allowance /\ catalogs = "missing" /\ names = FALSE
    /\ found = [p \in Scans |-> {}] /\ read = [p \in Scans |-> <<>>] /\ csv = <<>>
    /\ beat = Never /\ told = {} /\ unsaved = FALSE

Goes(p, from, to) == scan[p] = from /\ scan' = [scan EXCEPT ![p] = to]
-----------------------------------------------------------------------------
(* The lock file. *)

\* Mutant: a lock is looked at only by its age.
MayLiveNever(pid) == {FALSE}

\* Whether os.kill(pid, 0) finds the process: a dead process' pid may have been
\* given to another, and a torn file has no pid.
MayLive(pid) ==
    IF pid \in Scans THEN {TRUE} ELSE IF pid = "dead" THEN BOOLEAN ELSE {FALSE}

FreshLock == clock - lock.at < MaxAge

\* _acquire_scan_lock reads the file and finds it free, gone or stale.
Look(p) ==
    /\ clock < MaxNow
    /\ "together" \in Slips \/ \A q \in Scans : scan[q] # "taking"
    /\ lock = NoLock \/ \E live \in MayLive(lock.pid) : ~(live /\ FreshLock)
    /\ Goes(p, "idle", "taking")
    /\ UNCHANGED <<clock, lock, acct, budget, catalogs, names, found, read, csv, beat, told,
                   unsaved>>

\* It then writes its own pid, whatever the file holds by now; an error of the
\* disk lets the scan go on without the lock.
Take(p) ==
    /\ Goes(p, "taking", "budget")
    /\ \/ lock' = [pid |-> p, at |-> clock]
       \/ "disk" \in Slips /\ lock' = lock
    /\ acct' = [acct EXCEPT ![p].now = clock]
    /\ UNCHANGED <<clock, budget, catalogs, names, found, read, csv, beat, told, unsaved>>

\* _release_scan_lock removes the file, whoever wrote it.
Release(p) ==
    /\ Goes(p, "done", "idle")
    /\ lock' = NoLock
    /\ found' = [found EXCEPT ![p] = {}] /\ read' = [read EXCEPT ![p] = <<>>]
    /\ acct' = [acct EXCEPT ![p] = NoAcct]
    /\ UNCHANGED <<clock, budget, catalogs, names, csv, beat, told, unsaved>>

\* An error of the cycle is caught by main, and the lock is given back.
Fails(p) ==
    /\ InCycle(p) /\ scan[p] # "done"
    /\ scan' = [scan EXCEPT ![p] = "done"]
    /\ unsaved' = (unsaved \/ scan[p] = "sent")
    /\ UNCHANGED <<clock, lock, acct, budget, catalogs, names, found, read, csv, beat, told>>

\* The process is killed: its lock stays, and may be half written.
Crash(p) ==
    /\ scan[p] # "idle"
    /\ scan' = [scan EXCEPT ![p] = "idle"]
    /\ lock' = IF lock.pid = p THEN [lock EXCEPT !.pid = "dead"]
               ELSE IF scan[p] = "taking" THEN [pid |-> "torn", at |-> clock] ELSE lock
    /\ found' = [found EXCEPT ![p] = {}] /\ read' = [read EXCEPT ![p] = <<>>]
    /\ acct' = [acct EXCEPT ![p] = NoAcct]
    /\ unsaved' = (unsaved \/ scan[p] = "sent")
    /\ UNCHANGED <<clock, budget, catalogs, names, csv, beat, told>>
-----------------------------------------------------------------------------
(* The budget of requests. *)

\* check_budget: a scan stops at once when little is left.
CheckBudget(p) ==
    /\ Goes(p, "budget", IF budget > Margin THEN "catalogs" ELSE "done")
    /\ acct' = [acct EXCEPT ![p].left = budget]
    /\ UNCHANGED <<clock, lock, budget, catalogs, names, found, read, csv, beat, told, unsaved>>

\* n requests; the provider refuses what exceeds the budget.
Spend(p, n) ==
    /\ budget >= n /\ budget' = budget - n
    /\ acct' = [acct EXCEPT ![p].used = @ + n]

\* _ensure_catalogs
EnsureCatalogs(p) ==
    /\ LET poor == acct[p].left < RefreshMin
       IN  \/ /\ catalogs = "fresh" \/ (catalogs = "stale" /\ poor)
              /\ Goes(p, "catalogs", "names")
              /\ UNCHANGED <<acct, budget, catalogs>>
           \/ /\ catalogs = "missing" /\ poor
              /\ Goes(p, "catalogs", "done")
              /\ UNCHANGED <<acct, budget, catalogs>>
           \/ /\ catalogs # "fresh" /\ ~poor
              /\ Goes(p, "catalogs", "names")
              /\ Spend(p, CatalogCost) /\ catalogs' = "fresh"
    /\ UNCHANGED <<clock, lock, names, found, read, csv, beat, told, unsaved>>

\* Requests are left for the names and the odds.
Thrifty(p) == acct[p].left - acct[p].used > Margin + OddsCalls

\* The names are refreshed when they are old or of another scope, unless that
\* would take from the odds.
RefreshNames(p) ==
    /\ Goes(p, "names", "odds")
    /\ IF ~names /\ Thrifty(p)
       THEN Spend(p, Tournaments) /\ names' = TRUE
       ELSE UNCHANGED <<acct, budget, names>>
    /\ UNCHANGED <<clock, lock, catalogs, found, read, csv, beat, told, unsaved>>

\* _fetch_odds_per_book asks once for every book, and what it finds is scanned.
FetchOdds(p) ==
    /\ Goes(p, "odds", "emit")
    /\ Spend(p, OddsCalls)
    /\ \E F \in SUBSET Signatures : found' = [found EXCEPT ![p] = F]
    /\ UNCHANGED <<clock, lock, catalogs, names, read, csv, beat, told, unsaved>>
-----------------------------------------------------------------------------
(* What a scan leaves behind. *)

LastOf(rows, s) ==
    LET at == {i \in DOMAIN rows : rows[i].sig = s}
    IN  IF at = {} THEN 0 ELSE CHOOSE i \in at : \A j \in at : j <= i

\* append_opportunities: a signature seen within the window refreshes its last
\* row, any other is appended.
Standing(rows, F, now) ==
    {s \in F : LastOf(rows, s) # 0 /\ now - rows[LastOf(rows, s)].at <= Dedup}

Refreshed(rows, F, now) ==
    [i \in DOMAIN rows |->
        IF rows[i].sig \in Standing(rows, F, now) /\ i = LastOf(rows, rows[i].sig)
        THEN [rows[i] EXCEPT !.at = now] ELSE rows[i]]

Orders(S) == {o \in [1..Cardinality(S) -> S] : \A i, j \in DOMAIN o : o[i] = o[j] => i = j}

ReadCsv(p) ==
    /\ Goes(p, "emit", IF found[p] = {} THEN "written" ELSE "merged")
    /\ read' = [read EXCEPT ![p] = csv]
    /\ UNCHANGED <<clock, lock, acct, budget, catalogs, names, found, csv, beat, told, unsaved>>

WriteCsv(p) ==
    /\ Goes(p, "merged", "written")
    /\ LET now == acct[p].now
       IN  \E o \in Orders(found[p] \ Standing(read[p], found[p], now)) :
              csv' = Refreshed(read[p], found[p], now)
                         \o [i \in DOMAIN o |-> [sig |-> o[i], at |-> now]]
    /\ UNCHANGED <<clock, lock, acct, budget, catalogs, names, found, read, beat, told, unsaved>>

\* Something found is alerted at once; with nothing a heartbeat is sent, unless
\* the last is younger than the interval.  A message may fail to be sent.
Alert(p) ==
    /\ \/ found[p] # {} /\ Goes(p, "written", "done") /\ UNCHANGED told
       \/ found[p] = {} /\ acct[p].now - beat < Interval /\ Goes(p, "written", "done") /\ UNCHANGED told
       \/ /\ found[p] = {} /\ acct[p].now - beat >= Interval
          /\ \/ Goes(p, "written", "sent") /\ told' = told \cup {acct[p].now}
             \/ Goes(p, "written", "done") /\ UNCHANGED told
    /\ UNCHANGED <<clock, lock, acct, budget, catalogs, names, found, read, csv, beat, unsaved>>

SaveBeat(p) ==
    /\ Goes(p, "sent", "done")
    /\ beat' = acct[p].now
    /\ UNCHANGED <<clock, lock, acct, budget, catalogs, names, found, read, csv, told, unsaved>>
-----------------------------------------------------------------------------
\* Time passes between scans, and within one no longer than the lock's age; the
\* caches grow old.
Tick ==
    /\ clock < MaxNow /\ clock' = clock + 1
    /\ \A p \in Scans : scan[p] \in {"idle", "budget", "odds"}
    /\ "slow" \in Slips \/ \A p \in Scans : InCycle(p) => clock + 1 - lock.at < MaxAge
    /\ catalogs' \in {catalogs, IF catalogs = "fresh" THEN "stale" ELSE catalogs}
    /\ names' \in {names, FALSE}
    /\ UNCHANGED <<lock, scan, acct, budget, found, read, csv, beat, told, unsaved>>

Step(p) ==
    \/ Look(p) \/ Take(p) \/ Release(p) \/ Fails(p) \/ Crash(p)
    \/ CheckBudget(p) \/ EnsureCatalogs(p) \/ RefreshNames(p) \/ FetchOdds(p)
    \/ ReadCsv(p) \/ WriteCsv(p) \/ Alert(p) \/ SaveBeat(p)

Next == Tick \/ \E p \in Scans : Step(p)

Spec == Init /\ [][Next]_scanVars
-----------------------------------------------------------------------------
\* No two scans run at once, whatever was killed before and whoever has its pid.
NoOverlap == \A p, q \in Scans : (InCycle(p) /\ InCycle(q)) => p = q

\* The margin covers the requests a scan makes after its only look at the budget.
MarginHolds == budget >= Margin + 1 - (IF OddsCalls > Tournaments THEN OddsCalls ELSE Tournaments)

\* A standing opportunity has one row: two rows of a signature are further apart
\* than the window.
OneRowEach ==
    \A i, j \in DOMAIN csv :
        (i < j /\ csv[i].sig = csv[j].sig) => csv[j].at - csv[i].at > Dedup

\* Heartbeats keep their distance, unless the time of one was never saved.
BeatsSpaced ==
    unsaved \/ \A s, t \in told : s < t => t - s >= Interval

\* One scan at a time within its budget leaves one row per standing opportunity
\* and no more heartbeats than the interval allows.
ScanKept == NoOverlap /\ MarginHolds /\ OneRowEach /\ BeatsSpaced
=============================================================================
