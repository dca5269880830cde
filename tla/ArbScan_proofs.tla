---------------------------- MODULE ArbScan_proofs ----------------------------
(***************************************************************************)
(* The scanner (ScanCycle) and the odds scan of several sports (OddsScan)  *)
(* keep ScanKept, for every set of processes, budget, interval, list of    *)
(* sports and markets.                                                     *)
(*                                                                         *)
(* The scanner: the process that is not idle is alone and holds a fresh    *)
(* lock (TakenInv), so what it read is still what the files hold when it   *)
(* writes; what it may still spend is what the budget it asked for leaves  *)
(* (BudgetInv).                                                            *)
(*                                                                         *)
(* The odds scan: a sport's odds, credits and drops are with the cycle     *)
(* before they are in a file.  Each invariant says what the two are        *)
(* together: the day's total and the turn's credits (CreditInv), the       *)
(* file's drops and the turn's (DropInv), the panel and what the turn is   *)
(* served (ServedInv).                                                     *)
(***************************************************************************)
EXTENDS ArbDesk, SumTheorems, SequenceTheorems

-----------------------------------------------------------------------------
(* The scanner.                                                            *)

\* A row of the file of opportunities.
Row == [sig : Signatures, at : 0..MaxNow]

\* One scan at most is not idle, and one that has taken the lock holds it fresh.
TakenInv ==
    /\ \A p, q \in Scans : scan[p] # "idle" /\ scan[q] # "idle" => p = q
    /\ \A p \in Scans : Scanner!InCycle(p) =>
            lock.pid = p /\ clock - lock.at < MaxAge /\ acct[p].now <= clock

\* What a scan may still spend of the budget, by the place it has come to.
Spends(p) ==
    /\ scan[p] \in {"idle", "taking", "budget", "catalogs"} => acct[p].used = 0
    /\ scan[p] \in {"catalogs", "names"} => budget = acct[p].left - acct[p].used
    /\ scan[p] \in {"catalogs", "names"} => budget > Margin
    /\ scan[p] = "odds" => budget > Margin \/ budget > Margin + OddsCalls - Tournaments

\* The quota keeps its margin, and what a scan may still spend leaves it.
BudgetInv == Scanner!MarginHolds /\ \A p \in Scans : Spends(p)

\* A scan rewrites what it read, and no row is of a later time.
CsvInv ==
    /\ Scanner!OneRowEach
    /\ \A i \in DOMAIN csv : csv[i].at <= clock
    /\ \A p \in Scans : Scanner!InCycle(p) => \A i \in DOMAIN csv : csv[i].at <= acct[p].now
    /\ \A p \in Scans : scan[p] = "merged" => read[p] = csv

\* No heartbeat is later than the last saved one, but one just sent.
BeatInv ==
    /\ Scanner!BeatsSpaced
    /\ beat <= clock
    /\ \A p \in Scans : Scanner!InCycle(p) => beat <= acct[p].now
    /\ ~unsaved => \A t \in told : \/ t <= beat
                                   \/ \E p \in Scans : scan[p] = "sent" /\ t = acct[p].now

\* The inductive invariant of the scanner.
ScanInv == Scanner!TypeOK /\ TakenInv /\ BudgetInv /\ CsvInv /\ BeatInv

\* The budget is enough for the catalogs where they are refreshed (config.yaml).
Funded == Allowance > Margin /\ RefreshMin > Margin + CatalogCost

\* Another process, while p runs, is idle.
LEMMA OthersIdle ==
    ASSUME TakenInv, NEW p \in Scans, scan[p] # "idle", NEW q \in Scans, q # p
    PROVE  scan[q] = "idle" /\ ~Scanner!InCycle(q)
  BY DEF TakenInv, Scanner!InCycle

\* A process that looks at the lock finds no other at work.
LEMMA LookStep ==
    ASSUME ScanInv, Slips = {}, NEW p \in Scans, Scanner!Look(p)
    PROVE  ScanInv'
  <1>1. \A q \in Scans : scan[q] = "idle"
    <2>1. SUFFICES ASSUME NEW q \in Scans, scan[q] # "idle" PROVE FALSE
      OBVIOUS
    <2>2. scan[q] # "taking"
      BY DEF Scanner!Look
    <2>3. lock.pid = q /\ clock - lock.at < MaxAge
      BY <2>1, <2>2 DEF ScanInv, TakenInv, Scanner!InCycle
    <2>4. lock # Scanner!NoLock
      BY <2>3, ScanAssumption DEF Scanner!NoLock
    <2>5. Scanner!MayLive(lock.pid) = {TRUE}
      BY <2>3 DEF Scanner!MayLive
    <2> QED BY <2>3, <2>4, <2>5 DEF Scanner!Look, Scanner!FreshLock
  <1>2. scan' \in [Scans -> Scanner!Phases] /\ scan'[p] = "taking" /\ acct' = acct
        /\ \A q \in Scans : q # p => scan'[q] = "idle"
    BY <1>1 DEF ScanInv, Scanner!TypeOK, Scanner!Look, Scanner!Goes, Scanner!Phases
  <1>3. \A q \in Scans : ~Scanner!InCycle(q)' /\ ~Scanner!InCycle(q)
    BY <1>1, <1>2 DEF Scanner!InCycle
  <1>4. UNCHANGED <<clock, lock, acct, budget, catalogs, names, found, read, csv, beat, told,
                    unsaved>>
    BY DEF Scanner!Look
  <1>5. Scanner!TypeOK'
    BY <1>2, <1>4 DEF ScanInv, Scanner!TypeOK, Scanner!Rows, Scanner!Pids
  <1>6. TakenInv'
    BY <1>2, <1>3 DEF TakenInv
  <1>7. BudgetInv'
    BY <1>1, <1>2, <1>4 DEF ScanInv, BudgetInv, Spends, Scanner!MarginHolds
  <1>8. CsvInv'
    BY <1>2, <1>3, <1>4 DEF ScanInv, CsvInv, Scanner!OneRowEach
  <1>9. BeatInv'
    BY <1>1, <1>2, <1>3, <1>4 DEF ScanInv, BeatInv, Scanner!BeatsSpaced
  <1> QED BY <1>5, <1>6, <1>7, <1>8, <1>9 DEF ScanInv

\* How a step of p moves the scan, nothing else of its place in the world.
Moves(p, to) ==
    /\ scan' = [scan EXCEPT ![p] = to] /\ UNCHANGED <<clock, lock>>
    /\ acct'[p].now = acct[p].now /\ \A q \in Scans : q # p => acct'[q] = acct[q]

\* A step of the one scan that runs keeps TakenInv.
LEMMA MovesTaken ==
    ASSUME ScanInv, NEW p \in Scans, scan[p] \notin {"idle", "taking"},
           NEW to \in Scanner!Phases, to \notin {"idle", "taking"}, Moves(p, to)
    PROVE  TakenInv' /\ scan' \in [Scans -> Scanner!Phases]
           /\ scan'[p] = to /\ \A q \in Scans : q # p => scan'[q] = "idle" /\ scan[q] = "idle"
  <1>1. scan \in [Scans -> Scanner!Phases]
    BY DEF ScanInv, Scanner!TypeOK
  <1>2. scan' \in [Scans -> Scanner!Phases] /\ scan'[p] = to
        /\ \A q \in Scans : q # p => scan'[q] = scan[q]
    BY <1>1 DEF Moves
  <1>3. \A q \in Scans : q # p => scan[q] = "idle"
    BY OthersIdle DEF ScanInv
  <1>4. TakenInv'
    BY <1>2, <1>3 DEF ScanInv, TakenInv, Moves, Scanner!InCycle
  <1> QED BY <1>2, <1>3, <1>4

\* One that writes no row and sends nothing keeps CsvInv and BeatInv.
LEMMA MovesRest ==
    ASSUME ScanInv, NEW p \in Scans, scan[p] \notin {"idle", "taking"},
           NEW to \in Scanner!Phases, to \notin {"idle", "taking"}, Moves(p, to),
           UNCHANGED <<csv, beat, told>>
    PROVE  /\ (to = "merged" => read'[p] = csv) => CsvInv'
           /\ (unsaved' = unsaved /\ scan[p] # "sent") \/ unsaved' => BeatInv'
  <1>1. /\ scan'[p] = to /\ \A q \in Scans : q # p => scan'[q] = "idle" /\ scan[q] = "idle"
    BY MovesTaken
  <1>2. Scanner!OneRowEach' <=> Scanner!OneRowEach
    BY DEF Scanner!OneRowEach
  <1>3. (to = "merged" => read'[p] = csv) => CsvInv'
    BY <1>1, <1>2 DEF ScanInv, CsvInv, Moves, Scanner!InCycle
  <1>4. ASSUME (unsaved' = unsaved /\ scan[p] # "sent") \/ unsaved' PROVE BeatInv'
    <2>1. Scanner!BeatsSpaced'
      BY <1>4 DEF ScanInv, BeatInv, Scanner!BeatsSpaced
    <2>2. beat' <= clock' /\ \A q \in Scans : Scanner!InCycle(q)' => beat' <= acct'[q].now
      BY <1>1 DEF ScanInv, BeatInv, Moves, Scanner!InCycle
    <2>3. ASSUME ~unsaved', NEW t \in told' PROVE t <= beat'
      <3>1. ~unsaved /\ scan[p] # "sent" /\ t \in told
        BY <1>4, <2>3
      <3>2. \A q \in Scans : scan[q] # "sent"
        BY <1>1, <3>1
      <3> QED BY <3>1, <3>2 DEF ScanInv, BeatInv
    <2> QED BY <2>1, <2>2, <2>3 DEF BeatInv
  <1> QED BY <1>3, <1>4

\* A process that stops, or takes the lock: what is idle owes nothing.
LEMMA TakeStep ==
    ASSUME ScanInv, Slips = {}, NEW p \in Scans, Scanner!Take(p)
    PROVE  ScanInv'
  <1>1. /\ scan \in [Scans -> Scanner!Phases] /\ scan[p] = "taking" /\ clock \in 0..MaxNow
        /\ acct \in [Scans -> [now : 0..MaxNow, left : 0..Allowance, used : Nat]]
    BY DEF ScanInv, Scanner!TypeOK, Scanner!Take, Scanner!Goes
  <1>2. \A q \in Scans : q # p => scan[q] = "idle"
    BY <1>1, OthersIdle DEF ScanInv
  <1>3. /\ scan' \in [Scans -> Scanner!Phases] /\ scan'[p] = "budget"
        /\ \A q \in Scans : q # p => scan'[q] = "idle"
    BY <1>1, <1>2 DEF Scanner!Take, Scanner!Goes, Scanner!Phases
  <1>4. /\ acct' \in [Scans -> [now : 0..MaxNow, left : 0..Allowance, used : Nat]]
        /\ acct'[p].now = clock /\ acct'[p].used = acct[p].used
        /\ \A q \in Scans : q # p => acct'[q] = acct[q]
    BY <1>1 DEF Scanner!Take
  <1>5. lock'.pid = p /\ lock'.at = clock /\ lock' \in [pid : Scanner!Pids, at : 0..MaxNow]
    BY <1>1 DEF Scanner!Take, Scanner!Pids
  <1>6. UNCHANGED <<clock, budget, catalogs, names, found, read, csv, beat, told, unsaved>>
    BY DEF Scanner!Take
  <1>7. Scanner!TypeOK'
    BY <1>3, <1>4, <1>5, <1>6 DEF ScanInv, Scanner!TypeOK, Scanner!Rows, Scanner!Pids
  <1>8. TakenInv'
    BY <1>1, <1>3, <1>4, <1>5, <1>6, ScanAssumption DEF TakenInv, Scanner!InCycle
  <1>9. BudgetInv'
    <2>1. Scanner!MarginHolds'
      BY <1>6 DEF ScanInv, BudgetInv, Scanner!MarginHolds
    <2>2. acct'[p].used = 0
      BY <1>1, <1>4 DEF ScanInv, BudgetInv, Spends
    <2>3. \A q \in Scans : q # p => acct'[q].used = 0
      BY <1>2, <1>4 DEF ScanInv, BudgetInv, Spends
    <2> QED BY <1>3, <2>1, <2>2, <2>3 DEF BudgetInv, Spends
  <1>10. CsvInv'
    BY <1>3, <1>4, <1>6 DEF ScanInv, CsvInv, Scanner!OneRowEach, Scanner!InCycle
  <1>11. BeatInv'
    BY <1>1, <1>2, <1>3, <1>4, <1>6 DEF ScanInv, BeatInv, Scanner!BeatsSpaced, Scanner!InCycle
  <1> QED BY <1>7, <1>8, <1>9, <1>10, <1>11 DEF ScanInv

\* A scan that ends leaves an idle process behind.
LEMMA Ended ==
    ASSUME ScanInv, NEW p \in Scans, scan[p] # "idle",
           scan' = [scan EXCEPT ![p] = "idle"], acct' = [acct EXCEPT ![p] = Scanner!NoAcct],
           lock' \in [pid : Scanner!Pids, at : 0..MaxNow],
           found' = [found EXCEPT ![p] = {}], read' = [read EXCEPT ![p] = <<>>],
           (unsaved' = unsaved /\ scan[p] # "sent") \/ unsaved' = TRUE,
           UNCHANGED <<clock, budget, catalogs, names, csv, beat, told>>
    PROVE  ScanInv'
  <1>1. /\ scan \in [Scans -> Scanner!Phases] /\ MaxNow \in Nat /\ Allowance \in Nat
        /\ acct \in [Scans -> [now : 0..MaxNow, left : 0..Allowance, used : Nat]]
    BY ScanAssumption DEF ScanInv, Scanner!TypeOK
  <1>2. \A q \in Scans : q # p => scan[q] = "idle"
    BY OthersIdle DEF ScanInv
  <1>3. scan' \in [Scans -> Scanner!Phases] /\ \A q \in Scans : scan'[q] = "idle"
    BY <1>1, <1>2 DEF Scanner!Phases
  <1>4. /\ acct' \in [Scans -> [now : 0..MaxNow, left : 0..Allowance, used : Nat]]
        /\ acct'[p].used = 0 /\ \A q \in Scans : q # p => acct'[q] = acct[q]
    BY <1>1 DEF Scanner!NoAcct
  <1>5. /\ found' \in [Scans -> SUBSET Signatures] /\ read' \in [Scans -> Seq(Row)]
        /\ csv' \in Seq(Row)
    <2>1. /\ found \in [Scans -> SUBSET Signatures] /\ read \in [Scans -> Seq(Row)]
          /\ csv \in Seq(Row)
      BY DEF ScanInv, Scanner!TypeOK, Scanner!Rows, Row
    <2>2. <<>> \in Seq(Row) /\ {} \in SUBSET Signatures
      BY EmptySeq
    <2> QED BY <2>1, <2>2
  <1>6. unsaved' \in BOOLEAN
    BY DEF ScanInv, Scanner!TypeOK
  <1>7. Scanner!TypeOK'
    BY <1>3, <1>4, <1>5, <1>6 DEF ScanInv, Scanner!TypeOK, Scanner!Rows, Row
  <1>8. TakenInv'
    BY <1>3 DEF TakenInv, Scanner!InCycle
  <1>9. BudgetInv'
    <2>1. Scanner!MarginHolds'
      BY DEF ScanInv, BudgetInv, Scanner!MarginHolds
    <2>2. \A q \in Scans : q # p => acct'[q].used = 0
      BY <1>2, <1>4 DEF ScanInv, BudgetInv, Spends
    <2> QED BY <1>3, <1>4, <2>1, <2>2 DEF BudgetInv, Spends
  <1>10. CsvInv'
    BY <1>3 DEF ScanInv, CsvInv, Scanner!OneRowEach, Scanner!InCycle
  <1>11. BeatInv'
    <2>1. \A t \in told : ~unsaved' => t <= beat
      BY <1>2 DEF ScanInv, BeatInv
    <2>2. Scanner!BeatsSpaced'
      BY DEF ScanInv, BeatInv, Scanner!BeatsSpaced
    <2> QED BY <1>3, <2>1, <2>2 DEF ScanInv, BeatInv, Scanner!InCycle
  <1> QED BY <1>7, <1>8, <1>9, <1>10, <1>11 DEF ScanInv

LEMMA ReleaseStep ==
    ASSUME ScanInv, NEW p \in Scans, Scanner!Release(p)
    PROVE  ScanInv'
  <1>1. lock' \in [pid : Scanner!Pids, at : 0..MaxNow]
    BY ScanAssumption DEF Scanner!Release, Scanner!NoLock, Scanner!Pids
  <1>2. scan[p] = "done" /\ scan' = [scan EXCEPT ![p] = "idle"]
    BY DEF Scanner!Release, Scanner!Goes
  <1> QED BY <1>1, <1>2, Ended DEF Scanner!Release

LEMMA CrashStep ==
    ASSUME ScanInv, NEW p \in Scans, Scanner!Crash(p)
    PROVE  ScanInv'
  <1>1. lock' \in [pid : Scanner!Pids, at : 0..MaxNow]
    BY DEF ScanInv, Scanner!TypeOK, Scanner!Crash, Scanner!Pids
  <1>2. (unsaved' = unsaved /\ scan[p] # "sent") \/ unsaved' = TRUE
    BY DEF Scanner!Crash, ScanInv, Scanner!TypeOK
  <1> QED BY <1>1, <1>2, Ended DEF Scanner!Crash

\* What every step inside a scan leaves of the types.
LEMMA CycleTypes ==
    ASSUME ScanInv
    PROVE  /\ clock \in 0..MaxNow /\ budget \in 0..Allowance
           /\ acct \in [Scans -> [now : 0..MaxNow, left : 0..Allowance, used : Nat]]
           /\ scan \in [Scans -> Scanner!Phases] /\ found \in [Scans -> SUBSET Signatures]
           /\ read \in [Scans -> Seq(Row)] /\ csv \in Seq(Row)
           /\ beat \in {Scanner!Never} \cup 0..MaxNow /\ told \subseteq 0..MaxNow
           /\ Scanner!Never \in Int /\ budget \in Int
  <1>1. 0 - Interval \in Int
    BY ScanAssumption
  <1>2. ScanInv => budget \in 0..Allowance
    BY DEF ScanInv, Scanner!TypeOK
  <1>3. budget \in Int
    BY <1>2, ScanAssumption
  <1> QED BY <1>1, <1>2, <1>3 DEF ScanInv, Scanner!TypeOK, Scanner!Rows, Row, Scanner!Never

LEMMA FailsStep ==
    ASSUME ScanInv, NEW p \in Scans, Scanner!Fails(p)
    PROVE  ScanInv'
  <1>1. scan[p] \notin {"idle", "taking"} /\ Moves(p, "done") /\ "done" \in Scanner!Phases
        /\ UNCHANGED <<acct, budget, catalogs, names, found, read, csv, beat, told>>
    BY DEF Scanner!Fails, Scanner!InCycle, Moves, Scanner!Phases
  <1>2. (unsaved' = unsaved /\ scan[p] # "sent") \/ unsaved'
    BY DEF Scanner!Fails, ScanInv, Scanner!TypeOK
  <1>3. unsaved' \in BOOLEAN
    BY DEF Scanner!Fails, ScanInv, Scanner!TypeOK
  <1>4. TakenInv' /\ scan' \in [Scans -> Scanner!Phases] /\ scan'[p] = "done"
        /\ \A q \in Scans : q # p => scan'[q] = "idle" /\ scan[q] = "idle"
    BY <1>1, MovesTaken
  <1>5. CsvInv' /\ BeatInv'
    BY <1>1, <1>2, MovesRest
  <1>6. BudgetInv'
    BY <1>1, <1>4 DEF ScanInv, BudgetInv, Spends, Scanner!MarginHolds
  <1>7. Scanner!TypeOK'
    BY <1>1, <1>3, <1>4 DEF ScanInv, Scanner!TypeOK, Scanner!Rows, Moves
  <1> QED BY <1>4, <1>5, <1>6, <1>7 DEF ScanInv

\* A step that only asks and pays: b requests are left, a scan's account is a.
LEMMA Pays ==
    ASSUME ScanInv, NEW p \in Scans, scan[p] \notin {"idle", "taking", "sent"},
           NEW to \in Scanner!Phases, to \notin {"idle", "taking", "merged"}, Moves(p, to),
           acct' \in [Scans -> [now : 0..MaxNow, left : 0..Allowance, used : Nat]],
           budget' \in 0..Allowance, catalogs' \in {"missing", "stale", "fresh"},
           names' \in BOOLEAN, found' \in [Scans -> SUBSET Signatures],
           UNCHANGED <<read, csv, beat, told, unsaved>>,
           Scanner!MarginHolds', Spends(p)'
    PROVE  ScanInv'
  <1>1. TakenInv' /\ scan' \in [Scans -> Scanner!Phases] /\ scan'[p] = to
        /\ \A q \in Scans : q # p => scan'[q] = "idle" /\ scan[q] = "idle"
    BY MovesTaken
  <1>2. CsvInv' /\ BeatInv'
    BY MovesRest
  <1>3. BudgetInv'
    <2>1. \A q \in Scans : q # p => Spends(q)'
      BY <1>1 DEF ScanInv, BudgetInv, Spends, Moves
    <2> QED BY <2>1 DEF BudgetInv
  <1>4. Scanner!TypeOK'
    BY <1>1 DEF ScanInv, Scanner!TypeOK, Scanner!Rows, Moves
  <1> QED BY <1>1, <1>2, <1>3, <1>4 DEF ScanInv

LEMMA CheckBudgetStep ==
    ASSUME ScanInv, NEW p \in Scans, Scanner!CheckBudget(p)
    PROVE  ScanInv'
  <1> DEFINE to == IF budget > Margin THEN "catalogs" ELSE "done"
  <1>1. scan[p] = "budget" /\ to \in Scanner!Phases /\ to \in {"catalogs", "done"}
        /\ scan' = [scan EXCEPT ![p] = to]
    BY DEF Scanner!CheckBudget, Scanner!Goes, Scanner!Phases
  <1>2. acct[p].used = 0
    BY <1>1 DEF ScanInv, BudgetInv, Spends
  <1>3. /\ acct' \in [Scans -> [now : 0..MaxNow, left : 0..Allowance, used : Nat]]
        /\ acct'[p].left = budget /\ acct'[p].used = 0 /\ acct'[p].now = acct[p].now
        /\ \A q \in Scans : q # p => acct'[q] = acct[q]
    BY <1>2, CycleTypes DEF Scanner!CheckBudget
  <1>4. Moves(p, to)
    BY <1>1, <1>3 DEF Moves, Scanner!CheckBudget
  <1>5. UNCHANGED <<budget, catalogs, names, found, read, csv, beat, told, unsaved>>
    BY DEF Scanner!CheckBudget
  <1>6. Scanner!MarginHolds'
    BY <1>5 DEF ScanInv, BudgetInv, Scanner!MarginHolds
  <1>7. scan'[p] = to
    BY <1>1, CycleTypes
  <1>8. Spends(p)'
    BY <1>1, <1>3, <1>5, <1>7, CycleTypes, ScanAssumption DEF Spends
  <1>9. budget' \in 0..Allowance /\ catalogs' \in {"missing", "stale", "fresh"}
        /\ names' \in BOOLEAN /\ found' \in [Scans -> SUBSET Signatures]
    BY <1>5, CycleTypes DEF ScanInv, Scanner!TypeOK
  <1> HIDE DEF to
  <1> QED BY <1>1, <1>3, <1>4, <1>5, <1>6, <1>8, <1>9, Pays

\* n requests of p, if the provider serves them.
LEMMA SpendFacts ==
    ASSUME ScanInv, NEW p \in Scans, NEW n \in Nat, Scanner!Spend(p, n)
    PROVE  /\ acct' \in [Scans -> [now : 0..MaxNow, left : 0..Allowance, used : Nat]]
           /\ budget' \in 0..Allowance /\ budget' = budget - n
           /\ acct'[p].left = acct[p].left /\ acct'[p].used = acct[p].used + n
           /\ acct'[p].now = acct[p].now /\ \A q \in Scans : q # p => acct'[q] = acct[q]
  <1>1. acct[p] \in [now : 0..MaxNow, left : 0..Allowance, used : Nat]
    BY CycleTypes
  <1>2. budget' \in 0..Allowance /\ budget' = budget - n
    <2>1. budget \in 0..Allowance /\ Allowance \in Nat
      BY CycleTypes, ScanAssumption
    <2>2. budget >= n /\ budget' = budget - n
      BY DEF Scanner!Spend
    <2> QED BY <2>1, <2>2
  <1>3. acct[p].used + n \in Nat
    BY <1>1
  <1> QED BY <1>1, <1>2, <1>3, CycleTypes DEF Scanner!Spend

LEMMA EnsureCatalogsStep ==
    ASSUME ScanInv, Funded, NEW p \in Scans, Scanner!EnsureCatalogs(p)
    PROVE  ScanInv'
  <1> DEFINE to == scan'[p]
  <1>1. scan[p] = "catalogs" /\ to \in {"names", "done"} /\ scan' = [scan EXCEPT ![p] = to]
    BY CycleTypes DEF Scanner!EnsureCatalogs, Scanner!Goes
  <1>2. /\ acct[p].used = 0 /\ budget = acct[p].left /\ budget > Margin
    BY <1>1, CycleTypes, ScanAssumption DEF ScanInv, BudgetInv, Spends
  <1>3. UNCHANGED <<clock, lock, names, found, read, csv, beat, told, unsaved>>
        /\ catalogs' \in {"missing", "stale", "fresh"}
    BY DEF Scanner!EnsureCatalogs, ScanInv, Scanner!TypeOK
  <1>4. /\ acct' \in [Scans -> [now : 0..MaxNow, left : 0..Allowance, used : Nat]]
        /\ budget' \in 0..Allowance /\ budget' > Margin
        /\ budget' = acct'[p].left - acct'[p].used
        /\ acct'[p].now = acct[p].now /\ \A q \in Scans : q # p => acct'[q] = acct[q]
    <2>1. CASE UNCHANGED <<acct, budget>>
      BY <2>1, <1>2, CycleTypes
    <2>2. CASE acct[p].left >= RefreshMin /\ Scanner!Spend(p, CatalogCost)
      <3>1. CatalogCost \in Nat
        BY ScanAssumption
      <3> QED BY <3>1, <2>2, <1>2, SpendFacts, CycleTypes, ScanAssumption DEF Funded
    <2>3. acct[p].left \in Nat /\ RefreshMin \in Nat
      BY CycleTypes, ScanAssumption
    <2> QED BY <2>1, <2>2, <2>3 DEF Scanner!EnsureCatalogs
  <1>5. to \in Scanner!Phases /\ Moves(p, to)
    BY <1>1, <1>3, <1>4 DEF Moves, Scanner!Phases
  <1>6. Scanner!MarginHolds'
    BY <1>4, ScanAssumption DEF Scanner!MarginHolds
  <1>7. Spends(p)'
    BY <1>1, <1>4 DEF Spends
  <1>8. names' \in BOOLEAN /\ found' \in [Scans -> SUBSET Signatures]
    BY <1>3, CycleTypes DEF ScanInv, Scanner!TypeOK
  <1> HIDE DEF to
  <1> QED BY <1>1, <1>3, <1>4, <1>5, <1>6, <1>7, <1>8, Pays

LEMMA RefreshNamesStep ==
    ASSUME ScanInv, NEW p \in Scans, Scanner!RefreshNames(p)
    PROVE  ScanInv'
  <1>1. scan[p] = "names" /\ scan' = [scan EXCEPT ![p] = "odds"] /\ scan'[p] = "odds"
    BY CycleTypes DEF Scanner!RefreshNames, Scanner!Goes
  <1>2. budget = acct[p].left - acct[p].used /\ budget > Margin
    BY <1>1 DEF ScanInv, BudgetInv, Spends
  <1>3. UNCHANGED <<clock, lock, catalogs, found, read, csv, beat, told, unsaved>>
        /\ names' \in BOOLEAN /\ catalogs' \in {"missing", "stale", "fresh"}
    BY DEF Scanner!RefreshNames, ScanInv, Scanner!TypeOK
  <1>4. /\ acct' \in [Scans -> [now : 0..MaxNow, left : 0..Allowance, used : Nat]]
        /\ budget' \in 0..Allowance
        /\ budget' > Margin \/ budget' > Margin + OddsCalls - Tournaments
        /\ acct'[p].now = acct[p].now /\ \A q \in Scans : q # p => acct'[q] = acct[q]
    <2>1. CASE UNCHANGED <<acct, budget>>
      BY <2>1, <1>2, CycleTypes
    <2>2. CASE Scanner!Thrifty(p) /\ Scanner!Spend(p, Tournaments)
      <3>1. Tournaments \in Nat
        BY ScanAssumption
      <3>2. budget > Margin + OddsCalls
        BY <2>2, <1>2 DEF Scanner!Thrifty
      <3>3. budget' = budget - Tournaments
        BY <3>1, <2>2, SpendFacts
      <3>4. budget \in Int /\ Margin \in Nat /\ OddsCalls \in Nat
        BY CycleTypes, ScanAssumption
      <3>5. budget' > Margin + OddsCalls - Tournaments
        BY <3>1, <3>2, <3>3, <3>4
      <3> QED BY <3>1, <3>5, <2>2, SpendFacts
    <2> QED BY <2>1, <2>2 DEF Scanner!RefreshNames
  <1>5. "odds" \in Scanner!Phases /\ Moves(p, "odds")
    BY <1>1, <1>3, <1>4 DEF Moves, Scanner!Phases
  <1>6. Scanner!MarginHolds'
    BY <1>4, ScanAssumption DEF Scanner!MarginHolds
  <1>7. Spends(p)'
    BY <1>1, <1>4 DEF Spends
  <1>8. found' \in [Scans -> SUBSET Signatures]
    BY <1>3, CycleTypes
  <1> QED BY <1>1, <1>3, <1>4, <1>5, <1>6, <1>7, <1>8, Pays

LEMMA FetchOddsStep ==
    ASSUME ScanInv, NEW p \in Scans, Scanner!FetchOdds(p)
    PROVE  ScanInv'
  <1>1. scan[p] = "odds" /\ scan' = [scan EXCEPT ![p] = "emit"] /\ scan'[p] = "emit"
    BY CycleTypes DEF Scanner!FetchOdds, Scanner!Goes
  <1>2. budget > Margin \/ budget > Margin + OddsCalls - Tournaments
    BY <1>1 DEF ScanInv, BudgetInv, Spends
  <1>3. UNCHANGED <<clock, lock, catalogs, names, read, csv, beat, told, unsaved>>
        /\ names' \in BOOLEAN /\ catalogs' \in {"missing", "stale", "fresh"}
    BY DEF Scanner!FetchOdds, ScanInv, Scanner!TypeOK
  <1>4. /\ acct' \in [Scans -> [now : 0..MaxNow, left : 0..Allowance, used : Nat]]
        /\ budget' \in 0..Allowance /\ budget' = budget - OddsCalls
        /\ acct'[p].now = acct[p].now /\ \A q \in Scans : q # p => acct'[q] = acct[q]
    BY SpendFacts, ScanAssumption DEF Scanner!FetchOdds
  <1>5. "emit" \in Scanner!Phases /\ Moves(p, "emit")
    BY <1>1, <1>3, <1>4 DEF Moves, Scanner!Phases
  <1>6. Scanner!MarginHolds'
    <2>1. /\ budget \in Int /\ Margin \in Nat /\ OddsCalls \in Nat /\ Tournaments \in Nat
      BY CycleTypes, ScanAssumption
    <2>2. budget' = budget - OddsCalls
      BY <1>4
    <2> QED BY <2>1, <2>2, <1>2 DEF Scanner!MarginHolds
  <1>7. Spends(p)'
    BY <1>1 DEF Spends
  <1>8. found' \in [Scans -> SUBSET Signatures]
    BY CycleTypes DEF Scanner!FetchOdds
  <1> QED BY <1>1, <1>3, <1>4, <1>5, <1>6, <1>7, <1>8, Pays

LEMMA ReadCsvStep ==
    ASSUME ScanInv, NEW p \in Scans, Scanner!ReadCsv(p)
    PROVE  ScanInv'
  <1> DEFINE to == IF found[p] = {} THEN "written" ELSE "merged"
  <1>1. scan[p] = "emit" /\ to \in Scanner!Phases /\ to \in {"written", "merged"}
        /\ scan' = [scan EXCEPT ![p] = to]
    BY DEF Scanner!ReadCsv, Scanner!Goes, Scanner!Phases
  <1>2. UNCHANGED <<clock, lock, acct, budget, catalogs, names, found, csv, beat, told, unsaved>>
    BY DEF Scanner!ReadCsv
  <1>3. read' \in [Scans -> Seq(Row)] /\ read'[p] = csv
    BY CycleTypes DEF Scanner!ReadCsv
  <1>4. Moves(p, to)
    BY <1>1, <1>2 DEF Moves
  <1> HIDE DEF to
  <1>5. TakenInv' /\ scan' \in [Scans -> Scanner!Phases] /\ scan'[p] = to
        /\ \A q \in Scans : q # p => scan'[q] = "idle" /\ scan[q] = "idle"
    BY <1>1, <1>4, MovesTaken
  <1>6. CsvInv' /\ BeatInv'
    BY <1>1, <1>2, <1>3, <1>4, MovesRest
  <1>7. BudgetInv'
    BY <1>1, <1>2, <1>5 DEF ScanInv, BudgetInv, Spends, Scanner!MarginHolds
  <1>8. Scanner!TypeOK'
    BY <1>2, <1>3, <1>5 DEF ScanInv, Scanner!TypeOK, Scanner!Rows, Row
  <1> QED BY <1>5, <1>6, <1>7, <1>8 DEF ScanInv

\* The last row of a signature, if it has one.
LEMMA LastRow ==
    ASSUME NEW r \in Seq(Row), NEW s
    PROVE  LET k == Scanner!LastOf(r, s)
           IN  \/ k = 0 /\ \A i \in DOMAIN r : r[i].sig # s
               \/ /\ k \in DOMAIN r /\ k # 0 /\ r[k].sig = s
                  /\ \A i \in DOMAIN r : r[i].sig = s => i <= k
  <1> DEFINE at == {i \in DOMAIN r : r[i].sig = s}
             behind == {Len(r) - i : i \in at}
             Is(i) == i \in at /\ \A j \in at : j <= i
  <1>1. Len(r) \in Nat /\ DOMAIN r = 1..Len(r)
    BY LenProperties
  <1>2. CASE at = {}
    BY <1>2 DEF Scanner!LastOf
  <1>3. CASE at # {}
    <2>1. behind \in SUBSET Nat /\ behind # {}
      BY <1>1, <1>3
    <2>2. LeastOf(behind) \in behind /\ \A x \in behind : LeastOf(behind) <= x
      BY <2>1, LeastIsLeast
    <2>3. PICK i \in at : LeastOf(behind) = Len(r) - i
      BY <2>2
    <2>4. \A j \in at : Len(r) - i <= Len(r) - j
      BY <2>2, <2>3
    <2>5. Is(i)
      BY <1>1, <2>4
    <2>6. Is(CHOOSE k \in at : \A j \in at : j <= k)
      BY <2>5
    <2>7. Scanner!LastOf(r, s) = CHOOSE k \in at : \A j \in at : j <= k
      BY <1>3 DEF Scanner!LastOf
    <2> QED BY <1>1, <2>6, <2>7
  <1> QED BY <1>2, <1>3

\* A function over 1..n is a sequence.
LEMMA FunctionIsSeq ==
    ASSUME NEW S, NEW n \in Nat, NEW f \in [1..n -> S]
    PROVE  f \in Seq(S) /\ Len(f) = n
  OBVIOUS

\* An instance counts the members of a set as this module does.
LEMMA SameCardinality == \A S : Scanner!Cardinality(S) = Cardinality(S)
  BY DEF Scanner!Cardinality, Cardinality

\* The rows r after the signatures F are seen at now, those of o in rows of their own.
Merged(r, F, now, o) ==
    Scanner!Refreshed(r, F, now) \o [i \in DOMAIN o |-> [sig |-> o[i], at |-> now]]

\* Merged with the signatures F seen now, the rows r still have one row for
\* each: o orders those that get a row of their own.
LEMMA MergedRows ==
    ASSUME NEW r \in Seq(Row), NEW F \in SUBSET Signatures, NEW now \in 0..MaxNow,
           \A i \in DOMAIN r : r[i].at <= now,
           \A i, j \in DOMAIN r :
                (i < j /\ r[i].sig = r[j].sig) => r[j].at - r[i].at > Dedup,
           NEW o \in Scanner!Orders(F \ Scanner!Standing(r, F, now)),
           NEW m, m = Merged(r, F, now, o)
    PROVE  /\ m \in Seq(Row)
           /\ \A i \in DOMAIN m : m[i].at <= now
           /\ \A i, j \in DOMAIN m :
                (i < j /\ m[i].sig = m[j].sig) => m[j].at - m[i].at > Dedup
  <1> DEFINE new == F \ Scanner!Standing(r, F, now)
             old == Scanner!Refreshed(r, F, now)
             add == [i \in DOMAIN o |-> [sig |-> o[i], at |-> now]]
             n == Len(r)
             k == Cardinality(new)
  <1>1. n \in Nat /\ DOMAIN r = 1..n /\ \A i \in 1..n : r[i] \in Row
    BY LenProperties, ElementOfSeq
  <1>2. k \in Nat
    <2>1. IsFiniteSet(new)
      BY ScanAssumption, FS_Subset
    <2> QED BY <2>1, FS_CardinalityType
  <1>3. o \in [1..k -> new] /\ \A i, j \in 1..k : o[i] = o[j] => i = j
    BY SameCardinality DEF Scanner!Orders
  <1>4. MaxNow \in Nat /\ now \in Nat /\ Dedup \in Nat
    BY ScanAssumption
  <1>5. \A i \in 1..n : r[i].at \in 0..MaxNow /\ r[i].at \in Int /\ r[i].at <= now
    <2>1. \A i \in 1..n : r[i].at \in 0..MaxNow
      BY <1>1 DEF Row
    <2> QED BY <1>1, <1>4, <2>1
  <1>6. old = [i \in 1..n |->
                IF r[i].sig \in Scanner!Standing(r, F, now) /\ i = Scanner!LastOf(r, r[i].sig)
                THEN [r[i] EXCEPT !.at = now] ELSE r[i]]
    BY <1>1 DEF Scanner!Refreshed
  <1>7. \A i \in 1..n : /\ old[i] \in Row /\ old[i].sig = r[i].sig
                        /\ \/ old[i].at = r[i].at
                           \/ old[i].at = now /\ i = Scanner!LastOf(r, r[i].sig)
    <2> HIDE DEF old
    <2>1. ASSUME NEW i \in 1..n
          PROVE  /\ old[i] \in Row /\ old[i].sig = r[i].sig
                 /\ \/ old[i].at = r[i].at
                    \/ old[i].at = now /\ i = Scanner!LastOf(r, r[i].sig)
      <3>1. r[i] \in [sig : Signatures, at : 0..MaxNow]
        BY <1>1 DEF Row
      <3>2. \/ old[i] = r[i]
            \/ old[i] = [r[i] EXCEPT !.at = now] /\ i = Scanner!LastOf(r, r[i].sig)
        BY <1>6
      <3> QED BY <3>1, <3>2 DEF Row
    <2> QED BY <2>1
  <1>8. old \in Seq(Row) /\ Len(old) = n
    <2> HIDE DEF old, n
    <2>1. old \in [1..n -> Row]
      BY <1>6, <1>7
    <2> QED BY <1>1, <2>1, FunctionIsSeq
  <1>9. add \in [1..k -> Row] /\ \A i \in 1..k : add[i].sig = o[i] /\ add[i].at = now
    BY <1>3 DEF Row
  <1>10. add \in Seq(Row) /\ Len(add) = k
    <2> HIDE DEF add, new, k
    <2> QED BY <1>2, <1>9, FunctionIsSeq
  <1> HIDE DEF old, add, new, n, k
  <1>11. m \in Seq(Row) /\ Len(m) = n + k /\ DOMAIN m = 1..(n + k)
    BY <1>8, <1>10, ConcatProperties, LenProperties DEF Merged, old, add
  <1>12. \A i \in 1..n : m[i] = old[i]
    BY <1>1, <1>2, <1>8, <1>10, ConcatProperties DEF Merged, old, add
  <1>13. \A i \in DOMAIN m : i > n => m[i] = add[i - n] /\ i - n \in 1..k /\ i \in Int
    BY <1>1, <1>2, <1>8, <1>10, <1>11, ConcatProperties DEF Merged, old, add
  <1>14. \A i \in DOMAIN m : i \in Int /\ (i \in 1..n \/ i > n)
    BY <1>1, <1>2, <1>11
  <1>15. ASSUME NEW i \in DOMAIN m PROVE m[i].at <= now /\ m[i].at \in Int
    <2>1. CASE i \in 1..n
      <3>1. (m[i].at = r[i].at \/ m[i].at = now) /\ r[i].at \in Int /\ r[i].at <= now
        BY <1>5, <1>7, <1>12, <2>1
      <3> QED BY <1>4, <3>1
    <2>2. CASE i > n
      <3>1. m[i].at = now
        BY <1>9, <1>13, <2>2
      <3> QED BY <1>4, <3>1
    <2> QED BY <1>14, <2>1, <2>2
  \* A signature with a row of its own was not seen within the window.
  <1>16. ASSUME NEW i \in 1..n, r[i].sig \in new PROVE now - r[i].at > Dedup
    <2> DEFINE l == Scanner!LastOf(r, r[i].sig)
    <2>1. l \in 1..n /\ l # 0 /\ r[l].sig = r[i].sig /\ i <= l
      BY <1>1, LastRow
    <2>2. ~(now - r[l].at <= Dedup)
      BY <1>16, <2>1 DEF new, Scanner!Standing
    <2>3. i = l \/ r[l].at - r[i].at > Dedup
      <3>1. i \in Int /\ l \in Int /\ i \in DOMAIN r /\ l \in DOMAIN r
        BY <1>1, <2>1
      <3>2. i = l \/ i < l
        BY <2>1, <3>1
      <3> HIDE DEF l
      <3> QED BY <2>1, <3>1, <3>2
    <2>4. r[i].at \in Int /\ r[l].at \in Int
      BY <1>5, <2>1
    <2> HIDE DEF l
    <2> QED BY <1>4, <2>2, <2>3, <2>4
  <1>17. ASSUME NEW i \in DOMAIN m, NEW j \in DOMAIN m, i < j, m[i].sig = m[j].sig
         PROVE  m[j].at - m[i].at > Dedup
    <2>1. CASE j \in 1..n
      <3>1. i \in 1..n
        BY <1>1, <1>11, <1>17, <2>1
      <3>2. r[i].sig = r[j].sig /\ r[j].at - r[i].at > Dedup
        BY <1>1, <1>7, <1>12, <1>17, <2>1, <3>1
      <3>3. m[i].at = r[i].at
        <4>1. i # Scanner!LastOf(r, r[i].sig)
          <5>1. j \in DOMAIN r /\ r[j].sig = r[i].sig /\ ~(j <= i)
            BY <1>1, <1>17, <2>1, <3>1, <3>2
          <5> QED BY <5>1, LastRow
        <4> QED BY <1>7, <1>12, <3>1, <4>1
      <3>4. m[j].at = r[j].at \/ m[j].at = now
        BY <1>7, <1>12, <2>1
      <3>5. r[i].at \in Int /\ r[j].at \in Int /\ r[j].at <= now
        BY <1>5, <2>1, <3>1
      <3>6. now - r[i].at > Dedup
        BY <1>4, <3>2, <3>5
      <3>7. CASE m[j].at = now
        BY <3>3, <3>6, <3>7
      <3>8. CASE m[j].at = r[j].at
        BY <3>2, <3>3, <3>8
      <3> QED BY <3>4, <3>7, <3>8
    <2>2. CASE j > n /\ i \in 1..n
      <3>1. m[j].sig = o[j - n] /\ m[j].at = now /\ o[j - n] \in new
        <4>1. m[j] = add[j - n] /\ j - n \in 1..k
          BY <1>13, <2>2
        <4> QED BY <1>3, <1>9, <4>1
      <3>2. r[i].sig \in new
        BY <1>7, <1>12, <1>17, <2>2, <3>1
      <3>3. m[i].at = r[i].at
        <4>1. r[i].sig \notin Scanner!Standing(r, F, now)
          BY <3>2 DEF new
        <4> QED BY <1>6, <1>12, <2>2, <4>1
      <3> QED BY <1>16, <2>2, <3>1, <3>2, <3>3
    <2>3. CASE i > n /\ j > n
      <3>1. o[i - n] = o[j - n] /\ i - n \in 1..k /\ j - n \in 1..k
        BY <1>9, <1>13, <1>17, <2>3
      <3>2. i - n = j - n
        BY <1>3, <3>1
      <3> QED BY <1>1, <1>14, <1>17, <3>2
    <2> QED BY <1>1, <1>14, <1>17, <2>1, <2>2, <2>3
  <1> QED BY <1>11, <1>15, <1>17

\* Writing keeps one row of each signature: what was read is what the file holds.
LEMMA WriteCsvStep ==
    ASSUME ScanInv, NEW p \in Scans, Scanner!WriteCsv(p)
    PROVE  ScanInv'
  <1>1. scan[p] = "merged" /\ "written" \in Scanner!Phases
        /\ scan' = [scan EXCEPT ![p] = "written"]
    BY DEF Scanner!WriteCsv, Scanner!Goes, Scanner!Phases
  <1>2. UNCHANGED <<clock, lock, acct, budget, catalogs, names, found, read, beat, told, unsaved>>
    BY DEF Scanner!WriteCsv
  <1>3. Moves(p, "written")
    BY <1>1, <1>2 DEF Moves
  <1>4. TakenInv' /\ scan' \in [Scans -> Scanner!Phases] /\ scan'[p] = "written"
        /\ \A q \in Scans : q # p => scan'[q] = "idle" /\ scan[q] = "idle"
    BY <1>1, <1>3, MovesTaken
  <1>5. PICK o \in Scanner!Orders(found[p] \ Scanner!Standing(csv, found[p], acct[p].now)) :
            csv' = Scanner!Refreshed(csv, found[p], acct[p].now)
                     \o [i \in DOMAIN o |-> [sig |-> o[i], at |-> acct[p].now]]
    <2>1. read[p] = csv
      BY <1>1 DEF ScanInv, CsvInv
    <2> QED BY <2>1 DEF Scanner!WriteCsv
  <1>6. csv \in Seq(Row) /\ found[p] \in SUBSET Signatures /\ acct[p].now \in 0..MaxNow
    BY CycleTypes
  <1>7. Scanner!InCycle(p)
    BY <1>1 DEF Scanner!InCycle
  <1>8. /\ csv' \in Seq(Row) /\ \A i \in DOMAIN csv' : csv'[i].at <= acct[p].now
        /\ \A i, j \in DOMAIN csv' :
                (i < j /\ csv'[i].sig = csv'[j].sig) => csv'[j].at - csv'[i].at > Dedup
    <2>1. \A i \in DOMAIN csv : csv[i].at <= acct[p].now
      BY <1>7 DEF ScanInv, CsvInv
    <2>2. \A i, j \in DOMAIN csv :
                (i < j /\ csv[i].sig = csv[j].sig) => csv[j].at - csv[i].at > Dedup
      BY DEF ScanInv, CsvInv, Scanner!OneRowEach
    <2> DEFINE r == csv
               F == found[p]
               now == acct[p].now
    <2>3. /\ r \in Seq(Row) /\ F \in SUBSET Signatures /\ now \in 0..MaxNow
          /\ \A i \in DOMAIN r : r[i].at <= now
          /\ \A i, j \in DOMAIN r :
                (i < j /\ r[i].sig = r[j].sig) => r[j].at - r[i].at > Dedup
          /\ o \in Scanner!Orders(F \ Scanner!Standing(r, F, now))
          /\ csv' = Merged(r, F, now, o)
      BY <1>5, <1>6, <2>1, <2>2 DEF Merged
    <2>4. /\ csv' \in Seq(Row)
          /\ \A i \in DOMAIN csv' : csv'[i].at <= now
          /\ \A i, j \in DOMAIN csv' :
                (i < j /\ csv'[i].sig = csv'[j].sig) => csv'[j].at - csv'[i].at > Dedup
      <3> HIDE DEF r, F, now
      <3> QED BY ONLY <2>3, MergedRows
    <2> QED BY <2>4
  <1>9. CsvInv'
    <2>1. acct[p].now <= clock /\ acct[p].now \in Int /\ clock \in Int
      BY <1>6, <1>7, CycleTypes, ScanAssumption DEF ScanInv, TakenInv
    <2>2. \A i \in DOMAIN csv' : csv'[i].at \in Int
      <3>1. \A i \in DOMAIN csv' : csv'[i] \in Row
        BY <1>8, LenProperties
      <3>2. \A i \in DOMAIN csv' : csv'[i].at \in 0..MaxNow
        BY <3>1 DEF Row
      <3> QED BY <3>2, ScanAssumption
    <2>3. Scanner!OneRowEach'
      BY <1>8 DEF Scanner!OneRowEach
    <2>4. \A i \in DOMAIN csv' : csv'[i].at <= clock'
      BY <1>2, <1>8, <2>1, <2>2
    <2>5. \A q \in Scans : Scanner!InCycle(q)' => q = p
      BY <1>4 DEF Scanner!InCycle
    <2>6. \A q \in Scans : scan'[q] # "merged"
      BY <1>4
    <2> QED BY <1>2, <1>8, <2>3, <2>4, <2>5, <2>6 DEF CsvInv
  <1>10. BeatInv'
    <2>1. Scanner!BeatsSpaced'
      BY <1>2 DEF ScanInv, BeatInv, Scanner!BeatsSpaced
    <2>2. \A q \in Scans : scan[q] # "sent"
      BY <1>1, <1>4
    <2> QED BY <1>1, <1>2, <1>4, <2>1, <2>2 DEF ScanInv, BeatInv, Scanner!InCycle
  <1>11. BudgetInv'
    BY <1>1, <1>2, <1>4 DEF ScanInv, BudgetInv, Spends, Scanner!MarginHolds
  <1>12. Scanner!TypeOK'
    BY <1>2, <1>4, <1>8 DEF ScanInv, Scanner!TypeOK, Scanner!Rows, Row
  <1> QED BY <1>4, <1>9, <1>10, <1>11, <1>12 DEF ScanInv

\* A heartbeat goes out an interval after the last one saved, which every one sent
\* before is not later than.
LEMMA AlertStep ==
    ASSUME ScanInv, NEW p \in Scans, Scanner!Alert(p)
    PROVE  ScanInv'
  <1> DEFINE to == scan'[p]
             now == acct[p].now
  <1>1. scan[p] = "written" /\ to \in {"done", "sent"} /\ scan' = [scan EXCEPT ![p] = to]
    BY CycleTypes DEF Scanner!Alert, Scanner!Goes
  <1>2. UNCHANGED <<clock, lock, acct, budget, catalogs, names, found, read, csv, beat, unsaved>>
    BY DEF Scanner!Alert
  <1>3. \/ to = "done" /\ told' = told
        \/ to = "sent" /\ told' = told \cup {now} /\ now - beat >= Interval
    BY CycleTypes DEF Scanner!Alert, Scanner!Goes
  <1>4. to \in Scanner!Phases /\ Moves(p, to)
    BY <1>1, <1>2 DEF Moves, Scanner!Phases
  <1> HIDE DEF to
  <1>5. TakenInv' /\ scan' \in [Scans -> Scanner!Phases] /\ scan'[p] = to
        /\ \A q \in Scans : q # p => scan'[q] = "idle" /\ scan[q] = "idle"
    BY <1>1, <1>4, MovesTaken
  <1>6. CsvInv'
    BY <1>1, <1>2, <1>5 DEF ScanInv, CsvInv, Scanner!OneRowEach, Scanner!InCycle
  <1>7. now \in 0..MaxNow /\ now \in Int /\ beat \in Int /\ Interval \in Nat
        /\ \A t \in told : t \in Int
    <2>1. now \in 0..MaxNow /\ MaxNow \in Nat /\ told \subseteq 0..MaxNow
      BY CycleTypes, ScanAssumption
    <2>2. beat \in {Scanner!Never} \cup 0..MaxNow /\ Scanner!Never \in Int
      BY CycleTypes
    <2> HIDE DEF now
    <2> QED BY <2>1, <2>2, ScanAssumption
  <1>8. \A q \in Scans : scan[q] # "sent"
    BY <1>1, <1>5
  <1>9. ~unsaved => \A t \in told : t <= beat
    BY <1>8 DEF ScanInv, BeatInv
  <1> HIDE DEF now
  <1>10. Scanner!BeatsSpaced'
    <2>1. CASE told' = told
      BY <1>2, <2>1 DEF ScanInv, BeatInv, Scanner!BeatsSpaced
    <2>2. CASE told' = told \cup {now} /\ now - beat >= Interval
      <3>1. SUFFICES ASSUME ~unsaved, NEW s \in told', NEW t \in told', s < t
                     PROVE  t - s >= Interval
        BY <1>2 DEF Scanner!BeatsSpaced
      <3>2. CASE s \in told /\ t \in told
        BY <3>1, <3>2 DEF ScanInv, BeatInv, Scanner!BeatsSpaced
      <3>3. CASE s \in told /\ t = now
        BY <1>7, <1>9, <2>2, <3>1, <3>3
      <3>4. CASE s = now
        BY <1>7, <1>9, <2>2, <3>1, <3>4
      <3> QED BY <2>2, <3>2, <3>3, <3>4
    <2> QED BY <1>3, <2>1, <2>2
  <1>11. BeatInv'
    <2>1. \A q \in Scans : Scanner!InCycle(q)' => q = p
      BY <1>5 DEF Scanner!InCycle
    <2>2. beat <= now
      BY <1>1 DEF ScanInv, BeatInv, Scanner!InCycle, now
    <2>3. ~unsaved => \A t \in told' : t <= beat \/ (to = "sent" /\ t = now)
      BY <1>3, <1>9
    <2> QED BY <1>2, <1>5, <1>10, <2>1, <2>2, <2>3 DEF ScanInv, BeatInv, now
  <1>12. BudgetInv'
    BY <1>1, <1>2, <1>5 DEF ScanInv, BudgetInv, Spends, Scanner!MarginHolds
  <1>13. told' \subseteq 0..MaxNow
    BY <1>3, <1>7, CycleTypes
  <1>14. Scanner!TypeOK'
    BY <1>2, <1>5, <1>13 DEF ScanInv, Scanner!TypeOK, Scanner!Rows
  <1> QED BY <1>5, <1>6, <1>11, <1>12, <1>14 DEF ScanInv

LEMMA SaveBeatStep ==
    ASSUME ScanInv, NEW p \in Scans, Scanner!SaveBeat(p)
    PROVE  ScanInv'
  <1>1. scan[p] = "sent" /\ scan' = [scan EXCEPT ![p] = "done"] /\ "done" \in Scanner!Phases
        /\ beat' = acct[p].now
    BY DEF Scanner!SaveBeat, Scanner!Goes, Scanner!Phases
  <1>2. UNCHANGED <<clock, lock, acct, budget, catalogs, names, found, read, csv, told, unsaved>>
    BY DEF Scanner!SaveBeat
  <1>3. Moves(p, "done")
    BY <1>1, <1>2 DEF Moves
  <1>4. TakenInv' /\ scan' \in [Scans -> Scanner!Phases] /\ scan'[p] = "done"
        /\ \A q \in Scans : q # p => scan'[q] = "idle" /\ scan[q] = "idle"
    BY <1>1, <1>3, MovesTaken
  <1>5. CsvInv'
    BY <1>1, <1>2, <1>4 DEF ScanInv, CsvInv, Scanner!OneRowEach, Scanner!InCycle
  <1>6. acct[p].now \in 0..MaxNow /\ acct[p].now <= clock /\ beat <= acct[p].now
    BY <1>1, CycleTypes DEF ScanInv, TakenInv, BeatInv, Scanner!InCycle
  <1>7. acct[p].now \in Int /\ beat \in Int /\ \A t \in told : t \in Int
    <2>1. MaxNow \in Nat /\ told \subseteq 0..MaxNow
          /\ beat \in {Scanner!Never} \cup 0..MaxNow /\ Scanner!Never \in Int
      BY CycleTypes, ScanAssumption
    <2>2. acct[p].now \in Int /\ \A t \in told : t \in Int
      BY <1>6, <2>1
    <2>3. beat \in Int
      BY <2>1
    <2> QED BY <2>2, <2>3
  <1>8. BeatInv'
    <2>1. Scanner!BeatsSpaced'
      BY <1>2 DEF ScanInv, BeatInv, Scanner!BeatsSpaced
    <2>2. \A q \in Scans : Scanner!InCycle(q)' => q = p
      BY <1>4 DEF Scanner!InCycle
    <2>3. ASSUME ~unsaved, NEW t \in told PROVE t <= beat'
      <3>1. t <= beat \/ t = acct[p].now
        BY <1>4, <2>3 DEF ScanInv, BeatInv
      <3> QED BY <1>1, <1>6, <1>7, <3>1
    <2>4. beat' <= clock' /\ beat' <= acct'[p].now
      BY <1>1, <1>2, <1>6, <1>7
    <2> QED BY <1>2, <2>1, <2>2, <2>3, <2>4 DEF BeatInv
  <1>9. BudgetInv'
    BY <1>1, <1>2, <1>4 DEF ScanInv, BudgetInv, Spends, Scanner!MarginHolds
  <1>10. Scanner!TypeOK'
    BY <1>1, <1>2, <1>4, <1>6 DEF ScanInv, Scanner!TypeOK, Scanner!Rows
  <1> QED BY <1>4, <1>5, <1>8, <1>9, <1>10 DEF ScanInv

LEMMA TickStep ==
    ASSUME ScanInv, Slips = {}, Scanner!Tick
    PROVE  ScanInv'
  <1>1. clock \in 0..MaxNow /\ MaxNow \in Nat /\ clock < MaxNow /\ clock' = clock + 1
    BY CycleTypes, ScanAssumption DEF Scanner!Tick
  <1>2. /\ UNCHANGED <<lock, scan, acct, budget, found, read, csv, beat, told, unsaved>>
        /\ catalogs' \in {"missing", "stale", "fresh"} /\ names' \in BOOLEAN
        /\ \A p \in Scans : scan[p] \in {"idle", "budget", "odds"}
        /\ \A p \in Scans : Scanner!InCycle(p) => clock' - lock.at < MaxAge
    <2>1. \A p \in Scans : Scanner!InCycle(p) => (clock + 1) - lock.at < MaxAge
      <3>1. "slow" \notin Slips
        OBVIOUS
      <3>2. \A p \in Scans : Scanner!InCycle(p) => clock + 1 - lock.at < MaxAge
        BY <3>1, Zenon DEF Scanner!Tick
      <3>3. lock.at \in 0..MaxNow
        BY DEF ScanInv, Scanner!TypeOK
      <3>4. lock.at \in Int /\ clock \in Int
        BY <1>1, <3>3
      <3> QED BY <3>2, <3>4
    <2>2. catalogs \in {"missing", "stale", "fresh"} /\ names \in BOOLEAN
      BY DEF ScanInv, Scanner!TypeOK
    <2>3. catalogs' \in {"missing", "stale", "fresh"} /\ names' \in BOOLEAN
      BY <2>2 DEF Scanner!Tick
    <2> QED BY <1>1, <2>1, <2>3 DEF Scanner!Tick
  <1>3. Scanner!TypeOK'
    <2>1. clock' \in 0..MaxNow
      BY <1>1
    <2> QED BY <1>2, <2>1 DEF ScanInv, Scanner!TypeOK, Scanner!Rows
  <1>4. clock \in Int /\ clock <= clock' /\ \A p \in Scans : acct[p].now \in Int
    <2>1. \A p \in Scans : acct[p].now \in 0..MaxNow
      BY CycleTypes
    <2> QED BY <1>1, <2>1
  <1>5. TakenInv'
    BY <1>1, <1>2, <1>4 DEF ScanInv, TakenInv, Scanner!InCycle
  <1>6. BudgetInv'
    BY <1>2 DEF ScanInv, BudgetInv, Spends, Scanner!MarginHolds
  <1>7. CsvInv'
    <2>1. \A i \in DOMAIN csv : csv[i].at \in Int
      <3>1. \A i \in DOMAIN csv : csv[i] \in Row
        BY CycleTypes, LenProperties
      <3>2. \A i \in DOMAIN csv : csv[i].at \in 0..MaxNow
        BY <3>1 DEF Row
      <3> QED BY <1>1, <3>2
    <2>2. \A i \in DOMAIN csv : csv[i].at <= clock'
      BY <1>1, <2>1 DEF ScanInv, CsvInv
    <2> QED BY <1>2, <2>2 DEF ScanInv, CsvInv, Scanner!OneRowEach, Scanner!InCycle
  <1>8. BeatInv'
    <2>1. beat \in Int
      <3>1. beat \in {Scanner!Never} \cup 0..MaxNow /\ Scanner!Never \in Int
        BY CycleTypes
      <3> QED BY <1>1, <3>1
    <2>2. beat <= clock'
      BY <1>1, <2>1 DEF ScanInv, BeatInv
    <2>3. Scanner!BeatsSpaced'
      BY <1>2 DEF ScanInv, BeatInv, Scanner!BeatsSpaced
    <2> QED BY <1>2, <2>2, <2>3 DEF ScanInv, BeatInv, Scanner!InCycle
  <1> QED BY <1>3, <1>5, <1>6, <1>7, <1>8 DEF ScanInv

\* Every step of the scanner keeps the invariant, which holds at first.
LEMMA ScanSteps ==
    ASSUME ScanInv, Slips = {}, Funded, Scanner!Next
    PROVE  ScanInv'
  <1>1. CASE Scanner!Tick
    BY <1>1, TickStep
  <1>2. ASSUME NEW p \in Scans, Scanner!Step(p)
        PROVE  ScanInv'
    BY <1>2, LookStep, TakeStep, ReleaseStep, FailsStep, CrashStep, CheckBudgetStep,
       EnsureCatalogsStep, RefreshNamesStep, FetchOddsStep, ReadCsvStep, WriteCsvStep,
       AlertStep, SaveBeatStep DEF Scanner!Step
  <1> QED BY <1>1, <1>2 DEF Scanner!Next

LEMMA ScanStarts ==
    ASSUME Funded, Scanner!Init
    PROVE  ScanInv
  <1>1. /\ MaxNow \in Nat /\ Allowance \in Nat /\ 0 - Interval <= 0
        /\ 0 \in 0..MaxNow /\ Allowance \in 0..Allowance
    BY ScanAssumption
  <1>2. <<>> \in Seq(Row) /\ DOMAIN <<>> = {}
    OBVIOUS
  <1>3. Scanner!TypeOK
    <2>1. Scanner!NoLock \in [pid : Scanner!Pids, at : 0..MaxNow]
      BY <1>1 DEF Scanner!NoLock, Scanner!Pids
    <2>2. Scanner!NoAcct \in [now : 0..MaxNow, left : 0..Allowance, used : Nat]
      BY <1>1 DEF Scanner!NoAcct
    <2>3. scan \in [Scans -> Scanner!Phases]
      BY DEF Scanner!Init, Scanner!Phases
    <2>4. read \in [Scans -> Seq(Scanner!Rows)] /\ csv \in Seq(Scanner!Rows)
      BY DEF Scanner!Init
    <2> QED BY <1>1, <2>1, <2>2, <2>3, <2>4 DEF Scanner!Init, Scanner!TypeOK
  <1>4. TakenInv
    BY DEF Scanner!Init, TakenInv, Scanner!InCycle
  <1>5. BudgetInv
    BY ScanAssumption DEF Scanner!Init, BudgetInv, Spends, Scanner!MarginHolds, Funded,
       Scanner!NoAcct
  <1>6. CsvInv
    BY <1>2 DEF Scanner!Init, CsvInv, Scanner!OneRowEach, Scanner!InCycle
  <1>7. BeatInv
    BY <1>1 DEF Scanner!Init, BeatInv, Scanner!BeatsSpaced, Scanner!InCycle, Scanner!Never
  <1> QED BY <1>3, <1>4, <1>5, <1>6, <1>7 DEF ScanInv

\* The invariant says what the scanner promises.
LEMMA ScanSays == ScanInv => Scanner!ScanKept
  <1>1. TakenInv => Scanner!NoOverlap
    BY DEF TakenInv, Scanner!NoOverlap, Scanner!InCycle
  <1> QED BY <1>1 DEF ScanInv, BudgetInv, CsvInv, BeatInv, Scanner!ScanKept

-----------------------------------------------------------------------------
(* The odds scan of several sports.                                        *)

\* The sports, the keys, the times and what is known of drops: the types of the state.
OddsIn == Odds!ToSet(OddsSports)
Keys == Odds!KeysOf
Times == Odds!Long..LastTime
Caps == [Keys -> [Odds!Droppable -> Times]]
Turn == [at : Odds!Steps, now : 0..LastTime, todo : Seq(OddsIn), sport : OddsIn \cup {""},
         keys : SUBSET Keys, key : Keys \cup {""}, ask : SUBSET Odds!Droppable, caps : Caps,
         credits : Nat, last : Nat, served : SUBSET (Odds!Droppable \cup {"winner"})]

OddsTypes ==
    /\ time \in 0..LastTime /\ refusedEver \subseteq Odds!Droppable
    /\ lastRun \in [OddsIn -> Times] /\ dropped \in Caps /\ drops \in Caps
    /\ cupFile \in [day : Int, keys : SUBSET Cups] /\ quota \in [day : Int, used : Nat]
    /\ panel \in [OddsIn -> [at : Times, served : SUBSET (Odds!Droppable \cup {"winner"})]]
    /\ turn \in Turn /\ charged \in Nat

\* The steps of a turn that has taken a sport's keys, and of one at work on a sport.
Asking == {"key", "ask", "caps"}
Working == Asking \cup {"resolve", "quota", "rows", "panel", "stamp"}

\* A cycle works at the time it began, on a sport that is enabled.
TurnInv ==
    /\ turn.at \notin {"idle", "asleep"} => turn.now = time
    /\ turn.at \in Working => turn.sport \in OddsIn
    /\ turn.at = "ask" => turn.key \in Keys /\ turn.ask \subseteq Odds!ToSet(Wanted[turn.sport])

\* The panel about to be stamped is of this cycle.
StampInv ==
    /\ Odds!StampedIsShown
    /\ \A s \in OddsIn : lastRun[s] <= time
    /\ turn.at = "stamp" => panel[turn.sport].at = time

\* Nothing that a file should have was lost; what the file of credits has of today.
Whole == gaps \cap Odds!Lossy = {}
OfToday == IF quota.day = Odds!Day(time) THEN quota.used ELSE 0

\* What the file has of today, with what this sport's answers cost, is what was
\* charged.
CreditInv ==
    /\ quota.day <= Odds!Day(time)
    /\ turn.at \notin Asking \cup {"quota"} => turn.credits = 0
    /\ Whole => OfToday + turn.credits >= charged
    /\ Whole /\ "lost" \notin gaps => OfToday + turn.credits = charged

\* A market's last drop is in the file, or with the cycle that asks.
DropInv ==
    Whole => /\ "again" \notin gaps
             /\ turn.at \in Asking \cup {"resolve"} => turn.caps = drops
             /\ turn.at \notin Asking => dropped = drops

\* A sport's odds, if any, lack no market but those refused; no other was dropped.
Offered(s, served) ==
    served # {} => {"winner"} \cup (Odds!ToSet(Wanted[s]) \ refusedEver) \subseteq served
OnlyRefused(caps) ==
    \A k \in Keys, m \in Odds!Droppable : caps[k][m] # Odds!Long => m \in refusedEver

\* Only a market that was refused is missing, from a request or from a panel.
ServedInv ==
    "unnamed" \notin gaps =>
        /\ OnlyRefused(dropped) /\ OnlyRefused(turn.caps)
        /\ turn.at = "ask" => Odds!ToSet(Wanted[turn.sport]) \ refusedEver \subseteq turn.ask
        /\ Offered(turn.sport, turn.served)
        /\ \A s \in OddsIn : Offered(s, panel[s].served)

\* The inductive invariant of the odds scan.
OddsInv == OddsTypes /\ TurnInv /\ StampInv /\ CreditInv /\ DropInv /\ ServedInv

\* Whole days: as many are over as their hours are, and none is undone.
LEMMA WholeDays ==
    ASSUME NEW t \in Int, NEW d \in Nat \ {0}, NEW r \in Nat
    PROVE  t \div d >= r <=> t >= r * d
  OBVIOUS

LEMMA DaysFollow ==
    ASSUME NEW t \in Int, NEW d \in Nat \ {0}
    PROVE  t \div d \in Int /\ t \div d <= (t + 1) \div d
  <1>1. t \div d \in Int
    OBVIOUS
  <1>2. t \div d <= (t + 1) \div d
    BY Z3
  <1> QED BY <1>1, <1>2

\* Days: a week is over when its hours are, and days follow one another.
LEMMA DaysOver ==
    ASSUME NEW t \in Int
    PROVE  /\ t \div DayLength >= Reprobe <=> t >= Reprobe * DayLength
           /\ t \div DayLength <= (t + 1) \div DayLength /\ t \div DayLength \in Int
  <1>1. DayLength \in Nat \ {0} /\ Reprobe \in Nat
    BY OddsAssumption
  <1>2. t \div DayLength >= Reprobe <=> t >= Reprobe * DayLength
    BY <1>1, WholeDays
  <1>3. t \div DayLength <= (t + 1) \div DayLength /\ t \div DayLength \in Int
    BY <1>1, DaysFollow
  <1> QED BY <1>2, <1>3

\* What the constants are: times are integers, a sport's markets finitely many.
LEMMA OddsConstants ==
    /\ LastTime \in Nat /\ Odds!Long \in Int /\ Odds!Long <= 0
    /\ \A t \in Times : t \in Int
    /\ \A s \in OddsIn : Odds!ToSet(Wanted[s]) \subseteq Odds!Droppable
    /\ \A s \in OddsIn : IsFiniteSet(Odds!ToSet(Wanted[s]))
    /\ OddsSports \in Seq(OddsIn)
  <1>1. LastTime \in Nat /\ Odds!Long \in Int /\ Odds!Long <= 0
    <2>1. Reprobe * DayLength \in Nat
      BY OddsAssumption
    <2> QED BY <2>1, OddsAssumption DEF Odds!Long
  <1>2. \A t \in Times : t \in Int
    BY <1>1 DEF Times
  <1>3. \A s \in OddsIn : Odds!ToSet(Wanted[s]) \subseteq Odds!Droppable
    BY DEF OddsIn, Odds!Droppable
  <1>4. /\ OddsSports \in [1..Len(OddsSports) -> DOMAIN Wanted] /\ Len(OddsSports) \in Nat
        /\ DOMAIN OddsSports = 1..Len(OddsSports)
    BY OddsAssumption, LenProperties
  <1>5. ASSUME NEW s \in OddsIn PROVE IsFiniteSet(Odds!ToSet(Wanted[s]))
    <2>1. s \in DOMAIN Wanted
      BY <1>4 DEF OddsIn, Odds!ToSet
    <2>2. Wanted[s] \in Seq(STRING)
      BY <2>1, OddsAssumption
    <2> DEFINE w == Wanted[s]
    <2>3. w \in [1..Len(w) -> STRING] /\ Len(w) \in Nat /\ DOMAIN w = 1..Len(w)
      BY <2>2, LenProperties
    <2> HIDE DEF w
    <2>4. Odds!ToSet(w) = {w[i] : i \in 1..Len(w)}
      BY <2>3 DEF Odds!ToSet
    <2>5. IsFiniteSet(1..Len(w))
      BY <2>3, FS_Interval
    <2> DEFINE I == 1..Len(w)
               V == {w[i] : i \in I}
    <2>6. IsFiniteSet(V)
      <3>1. w \in Surjection(I, V)
        BY <2>3 DEF Surjection
      <3> HIDE DEF I, V
      <3> QED BY <2>5, <3>1, FS_Surjection DEF I
    <2> QED BY <2>4, <2>6 DEF w
  <1>6. OddsSports \in Seq(OddsIn)
    <2>1. OddsSports \in [1..Len(OddsSports) -> OddsIn]
      BY <1>4 DEF OddsIn, Odds!ToSet
    <2> HIDE DEF OddsIn
    <2> QED BY <1>4, <2>1, FunctionIsSeq
  <1> QED BY <1>1, <1>2, <1>3, <1>5, <1>6

\* A turn that begins to look at its sports again: nothing asked, nothing spent.
Fresh(a, n, d, s, c, v) ==
    [at |-> a, now |-> n, todo |-> d, sport |-> s, keys |-> {}, key |-> "", ask |-> {},
     caps |-> c, credits |-> 0, last |-> 0, served |-> v]

LEMMA TurnFresh ==
    ASSUME NEW a \in Odds!Steps, NEW n \in 0..LastTime, NEW d \in Seq(OddsIn),
           NEW s \in OddsIn \cup {""}, NEW c \in Caps,
           NEW v \in SUBSET (Odds!Droppable \cup {"winner"})
    PROVE  Fresh(a, n, d, s, c, v) \in Turn
  BY DEF Fresh, Turn

\* Nothing dropped is a state of the drops.
LEMMA NothingDropped ==
    /\ Odds!NoDrops \in Caps
    /\ \A k \in Keys, m \in Odds!Droppable : Odds!NoDrops[k][m] = Odds!Long
  <1>1. Odds!Long \in Times
    BY OddsConstants DEF Times
  <1> QED BY <1>1 DEF Caps, Keys, Odds!NoDrops

\* The turns of no cycle.
LEMMA IdleTurns ==
    /\ Odds!Idle \in Turn /\ Odds!Idle.at = "idle" /\ Odds!Idle.credits = 0
    /\ Odds!Idle.served = {} /\ Odds!Idle.caps = Odds!NoDrops
    /\ Odds!Asleep \in Turn /\ Odds!Asleep.at = "asleep" /\ Odds!Asleep.credits = 0
    /\ Odds!Asleep.served = {} /\ Odds!Asleep.caps = Odds!NoDrops
  <1>1. Odds!Idle = [at |-> "idle", now |-> 0, todo |-> <<>>, sport |-> "", keys |-> {},
                     key |-> "", ask |-> {}, caps |-> Odds!NoDrops, credits |-> 0, last |-> 0,
                     served |-> {}]
    BY DEF Odds!Idle
  <1>2. /\ "idle" \in Odds!Steps /\ "asleep" \in Odds!Steps /\ 0 \in 0..LastTime
        /\ <<>> \in Seq(OddsIn)
    BY OddsConstants DEF Odds!Steps
  <1>3. Odds!Idle \in Turn
    BY <1>1, <1>2, NothingDropped DEF Turn
  <1>4. Odds!Asleep = [Odds!Idle EXCEPT !.at = "asleep"]
    BY DEF Odds!Asleep
  <1> QED BY <1>1, <1>2, <1>3, <1>4 DEF Turn

\* A step between two sports, or back to rest: nothing has been asked or spent,
\* and what its capabilities say is nothing, or what the file says.
LEMMA Rests ==
    ASSUME OddsInv, UNCHANGED <<time, lastRun, cupFile, quota, panel, charged, drops, dropped,
                                refusedEver>>,
           turn' \in Turn, turn'.at \notin Asking \cup {"quota", "stamp"},
           turn'.credits = 0, turn.credits = 0 \/ ~Whole',
           turn'.at \notin {"idle", "asleep"} => turn'.now = time,
           turn'.at \in Working => turn'.sport \in OddsIn,
           turn'.served = {} \/ (turn'.sport = turn.sport /\ turn'.served = turn.served),
           \/ turn'.caps = turn.caps /\ turn'.at # "resolve"
           \/ turn'.caps = Odds!NoDrops /\ (Whole' => turn'.at # "resolve")
           \/ turn'.caps = dropped,
           gaps \subseteq gaps', "again" \in gaps' => "again" \in gaps,
           turn.at \notin Asking \/ ~Whole'
    PROVE  OddsInv'
  <1>1. OddsTypes'
    BY DEF OddsInv, OddsTypes
  <1>2. TurnInv'
    BY DEF TurnInv, Asking
  <1>3. StampInv'
    BY DEF OddsInv, StampInv, Odds!StampedIsShown
  <1>4. Whole' => Whole
    BY DEF Whole
  <1>5. "lost" \notin gaps' => "lost" \notin gaps
    OBVIOUS
  <1>6. CreditInv'
    BY <1>4, <1>5 DEF OddsInv, CreditInv, OfToday
  <1>7. DropInv'
    BY <1>4 DEF OddsInv, DropInv
  <1>8. ServedInv'
    <2>1. SUFFICES ASSUME "unnamed" \notin gaps' PROVE ServedInv'
      BY DEF ServedInv
    <2>2. "unnamed" \notin gaps
      BY <2>1
    <2>3. OnlyRefused(dropped)' /\ OnlyRefused(turn'.caps)
      BY <2>2, NothingDropped DEF OddsInv, ServedInv, OnlyRefused
    <2>4. OnlyRefused(turn.caps)'
      BY <2>3 DEF OnlyRefused
    <2>5. Offered(turn.sport, turn.served)'
      BY <2>2 DEF OddsInv, ServedInv, Offered
    <2>6. \A s \in OddsIn : Offered(s, panel[s].served)'
      BY <2>2 DEF OddsInv, ServedInv, Offered
    <2> QED BY <2>3, <2>4, <2>5, <2>6 DEF ServedInv, Asking
  <1> QED BY <1>1, <1>2, <1>3, <1>6, <1>7, <1>8 DEF OddsInv

LEMMA BeginStep ==
    ASSUME OddsInv, Odds!Begin
    PROVE  OddsInv'
  <1>1. turn'.at = "pick" /\ turn'.now = time /\ turn' \in Turn /\ turn'.credits = 0
        /\ turn'.served = {} /\ turn'.caps = Odds!NoDrops /\ turn'.sport = ""
    <2>1. turn' = Fresh("pick", time, OddsSports, "", Odds!NoDrops, {})
      BY DEF Odds!Begin, Odds!Idle, Fresh
    <2>2. "pick" \in Odds!Steps /\ time \in 0..LastTime
      BY DEF Odds!Steps, OddsInv, OddsTypes
    <2>3. /\ OddsSports \in Seq(OddsIn) /\ "" \in OddsIn \cup {""} /\ Odds!NoDrops \in Caps
          /\ {} \in SUBSET (Odds!Droppable \cup {"winner"})
      BY NothingDropped, OddsConstants
    <2>4. turn' \in Turn
      BY <2>1, <2>2, <2>3, TurnFresh
    <2> QED BY <2>1, <2>4 DEF Fresh
  <1>2. turn.credits = 0 /\ turn.at = "idle"
    BY IdleTurns DEF Odds!Begin
  <1>3. UNCHANGED <<time, lastRun, cupFile, quota, panel, charged, drops, dropped, refusedEver,
                    gaps>>
    BY DEF Odds!Begin, Odds!Unseen, Odds!Files, Odds!Accounts
  <1> QED BY <1>1, <1>2, <1>3, Rests DEF Asking, Working

LEMMA EndStep ==
    ASSUME OddsInv, Odds!End
    PROVE  OddsInv'
  <1>1. turn.at = "pick" /\ turn.credits = 0
    BY DEF Odds!End, OddsInv, CreditInv, Asking
  <1>2. UNCHANGED <<time, lastRun, cupFile, quota, panel, charged, drops, dropped, refusedEver,
                    gaps>> /\ turn' = Odds!Asleep
    BY DEF Odds!End, Odds!Unseen, Odds!Files, Odds!Accounts
  <1> QED BY <1>1, <1>2, IdleTurns, Rests DEF Asking, Working

LEMMA OddsCrashStep ==
    ASSUME OddsInv, Odds!Crash
    PROVE  OddsInv'
  <1>1. UNCHANGED <<time, lastRun, cupFile, quota, panel, charged, drops, dropped, refusedEver>>
        /\ turn' = Odds!Asleep /\ gaps' = gaps \cup {"crash"}
    BY DEF Odds!Crash, Odds!Unseen, Odds!Files, Odds!Accounts
  <1>2. ~Whole'
    BY <1>1 DEF Whole, Odds!Lossy
  <1> QED BY <1>1, <1>2, IdleTurns, Rests DEF Asking, Working

LEMMA PickStep ==
    ASSUME OddsInv, Odds!Pick
    PROVE  OddsInv'
  <1> DEFINE s == Head(turn.todo)
             rest1 == [Odds!Idle EXCEPT !.at = "pick", !.now = turn.now, !.todo = Tail(turn.todo)]
  <1>1. turn.at = "pick" /\ turn.credits = 0 /\ turn.todo # <<>> /\ turn.now = time
    BY DEF Odds!Pick, OddsInv, CreditInv, TurnInv, Asking
  <1>2. UNCHANGED <<time, lastRun, cupFile, quota, panel, charged, drops, dropped, refusedEver>>
    BY DEF Odds!Pick, Odds!Unseen, Odds!Files, Odds!Accounts
  <1>3. turn.todo \in Seq(OddsIn) /\ turn.now \in 0..LastTime /\ dropped \in Caps
    BY DEF OddsInv, OddsTypes, Turn
  <1>4. s \in OddsIn /\ Tail(turn.todo) \in Seq(OddsIn)
    BY <1>1, <1>3, HeadTailProperties
  <1>5. /\ "pick" \in Odds!Steps /\ "resolve" \in Odds!Steps /\ Odds!NoDrops \in Caps
        /\ "" \in OddsIn \cup {""} /\ s \in OddsIn \cup {""}
        /\ {} \in SUBSET (Odds!Droppable \cup {"winner"})
    BY <1>4, NothingDropped DEF Odds!Steps
  <1>6. \/ turn' = rest1 /\ UNCHANGED gaps
        \/ turn' = [rest1 EXCEPT !.at = "resolve", !.sport = s, !.caps = dropped]
           /\ UNCHANGED gaps
        \/ turn' = [rest1 EXCEPT !.at = "resolve", !.sport = s] /\ gaps' = gaps \cup {"unread"}
    BY DEF Odds!Pick
  <1>7. CASE turn' = rest1 /\ UNCHANGED gaps
    <2>1. turn' = Fresh("pick", turn.now, Tail(turn.todo), "", Odds!NoDrops, {})
      BY <1>7 DEF Odds!Idle, Fresh
    <2>9. turn' \in Turn
      BY <1>3, <1>4, <1>5, <2>1, TurnFresh
    <2>2. turn'.at = "pick" /\ turn'.now = time /\ turn'.credits = 0
          /\ turn'.served = {} /\ turn'.caps = Odds!NoDrops
      BY <1>1, <2>1 DEF Fresh
    <2> QED BY <1>1, <1>2, <1>7, <2>2, <2>9, Rests DEF Asking, Working
  <1>8. CASE /\ turn' = [rest1 EXCEPT !.at = "resolve", !.sport = s, !.caps = dropped]
             /\ UNCHANGED gaps
    <2>1. turn' = Fresh("resolve", turn.now, Tail(turn.todo), s, dropped, {})
      BY <1>8 DEF Odds!Idle, Fresh
    <2>9. turn' \in Turn
      BY <1>3, <1>4, <1>5, <2>1, TurnFresh
    <2>2. turn'.at = "resolve" /\ turn'.now = time /\ turn'.credits = 0
          /\ turn'.served = {} /\ turn'.caps = dropped /\ turn'.sport = s
      BY <1>1, <2>1 DEF Fresh
    <2> QED BY <1>1, <1>2, <1>4, <1>8, <2>2, <2>9, Rests DEF Asking, Working
  <1>9. CASE /\ turn' = [rest1 EXCEPT !.at = "resolve", !.sport = s]
             /\ gaps' = gaps \cup {"unread"}
    <2>1. turn' = Fresh("resolve", turn.now, Tail(turn.todo), s, Odds!NoDrops, {})
      BY <1>9 DEF Odds!Idle, Fresh
    <2>9. turn' \in Turn
      BY <1>3, <1>4, <1>5, <2>1, TurnFresh
    <2>2. turn'.at = "resolve" /\ turn'.now = time /\ turn'.credits = 0
          /\ turn'.served = {} /\ turn'.caps = Odds!NoDrops /\ turn'.sport = s
      BY <1>1, <2>1 DEF Fresh
    <2>3. ~Whole'
      BY <1>9 DEF Whole, Odds!Lossy
    <2> QED BY <1>1, <1>2, <1>4, <1>9, <2>2, <2>3, <2>9, Rests DEF Asking, Working
  <1> QED BY <1>6, <1>7, <1>8, <1>9

\* A step of the requests: it writes no file but that of the tournaments, and
\* counts no less than it costs.
LEMMA Asks ==
    ASSUME OddsInv, turn.at \in Asking \cup {"resolve"}, turn' \in Turn, turn'.at \in Asking,
           turn'.now = turn.now, turn'.sport = turn.sport,
           UNCHANGED <<time, lastRun, dropped, quota, panel>>,
           cupFile' \in [day : Int, keys : SUBSET Cups], drops' \in Caps, charged' \in Nat,
           refusedEver' \subseteq Odds!Droppable, refusedEver \subseteq refusedEver',
           gaps \subseteq gaps', Whole' => turn'.caps = drops' /\ "again" \notin gaps',
           turn'.credits + charged >= turn.credits + charged',
           "lost" \notin gaps' => turn'.credits + charged = turn.credits + charged',
           turn'.at = "ask" => /\ turn'.key \in Keys
                               /\ turn'.ask \subseteq Odds!ToSet(Wanted[turn.sport]),
           "unnamed" \notin gaps' =>
                /\ OnlyRefused(turn.caps)' /\ Offered(turn.sport, turn.served)'
                /\ turn'.at = "ask" =>
                     Odds!ToSet(Wanted[turn.sport]) \ refusedEver' \subseteq turn'.ask
    PROVE  OddsInv'
  <1>1. OddsTypes'
    BY DEF OddsInv, OddsTypes
  <1>2. turn.now = time /\ turn.sport \in OddsIn
    BY DEF OddsInv, TurnInv, Asking, Working
  <1>3. TurnInv'
    BY <1>2 DEF TurnInv, Asking
  <1>4. StampInv'
    BY DEF OddsInv, StampInv, Odds!StampedIsShown, Asking
  <1>5. Whole' => Whole
    BY DEF Whole
  <1>6. CreditInv'
    <2>1. turn.credits \in Nat /\ turn'.credits \in Nat /\ charged \in Nat /\ charged' \in Nat
          /\ quota.used \in Nat
      BY DEF OddsInv, OddsTypes, Turn
    <2>2. OfToday \in Nat /\ OfToday' = OfToday
      BY <2>1 DEF OfToday
    <2>3. Whole' => OfToday + turn.credits >= charged
      BY <1>5 DEF OddsInv, CreditInv
    <2>4. Whole' /\ "lost" \notin gaps' => OfToday + turn.credits = charged
      BY <1>5 DEF OddsInv, CreditInv
    <2>5. Whole' => OfToday' + turn'.credits >= charged'
      BY <2>1, <2>2, <2>3
    <2>6. Whole' /\ "lost" \notin gaps' => OfToday' + turn'.credits = charged'
      BY <2>1, <2>2, <2>4
    <2> QED BY <2>5, <2>6 DEF OddsInv, CreditInv
  <1>7. DropInv'
    BY DEF DropInv
  <1>8. ServedInv'
    <2>1. SUFFICES ASSUME "unnamed" \notin gaps' PROVE ServedInv'
      BY DEF ServedInv
    <2>2. "unnamed" \notin gaps
      BY <2>1
    <2>3. OnlyRefused(dropped)'
      BY <2>2 DEF OddsInv, ServedInv, OnlyRefused
    <2>4. \A s \in OddsIn : Offered(s, panel[s].served)'
      BY <2>2 DEF OddsInv, ServedInv, Offered
    <2> QED BY <2>1, <2>3, <2>4 DEF ServedInv
  <1> QED BY <1>1, <1>3, <1>4, <1>6, <1>7, <1>8 DEF OddsInv

\* What holds of a turn that works on a sport.
LEMMA AtWork ==
    ASSUME OddsInv, turn.at \in Working
    PROVE  /\ turn \in Turn /\ turn.sport \in OddsIn /\ turn.now = time /\ turn.now \in 0..LastTime
           /\ turn.now \in Int /\ turn.credits \in Nat /\ charged \in Nat /\ turn.last \in Nat
           /\ turn.keys \subseteq Keys /\ turn.caps \in Caps /\ turn.ask \subseteq Odds!Droppable
           /\ drops \in Caps /\ dropped \in Caps /\ turn.todo \in Seq(OddsIn)
           /\ turn.served \in SUBSET (Odds!Droppable \cup {"winner"})
           /\ refusedEver \subseteq Odds!Droppable
           /\ cupFile \in [day : Int, keys : SUBSET Cups]
  <1>1. turn \in Turn /\ turn.sport \in OddsIn /\ turn.now = time
    BY DEF OddsInv, OddsTypes, TurnInv, Working, Asking
  <1>2. turn.now \in 0..LastTime
    BY <1>1 DEF Turn
  <1>3. turn.now \in Int
    BY <1>2, OddsConstants
  <1> QED BY <1>1, <1>2, <1>3 DEF OddsInv, OddsTypes, Turn

\* What was fetched for a sport: its request is over.
LEMMA FetchedFacts ==
    ASSUME OddsInv, turn.at \in Working, NEW v \in SUBSET (Odds!Droppable \cup {"winner"})
    PROVE  LET t == Odds!Fetched(v)
           IN  /\ t \in Turn /\ t.at = "rows" /\ t.now = time /\ t.sport = turn.sport
               /\ t.credits = 0 /\ t.served = v /\ t.caps = Odds!NoDrops
  <1>1. Odds!Fetched(v) = Fresh("rows", turn.now, turn.todo, turn.sport, Odds!NoDrops, v)
    <2>1. Odds!Idle = Fresh("idle", 0, <<>>, "", Odds!NoDrops, {})
      BY DEF Odds!Idle, Fresh
    <2>2. Odds!Fetched(v) = [Odds!Idle EXCEPT !.at = "rows", !.now = turn.now,
                              !.todo = turn.todo, !.sport = turn.sport, !.served = v]
      BY DEF Odds!Fetched
    <2> QED BY <2>1, <2>2 DEF Fresh
  <1>2. /\ "rows" \in Odds!Steps /\ turn.now \in 0..LastTime /\ turn.todo \in Seq(OddsIn)
        /\ turn.sport \in OddsIn \cup {""} /\ Odds!NoDrops \in Caps
    BY AtWork, NothingDropped DEF Odds!Steps
  <1>3. turn.now = time
    BY AtWork
  <1> DEFINE t == Odds!Fetched(v)
  <1>4. t = Fresh("rows", turn.now, turn.todo, turn.sport, Odds!NoDrops, v)
    BY <1>1
  <1> HIDE DEF t
  <1>5. v \in SUBSET (Odds!Droppable \cup {"winner"})
    OBVIOUS
  <1>6. Fresh("rows", turn.now, turn.todo, turn.sport, Odds!NoDrops, v) \in Turn
    BY <1>2, <1>5, TurnFresh
  <1>7. /\ t \in Turn /\ t.at = "rows" /\ t.now = time /\ t.sport = turn.sport
        /\ t.credits = 0 /\ t.served = v /\ t.caps = Odds!NoDrops
    BY <1>3, <1>4, <1>6 DEF Fresh
  <1> QED BY <1>7 DEF t

\* A scan that goes on with no odds forgets what it spent.
LEMMA NoOddsStep ==
    ASSUME OddsInv, turn.at \in Working, Odds!NoOdds,
           UNCHANGED <<time, lastRun, cupFile, quota, panel, charged, drops, dropped, refusedEver>>
    PROVE  OddsInv'
  <1>1. turn' = Odds!Fetched({}) /\ gaps' = gaps \cup {"disk"}
    BY DEF Odds!NoOdds
  <1>2. turn' \in Turn /\ turn'.at = "rows" /\ turn'.now = time /\ turn'.sport = turn.sport
        /\ turn'.credits = 0 /\ turn'.served = {} /\ turn'.caps = Odds!NoDrops
    BY <1>1, FetchedFacts
  <1>3. ~Whole'
    BY <1>1 DEF Whole, Odds!Lossy
  <1> QED BY <1>1, <1>2, <1>3, AtWork, Rests DEF Asking, Working

LEMMA ResolveStep ==
    ASSUME OddsInv, Odds!Resolve
    PROVE  OddsInv'
  <1>1. turn.at = "resolve" /\ turn.credits = 0
        /\ UNCHANGED <<time, lastRun, dropped, quota, panel, charged, drops, refusedEver>>
    BY DEF Odds!Resolve, Odds!Unseen, Odds!Accounts, OddsInv, CreditInv, Asking
  <1>2. turn.at \in Working
    BY <1>1 DEF Working
  <1>3. CASE Odds!NoOdds /\ UNCHANGED cupFile
    BY <1>1, <1>2, <1>3, NoOddsStep
  <1>4. ASSUME NEW keys \in SUBSET Keys, turn' = [turn EXCEPT !.at = "key", !.keys = keys],
               UNCHANGED gaps, cupFile' \in [day : Int, keys : SUBSET Cups]
        PROVE  OddsInv'
    <2>1. turn' \in Turn /\ turn'.at = "key" /\ turn'.now = turn.now
          /\ turn'.sport = turn.sport /\ turn'.caps = turn.caps /\ turn'.credits = turn.credits
          /\ turn'.served = turn.served
      BY <1>2, <1>4, AtWork DEF Turn, Odds!Steps
    <2>2. Whole' => turn.caps = drops /\ "again" \notin gaps'
      BY <1>1, <1>4 DEF OddsInv, DropInv, Whole
    <2>3. "unnamed" \notin gaps' => OnlyRefused(turn.caps)' /\ Offered(turn.sport, turn.served)'
      BY <1>1, <1>4, <2>1 DEF OddsInv, ServedInv, OnlyRefused, Offered
    <2> QED BY <1>1, <1>2, <1>4, <2>1, <2>2, <2>3, AtWork, Asks DEF Asking
  <1>5. \/ Odds!NoOdds /\ UNCHANGED cupFile
        \/ /\ UNCHANGED gaps /\ cupFile' \in [day : Int, keys : SUBSET Cups]
           /\ \E keys \in SUBSET Keys : turn' = [turn EXCEPT !.at = "key", !.keys = keys]
    <2>1. Cups \subseteq Keys /\ (turn.sport # "tennis" => turn.sport \in Keys)
      BY <1>2, AtWork DEF Keys, Odds!KeysOf, OddsIn
    <2>2. cupFile \in [day : Int, keys : SUBSET Cups] /\ Odds!Day(turn.now) \in Int
      BY <1>2, AtWork, DaysOver DEF Odds!Day
    <2> DEFINE With(keys) == turn' = [turn EXCEPT !.at = "key", !.keys = keys]
               now == Odds!Day(turn.now)
    <2>3. /\ \/ turn.sport # "tennis" /\ With({turn.sport}) /\ UNCHANGED <<cupFile, gaps>>
             \/ With(cupFile.keys) /\ UNCHANGED <<cupFile, gaps>>
             \/ \E active \in SUBSET Cups : /\ With(active) /\ UNCHANGED gaps
                                             /\ cupFile' = [day |-> now, keys |-> active]
             \/ Odds!NoOdds /\ UNCHANGED cupFile
      BY DEF Odds!Resolve
    <2> HIDE DEF With, now
    <2>4. CASE turn.sport # "tennis" /\ With({turn.sport}) /\ UNCHANGED <<cupFile, gaps>>
      <3>1. {turn.sport} \in SUBSET Keys
        BY <2>1, <2>4
      <3> QED BY <2>2, <2>4, <3>1 DEF With
    <2>5. CASE With(cupFile.keys) /\ UNCHANGED <<cupFile, gaps>>
      <3>1. cupFile.keys \in SUBSET Keys
        BY <2>1, <2>2
      <3> QED BY <2>2, <2>5, <3>1 DEF With
    <2>6. ASSUME NEW active \in SUBSET Cups, With(active), UNCHANGED gaps,
                 cupFile' = [day |-> now, keys |-> active]
          PROVE  /\ UNCHANGED gaps /\ cupFile' \in [day : Int, keys : SUBSET Cups]
                 /\ \E keys \in SUBSET Keys : turn' = [turn EXCEPT !.at = "key", !.keys = keys]
      <3>1. active \in SUBSET Keys
        BY <2>1
      <3> QED BY <2>2, <2>6, <3>1 DEF With, now
    <2> QED BY <2>3, <2>4, <2>5, <2>6
  <1> QED BY <1>3, <1>4, <1>5

\* What is asked for at a key was dropped a week ago or never, and leaves out only
\* markets that were refused.
LEMMA TakeKeyStep ==
    ASSUME OddsInv, Odds!TakeKey
    PROVE  OddsInv'
  <1>1. turn.at = "key"
        /\ UNCHANGED <<time, lastRun, dropped, cupFile, quota, panel, charged, drops, refusedEver>>
    BY DEF Odds!TakeKey, Odds!Unseen, Odds!Files, Odds!Accounts
  <1>2. turn.at \in Working
    BY <1>1 DEF Working, Asking
  <1>3. Whole => turn.caps = drops /\ "again" \notin gaps
    BY <1>1 DEF OddsInv, DropInv, Asking
  <1>4. "unnamed" \notin gaps => OnlyRefused(turn.caps) /\ Offered(turn.sport, turn.served)
    BY DEF OddsInv, ServedInv
  <1>5. ASSUME NEW k \in turn.keys,
               turn' = [turn EXCEPT !.at = "ask", !.keys = @ \ {k}, !.key = k,
                                    !.ask = Odds!DesiredAt(k)],
               gaps' = IF \E m \in Odds!DesiredAt(k) : turn.now - drops[k][m] < Reprobe * DayLength
                       THEN gaps \cup {"again"} ELSE gaps
        PROVE  OddsInv'
    <2> DEFINE A == Odds!DesiredAt(k)
    <2>1. k \in Keys /\ A \subseteq Odds!ToSet(Wanted[turn.sport]) /\ A \subseteq Odds!Droppable
          /\ \A m \in A : Odds!MayAsk(turn.caps[k][m])
      BY <1>2, AtWork, OddsConstants DEF Odds!DesiredAt
    <2>2. turn' \in Turn /\ turn'.at = "ask" /\ turn'.now = turn.now /\ turn'.ask = A
          /\ turn'.sport = turn.sport /\ turn'.caps = turn.caps /\ turn'.credits = turn.credits
          /\ turn'.served = turn.served /\ turn'.key = k
      <3> HIDE DEF A
      <3>1. turn' = [turn EXCEPT !.at = "ask", !.keys = @ \ {k}, !.key = k, !.ask = A]
        BY <1>5 DEF A
      <3> QED BY <1>2, <2>1, <3>1, AtWork DEF Turn, Odds!Steps
    <2>3. \A m \in Odds!Droppable : turn.caps[k][m] \in Int
      BY <1>2, <2>1, AtWork, OddsConstants DEF Caps
    <2>4. \A m \in A : turn.now - turn.caps[k][m] >= Reprobe * DayLength
      <3>1. ASSUME NEW m \in A PROVE turn.now - turn.caps[k][m] >= Reprobe * DayLength
        <4>1. turn.now - turn.caps[k][m] \in Int
          BY <1>2, <2>1, <2>3, AtWork
        <4>2. (turn.now - turn.caps[k][m]) \div DayLength >= Reprobe
          BY <2>1 DEF Odds!MayAsk
        <4> QED BY <4>1, <4>2, DaysOver
      <3> QED BY <3>1
    <2>5. Whole' => turn.caps = drops /\ "again" \notin gaps'
      <3>1. Whole' => Whole
        BY <1>5 DEF Whole
      <3>2. ASSUME Whole PROVE gaps' = gaps
        <4>1. \A m \in A : /\ turn.now - drops[k][m] >= Reprobe * DayLength
                           /\ turn.now - drops[k][m] \in Int
          BY <1>2, <1>3, <2>1, <2>3, <2>4, <3>2, AtWork
        <4>2. Reprobe * DayLength \in Int
          BY OddsAssumption
        <4>3. \A m \in A : ~(turn.now - drops[k][m] < Reprobe * DayLength)
          BY <4>1, <4>2
        <4> QED BY <1>5, <4>3
      <3> QED BY <1>3, <3>1, <3>2
    <2>6. ASSUME "unnamed" \notin gaps', NEW m \in Odds!ToSet(Wanted[turn.sport]),
                 m \notin refusedEver
          PROVE  m \in A
      <3>1. "unnamed" \notin gaps /\ m \in Odds!Droppable
        BY <1>2, <1>5, <2>6, AtWork, OddsConstants
      <3>2. turn.caps[k][m] = Odds!Long
        BY <1>4, <2>1, <2>6, <3>1 DEF OnlyRefused
      <3>3. turn.now - Odds!Long >= Reprobe * DayLength /\ turn.now - Odds!Long \in Int
        <4>1. turn.now \in Nat /\ Reprobe * DayLength \in Nat
          BY <1>2, AtWork, OddsAssumption
        <4> QED BY <4>1 DEF Odds!Long
      <3>4. Odds!MayAsk(turn.caps[k][m])
        BY <3>2, <3>3, DaysOver DEF Odds!MayAsk
      <3> QED BY <2>6, <3>4 DEF Odds!DesiredAt
    <2>7. "unnamed" \notin gaps' => OnlyRefused(turn.caps)' /\ Offered(turn.sport, turn.served)'
      BY <1>1, <1>4, <1>5, <2>2 DEF OnlyRefused, Offered
    <2>8. "lost" \notin gaps' => "lost" \notin gaps
      BY <1>5
    <2> HIDE DEF A
    <2> QED BY <1>1, <1>2, <1>5, <2>1, <2>2, <2>5, <2>6, <2>7, <2>8, AtWork, Asks DEF Asking
  <1>6. CASE turn' = [turn EXCEPT !.at = "caps", !.key = "", !.last = 0] /\ UNCHANGED gaps
    <2>1. turn' \in Turn /\ turn'.at = "caps" /\ turn'.now = turn.now
          /\ turn'.sport = turn.sport /\ turn'.caps = turn.caps /\ turn'.credits = turn.credits
          /\ turn'.served = turn.served
      BY <1>2, <1>6, AtWork DEF Turn, Odds!Steps
    <2>2. Whole' => turn.caps = drops /\ "again" \notin gaps'
      BY <1>3, <1>6 DEF Whole
    <2>3. "unnamed" \notin gaps' => OnlyRefused(turn.caps)' /\ Offered(turn.sport, turn.served)'
      BY <1>1, <1>4, <1>6, <2>1 DEF OnlyRefused, Offered
    <2> QED BY <1>1, <1>2, <1>6, <2>1, <2>2, <2>3, AtWork, Asks DEF Asking
  <1> QED BY <1>5, <1>6 DEF Odds!TakeKey

\* An instance counts the members of a set as this module does.
LEMMA SameOddsCardinality == \A S : Odds!Cardinality(S) = Cardinality(S)
  BY DEF Odds!Cardinality, Cardinality

\* An answer is counted as it is charged.
LEMMA Answered ==
    ASSUME OddsInv, turn.at = "ask", NEW t \in Turn, NEW c \in Nat, Odds!Answers(t, c),
           t.at \in Asking
    PROVE  /\ turn' = [t EXCEPT !.credits = t.credits + c, !.last = c]
           /\ turn' \in Turn /\ turn'.at = t.at /\ turn'.now = t.now /\ turn'.sport = t.sport
           /\ turn'.key = t.key /\ turn'.ask = t.ask /\ turn'.caps = t.caps
           /\ turn'.served = t.served /\ turn'.credits = t.credits + c
           /\ charged' = charged + c /\ charged' \in Nat /\ turn'.credits + charged \in Nat
           /\ (t.credits = turn.credits => turn'.credits + charged = turn.credits + charged')
  <1>1. turn' = [t EXCEPT !.credits = t.credits + c, !.last = c] /\ charged' = charged + c
    BY DEF Odds!Answers
  <1>2. t.credits + c \in Nat /\ charged \in Nat /\ t.credits \in Nat
    <2>1. t.credits \in Nat
      BY DEF Turn
    <2>2. charged \in Nat
      BY AtWork DEF Working, Asking
    <2> QED BY <2>1, <2>2
  <1>3. turn' \in Turn /\ turn'.at = t.at /\ turn'.now = t.now /\ turn'.sport = t.sport
        /\ turn'.key = t.key /\ turn'.ask = t.ask /\ turn'.caps = t.caps
        /\ turn'.served = t.served /\ turn'.credits = t.credits + c
    BY <1>1, <1>2 DEF Turn
  <1> QED BY <1>1, <1>2, <1>3

LEMMA ServedStep ==
    ASSUME OddsInv, Odds!Served
    PROVE  OddsInv'
  <1> DEFINE t == [turn EXCEPT !.at = "key", !.ask = {},
                               !.served = @ \cup {"winner"} \cup turn.ask]
             c == Odds!Cardinality(turn.ask) + 1
  <1>1. turn.at = "ask" /\ Odds!Answers(t, c)
        /\ UNCHANGED <<time, lastRun, dropped, cupFile, quota, panel, drops, gaps, refusedEver>>
    BY DEF Odds!Served, Odds!Unseen, Odds!Files
  <1>2. turn.at \in Working
    BY <1>1 DEF Working, Asking
  <1>3. c \in Nat
    <2>1. turn.ask \subseteq Odds!ToSet(Wanted[turn.sport])
      BY <1>1 DEF OddsInv, TurnInv
    <2>2. IsFiniteSet(turn.ask)
      BY <1>2, <2>1, AtWork, OddsConstants, FS_Subset
    <2> QED BY <2>2, FS_CardinalityType, SameOddsCardinality
  <1>4. t \in Turn /\ t.at = "key" /\ t.now = turn.now /\ t.sport = turn.sport
        /\ t.caps = turn.caps /\ t.credits = turn.credits
        /\ t.served = turn.served \cup {"winner"} \cup turn.ask
    BY <1>2, AtWork DEF Turn, Odds!Steps
  <1> HIDE DEF t, c
  <1>5. turn' \in Turn /\ turn'.at = "key" /\ turn'.now = turn.now /\ turn'.sport = turn.sport
        /\ turn'.caps = turn.caps /\ turn'.served = turn.served \cup {"winner"} \cup turn.ask
        /\ charged' \in Nat /\ turn'.credits + charged = turn.credits + charged'
        /\ turn'.credits + charged \in Nat
    BY <1>1, <1>3, <1>4, Answered DEF Asking
  <1>6. Whole' => turn'.caps = drops' /\ "again" \notin gaps'
    BY <1>1, <1>5 DEF OddsInv, DropInv, Whole, Asking
  <1>7. "unnamed" \notin gaps' => OnlyRefused(turn.caps)' /\ Offered(turn.sport, turn.served)'
    BY <1>1, <1>5 DEF OddsInv, ServedInv, OnlyRefused, Offered
  <1>8. turn'.credits + charged >= turn.credits + charged'
    BY <1>5
  <1> QED BY <1>1, <1>2, <1>5, <1>6, <1>7, <1>8, AtWork, Asks DEF Asking

\* A refusal that names its markets drops those and no other, in the turn as in
\* what is known of them.
LEMMA RefusedStep ==
    ASSUME OddsInv, Odds!Refused
    PROVE  OddsInv'
  <1>1. turn.at = "ask" /\ UNCHANGED <<time, lastRun, dropped, cupFile, quota, panel>>
    BY DEF Odds!Refused, Odds!Files
  <1>2. turn.at \in Working
    BY <1>1 DEF Working, Asking
  <1>3. PICK bad \in SUBSET turn.ask :
           LET off == IF bad = {} THEN {Odds!LastAsked} ELSE bad
           IN  /\ Odds!Answers([turn EXCEPT !.ask = @ \ off, !.caps = Odds!Drop(off)], 1)
               /\ drops' = [drops EXCEPT ![turn.key] =
                              [m \in Odds!Droppable |-> IF m \in off THEN turn.now ELSE @[m]]]
               /\ refusedEver' = refusedEver \cup bad
               /\ gaps' = IF bad = {} THEN gaps \cup {"unnamed"} ELSE gaps
    BY DEF Odds!Refused
  <1> DEFINE off == IF bad = {} THEN {Odds!LastAsked} ELSE bad
             Off(f) == [f EXCEPT ![turn.key] =
                          [m \in Odds!Droppable |-> IF m \in off THEN turn.now ELSE @[m]]]
             t == [turn EXCEPT !.ask = @ \ off, !.caps = Odds!Drop(off)]
  <1>4. Odds!Answers(t, 1) /\ drops' = Off(drops)
        /\ refusedEver' = refusedEver \cup bad
        /\ gaps' = IF bad = {} THEN gaps \cup {"unnamed"} ELSE gaps
    BY <1>3
  <1>5. Odds!Drop(off) = Off(turn.caps)
    BY DEF Odds!Drop
  <1>6. turn.key \in Keys /\ turn.ask \subseteq Odds!ToSet(Wanted[turn.sport])
    BY <1>1 DEF OddsInv, TurnInv
  <1>7. bad # {} => off = bad
    OBVIOUS
  <1> HIDE DEF off
  <1>8. turn.now \in Times
    BY <1>2, AtWork, OddsConstants DEF Times
  <1>9. ASSUME NEW f \in Caps
        PROVE  /\ Off(f) \in Caps
               /\ \A k \in Keys, m \in Odds!Droppable : Off(f)[k][m] # f[k][m] => m \in off
    BY <1>6, <1>8, <1>9 DEF Caps
  <1>10. t = [turn EXCEPT !.ask = turn.ask \ off, !.caps = Off(turn.caps)]
    BY <1>5
  <1>11. Off(turn.caps) \in Caps /\ Off(drops) \in Caps
    BY <1>2, <1>9, AtWork
  <1> DEFINE C == Off(turn.caps)
  <1>12. C = Off(turn.caps)
    OBVIOUS
  <1> HIDE DEF Off, C
  <1>13. t \in Turn /\ t.at = "ask" /\ t.now = turn.now /\ t.sport = turn.sport
         /\ t.caps = C /\ t.credits = turn.credits /\ t.ask = turn.ask \ off
         /\ t.served = turn.served /\ t.key = turn.key
    BY <1>1, <1>2, <1>10, <1>11, <1>12, AtWork DEF Turn
  <1> HIDE DEF t
  <1>14. turn' \in Turn /\ turn'.at = "ask" /\ turn'.now = turn.now /\ turn'.sport = turn.sport
         /\ turn'.caps = C /\ turn'.served = turn.served /\ turn'.key = turn.key
         /\ turn'.ask = turn.ask \ off
         /\ charged' \in Nat /\ turn'.credits + charged = turn.credits + charged'
         /\ turn'.credits + charged \in Nat
    BY <1>1, <1>4, <1>13, Answered DEF Asking
  <1>15. Whole' => turn'.caps = drops' /\ "again" \notin gaps'
    <2>1. Whole' => Whole
      BY <1>4 DEF Whole
    <2>2. Whole => turn.caps = drops /\ "again" \notin gaps
      BY <1>1 DEF OddsInv, DropInv, Asking
    <2> QED BY <1>4, <1>12, <1>14, <2>1, <2>2
  <1>16. ASSUME "unnamed" \notin gaps'
         PROVE  /\ OnlyRefused(turn.caps)' /\ Offered(turn.sport, turn.served)'
                /\ Odds!ToSet(Wanted[turn.sport]) \ refusedEver' \subseteq turn'.ask
    <2>1. "unnamed" \notin gaps /\ off = bad
      BY <1>4, <1>7, <1>16
    <2>2. \A k \in Keys, m \in Odds!Droppable : C[k][m] # turn.caps[k][m] => m \in refusedEver'
      BY <1>2, <1>4, <1>9, <1>12, <2>1, AtWork
    <2>3. OnlyRefused(turn.caps)'
      BY <1>4, <1>14, <2>1, <2>2 DEF OddsInv, ServedInv, OnlyRefused
    <2>4. Offered(turn.sport, turn.served)'
      BY <1>4, <1>14, <2>1 DEF OddsInv, ServedInv, Offered
    <2>5. Odds!ToSet(Wanted[turn.sport]) \ refusedEver \subseteq turn.ask
      BY <1>1, <2>1 DEF OddsInv, ServedInv
    <2> QED BY <1>4, <1>14, <2>1, <2>3, <2>4, <2>5
  <1>17. turn'.credits + charged >= turn.credits + charged'
    BY <1>14
  <1>18. refusedEver' \subseteq Odds!Droppable /\ drops' \in Caps
    BY <1>2, <1>4, <1>11, AtWork
  <1>19. turn'.ask \subseteq Odds!ToSet(Wanted[turn.sport])
    BY <1>6, <1>14
  <1> QED BY <1>1, <1>2, <1>4, <1>6, <1>14, <1>15, <1>16, <1>17, <1>18, <1>19, AtWork, Asks
          DEF Asking

LEMMA OddsFailsStep ==
    ASSUME OddsInv, Odds!Fails
    PROVE  OddsInv'
  <1> DEFINE t == [turn EXCEPT !.at = "key", !.ask = {}]
  <1>1. turn.at = "ask"
        /\ UNCHANGED <<time, lastRun, dropped, cupFile, quota, panel, drops, refusedEver>>
    BY DEF Odds!Fails, Odds!Unseen, Odds!Files
  <1>2. turn.at \in Working
    BY <1>1 DEF Working, Asking
  <1>3. t \in Turn /\ t.at = "key" /\ t.now = turn.now /\ t.sport = turn.sport
        /\ t.caps = turn.caps /\ t.credits = turn.credits /\ t.served = turn.served
    BY <1>2, AtWork DEF Turn, Odds!Steps
  <1>4. \/ Odds!Answers(t, 0) /\ UNCHANGED gaps
        \/ /\ turn' = [t EXCEPT !.credits = turn.credits + turn.last]
           /\ gaps' = gaps \cup {"lost"} /\ UNCHANGED charged
    BY DEF Odds!Fails
  <1> HIDE DEF t
  <1>5. /\ turn' \in Turn /\ turn'.at = "key" /\ turn'.now = turn.now
        /\ turn'.sport = turn.sport /\ turn'.caps = turn.caps /\ turn'.served = turn.served
        /\ charged' \in Nat /\ turn'.credits + charged >= turn.credits + charged'
        /\ "lost" \notin gaps' => turn'.credits + charged = turn.credits + charged'
    <2>1. CASE Odds!Answers(t, 0) /\ UNCHANGED gaps
      <3>1. turn' \in Turn /\ turn'.at = "key" /\ turn'.now = turn.now
            /\ turn'.sport = turn.sport /\ turn'.caps = turn.caps
            /\ turn'.served = turn.served
            /\ charged' \in Nat /\ turn'.credits + charged = turn.credits + charged'
            /\ turn'.credits + charged \in Nat
        BY <1>1, <1>3, <2>1, Answered DEF Asking
      <3> QED BY <3>1
    <2>2. CASE /\ turn' = [t EXCEPT !.credits = turn.credits + turn.last]
               /\ gaps' = gaps \cup {"lost"} /\ UNCHANGED charged
      <3>1. turn.credits \in Nat /\ turn.last \in Nat /\ charged \in Nat
        BY <1>2, AtWork
      <3>2. PICK n \in Nat : n = turn.credits + turn.last
        BY <3>1
      <3>3. turn' = [t EXCEPT !.credits = n]
        BY <2>2, <3>2
      <3>4. turn' \in Turn /\ turn'.at = "key" /\ turn'.now = turn.now
            /\ turn'.sport = turn.sport /\ turn'.caps = turn.caps
            /\ turn'.served = turn.served /\ turn'.credits = n
        BY <1>3, <3>3 DEF Turn
      <3> QED BY <2>2, <3>1, <3>2, <3>4
    <2> QED BY <1>4, <2>1, <2>2
  <1>6. gaps \subseteq gaps' /\ ("again" \in gaps' => "again" \in gaps)
        /\ ("unnamed" \notin gaps' => "unnamed" \notin gaps)
    BY <1>4
  <1>7. Whole' => turn'.caps = drops' /\ "again" \notin gaps'
    BY <1>1, <1>5, <1>6 DEF OddsInv, DropInv, Whole, Asking
  <1>8. "unnamed" \notin gaps' => OnlyRefused(turn.caps)' /\ Offered(turn.sport, turn.served)'
    BY <1>1, <1>5, <1>6 DEF OddsInv, ServedInv, OnlyRefused, Offered
  <1> QED BY <1>1, <1>2, <1>5, <1>6, <1>7, <1>8, AtWork, Asks DEF Asking

LEMMA SaveCapsStep ==
    ASSUME OddsInv, Odds!SaveCaps
    PROVE  OddsInv'
  <1>1. turn.at = "caps"
        /\ UNCHANGED <<time, lastRun, cupFile, quota, panel, charged, drops, refusedEver>>
    BY DEF Odds!SaveCaps, Odds!Unseen, Odds!Accounts
  <1>2. turn.at \in Working
    BY <1>1 DEF Working, Asking
  <1>3. CASE Odds!NoOdds /\ UNCHANGED dropped
    BY <1>1, <1>2, <1>3, NoOddsStep
  <1>4. CASE /\ turn' = [turn EXCEPT !.at = "quota", !.caps = Odds!NoDrops]
             /\ dropped' = turn.caps /\ UNCHANGED gaps
    <2>1. turn' \in Turn /\ turn'.at = "quota" /\ turn'.now = turn.now
          /\ turn'.sport = turn.sport /\ turn'.caps = Odds!NoDrops
          /\ turn'.credits = turn.credits /\ turn'.served = turn.served
      BY <1>2, <1>4, AtWork, NothingDropped DEF Turn, Odds!Steps
    <2>2. OddsTypes'
      BY <1>1, <1>2, <1>4, <2>1, AtWork DEF OddsInv, OddsTypes
    <2>3. TurnInv'
      BY <1>1, <1>2, <2>1, AtWork DEF TurnInv
    <2>4. StampInv'
      BY <1>1, <2>1 DEF OddsInv, StampInv, Odds!StampedIsShown
    <2>5. CreditInv'
      BY <1>1, <1>4, <2>1 DEF OddsInv, CreditInv, OfToday, Whole
    <2>6. DropInv'
      BY <1>1, <1>4, <2>1 DEF OddsInv, DropInv, Whole, Asking
    <2>7. ServedInv'
      BY <1>1, <1>4, <2>1, NothingDropped DEF OddsInv, ServedInv, OnlyRefused, Offered
    <2> QED BY <2>2, <2>3, <2>4, <2>5, <2>6, <2>7 DEF OddsInv
  <1> QED BY <1>3, <1>4 DEF Odds!SaveCaps

\* The turn's credits are added to the file's of today, once.
LEMMA RecordCreditsStep ==
    ASSUME OddsInv, Odds!RecordCredits
    PROVE  OddsInv'
  <1> DEFINE day == Odds!Day(turn.now)
             From(used) == /\ turn' = Odds!Fetched(turn.served)
                           /\ quota' = [day |-> day, used |-> used + turn.credits]
  <1>1. turn.at = "quota"
        /\ UNCHANGED <<time, lastRun, cupFile, dropped, panel, charged, drops, refusedEver>>
    BY DEF Odds!RecordCredits, Odds!Unseen, Odds!Accounts
  <1>2. turn.at \in Working /\ turn.at \notin Asking
    BY <1>1 DEF Working, Asking
  <1>3. CASE Odds!NoOdds /\ UNCHANGED quota
    BY <1>1, <1>2, <1>3, NoOddsStep
  <1>4. ASSUME NEW used \in Nat, From(used), gaps \subseteq gaps',
               \A g \in {"again", "lost", "unnamed"} : g \in gaps' => g \in gaps,
               Whole' => Whole /\ used = OfToday
        PROVE  OddsInv'
    <2>1. turn' \in Turn /\ turn'.at = "rows" /\ turn'.now = time
          /\ turn'.sport = turn.sport /\ turn'.caps = Odds!NoDrops
          /\ turn'.credits = 0 /\ turn'.served = turn.served
      BY <1>2, <1>4, AtWork, FetchedFacts
    <2>2. day = Odds!Day(time) /\ day \in Int /\ turn.credits \in Nat
      BY <1>2, AtWork, DaysOver DEF Odds!Day
    <2>3. quota' = [day |-> day, used |-> used + turn.credits]
          /\ quota' \in [day : Int, used : Nat]
      BY <1>4, <2>2
    <2>4. OddsTypes'
      BY <1>1, <2>1, <2>3 DEF OddsInv, OddsTypes
    <2>5. TurnInv'
      BY <1>1, <1>2, <2>1, AtWork DEF TurnInv
    <2>6. StampInv'
      BY <1>1, <2>1 DEF OddsInv, StampInv, Odds!StampedIsShown
    <2>7. CreditInv'
      <3>1. quota'.day = Odds!Day(time)' /\ OfToday' = used + turn.credits
        BY <1>1, <2>2, <2>3 DEF OfToday, Odds!Day
      <3>2. Whole' => OfToday' >= charged'
        BY <1>1, <1>4, <3>1 DEF OddsInv, CreditInv
      <3>3. Whole' /\ "lost" \notin gaps' => OfToday' = charged'
        BY <1>1, <1>4, <3>1 DEF OddsInv, CreditInv
      <3>4. OfToday' \in Nat /\ OfToday' + turn'.credits = OfToday' /\ quota'.day <= Odds!Day(time)'
        BY <1>4, <2>1, <2>2, <2>3, <3>1
      <3> QED BY <2>1, <3>2, <3>3, <3>4 DEF CreditInv
    <2>8. DropInv'
      BY <1>1, <1>2, <1>4, <2>1 DEF OddsInv, DropInv, Asking
    <2>9. ServedInv'
      BY <1>1, <1>4, <2>1, NothingDropped DEF OddsInv, ServedInv, OnlyRefused, Offered
    <2> QED BY <2>4, <2>5, <2>6, <2>7, <2>8, <2>9 DEF OddsInv
  <1>5. day = Odds!Day(time)
    BY <1>2, AtWork
  <1>6. \/ From(IF quota.day = day THEN quota.used ELSE 0) /\ UNCHANGED gaps
        \/ From(0) /\ gaps' = gaps \cup {"unread"}
        \/ Odds!NoOdds /\ UNCHANGED quota
    BY DEF Odds!RecordCredits
  <1> HIDE DEF From, day
  <1>7. CASE From(IF quota.day = day THEN quota.used ELSE 0) /\ UNCHANGED gaps
    <2>1. (IF quota.day = day THEN quota.used ELSE 0) = OfToday /\ OfToday \in Nat
      BY <1>5 DEF OfToday, OddsInv, OddsTypes
    <2>2. From(OfToday)
      BY <1>7, <2>1
    <2>3. Whole' => Whole
      BY <1>7 DEF Whole
    <2> QED BY <1>4, <1>7, <2>1, <2>2, <2>3
  <1>8. CASE From(0) /\ gaps' = gaps \cup {"unread"}
    <2>1. ~Whole'
      BY <1>8 DEF Whole, Odds!Lossy
    <2> QED BY <1>4, <1>8, <2>1
  <1> QED BY <1>3, <1>6, <1>7, <1>8

\* A step that only moves a turn on, past its requests.
LEMMA GoesOn ==
    ASSUME OddsInv, turn.at \in Working,
           NEW from, NEW to \in Odds!Steps, Odds!Goes(from, to)
    PROVE  /\ turn.at = from /\ turn' \in Turn /\ turn'.at = to /\ turn'.now = turn.now
           /\ turn'.sport = turn.sport /\ turn'.caps = turn.caps
           /\ turn'.credits = turn.credits /\ turn'.served = turn.served
  BY AtWork DEF Odds!Goes, Turn

LEMMA AssembleStep ==
    ASSUME OddsInv, Odds!Assemble
    PROVE  OddsInv'
  <1>1. UNCHANGED <<time, lastRun, cupFile, quota, dropped, panel, charged, drops, refusedEver,
                    gaps>>
    BY DEF Odds!Assemble, Odds!Unseen, Odds!Files, Odds!Accounts
  <1>2. turn.at = "rows" /\ "panel" \in Odds!Steps /\ "pick" \in Odds!Steps
    BY DEF Odds!Assemble, Odds!Goes, Odds!Steps
  <1>3. turn.at \in Working /\ turn.credits = 0
    BY <1>2 DEF Working, Asking, OddsInv, CreditInv
  <1>4. turn' \in Turn /\ turn'.at \in {"panel", "pick"} /\ turn'.now = turn.now
        /\ turn'.sport = turn.sport /\ turn'.caps = turn.caps
        /\ turn'.credits = turn.credits /\ turn'.served = turn.served
    BY <1>2, <1>3, GoesOn DEF Odds!Assemble
  <1> QED BY <1>1, <1>2, <1>3, <1>4, AtWork, Rests DEF Asking, Working

LEMMA WritePanelStep ==
    ASSUME OddsInv, Odds!WritePanel
    PROVE  OddsInv'
  <1>1. UNCHANGED <<time, lastRun, cupFile, quota, dropped, charged, drops, refusedEver>>
    BY DEF Odds!WritePanel, Odds!Unseen, Odds!Accounts
  <1>2. turn.at = "panel" /\ "stamp" \in Odds!Steps /\ "pick" \in Odds!Steps
    BY DEF Odds!WritePanel, Odds!Goes, Odds!Steps
  <1>3. turn.at \in Working /\ turn.credits = 0
    BY <1>2 DEF Working, Asking, OddsInv, CreditInv
  <1>4. CASE Odds!Goes("panel", "pick") /\ gaps' = gaps \cup {"disk"} /\ UNCHANGED panel
    <2>1. turn' \in Turn /\ turn'.at = "pick" /\ turn'.now = turn.now
          /\ turn'.sport = turn.sport /\ turn'.caps = turn.caps
          /\ turn'.credits = turn.credits /\ turn'.served = turn.served
      BY <1>2, <1>3, <1>4, GoesOn
    <2> QED BY <1>1, <1>2, <1>3, <1>4, <2>1, AtWork, Rests DEF Asking, Working
  <1>5. CASE /\ Odds!Goes("panel", "stamp") /\ UNCHANGED gaps
             /\ panel' = [panel EXCEPT ![turn.sport] = [at |-> turn.now, served |-> turn.served]]
    <2>1. turn' \in Turn /\ turn'.at = "stamp" /\ turn'.now = turn.now
          /\ turn'.sport = turn.sport /\ turn'.caps = turn.caps
          /\ turn'.credits = turn.credits /\ turn'.served = turn.served
      BY <1>2, <1>3, <1>5, GoesOn
    <2>2. /\ turn.sport \in OddsIn /\ turn.now = time /\ turn.now \in Times
          /\ panel \in [OddsIn -> [at : Times, served : SUBSET (Odds!Droppable \cup {"winner"})]]
      BY <1>3, AtWork, OddsConstants DEF OddsInv, OddsTypes, Times
    <2>3. /\ panel' \in [OddsIn -> [at : Times, served : SUBSET (Odds!Droppable \cup {"winner"})]]
          /\ panel'[turn.sport].at = time /\ panel'[turn.sport].served = turn.served
          /\ \A s \in OddsIn \ {turn.sport} : panel'[s] = panel[s]
      BY <1>3, <1>5, <2>2, AtWork
    <2>4. OddsTypes'
      BY <1>1, <2>1, <2>3 DEF OddsInv, OddsTypes
    <2>5. TurnInv'
      BY <1>1, <1>3, <2>1, AtWork DEF TurnInv
    <2>6. StampInv'
      <3>1. \A s \in OddsIn : panel[s].at >= lastRun[s] /\ lastRun[s] <= time
        BY DEF OddsInv, StampInv, Odds!StampedIsShown, OddsIn
      <3>2. \A s \in OddsIn : lastRun[s] \in Int /\ time \in Int
        BY OddsConstants DEF OddsInv, OddsTypes
      <3>3. \A s \in OddsIn : panel'[s].at >= lastRun[s]
        BY <2>3, <3>1, <3>2
      <3> QED BY <1>1, <2>1, <2>3, <3>1, <3>3 DEF StampInv, Odds!StampedIsShown, OddsIn
    <2>7. CreditInv'
      BY <1>1, <1>2, <1>5, <2>1 DEF OddsInv, CreditInv, OfToday, Whole, Asking
    <2>8. DropInv'
      BY <1>1, <1>2, <1>5, <2>1 DEF OddsInv, DropInv, Whole, Asking
    <2>9. ServedInv'
      <3>1. SUFFICES ASSUME "unnamed" \notin gaps' PROVE ServedInv'
        BY DEF ServedInv
      <3>2. "unnamed" \notin gaps
        BY <1>5, <3>1
      <3>3. OnlyRefused(dropped)' /\ OnlyRefused(turn.caps)' /\ Offered(turn.sport, turn.served)'
        BY <1>1, <2>1, <3>2 DEF OddsInv, ServedInv, OnlyRefused, Offered
      <3>4. \A s \in OddsIn : Offered(s, panel[s].served)'
        BY <1>1, <2>3, <3>2 DEF OddsInv, ServedInv, Offered
      <3> QED BY <2>1, <3>3, <3>4 DEF ServedInv
    <2> QED BY <2>4, <2>5, <2>6, <2>7, <2>8, <2>9 DEF OddsInv
  <1> QED BY <1>4, <1>5 DEF Odds!WritePanel

\* A sport is stamped with the time its panel has.
LEMMA MarkRanStep ==
    ASSUME OddsInv, Odds!MarkRan
    PROVE  OddsInv'
  <1>1. UNCHANGED <<time, panel, cupFile, quota, dropped, charged, drops, refusedEver>>
    BY DEF Odds!MarkRan, Odds!Unseen, Odds!Accounts
  <1>2. turn.at = "stamp" /\ "pick" \in Odds!Steps
    BY DEF Odds!MarkRan, Odds!Goes, Odds!Steps
  <1>3. turn.at \in Working /\ turn.credits = 0 /\ panel[turn.sport].at = time
    BY <1>2 DEF Working, Asking, OddsInv, CreditInv, StampInv
  <1>4. turn' \in Turn /\ turn'.at = "pick" /\ turn'.now = turn.now
        /\ turn'.sport = turn.sport /\ turn'.caps = turn.caps
        /\ turn'.credits = turn.credits /\ turn'.served = turn.served
    BY <1>2, <1>3, GoesOn DEF Odds!MarkRan
  <1>5. CASE Odds!Goes("stamp", "pick") /\ gaps' = gaps \cup {"disk"} /\ UNCHANGED lastRun
    BY <1>1, <1>2, <1>3, <1>4, <1>5, AtWork, Rests DEF Asking, Working
  <1>6. ASSUME NEW stamps \in [OddsIn -> Times],
               \A s \in OddsIn : stamps[s] <= panel[s].at /\ stamps[s] <= time,
               lastRun' = [stamps EXCEPT ![turn.sport] = turn.now], gaps \subseteq gaps',
               \A g \in {"again", "lost", "unnamed"} : g \in gaps' => g \in gaps
        PROVE  OddsInv'
    <2>1. turn.sport \in OddsIn /\ turn.now = time /\ turn.now \in Times
      BY <1>3, AtWork, OddsConstants DEF Times
    <2>2. lastRun' \in [OddsIn -> Times] /\ lastRun'[turn.sport] = time
          /\ \A s \in OddsIn \ {turn.sport} : lastRun'[s] = stamps[s]
      BY <1>6, <2>1
    <2>3. OddsTypes'
      BY <1>1, <1>4, <2>2 DEF OddsInv, OddsTypes
    <2>4. TurnInv'
      BY <1>1, <1>3, <1>4, AtWork DEF TurnInv
    <2>5. StampInv'
      <3>1. time \in Int
        BY <2>1, OddsConstants
      <3>2. \A s \in OddsIn : panel[s].at >= lastRun'[s] /\ lastRun'[s] <= time
        <4>1. ASSUME NEW s \in OddsIn PROVE panel[s].at >= lastRun'[s] /\ lastRun'[s] <= time
          <5>1. stamps[s] \in Int /\ panel[s].at \in Int
            BY OddsConstants DEF OddsInv, OddsTypes
          <5> QED BY <1>3, <1>6, <2>2, <3>1, <5>1
        <4> QED BY <4>1
      <3> QED BY <1>1, <1>4, <3>2 DEF StampInv, Odds!StampedIsShown, OddsIn
    <2>6. Whole' => Whole
      BY <1>6 DEF Whole
    <2>7. CreditInv'
      BY <1>1, <1>2, <1>4, <1>6, <2>6 DEF OddsInv, CreditInv, OfToday, Asking
    <2>8. DropInv'
      BY <1>1, <1>2, <1>4, <1>6, <2>6 DEF OddsInv, DropInv, Asking
    <2>9. ServedInv'
      BY <1>1, <1>4, <1>6 DEF OddsInv, ServedInv, OnlyRefused, Offered
    <2> QED BY <2>3, <2>4, <2>5, <2>7, <2>8, <2>9 DEF OddsInv
  <1>7. CASE lastRun' = [lastRun EXCEPT ![turn.sport] = turn.now] /\ UNCHANGED gaps
    <2>1. lastRun \in [OddsIn -> Times]
      BY DEF OddsInv, OddsTypes
    <2>2. \A s \in OddsIn : lastRun[s] <= panel[s].at /\ lastRun[s] <= time
      <3>1. \A s \in OddsIn : lastRun[s] \in Int /\ panel[s].at \in Int
        BY OddsConstants DEF OddsInv, OddsTypes
      <3> QED BY <3>1 DEF OddsInv, StampInv, Odds!StampedIsShown, OddsIn
    <2> QED BY <1>6, <1>7, <2>1, <2>2
  <1>8. CASE /\ lastRun' = [[s \in OddsIn |-> Odds!Long] EXCEPT ![turn.sport] = turn.now]
             /\ gaps' = gaps \cup {"unread"}
    <2> DEFINE stamps == [s \in OddsIn |-> Odds!Long]
    <2>1. Odds!Long \in Times
      BY OddsConstants DEF Times
    <2>2. \A s \in OddsIn : Odds!Long <= panel[s].at /\ Odds!Long <= time
      BY OddsConstants DEF OddsInv, OddsTypes, Times
    <2>3. stamps \in [OddsIn -> Times]
          /\ \A s \in OddsIn : stamps[s] <= panel[s].at /\ stamps[s] <= time
      BY <2>1, <2>2
    <2>4. lastRun' = [stamps EXCEPT ![turn.sport] = turn.now]
      BY <1>8
    <2> HIDE DEF stamps
    <2> QED BY <1>6, <1>8, <2>3, <2>4
  <1> QED BY <1>5, <1>7, <1>8 DEF Odds!MarkRan, OddsIn

\* Between cycles time passes; a new day has no credits yet.
LEMMA WakeStep ==
    ASSUME OddsInv, Odds!Wake
    PROVE  OddsInv'
  <1>1. /\ turn = Odds!Asleep /\ turn' = Odds!Idle /\ time < LastTime /\ time' = time + 1
        /\ charged' = IF Odds!Day(time') = Odds!Day(time) THEN charged ELSE 0
        /\ UNCHANGED <<drops, refusedEver, gaps, lastRun, dropped, cupFile, quota, panel>>
    BY DEF Odds!Wake, Odds!Files
  <1>2. /\ turn.at = "asleep" /\ turn.credits = 0 /\ turn' \in Turn /\ turn'.at = "idle"
        /\ turn'.credits = 0 /\ turn'.served = {} /\ turn'.caps = Odds!NoDrops
    BY <1>1, IdleTurns
  <1>3. time \in 0..LastTime /\ time' \in 0..LastTime /\ time \in Int
    BY <1>1, OddsConstants DEF OddsInv, OddsTypes
  <1>4. /\ Odds!Day(time) \in Int /\ Odds!Day(time') \in Int /\ Odds!Day(time) <= Odds!Day(time')
    <2>1. time + 1 \in Int
      BY <1>3
    <2> QED BY <1>1, <1>3, <2>1, DaysOver DEF Odds!Day
  <1>5. charged \in Nat /\ charged' \in Nat /\ quota.day \in Int /\ quota.used \in Nat
    BY <1>1 DEF OddsInv, OddsTypes
  <1>6. OddsTypes'
    BY <1>1, <1>2, <1>3, <1>5 DEF OddsInv, OddsTypes
  <1>7. TurnInv'
    BY <1>2 DEF TurnInv, Working, Asking
  <1>8. StampInv'
    <2>1. \A s \in OddsIn : lastRun[s] <= time /\ lastRun[s] \in Int
      BY OddsConstants DEF OddsInv, OddsTypes, StampInv
    <2>2. \A s \in OddsIn : lastRun[s] <= time'
      BY <1>1, <1>3, <2>1
    <2> QED BY <1>1, <1>2, <2>2 DEF OddsInv, StampInv, Odds!StampedIsShown
  <1>9. CreditInv'
    <2>1. quota.day <= Odds!Day(time)
      BY DEF OddsInv, CreditInv
    <2>2. Whole' => Whole
      BY <1>1 DEF Whole
    <2>3. OfToday \in Nat /\ OfToday + turn.credits = OfToday
      BY <1>2, <1>5 DEF OfToday
    <2>4. (Whole' => OfToday >= charged) /\ (Whole' /\ "lost" \notin gaps' => OfToday = charged)
      BY <1>1, <2>2, <2>3 DEF OddsInv, CreditInv
    <2>5. OfToday' = IF quota.day = Odds!Day(time') THEN quota.used ELSE 0
      BY <1>1 DEF OfToday, Odds!Day
    <2>6. CASE Odds!Day(time') = Odds!Day(time)
      <3>1. OfToday' = OfToday /\ charged' = charged
        BY <1>1, <2>5, <2>6 DEF OfToday
      <3>2. quota'.day <= Odds!Day(time)' /\ OfToday' + turn'.credits = OfToday'
        BY <1>1, <1>2, <2>1, <2>3, <2>6, <3>1 DEF Odds!Day
      <3> QED BY <1>2, <2>4, <3>1, <3>2 DEF CreditInv
    <2>7. CASE Odds!Day(time') # Odds!Day(time)
      <3>1. quota.day # Odds!Day(time')
        BY <1>4, <1>5, <2>1, <2>7
      <3>2. OfToday' = 0 /\ charged' = 0
        BY <1>1, <2>5, <2>7, <3>1
      <3>3. quota'.day <= Odds!Day(time)'
        BY <1>1, <1>4, <1>5, <2>1 DEF Odds!Day
      <3> QED BY <1>2, <3>2, <3>3 DEF CreditInv
    <2> QED BY <2>6, <2>7
  <1>10. DropInv'
    BY <1>1, <1>2 DEF OddsInv, DropInv, Whole, Asking
  <1>11. ServedInv'
    <2>1. SUFFICES ASSUME "unnamed" \notin gaps' PROVE ServedInv'
      BY DEF ServedInv
    <2>2. OnlyRefused(dropped)' /\ \A s \in OddsIn : Offered(s, panel[s].served)'
      BY <1>1, <2>1 DEF OddsInv, ServedInv, OnlyRefused, Offered
    <2>3. OnlyRefused(turn.caps)' /\ Offered(turn.sport, turn.served)'
      BY <1>2, NothingDropped DEF OnlyRefused, Offered
    <2> QED BY <1>2, <2>2, <2>3 DEF ServedInv
  <1> QED BY <1>6, <1>7, <1>8, <1>9, <1>10, <1>11 DEF OddsInv

\* Every step of the odds scan keeps the invariant, which holds at first.
LEMMA OddsSteps ==
    ASSUME OddsInv, Odds!Next
    PROVE  OddsInv'
  BY BeginStep, PickStep, EndStep, ResolveStep, TakeKeyStep, ServedStep, RefusedStep,
     OddsFailsStep, SaveCapsStep, RecordCreditsStep, AssembleStep, WritePanelStep, MarkRanStep,
     OddsCrashStep, WakeStep DEF Odds!Next

LEMMA OddsStarts ==
    ASSUME Odds!Init
    PROVE  OddsInv
  <1>1. /\ time = 0 /\ dropped = Odds!NoDrops /\ drops = Odds!NoDrops
        /\ lastRun = [s \in OddsIn |-> Odds!Long]
        /\ panel = [s \in OddsIn |-> [at |-> Odds!Long, served |-> {}]]
        /\ cupFile = [day |-> 0 - 1, keys |-> {}] /\ quota = [day |-> 0 - 1, used |-> 0]
        /\ turn = Odds!Idle /\ charged = 0 /\ refusedEver = {} /\ gaps = {}
    BY DEF Odds!Init, OddsIn
  <1>2. time \in 0..LastTime /\ Odds!Long \in Times /\ Odds!Long <= 0 /\ 0 - 1 \in Int
    BY <1>1, OddsConstants DEF Times
  <1>3. cupFile \in [day : Int, keys : SUBSET Cups] /\ quota \in [day : Int, used : Nat]
    BY <1>1, <1>2
  <1>4. panel \in [OddsIn -> [at : Times, served : SUBSET (Odds!Droppable \cup {"winner"})]]
    BY <1>1, <1>2
  <1>5. OddsTypes
    BY <1>1, <1>2, <1>3, <1>4, IdleTurns, NothingDropped DEF OddsTypes
  <1>6. TurnInv
    BY <1>1, IdleTurns DEF TurnInv, Working, Asking
  <1>7. StampInv
    BY <1>1, <1>2, IdleTurns, OddsConstants DEF StampInv, Odds!StampedIsShown, OddsIn
  <1>8. CreditInv
    <2>1. Odds!Day(0) = 0
      BY OddsAssumption DEF Odds!Day
    <2>2. OfToday = 0 /\ quota.day <= Odds!Day(time)
      BY <1>1, <2>1 DEF OfToday
    <2> QED BY <1>1, <2>2, IdleTurns DEF CreditInv
  <1>9. DropInv
    BY <1>1, IdleTurns DEF DropInv, Asking
  <1>10. ServedInv
    BY <1>1, IdleTurns, NothingDropped DEF ServedInv, OnlyRefused, Offered
  <1> QED BY <1>5, <1>6, <1>7, <1>8, <1>9, <1>10 DEF OddsInv

\* The invariant says what the odds scan promises.
LEMMA OddsSays == OddsInv => Odds!OddsKept
  <1>1. SUFFICES ASSUME OddsInv PROVE Odds!OddsKept
    OBVIOUS
  <1>2. Odds!QuotaTells
    <2>1. SUFFICES ASSUME turn = Odds!Asleep, Whole, quota.day = Odds!Day(time)
                   PROVE  quota.used >= charged /\ ("lost" \notin gaps => quota.used = charged)
      BY DEF Odds!QuotaTells, Whole
    <2>2. turn.credits = 0 /\ OfToday = quota.used /\ quota.used \in Nat
      BY <1>1, <2>1, IdleTurns DEF OfToday, OddsInv, OddsTypes
    <2> QED BY <1>1, <2>1, <2>2 DEF OddsInv, CreditInv
  <1>3. Odds!StampedIsShown /\ Odds!ProbedWeekly
    BY <1>1 DEF OddsInv, StampInv, DropInv, Whole, Odds!ProbedWeekly
  <1>4. Odds!RefusalCostsNoData
    BY <1>1 DEF OddsInv, ServedInv, Offered, OddsIn, Odds!RefusalCostsNoData
  <1> QED BY <1>2, <1>3, <1>4 DEF Odds!OddsKept

\* What another part does leaves both as they are.
LEMMA ScanRests ==
    ASSUME ScanInv, UNCHANGED scanVars
    PROVE  ScanInv'
  BY DEF ScanInv, scanVars, Scanner!TypeOK, TakenInv, BudgetInv, Spends, Scanner!MarginHolds,
     CsvInv, Scanner!OneRowEach, BeatInv, Scanner!BeatsSpaced, Scanner!InCycle

LEMMA OddsRest ==
    ASSUME OddsInv, UNCHANGED oddsVars
    PROVE  OddsInv'
  BY DEF OddsInv, oddsVars, OddsTypes, TurnInv, StampInv, Odds!StampedIsShown, CreditInv, Whole,
     OfToday, DropInv, ServedInv, OnlyRefused, Offered

\* Whatever befalls it, the odds scan of several sports stamps no sport without
\* its panel, counts what its answers cost, asks again for a refused market after
\* a week and loses no other to a refusal (scan.py, toa.py, state.py).
THEOREM OddsKeptAlways == Spec => []Odds!OddsKept
  <1>1. Init => OddsInv
    BY OddsStarts DEF Init
  <1>2. OddsInv /\ [Next]_vars => OddsInv'
    <2>1. [Next]_vars => Odds!Next \/ UNCHANGED oddsVars
      BY Zenon DEF Next, Only, vars
    <2> QED BY <2>1, OddsSteps, OddsRest
  <1> QED BY <1>1, <1>2, OddsSays, PTL DEF Spec

\* One scan at a time, where none outlives its lock, two never take it together
\* and the disk takes it, spends no more than its budget allows, leaves one row of
\* what it found and beats no oftener than it should (run.py); and the odds scan
\* keeps what it promises.
THEOREM ScanKeptAlways ==
    ASSUME Slips = {}, Funded
    PROVE  Spec => []ScanKept
  <1>1. Init => ScanInv
    BY ScanStarts DEF Init
  <1>2. ScanInv /\ [Next]_vars => ScanInv'
    <2>1. [Next]_vars => Scanner!Next \/ UNCHANGED scanVars
      BY Zenon DEF Next, Only, vars
    <2> QED BY <2>1, ScanSteps, ScanRests
  <1>3. ScanInv /\ Odds!OddsKept => ScanKept
    BY ScanSays DEF ScanKept
  <1> QED BY <1>1, <1>2, <1>3, OddsKeptAlways, PTL DEF Spec
=============================================================================
