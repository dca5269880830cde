------------------------------ MODULE MakerProcess ------------------------------
(***************************************************************************)
(* The life of a maker process (__main__.py, singleton.py, live.py): the   *)
(* lock of the host, the gates, the sweep of what an earlier run left      *)
(* resting, the loop, the ways out of it, and the smoke tests (smoke.py)   *)
(* a person runs beside it without taking the lock.                        *)
(*                                                                         *)
(* An order is its owner and its venue.  How orders fill and are repriced  *)
(* in the loop is OrderLifecycle's; here they rest or leave.               *)
(***************************************************************************)
EXTENDS Integers, FiniteSets

CONSTANTS
    Makers,        \* the processes the supervisor or a person may start
    NoOwner, Smoke  \* the owner of an order no process tracks; the smoke tests

VARIABLES
    holder,     \* the process the system gives the lock to, or NoOwner
    proc,       \* maker |-> where it is
    build,      \* maker |-> what it was started as
    todo,       \* maker |-> the venues its startup has still to sweep
    unswept,    \* maker |-> those whose sweep failed, in whole or in part
    enabled,    \* live.enabled of the configuration
    armFile,    \* the arm file is there
    rest,       \* the resting orders at the venues
    smoke       \* where the smoke test is

makerVars == <<holder, proc, build, todo, unswept, enabled, armFile, rest, smoke>>
-----------------------------------------------------------------------------
MakerVenues == {"poly", "kalshi"}
Owners == Makers \cup {NoOwner, Smoke}
MakerOrders == [owner : Owners, at : MakerVenues]
Order(o, v) == [owner |-> o, at |-> v]

TypeOK ==
    /\ holder \in Makers \cup {NoOwner}
    /\ proc \in [Makers -> {"off", "starting", "loop", "stopping"}]
    /\ build \in [Makers -> {"none", "shadow", "live"}]
    /\ todo \in [Makers -> SUBSET MakerVenues] /\ unswept \in [Makers -> SUBSET MakerVenues]
    /\ enabled \in BOOLEAN /\ armFile \in BOOLEAN
    /\ rest \subseteq MakerOrders
    /\ smoke \in {"off", "sweeping", "placing", "holding"}

Init ==
    /\ holder = NoOwner
    /\ proc = [p \in Makers |-> "off"] /\ build = [p \in Makers |-> "none"]
    /\ todo = [p \in Makers |-> {}] /\ unswept = [p \in Makers |-> {}]
    /\ enabled \in BOOLEAN /\ armFile \in BOOLEAN
    /\ rest = {} /\ smoke = "off"
-----------------------------------------------------------------------------
\* guard, first of all that _run does: a process that does not get the lock ends
\* and has touched nothing.
Start(p) ==
    /\ proc[p] = "off" /\ holder = NoOwner
    /\ holder' = p
    /\ proc' = [proc EXCEPT ![p] = "starting"]
    /\ UNCHANGED <<build, todo, unswept, enabled, armFile, rest, smoke>>

\* Mutant: only an armed process sweeps.
SweepsArmed(kind) == IF kind = "live" THEN MakerVenues ELSE {}

\* A process that has order clients sweeps before its loop, armed or not.
Sweeps(kind) == IF kind = "none" THEN {} ELSE MakerVenues

\* build_pregame_order_clients, the gates, _build_pregame_exec.
Evaluate(p) ==
    /\ proc[p] = "starting" /\ build[p] = "none" /\ todo[p] = {}
    /\ \E armed \in IF enabled /\ armFile THEN BOOLEAN ELSE {FALSE} :
          LET kind == IF ~enabled THEN "none" ELSE IF armed THEN "live" ELSE "shadow"
          IN  /\ build' = [build EXCEPT ![p] = kind]
              /\ todo' = [todo EXCEPT ![p] = Sweeps(kind)]
              /\ proc' = IF Sweeps(kind) = {} THEN [proc EXCEPT ![p] = "loop"] ELSE proc
    /\ UNCHANGED <<holder, unswept, enabled, armFile, rest, smoke>>

\* What a pass of cancels over the orders found at v may leave resting: each may
\* fail, and so may the listing.
CancelledAt(v, found) ==
    \E left \in SUBSET found : rest' = (rest \ found) \cup left

At(v) == {o \in rest : o.at = v}

\* _startup_stray_cancel, one venue after the other: whatever rests there, smoke's
\* orders too.
SweepStray(p) ==
    /\ proc[p] = "starting" /\ todo[p] # {}
    /\ LET v == IF "poly" \in todo[p] THEN "poly" ELSE "kalshi"
       IN  /\ CancelledAt(v, At(v))
           /\ todo' = [todo EXCEPT ![p] = @ \ {v}]
           /\ unswept' = [unswept EXCEPT ![p] =
                             IF \E o \in rest' : o.at = v THEN @ \cup {v} ELSE @]
           /\ proc' = [proc EXCEPT ![p] = IF todo[p] = {v} THEN "loop" ELSE @]
    /\ UNCHANGED <<holder, build, enabled, armFile, smoke>>

\* A pass of the loop places an order while the gate is armed.
Place(p, v) ==
    /\ proc[p] = "loop" /\ build[p] = "live" /\ enabled /\ armFile
    /\ Order(p, v) \notin rest
    /\ rest' = rest \cup {Order(p, v)}
    /\ UNCHANGED <<holder, proc, build, todo, unswept, enabled, armFile, smoke>>

\* An order fills, or is cancelled in the course of the loop.
Leaves(o) ==
    /\ o \in rest /\ rest' = rest \ {o}
    /\ UNCHANGED <<holder, proc, build, todo, unswept, enabled, armFile, smoke>>

\* enforce_arm_state, on every pass.
EnforceArmState(p) ==
    /\ proc[p] = "loop" /\ build[p] = "live" /\ ~armFile
    /\ LET own == {o \in rest : o.owner = p}
       IN  own # {} /\ \E left \in SUBSET own : rest' = (rest \ own) \cup left
    /\ UNCHANGED <<holder, proc, build, todo, unswept, enabled, armFile, smoke>>

\* STOP_ALL, a signal, a moved HEAD: the loop ends.
EndLoop(p) ==
    /\ proc[p] = "loop" /\ proc' = [proc EXCEPT ![p] = "stopping"]
    /\ UNCHANGED <<holder, build, todo, unswept, enabled, armFile, rest, smoke>>

Over(p) ==
    /\ proc' = [proc EXCEPT ![p] = "off"]
    /\ build' = [build EXCEPT ![p] = "none"]
    /\ todo' = [todo EXCEPT ![p] = {}] /\ unswept' = [unswept EXCEPT ![p] = {}]
    /\ holder' = IF holder = p THEN NoOwner ELSE holder

Disown(orders, p) ==
    {IF o.owner = p THEN Order(NoOwner, o.at) ELSE o : o \in orders}

\* The finally of _run: a live process cancels all it can, on Polymarket whatever
\* rests on the account; then it ends and the system takes the lock back.
ShutDown(p) ==
    /\ proc[p] = "stopping"
    /\ LET mine == IF build[p] = "live" THEN At("poly") \cup {o \in rest : o.owner = p} ELSE {}
       IN  \E left \in SUBSET mine : rest' = Disown((rest \ mine) \cup left, p)
    /\ Over(p)
    /\ UNCHANGED <<enabled, armFile, smoke>>

\* The process is killed: its orders stay, and the lock is free.
Kill(p) ==
    /\ proc[p] # "off"
    /\ rest' = Disown(rest, p) /\ Over(p)
    /\ UNCHANGED <<enabled, armFile, smoke>>

\* A person edits the configuration, which a process reads when it starts, and
\* sets or removes the arm file.
Configure ==
    /\ \/ enabled' = ~enabled /\ (\A p \in Makers : proc[p] = "off") /\ UNCHANGED armFile
       \/ armFile' = ~armFile /\ UNCHANGED enabled
    /\ UNCHANGED <<holder, proc, build, todo, unswept, rest, smoke>>
-----------------------------------------------------------------------------
(* run_smoke and run_smoke_kalshi *)

SmokeStart ==
    /\ smoke = "off" /\ enabled /\ armFile /\ smoke' = "sweeping"
    /\ UNCHANGED <<holder, proc, build, todo, unswept, enabled, armFile, rest>>

\* Its own sweep takes the orders of a maker that runs.
SmokeSweep ==
    /\ smoke = "sweeping" /\ smoke' = "placing"
    /\ \E left \in SUBSET rest : rest' = left
    /\ UNCHANGED <<holder, proc, build, todo, unswept, enabled, armFile>>

SmokePlace ==
    /\ smoke = "placing"
    /\ \/ \E v \in MakerVenues : rest' = rest \cup {Order(Smoke, v)} /\ smoke' = "holding"
       \/ UNCHANGED rest /\ smoke' = "off"
    /\ UNCHANGED <<holder, proc, build, todo, unswept, enabled, armFile>>

\* After the hold its order is cancelled, on Polymarket by a second call for the
\* whole account if need be; what is left is left.
SmokeCancel ==
    /\ smoke = "holding" /\ smoke' = "off"
    /\ LET own == {o \in rest : o.owner = Smoke}
       IN  \/ rest' = rest \ own
           \/ \E left \in SUBSET (own \cup At("poly")) :
                  rest' = (rest \ (own \cup At("poly"))) \cup left
    /\ UNCHANGED <<holder, proc, build, todo, unswept, enabled, armFile>>

SmokeDies ==
    /\ smoke # "off" /\ smoke' = "off"
    /\ UNCHANGED <<holder, proc, build, todo, unswept, enabled, armFile, rest>>

Step(p) ==
    \/ Start(p) \/ Evaluate(p) \/ SweepStray(p)
    \/ \E v \in MakerVenues : Place(p, v)
    \/ EnforceArmState(p) \/ EndLoop(p) \/ ShutDown(p) \/ Kill(p)

Next ==
    \/ \E p \in Makers : Step(p)
    \/ \E o \in rest : Leaves(o)
    \/ Configure
    \/ SmokeStart \/ SmokeSweep \/ SmokePlace \/ SmokeCancel \/ SmokeDies

Spec == Init /\ [][Next]_makerVars
-----------------------------------------------------------------------------
\* No second maker gets past the guard, not even while the first one ends.
OneMaker == \A p, q \in Makers : (proc[p] # "off" /\ proc[q] # "off") => p = q

\* In its loop a process with order clients finds nothing resting but its own
\* orders, where its sweep succeeded; an unarmed one finds nothing.
NoStrays ==
    \A p \in Makers :
        (proc[p] = "loop" /\ build[p] # "none") =>
            \A o \in rest :
                \/ o.owner = p /\ build[p] = "live"
                \/ o.owner = Smoke
                \/ o.at \in unswept[p]

\* One maker on the host, and nothing rests that no process watches, but by a
\* sweep that failed or while no process with clients runs.
ProcessKept == OneMaker /\ NoStrays
=============================================================================
