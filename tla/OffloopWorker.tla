---------------------------- MODULE OffloopWorker ----------------------------
(***************************************************************************)
(* The one background thread that makes the venue calls the event loop     *)
(* must not block on (src/src/genz/maker_rt/offloop.py).                   *)
(*                                                                         *)
(* The loop submits keyed jobs and drains results; a key that is in flight *)
(* is refused.  A job past its deadline makes the loop abandon the thread  *)
(* and its queue and start another; the abandoned thread lives on until it *)
(* notices.  A thread reads the generation and the queue without the lock, *)
(* so each of its reads is a step of its own; what the loop does under one *)
(* call is one step, because between its two lock sections an abandoned    *)
(* thread can do nothing it could not do just before or just after.        *)
(***************************************************************************)
EXTENDS Integers, Sequences, FiniteSets

CONSTANTS
    Keys,           \* job keys: cancels, the fill poll, confirmations, ...
    Deadline,       \* ticks a job may be in flight: job_timeout_s
    CallTime,       \* ticks a healthy venue call takes at most
    MaxResults,     \* MAX_PENDING_RESULTS
    Threads,        \* slots for live threads, abandoned ones included
    Prompt,         \* loop and threads never stall between two clock ticks,
                    \* nor a thread between a generation check and its use
    Numbered,       \* jobs carry their submission number
    MaxJobs,        \* bound: submissions explored when Numbered
    MaxHangs,       \* bound: calls that hang
    MaxDeaths       \* bound: threads that die of an unforeseen error

ASSUME OffloopAssumption ==
    /\ IsFiniteSet(Keys)
    /\ Deadline \in Nat \ {0}
    /\ CallTime \in Nat
    /\ MaxResults \in Nat \ {0}
    /\ Threads \subseteq Nat \ {0} /\ IsFiniteSet(Threads)
    /\ {Prompt, Numbered} \subseteq BOOLEAN
    /\ {MaxJobs, MaxHangs, MaxDeaths} \subseteq Nat

VARIABLES
    inflight,       \* key -> ticks left to its deadline, or Free
    owner,          \* the slot of self._thread, or NoThread
    threads,        \* slot -> the thread in it
    cur,            \* the slot of self._q
    boxes,          \* slot -> the jobs in that queue object
    results,        \* finished jobs not drained yet
    stopping,       \* the _stop event
    serial,         \* submissions so far, when Numbered
    hangs, deaths   \* how much of the bounds is used up

vars == <<inflight, owner, threads, cur, boxes, results, stopping, serial,
          hangs, deaths>>
loopless == <<inflight, owner, cur, results, stopping, serial>>

Free == -1
NoThread == 0
Sentinel == [key |-> "stop", id |-> 0]
Jobs == [key : Keys, id : Nat]

\* A queue object is named by the thread slot it was created for; slot 0 is
\* the one the worker is born with.
Boxes == Threads \cup {0}

\* top: loop head; fetch: about to look up self._q; wait: in get; run: in the
\* venue call; hung: in a call that does not return; done: about to compare
\* the generation again; publish: about to take the lock.
NoJob == [key |-> "none", id |-> 0]
Thread ==
    [pc : {"none", "top", "fetch", "wait", "run", "hung", "done", "publish"},
     box : Boxes, job : Jobs \cup {NoJob}, age : Nat]
Absent == [pc |-> "none", box |-> 0, job |-> NoJob, age |-> 0]

Alive(t) == threads[t].pc # "none"
Stale(t) == t # owner

\* TypeOK: every variable stays in the range the code keeps it in.
TypeOK ==
    /\ inflight \in [Keys -> (0..Deadline) \cup {Free}]
    /\ owner \in Threads \cup {NoThread}
    /\ threads \in [Threads -> Thread]
    /\ cur \in Boxes
    /\ boxes \in [Boxes -> Seq(Jobs \cup {Sentinel})]
    /\ results \in Seq(Jobs) /\ Len(results) <= MaxResults
    /\ stopping \in BOOLEAN
    /\ {serial, hangs, deaths} \subseteq Nat

Init ==
    /\ inflight = [k \in Keys |-> Free]
    /\ owner = NoThread
    /\ threads = [t \in Threads |-> Absent]
    /\ cur = 0
    /\ boxes = [b \in Boxes |-> <<>>]
    /\ results = <<>>
    /\ stopping = FALSE
    /\ serial = 0 /\ hangs = 0 /\ deaths = 0

-----------------------------------------------------------------------------
(* The loop's side: what submit and drain do before their own work.        *)

Overdue == {k \in Keys : inflight[k] = 0}

InUse(t) == Alive(t) \/ t \in {cur} \cup {threads[u].box : u \in Threads}
FreeSlots == {t \in Threads : ~InUse(t)}

Release == [k \in Keys |-> IF k \in Overdue THEN Free ELSE inflight[k]]

\* Mutations of Abandoned: the backlog moves to the new queue and stays in
\* the old one; the keys stay in flight; the thread keeps its post.
AbandonedCopied(slot) ==
    [inflight |-> Release, owner |-> NoThread, cur |-> slot,
     boxes |-> [boxes EXCEPT ![slot] = boxes[cur]]]
AbandonedKeys(slot) ==
    [inflight |-> inflight, owner |-> NoThread, cur |-> slot,
     boxes |-> [boxes EXCEPT ![slot] = <<>>]]
AbandonedJob(slot) ==
    [inflight |-> Release, owner |-> owner, cur |-> slot,
     boxes |-> [boxes EXCEPT ![slot] = <<>>]]

\* _reap_overdue found overdue keys: they are released, the thread and the
\* queue are given up.  A queue no thread waits on is garbage with all its jobs.
Waited(b) == \E t \in Threads : threads[t].pc = "wait" /\ threads[t].box = b
Abandoned(slot) ==
    [inflight |-> Release, owner |-> NoThread, cur |-> slot,
     boxes |-> [b \in Boxes |-> IF Waited(b) THEN boxes[b] ELSE <<>>]]

Untouched ==
    [inflight |-> inflight, owner |-> owner, cur |-> cur, boxes |-> boxes]

\* The worker after _reap_overdue; slot names what it may create.
Reaped(slot) == IF Overdue = {} THEN Untouched ELSE Abandoned(slot)

NeedsThread(w) == IF w.owner = NoThread THEN TRUE ELSE ~Alive(w.owner)

\* _ensure_thread on worker w: a dead or missing thread is replaced.
Ensure(w, slot) ==
    IF NeedsThread(w)
    THEN /\ owner' = slot
         /\ threads' = [threads EXCEPT ![slot] = [Absent EXCEPT !.pc = "top"]]
         /\ stopping' = FALSE
    ELSE /\ owner' = w.owner
         /\ UNCHANGED <<threads, stopping>>

\* The slot a new thread and a new queue would take: the lowest free one.  A
\* loop call that needs one and finds none is beyond the bound Threads.
NewSlot == CHOOSE t \in FreeSlots : \A u \in FreeSlots : t <= u
HasRoom == (Overdue # {} \/ NeedsThread(Untouched)) => FreeSlots # {}
\* A thread between its comparison of the generation and what it does with it.
InWindow == \E t \in Threads : threads[t].pc \in {"fetch", "publish"}
ReapNow == Overdue = {} \/ ~Prompt \/ ~InWindow
SlotToUse == IF FreeSlots = {} THEN NoThread ELSE NewSlot

\* submit(k, fn).
Submit(k) ==
    /\ Numbered => serial < MaxJobs
    /\ HasRoom /\ ReapNow
    /\ LET slot == SlotToUse
           w == Reaped(slot)
           job == [key |-> k, id |-> IF Numbered THEN serial + 1 ELSE 0]
       IN  IF w.inflight[k] # Free
           THEN /\ inflight' = w.inflight /\ cur' = w.cur /\ boxes' = w.boxes
                /\ IF Overdue = {}
                   THEN UNCHANGED <<owner, threads, stopping>>
                   ELSE Ensure(w, slot)
                /\ UNCHANGED serial
           ELSE /\ inflight' = [w.inflight EXCEPT ![k] = Deadline]
                /\ cur' = w.cur
                /\ boxes' = [w.boxes EXCEPT ![w.cur] = Append(@, job)]
                /\ Ensure(w, slot)
                /\ serial' = IF Numbered THEN serial + 1 ELSE serial
    /\ UNCHANGED <<results, hangs, deaths>>

\* drain(): a worker that has run is revived, one that never ran is not.
Drain ==
    /\ HasRoom /\ ReapNow
    /\ LET slot == SlotToUse
           w == Reaped(slot)
       IN  /\ inflight' = w.inflight /\ cur' = w.cur /\ boxes' = w.boxes
           /\ IF Overdue = {} /\ owner = NoThread
              THEN UNCHANGED <<owner, threads, stopping>>
              ELSE Ensure(w, slot)
    /\ results' = <<>>
    /\ UNCHANGED <<serial, hangs, deaths>>

\* close(): the thread is told to stop and woken by a sentinel.  Bound: it is
\* not called again while the sentinel of an earlier call still waits.
Close ==
    /\ ~stopping
    /\ \A i \in 1..Len(boxes[cur]) : boxes[cur][i] # Sentinel
    /\ stopping' = TRUE
    /\ boxes' = [boxes EXCEPT ![cur] = Append(@, Sentinel)]
    /\ UNCHANGED <<inflight, owner, threads, cur, results, serial, hangs, deaths>>

-----------------------------------------------------------------------------
(* The thread's side: _run, one read of shared state at a time.            *)

Goto(t, pc) == threads' = [threads EXCEPT ![t].pc = pc]
Quit(t) == threads' = [threads EXCEPT ![t] = Absent]

\* The loop head: retire when stopped or abandoned.
Top(t) ==
    /\ threads[t].pc = "top"
    /\ IF stopping \/ Stale(t) THEN Quit(t) ELSE Goto(t, "fetch")
    /\ UNCHANGED <<loopless, boxes, hangs, deaths>>

\* self._q is looked up after the generation was compared.
Fetch(t) ==
    /\ threads[t].pc = "fetch"
    /\ threads' = [threads EXCEPT ![t].pc = "wait", ![t].box = cur]
    /\ UNCHANGED <<loopless, boxes, hangs, deaths>>

\* What get handed over: a job to run, or the sentinel.
Taken(t, item) ==
    IF item = Sentinel THEN Quit(t)
    ELSE threads' = [threads EXCEPT ![t] = [pc |-> "run", box |-> 0,
                                            job |-> item, age |-> 0]]

\* Mutation of Get: it waits without a timeout.
GetForever(t) ==
    /\ threads[t].pc = "wait"
    /\ LET b == threads[t].box
       IN  /\ boxes[b] # <<>>
           /\ boxes' = [boxes EXCEPT ![b] = Tail(@)]
           /\ Taken(t, Head(boxes[b]))
    /\ UNCHANGED <<loopless, hangs, deaths>>

\* get returned an item or timed out on an empty queue.
Get(t) ==
    /\ threads[t].pc = "wait"
    /\ LET b == threads[t].box
       IN  IF boxes[b] = <<>>
           THEN /\ threads' = [threads EXCEPT ![t].pc = "top", ![t].box = 0]
                /\ UNCHANGED boxes
           ELSE /\ boxes' = [boxes EXCEPT ![b] = Tail(@)]
                /\ Taken(t, Head(boxes[b]))
    /\ UNCHANGED <<loopless, hangs, deaths>>

\* The venue call returned or raised: either is a result.
Return(t) ==
    /\ threads[t].pc \in {"run", "hung"}
    /\ Goto(t, "done")
    /\ UNCHANGED <<loopless, boxes, hangs, deaths>>

Hang(t) ==
    /\ threads[t].pc = "run"
    /\ hangs < MaxHangs
    /\ hangs' = hangs + 1
    /\ Goto(t, "hung")
    /\ UNCHANGED <<loopless, boxes, deaths>>

\* Abandoned while it worked: the result is thrown away.
Recheck(t) ==
    /\ threads[t].pc = "done"
    /\ IF Stale(t) THEN Quit(t) ELSE Goto(t, "publish")
    /\ UNCHANGED <<loopless, boxes, hangs, deaths>>

\* Mutation of Publish: nothing is dropped.
PublishAll(t) ==
    /\ threads[t].pc = "publish"
    /\ inflight' = [inflight EXCEPT ![threads[t].job.key] = Free]
    /\ results' = Append(results, threads[t].job)
    /\ threads' = [threads EXCEPT ![t] = [Absent EXCEPT !.pc = "top"]]
    /\ UNCHANGED <<owner, cur, boxes, stopping, serial, hangs, deaths>>

\* Under the lock; the oldest results are dropped past the bound.
Publish(t) ==
    /\ threads[t].pc = "publish"
    /\ LET job == threads[t].job
           all == Append(results, job)
       IN  /\ inflight' = [inflight EXCEPT ![job.key] = Free]
           /\ results' = IF Len(all) > MaxResults THEN Tail(all) ELSE all
    /\ threads' = [threads EXCEPT ![t] = [Absent EXCEPT !.pc = "top"]]
    /\ UNCHANGED <<owner, cur, boxes, stopping, serial, hangs, deaths>>

\* An error the module did not foresee ends the thread.
Die(t) ==
    /\ Alive(t)
    /\ deaths < MaxDeaths
    /\ deaths' = deaths + 1
    /\ Quit(t)
    /\ UNCHANGED <<loopless, boxes, hangs>>

\* A thread that could take a step other than waiting for the venue.
Ready(t) ==
    \/ threads[t].pc \in {"top", "fetch", "done", "publish"}
    \/ threads[t].pc = "wait" /\ boxes[threads[t].box] # <<>>
    \/ threads[t].pc = "run" /\ threads[t].age >= CallTime

\* The monotonic clock.  A prompt loop has asked for every key by then.
Tick ==
    /\ Prompt => /\ \A t \in Threads : ~Ready(t)
                 /\ \A k \in Keys : inflight[k] # Free
    /\ inflight' = [k \in Keys |-> IF inflight[k] > 0 THEN inflight[k] - 1
                                   ELSE inflight[k]]
    /\ threads' = [t \in Threads |->
         IF threads[t].pc = "run" /\ threads[t].age < CallTime
         THEN [threads[t] EXCEPT !.age = @ + 1] ELSE threads[t]]
    /\ UNCHANGED <<owner, cur, boxes, results, stopping, serial, hangs, deaths>>

ThreadStep(t) ==
    \/ Top(t) \/ Fetch(t) \/ Get(t) \/ Return(t) \/ Recheck(t) \/ Publish(t)

Next ==
    \/ \E k \in Keys : Submit(k)
    \/ Drain
    \/ Close
    \/ \E t \in Threads : ThreadStep(t) \/ Hang(t) \/ Die(t)
    \/ Tick

Spec == Init /\ [][Next]_vars

(***************************************************************************)
(* Fairness.  The operating system runs every thread and time passes; the  *)
(* loop ticks for ever and asks for every key again (each caller of submit *)
(* sits in the tick).  Nobody closes the worker while the loop runs, and a *)
(* hung call may never return.                                             *)
(***************************************************************************)
Runs(t) ==
    \/ Top(t) \/ Fetch(t) \/ Get(t) \/ Recheck(t) \/ Publish(t)
    \/ threads[t].pc = "run" /\ Return(t)

LoopNext ==
    \/ \E k \in Keys : Submit(k)
    \/ Drain
    \/ \E t \in Threads : ThreadStep(t) \/ Hang(t) \/ Die(t)
    \/ Tick

LoopSpec ==
    /\ Init /\ [][LoopNext]_vars
    /\ \A k \in Keys : WF_vars(Submit(k))
    /\ WF_vars(Drain)
    /\ []<><<Tick>>_vars
    /\ \A t \in Threads : WF_vars(Runs(t))

CloseSpec == Spec /\ \A t \in Threads : WF_vars(Runs(t))

-----------------------------------------------------------------------------
(* Properties.                                                             *)

\* The jobs a submission number is found in: queues, threads and mailbox.
Copies(id) ==
    [b \in Boxes |-> {i \in 1..Len(boxes[b]) : boxes[b][i].id = id}]
CopyCount(id) ==
    LET inBoxes == {p \in Boxes \X (1..MaxJobs) : p[2] \in Copies(id)[p[1]]}
        held == {t \in Threads : threads[t].job.id = id}
        done == {i \in 1..Len(results) : results[i].id = id}
    IN  Cardinality(inBoxes) + Cardinality(held) + Cardinality(done)

\* No submission is ever in two places: abandoning a queue cannot make two
\* threads carry out the same cancel or read.
JobsOnce == \A id \in 1..serial : CopyCount(id) <= 1

\* A key in flight is released sooner or later, by its result or by its
\* deadline, whatever its call does.
Released == \A k \in Keys : inflight[k] # Free ~> inflight[k] = Free

\* Calls that hang do not stop the answers: for ever
\* after, every key the loop keeps asking for is answered again.
Answered == \A k \in Keys : []<>(\E i \in 1..Len(results) : results[i].key = k)

\* Once close() holds, every thread ends, unless its call hangs.
CloseEnds ==
    <>[]stopping => <>[](\A t \in Threads : threads[t].pc \in {"none", "hung"})

\* A key in flight is queued or running: this one does not hold, a backlog is
\* dropped with its keys still in flight (README, 5).
InFlightIsBacked ==
    \A k \in Keys : inflight[k] # Free =>
        \/ \E i \in 1..Len(boxes[cur]) : boxes[cur][i].key = k
        \/ \E t \in Threads : threads[t].job.key = k
=============================================================================
