--------------------------- MODULE OrderLifecycle ---------------------------
(***************************************************************************)
(* The resting orders of the live pregame executor (pregame_exec.py): how  *)
(* an order is placed, repriced, cancelled and confirmed dead, and how the *)
(* fills of it reach the hedge through four detectors that overlap: the    *)
(* sockets, the batched off-loop fill poll, the account-wide Kalshi fill   *)
(* sweep and the read that confirms a cancel.                              *)
(*                                                                         *)
(* The venue, the loop and the worker thread interleave.  A cancel retry   *)
(* and a fill poll run on the worker while the loop goes on; their answers *)
(* are decided later, on the loop, against what the book holds by then.    *)
(* One share of order o is the pair <<o, i>>: the i-th share the venue     *)
(* matched, which on Kalshi is also one row of the fill history.           *)
(***************************************************************************)
EXTENDS Integers, FiniteSets

CONSTANTS
    Keys,        \* candidates: one resting order each, on a market of its own
    MaxOrders,   \* bound: orders ever placed
    Size,        \* shares of an order
    Faults,      \* the kinds of failure the venues and the worker may show
    MaxFaults,   \* bound: failures in one behaviour
    Overlap,     \* may a key be quoted again before its cancel job answered
    ColdStart    \* does the first sweep still have to prime the fill ids

FaultKinds == {"delete", "ghost", "read", "route", "list", "ack", "fills",
               "job", "hedge"}

ASSUME OrderAssumption ==
    /\ Keys # {}
    /\ MaxOrders \in Nat \ {0} /\ Size \in Nat \ {0} /\ MaxFaults \in Nat
    /\ Faults \subseteq FaultKinds
    /\ Overlap \in BOOLEAN /\ ColdStart \in BOOLEAN

None == 0
Oids == 1 .. MaxOrders
Shares == Oids \X (1 .. Size)

VARIABLES
    onPoly,   \* the keys that rest on Polymarket, the others on Kalshi; fixed
    venue,    \* order -> what the exchange knows of it
    book,     \* open_orders, matched_seen, _cancel_attempts
    job,      \* key -> the off-loop cancel retry of it
    poll,     \* the off-loop fill poll, and the loop's progress through it
    marked,   \* _seen_fill_ids
    told,     \* rows handed to _untracked_fill
    warm,     \* _last_fills_sweep_ts # 0: the sweep has been primed
    halted,   \* caps.halted
    faults    \* failures so far

vars == <<onPoly, venue, book, job, poll, marked, told, warm, halted, faults>>

Key(o) == venue[o].key
Resting(o) == venue[o].status = "resting"
OnPoly(k) == k \in onPoly
KalshiShares == {s \in Shares : /\ venue[s[1]].status # "unborn"
                                /\ ~OnPoly(Key(s[1]))
                                /\ s[2] <= venue[s[1]].matched}

\* The failures one step may suffer, of the given kinds, and their price.
Suffered(kinds) ==
    {bad \in SUBSET (Faults \cap kinds) : faults + Cardinality(bad) <= MaxFaults}
Pay(bad) == faults' = faults + Cardinality(bad)

NoJob == [stage |-> "none", oid |-> None, listed |-> FALSE,
          read |-> [got |-> "unknown", status |-> "unborn", matched |-> 0]]
NoPoll == [stage |-> "idle", rows |-> <<>>, fills |-> {}, todo |-> {}]

Init ==
    /\ onPoly \in SUBSET Keys
    /\ venue = [o \in Oids |-> [key |-> CHOOSE k \in Keys : TRUE,
                                status |-> "unborn", matched |-> 0,
                                acked |-> FALSE]]
    /\ book = [open |-> [k \in Keys |-> None], seen |-> [o \in Oids |-> 0],
               tried |-> {}, owed |-> [k \in Keys |-> "no"]]
    /\ job = [k \in Keys |-> NoJob]
    /\ poll = NoPoll
    /\ marked = {} /\ told = {}
    /\ warm = ~ColdStart
    /\ halted = FALSE
    /\ faults = 0

-----------------------------------------------------------------------------
(* Reading and cancelling at the venue (external).                         *)

Deleted(v, o) ==
    IF v[o].status = "resting" THEN [v EXCEPT ![o].status = "canceled"] ELSE v

\* _venue_get_order, then _venue_find_resting when it says nothing.  A Kalshi
\* order read that fails answers {}, so both venues fall through to the list.
Reading(v, o, bad) ==
    IF "read" \notin bad
    THEN [got |-> "record", status |-> v[o].status, matched |-> v[o].matched]
    ELSE IF "list" \in bad
    THEN [got |-> "unknown", status |-> "unborn", matched |-> 0]
    ELSE IF v[o].status = "resting"
    THEN [got |-> "row", status |-> "resting", matched |-> v[o].matched]
    ELSE [got |-> "absent", status |-> "unborn", matched |-> 0]

\* Mutant: an empty order record counts as a dead order, whatever still rests.
StateFailOpen(r, seen) ==
    IF r.got # "record" \/ r.status = "canceled" THEN "canceled"
    ELSE IF r.status = "filled" \/ r.matched > seen THEN "filled" ELSE "resting"

\* _venue_order_state for an order of which the book has seen `seen' shares.
State(r, seen) ==
    CASE r.got = "record" /\ r.status = "canceled" -> "canceled"
      [] r.got = "record" /\ (r.status = "filled" \/ r.matched > seen) -> "filled"
      [] r.got = "record" \/ r.got = "row" -> "resting"
      [] r.got = "absent" -> "canceled"
      [] OTHER -> "unknown"

-----------------------------------------------------------------------------
(* The book: what the loop does with a fill and with a confirmed cancel.   *)

Closed(b, k) ==
    [b EXCEPT !.open[k] = None, !.tried = @ \ {k}, !.owed[k] = "no"]

\* _on_fill_detected: the shares above the high-water mark go to the hedge;
\* a filled order closes, a partial one on a halted book owes a forced cancel.
Detected(b, k, total, routing) ==
    LET o == b.open[k]
        c == [b EXCEPT !.seen[o] = total]
    IN  IF o = None \/ total <= b.seen[o] THEN b
        ELSE IF total >= Size THEN Closed(c, k)
        ELSE IF halted
        THEN [c EXCEPT !.owed[k] = IF routing THEN "routing" ELSE "fresh"]
        ELSE c

\* The hedge chain may raise: the delta is then not consumed.
Hedged(b, k, total, routing, bad) ==
    IF "hedge" \in bad THEN b ELSE Detected(b, k, total, routing)

\* _cancel_confirmed for the order tracked under k: a read above the high-
\* water mark is a fill that raced the cancel.  It is routed when the caller
\* has the quotes to hedge with, and refuses the cancel when it has not.
Refused(b, k, r, store, routing) ==
    r.matched > b.seen[b.open[k]] /\ ~store /\ ~routing

Raced(b, k, r, store, routing, bad) ==
    IF r.matched > b.seen[b.open[k]] /\ store /\ ~routing
    THEN Hedged(b, k, r.matched, TRUE, bad) ELSE b

Confirmed(b, k, r, listed, store, routing) ==
    /\ ~Refused(b, k, r, store, routing)
    /\ listed \/ State(r, b.seen[b.open[k]]) = "canceled"

\* The book after the decision.  `listed': the answer to the DELETE names it.
Decided(b, k, r, listed, store, routing, bad) ==
    IF Confirmed(b, k, r, listed, store, routing)
    THEN Closed(Raced(b, k, r, store, routing, bad), k)
    ELSE Raced(b, k, r, store, routing, bad)

-----------------------------------------------------------------------------
(* Placing an order.                                                       *)

Unborn == {o \in Oids : venue[o].status = "unborn"}
Next1 == CHOOSE o \in Unborn : \A p \in Unborn : o <= p

LoopFree == /\ poll.stage \notin {"orders", "fills"}
            /\ \A k \in Keys : book.owed[k] = "no"

MayQuote(k) == ~halted /\ Unborn # {} /\ (Overlap \/ job[k] = NoJob)

\* place_or_reprice from the POST on: the order rests (a Polymarket one may
\* match at once); without the acknowledgement it rests unknown to the book.
Posted(v, b, k, m, bad) ==
    LET o == Next1
        acked == "ack" \notin bad
        c == [b EXCEPT !.open[k] = o]
    IN  /\ venue' = [v EXCEPT ![o] = [key |-> k, matched |-> m, acked |-> acked,
                        status |-> IF m = Size THEN "filled" ELSE "resting"]]
        /\ book' = IF acked THEN Hedged(c, k, m, FALSE, bad) ELSE b

\* _cancel_ghost_order: the DELETE, and a read when its answer names nothing.
\* The ghost was never tracked: every matched share is above its mark of 0.
Cleared(v, o, bad) ==
    \/ OnPoly(v[o].key) /\ "ghost" \notin bad
    \/ LET w == IF "ghost" \in bad THEN v ELSE Deleted(v, o)
       IN  State(Reading(w, o, bad), 0) \in {"canceled", "filled"}

\* Mutant: a fresh order is posted without the stack guard.
NoGhosts(k) == {}

Ghosts(k) == {o \in Oids : Resting(o) /\ Key(o) = k /\ book.open[k] # o}
Swept(k, bad) == [o \in Oids |-> IF o \in Ghosts(k) /\ "ghost" \notin bad
                                 THEN Deleted(venue, o)[o] ELSE venue[o]]

\* place_or_reprice with nothing tracked: _stack_guard_ok lists the market,
\* cancels every order of ours it does not know, and only then is it posted.
Place(k) ==
    /\ LoopFree /\ book.open[k] = None /\ MayQuote(k)
    /\ \E bad \in Suffered({"list", "ghost", "read", "ack", "hedge"}), m \in 0 .. 1 :
        /\ m = 0 \/ OnPoly(k)
        /\ Pay(bad)
        /\ IF "list" \in bad
           THEN UNCHANGED <<venue, book>>
           ELSE IF \A o \in Ghosts(k) : Cleared(venue, o, bad)
           THEN Posted(Swept(k, bad), book, k, m, bad)
           ELSE venue' = Swept(k, bad) /\ UNCHANGED book
    /\ UNCHANGED <<onPoly, job, poll, marked, told, warm, halted>>

-----------------------------------------------------------------------------
(* Cancelling: the first attempt and every forced one are made inline, each
   retry is handed to the worker and decided when its answer is drained.    *)

\* After the decision a reprice goes straight on to the new order, past the
\* stack guard: the guard is only asked when no order was tracked before.
Onward(v, b, k, again, bad) ==
    IF again /\ b.open[k] = None /\ MayQuote(k)
    THEN Posted(v, b, k, 0, bad)
    ELSE venue' = v /\ book' = b

\* The DELETE of a tracked order, the confirming read and the decision.
CancelInline(k, store, routing, again) ==
    LET o == book.open[k]
        tried == [book EXCEPT !.tried = @ \cup {k}, !.owed[k] = "no"]
    IN  \E bad \in Suffered({"delete", "read", "list", "hedge", "ack"}) :
            LET v == IF "delete" \in bad THEN venue ELSE Deleted(venue, o)
                listed == /\ "delete" \notin bad /\ OnPoly(k) /\ Resting(o)
                r == Reading(v, o, bad)
            IN  /\ "ack" \in bad => again
                /\ Pay(bad)
                /\ Onward(v, Decided(tried, k, r, listed, store, routing, bad), k,
                          again /\ Confirmed(tried, k, r, listed, store, routing), bad)
                /\ UNCHANGED <<onPoly, job, poll, marked, told, warm, halted>>

\* _cancel asked by the quoting loop; a reprice asks for the slot again.
Cancel(k) ==
    /\ LoopFree /\ book.open[k] # None /\ k \notin book.tried
    /\ \E again \in BOOLEAN : CancelInline(k, TRUE, FALSE, again)

\* cancel_all, cancel_inplay_open, set_kalshi_feed_ok: forced, without quotes.
ForceCancel(k) ==
    /\ LoopFree /\ book.open[k] # None
    /\ CancelInline(k, FALSE, FALSE, FALSE)

\* The trailing "halt_after_partial" cancel of _on_fill_detected.
HaltCancel(k) ==
    /\ book.owed[k] # "no"
    /\ CancelInline(k, TRUE, book.owed[k] = "routing", FALSE)

\* _cancel of an order whose first attempt did not confirm: a job is queued,
\* unless the worker still holds one under this key.
CancelRetry(k) ==
    /\ LoopFree /\ book.open[k] # None /\ k \in book.tried /\ job[k] = NoJob
    /\ job' = [job EXCEPT ![k] = [NoJob EXCEPT !.stage = "queued",
                                              !.oid = book.open[k]]]
    /\ UNCHANGED <<onPoly, venue, book, poll, marked, told, warm, halted, faults>>

\* _job on the worker: the DELETE of the order it captured ...
JobDelete(k) ==
    /\ job[k].stage = "queued"
    /\ \E bad \in Suffered({"delete"}) :
        /\ Pay(bad)
        /\ venue' = IF "delete" \in bad THEN venue ELSE Deleted(venue, job[k].oid)
        /\ job' = [job EXCEPT ![k].stage = "deleted",
                     ![k].listed = /\ "delete" \notin bad /\ OnPoly(k)
                                   /\ Resting(job[k].oid)]
    /\ UNCHANGED <<onPoly, book, poll, marked, told, warm, halted>>

\* ... and the read that is to confirm it.
JobRead(k) ==
    /\ job[k].stage = "deleted"
    /\ \E bad \in Suffered({"read", "list"}) :
        /\ Pay(bad)
        /\ job' = [job EXCEPT ![k].stage = "done",
                              ![k].read = Reading(venue, job[k].oid, bad)]
    /\ UNCHANGED <<onPoly, venue, book, poll, marked, told, warm, halted>>

\* The job raises, is abandoned by the worker or lost with its thread.
JobLost(k) ==
    /\ job[k] # NoJob
    /\ \E bad \in Suffered({"job"}) : bad # {} /\ Pay(bad)
    /\ job' = [job EXCEPT ![k] = NoJob]
    /\ UNCHANGED <<onPoly, venue, book, poll, marked, told, warm, halted>>

\* _drain_cancel_results: the answer is decided for the order the key holds
\* NOW, whose id decides whether the DELETE named it; a job that read nothing
\* leaves the loop to look for that order in the resting list.
ApplyCancel(k) ==
    /\ job[k].stage = "done"
    /\ LoopFree \/ \E q \in Keys : book.owed[q] # "no"
    /\ job' = [job EXCEPT ![k] = NoJob]
    /\ IF book.open[k] = None
       THEN /\ book' = [book EXCEPT !.tried = @ \ {k}]
            /\ UNCHANGED <<venue, faults>>
       ELSE \E bad \in Suffered({"list", "hedge", "ack"}), store \in BOOLEAN,
               again \in BOOLEAN :
                LET o == book.open[k]
                    r == IF job[k].read.got # "unknown" THEN job[k].read
                         ELSE Reading(venue, o, bad \cup {"read"})
                    listed == job[k].listed /\ job[k].oid = o
                IN  /\ "ack" \in bad => again
                    /\ again => store /\ LoopFree
                    /\ Pay(bad)
                    /\ Onward(venue, Decided(book, k, r, listed, store, FALSE, bad),
                              k, again /\ Confirmed(book, k, r, listed, store, FALSE), bad)
    /\ UNCHANGED <<onPoly, poll, marked, told, warm, halted>>

-----------------------------------------------------------------------------
(* The off-loop fill poll: one job reads every tracked order and the fills
   history, the loop applies the batch order by order and fill by fill.     *)

Tracked == {book.open[k] : k \in Keys} \ {None}

SubmitPoll ==
    /\ LoopFree /\ poll.stage = "idle"
    /\ poll' = [NoPoll EXCEPT !.stage = "reading", !.todo = Tracked]
    /\ UNCHANGED <<onPoly, venue, book, job, marked, told, warm, halted, faults>>

\* _fill_poll_job, one order: its row in the batched list, or a read of its
\* own.  A read that fails is an exception on Polymarket, {} on Kalshi.
PollRead(o) ==
    /\ poll.stage = "reading" /\ o \in poll.todo
    /\ \E bad \in Suffered({"list", "read"}) :
        LET r == IF Resting(o) /\ "list" \notin bad THEN Reading(venue, o, {})
                 ELSE IF "read" \notin bad THEN Reading(venue, o, {})
                 ELSE IF OnPoly(Key(o)) THEN Reading(venue, o, {"read", "list"})
                 ELSE IF "list" \in bad
                      THEN [Reading(venue, o, bad) EXCEPT !.got = "blank"]
                      ELSE Reading(venue, o, {"read"})
        IN  /\ Pay(bad)
            /\ poll' = [poll EXCEPT !.todo = @ \ {o},
                          !.rows = [p \in DOMAIN @ \cup {o} |->
                                       IF p = o THEN r ELSE @[p]]]
    /\ UNCHANGED <<onPoly, venue, book, job, marked, told, warm, halted>>

\* _fill_poll_job, last: fills_since, which answers nothing when it failed.
PollFills ==
    /\ poll.stage = "reading" /\ poll.todo = {}
    /\ \E bad \in Suffered({"fills"}) :
        /\ Pay(bad)
        /\ poll' = [poll EXCEPT !.stage = "done",
                       !.fills = IF "fills" \in bad THEN {} ELSE KalshiShares]
    /\ UNCHANGED <<onPoly, venue, book, job, marked, told, warm, halted>>

\* Mutant: the key of a poll that was lost stays in flight, so none follows.
PollLostForGood ==
    /\ poll.stage \in {"reading", "done"}
    /\ \E bad \in Suffered({"job"}) : bad # {} /\ Pay(bad)
    /\ poll' = [NoPoll EXCEPT !.stage = "lost"]
    /\ UNCHANGED <<onPoly, venue, book, job, marked, told, warm, halted>>

PollLost ==
    /\ poll.stage \in {"reading", "done"}
    /\ \E bad \in Suffered({"job"}) : bad # {} /\ Pay(bad)
    /\ poll' = NoPoll
    /\ UNCHANGED <<onPoly, venue, book, job, marked, told, warm, halted>>

\* _apply_fill_poll_batch: poll_open_orders walks the orders tracked now ...
ApplyPoll ==
    /\ LoopFree /\ poll.stage = "done"
    /\ poll' = [poll EXCEPT !.stage = "orders",
                   !.todo = {k \in Keys : book.open[k] \in DOMAIN poll.rows}]
    /\ UNCHANGED <<onPoly, venue, book, job, marked, told, warm, halted, faults>>

\* The look at the resting list that an empty order record calls for, made now
\* when the batch has none: gone only when the list positively lacks it.
Gone(o, r, bad) ==
    IF r.got = "blank" THEN ~Resting(o) /\ "list" \notin bad
    ELSE r.got = "absent"

\* A fill is routed first, and only an order without an unrouted fill is
\* released: when its record is canceled, or when it is gone and never filled.
Polled(k, r, bad) ==
    LET o == book.open[k]
    IN  IF r.got \in {"blank", "absent"}
        THEN IF book.seen[o] = 0 /\ Gone(o, r, bad) THEN Closed(book, k) ELSE book
        ELSE IF r.got = "unknown" THEN book
        ELSE IF r.matched > book.seen[o] THEN Hedged(book, k, r.matched, FALSE, bad)
        ELSE IF r.status = "canceled" THEN Closed(book, k)
        ELSE book

\* ... one after the other, unless it closed since the walk began.
PollOrder(k) ==
    /\ poll.stage = "orders" /\ k \in poll.todo
    /\ \A q \in Keys : book.owed[q] = "no"
    /\ \E bad \in Suffered({"hedge", "list"}) :
        /\ Pay(bad)
        /\ book' = IF book.open[k] = None THEN book
                   ELSE Polled(k, poll.rows[book.open[k]], bad)
    /\ poll' = [poll EXCEPT !.todo = @ \ {k}]
    /\ UNCHANGED <<onPoly, venue, job, marked, told, warm, halted>>

\* poll_kalshi_fills: the first sweep of the process only marks what it read.
SweepStart ==
    /\ poll.stage = "orders" /\ poll.todo = {}
    /\ \A q \in Keys : book.owed[q] = "no"
    /\ warm' = TRUE
    /\ IF warm
       THEN poll' = [poll EXCEPT !.stage = "fills"] /\ UNCHANGED marked
       ELSE poll' = NoPoll /\ marked' = marked \cup poll.fills
    /\ UNCHANGED <<onPoly, venue, book, job, told, halted, faults>>

\* _route_venue_cumulative: the fill signal is only a hint, the order's own
\* record says how much is filled; unreadable, one share more than was seen.
Smaller(m, n) == IF m < n THEN m ELSE n

\* Mutants: the hint is added to what was seen; the record is added to it.
CumulativeAdded(o, bad) == Smaller(Size, book.seen[o] + 1)
CumulativeTwice(o, bad) == book.seen[o] + venue[o].matched

Cumulative(o, bad) == IF "route" \in bad THEN Smaller(Size, book.seen[o] + 1)
                      ELSE venue[o].matched
Routed(k, bad) == Hedged(book, k, Cumulative(book.open[k], bad), FALSE, bad)

\* Mutant: a fill of an order nobody tracks is only marked.
Unreported(s) == told

\* _untracked_fill: ledgered, and an orphan when the position is unexplained.
Reported(s) == told \cup {s}

\* One row of the sweep: ours, or untracked and reported; marked either way.
SweepFill(s) ==
    /\ poll.stage = "fills" /\ s \in poll.fills \ marked
    /\ \A q \in Keys : book.owed[q] = "no"
    /\ marked' = marked \cup {s}
    /\ IF book.open[Key(s[1])] = s[1]
       THEN \E bad \in Suffered({"route", "hedge"}) :
                Pay(bad) /\ book' = Routed(Key(s[1]), bad) /\ UNCHANGED told
       ELSE told' = Reported(s) /\ UNCHANGED <<book, faults>>
    /\ UNCHANGED <<onPoly, venue, job, poll, warm, halted>>

SweepEnd ==
    /\ poll.stage = "fills" /\ poll.fills \subseteq marked
    /\ \A q \in Keys : book.owed[q] = "no"
    /\ poll' = NoPoll
    /\ UNCHANGED <<onPoly, venue, book, job, marked, told, warm, halted, faults>>

-----------------------------------------------------------------------------
(* The sockets and the venue (external).                                   *)

\* on_kalshi_fill: a frame may come late, twice or never.  One of an order
\* nobody tracks stays unmarked and is left to the sweep.
KalshiFrame(s) ==
    /\ LoopFree /\ s \in KalshiShares \ marked
    /\ book.open[Key(s[1])] = s[1]
    /\ marked' = marked \cup {s}
    /\ \E bad \in Suffered({"route", "hedge"}) :
        Pay(bad) /\ book' = Routed(Key(s[1]), bad)
    /\ UNCHANGED <<onPoly, venue, job, poll, told, warm, halted>>

\* on_order_update: the Polymarket frame carries a cumulative count.
PolyFrame(o, m) ==
    /\ LoopFree /\ venue[o].status # "unborn" /\ OnPoly(Key(o))
    /\ m <= venue[o].matched /\ book.open[Key(o)] = o /\ m > book.seen[o]
    /\ \E bad \in Suffered({"hedge"}) :
        Pay(bad) /\ book' = Hedged(book, Key(o), m, FALSE, bad)
    /\ UNCHANGED <<onPoly, venue, job, poll, marked, told, warm, halted>>

VenueFill(o) ==
    /\ Resting(o)
    /\ venue' = [venue EXCEPT ![o].matched = @ + 1,
                   ![o].status = IF venue[o].matched + 1 = Size THEN "filled" ELSE @]
    /\ UNCHANGED <<onPoly, book, job, poll, marked, told, warm, halted, faults>>

VenueCancel(o) ==
    /\ Resting(o)
    /\ venue' = Deleted(venue, o)
    /\ UNCHANGED <<onPoly, book, job, poll, marked, told, warm, halted, faults>>

Halt ==
    /\ LoopFree /\ ~halted
    /\ halted' = TRUE
    /\ UNCHANGED <<onPoly, venue, book, job, poll, marked, told, warm, faults>>

PollStep == \/ SubmitPoll \/ PollFills \/ ApplyPoll \/ SweepStart \/ SweepEnd
            \/ \E o \in Oids : PollRead(o)
            \/ \E k \in Keys : PollOrder(k)
            \/ \E s \in Shares : SweepFill(s)
            \/ \E k \in Keys : HaltCancel(k)

Next == \/ PollStep \/ PollLost \/ Halt
        \/ \E k \in Keys : \/ Place(k) \/ Cancel(k) \/ ForceCancel(k)
                           \/ CancelRetry(k) \/ JobDelete(k) \/ JobRead(k)
                           \/ JobLost(k) \/ ApplyCancel(k)
        \/ \E s \in Shares : KalshiFrame(s)
        \/ \E o \in Oids : \/ VenueFill(o) \/ VenueCancel(o)
                           \/ \E m \in 1 .. Size : PolyFrame(o, m)

Spec == Init /\ [][Next]_vars

\* The main loop keeps polling and the worker keeps answering: every step of
\* the fill poll and every forced cancel it owes is taken in the end.
PollSpec == Spec /\ WF_vars(PollStep)

-----------------------------------------------------------------------------
(* Properties.                                                             *)

\* Types of the variables; every tracked order is an order of its own key.
TypeOK ==
    /\ onPoly \subseteq Keys
    /\ venue \in [Oids -> [key : Keys, matched : 0 .. Size, acked : BOOLEAN,
                    status : {"unborn", "resting", "canceled", "filled"}]]
    /\ book.open \in [Keys -> Oids \cup {None}]
    /\ \A k \in Keys : book.open[k] # None => Key(book.open[k]) = k
    /\ book.seen \in [Oids -> 0 .. Size]
    /\ book.tried \subseteq Keys
    /\ book.owed \in [Keys -> {"no", "fresh", "routing"}]
    /\ \A k \in Keys : /\ job[k].stage \in {"none", "queued", "deleted", "done"}
                       /\ job[k].oid \in Oids \cup {None}
    /\ poll.stage \in {"idle", "reading", "done", "orders", "fills"}
    /\ DOMAIN poll.rows \subseteq Oids
    /\ poll.fills \subseteq Shares /\ marked \subseteq Shares /\ told \subseteq Shares
    /\ warm \in BOOLEAN /\ halted \in BOOLEAN /\ faults \in 0 .. MaxFaults

\* Four detectors report the same executions; together they never hand the
\* hedge more shares of an order than the venue matched (matched_seen is "a
\* high-water mark of what the VENUE says is filled").
SeenIsVenueTruth == \A o \in Oids : book.seen[o] <= venue[o].matched

\* An order leaves the book only when it is dead: whatever the venue still
\* holds of the acknowledged orders is tracked, so no cancel forgets one.
ClosedIsDead ==
    \A o \in Oids : Resting(o) /\ venue[o].acked => book.open[Key(o)] = o

\* The stack guard's promise: never two orders of ours resting on one market,
\* even after a post whose acknowledgement was lost.
OneResting ==
    \A o, p \in Oids : Resting(o) /\ Resting(p) /\ Key(o) = Key(p) => o = p

\* A share matched on Kalshi is never forgotten: it was hedged or reported,
\* its order is still tracked, or the next sweep will still meet its row.
KalshiFillsKept ==
    \A s \in KalshiShares :
        \/ s[2] <= book.seen[s[1]] \/ s \in told
        \/ book.open[Key(s[1])] = s[1] \/ s \notin marked

\* Every share the venue ever matches is hedged or reported in the end.
Answered(s) == s[2] <= book.seen[s[1]] \/ s \in told
EveryFillAnswered ==
    \A s \in Shares : s[2] <= venue[s[1]].matched ~> Answered(s)
=============================================================================
