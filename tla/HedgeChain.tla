------------------------------ MODULE HedgeChain ------------------------------
(***************************************************************************)
(* From a reported fill to a booked pair (pregame_exec.py): the hedge, the *)
(* provisional pair that waits for its rest leg to be delivered, the       *)
(* verified unwind of what could not be hedged, the registry of what is    *)
(* held on purpose, and the nets that look for what is held by mistake.    *)
(*                                                                         *)
(* One market: orders rest on Polymarket, where a matched share is         *)
(* delivered later or never, and are hedged on Kalshi.  A chain runs to    *)
(* its end inside one loop step; deliveries, confirmation reads, position  *)
(* batches and crashes come between chains, and a crash or an exception    *)
(* also inside one, when the hedge is bought and nothing is written yet.   *)
(***************************************************************************)
EXTENDS Integers, FiniteSets, FiniteSetsExt

CONSTANTS
    Size,        \* shares of an order, in lots either venue will trade
    MaxOrders,   \* bound: orders placed on the market, one after the other
    MaxErrors,   \* MAX_HEDGE_ERRORS
    Scenes,      \* what may go wrong together in one behaviour
    MaxMishaps   \* bound: mishaps in one behaviour, at most two in one step

MishapKinds == {"decline", "miss", "ack", "complement", "delivery", "thin",
    "blind", "large", "thinAgain", "blindAgain", "dust", "reverify", "cancel",
    "refuse", "raise", "crash", "phantom", "late", "confirm", "batch", "position"}

ASSUME HedgeAssumption ==
    /\ Size \in Nat \ {0} /\ MaxOrders \in Nat /\ MaxErrors \in Nat \ {0}
    /\ Scenes \subseteq SUBSET MishapKinds /\ MaxMishaps \in Nat

Legs == {"rest", "hedge"}
NoLeg == "none"
Unread == -1
Pids == 1 .. MaxOrders * Size

VARIABLES
    venue,    \* the exchanges: the order, shares due and held, unswept fills
    lo,       \* the live order of the market, as the executor knows it
    pending,  \* _pending_pairs
    reg,      \* _expected, _provisional, the watch-set, alerted legs
    latch,    \* the orphan, the quarantine and caps.halt_reason
    batch,    \* the positions the off-loop reconcile job read
    seq,      \* _pending_seq
    scene,    \* the mishaps this behaviour may suffer
    mishaps   \* mishaps so far

vars == <<venue, lo, pending, reg, latch, batch, seq, scene, mishaps>>

\* Everything one loop step may rewrite.
Books == [venue |-> venue, lo |-> lo, pending |-> pending, reg |-> reg,
          latch |-> latch, seq |-> seq]
Become(c) ==
    /\ venue' = c.venue /\ lo' = c.lo /\ pending' = c.pending
    /\ reg' = c.reg /\ latch' = c.latch /\ seq' = c.seq
    /\ UNCHANGED scene

Suffered(kinds) ==
    LET M == scene \cap kinds
    IN  {bad \in {{}} \cup {{a, b} : a \in M, b \in M} :
            mishaps + Cardinality(bad) <= MaxMishaps}
Pay(bad) == mishaps' = mishaps + Cardinality(bad)

Least(a, b) == IF a < b THEN a ELSE b
Most(a, b) == IF a < b THEN b ELSE a
Above(a, b) == Most(0, a - b)

NoPairs == [p \in {} |-> 0]
NoOrder(n) == [open |-> FALSE, order |-> n, seen |-> 0, hedged |-> 0, errors |-> 0]

Init ==
    /\ venue = [resting |-> FALSE, matched |-> 0, due |-> 0,
                held |-> [i \in Legs |-> 0], row |-> FALSE]
    /\ lo = NoOrder(0)
    /\ pending = NoPairs
    /\ reg = [expected |-> [i \in Legs |-> 0], marks |-> [i \in Legs |-> 0],
              watched |-> {}, alerted |-> {}]
    /\ latch = [orphan |-> NoLeg, quarantine |-> FALSE, halt |-> "no"]
    /\ batch = [i \in Legs |-> Unread]
    /\ seq = 0
    /\ scene \in Scenes
    /\ mishaps = 0

-----------------------------------------------------------------------------
(* What is held on purpose.                                                *)

PendingShares(c, i) ==
    MapThenSumSet(LAMBDA p : c.pending[p][i], DOMAIN c.pending)

ExpectedShares(c, i) == c.reg.expected[i] + PendingShares(c, i)

Explained(c, i) ==
    /\ ExpectedShares(c, i) > 0
    /\ c.venue.held[i] <= ExpectedShares(c, i)

\* _orphan_detected: the first one halts and cancels, unless a fresh read of
\* the venue explains the position.
OrphanDetected(c, i, bad) ==
    IF c.latch.orphan # NoLeg \/ ("reverify" \notin bad /\ Explained(c, i)) THEN c
    ELSE [c EXCEPT !.latch.orphan = i, !.latch.halt = "orphan",
                   !.venue.resting = @ /\ "cancel" \in bad]

-----------------------------------------------------------------------------
(* The verified unwind.                                                    *)

\* _verified_unwind: n shares are offered, then, as long as the position can be
\* read, whatever it holds above the shares kept.  A thin book takes nothing,
\* and the venue refuses to sell more than is there.
Sold(h, keep, n, thin, blind) ==
    LET first == IF thin \/ n > h THEN h ELSE h - n
        left == IF thin \/ blind \/ first <= keep THEN first ELSE keep
    IN  [left |-> left, flat |-> ~blind /\ left <= keep,
         naked |-> IF blind THEN n ELSE Above(left, keep)]

\* _unwind_and_record of n shares of leg i.  What does not read flat is offered
\* once more when it is small, and else marked provisional and an orphan; dust
\* the venue will not price is kept on purpose.
Unwound(c, i, n, bad) ==
    IF n = 0 THEN c
    ELSE IF "dust" \in bad
    THEN [c EXCEPT !.reg.expected[i] = @ + n, !.reg.watched = @ \cup {i},
                   !.reg.marks[i] = n]
    ELSE LET keep == ExpectedShares(c, i)
             u == Sold(c.venue.held[i], keep, n, "thin" \in bad, "blind" \in bad)
             v == IF u.flat \/ "large" \in bad THEN u
                  ELSE Sold(u.left, keep, u.naked, "thinAgain" \in bad,
                            "blindAgain" \in bad)
             d == [c EXCEPT !.venue.held[i] = v.left, !.venue.row = @ \/ i = "hedge",
                            !.venue.resting = @ /\ (i # "rest" \/ "cancel" \in bad)]
         IN  IF v.flat THEN d
             ELSE OrphanDetected([d EXCEPT !.reg.marks[i] = u.naked], i, bad)

-----------------------------------------------------------------------------
(* Booking a pair.                                                         *)

\* _quarantine: a booking whose numbers are impossible halts, the first time.
Quarantined(c, bad) ==
    IF c.latch.quarantine THEN c
    ELSE [c EXCEPT !.latch.quarantine = TRUE, !.latch.halt = "quarantine",
                   !.venue.resting = @ /\ "cancel" \in bad]

\* _record_hedge_locked of n rest shares and h hedge shares: both legs are
\* registered either way; a refused booking does not count as hedged, and a
\* deferred one was counted when its hedge was bought.
RecordHedgeLocked(c, n, h, deferred, bad) ==
    LET d == [c EXCEPT !.reg.expected.rest = @ + n, !.reg.expected.hedge = @ + h]
    IN  IF "refuse" \in bad THEN Quarantined(d, bad)
        ELSE IF deferred THEN d
        ELSE [d EXCEPT !.lo.hedged = @ + h]

\* _rest_delivered: shares above what the leg held on purpose beforehand.
Delivered(held, base) == Above(held, base)

\* _defer_pair: booked when the rest leg is there, else kept as provisional.
DeferPair(c, n, h, bad) ==
    LET base == ExpectedShares(c, "rest")
        got == IF "delivery" \in bad THEN Unread
               ELSE Delivered(c.venue.held["rest"], base)
        rec == [rest |-> n, hedge |-> h, base |-> base,
                read |-> got, order |-> c.lo.order, due |-> FALSE, answer |-> "none",
                value |-> Unread]
    IN  IF got >= n THEN RecordHedgeLocked(c, n, h, FALSE, bad)
        ELSE [c EXCEPT !.seq = @ + 1, !.lo.hedged = @ + h,
                 !.pending = [p \in DOMAIN @ \cup {c.seq + 1} |->
                                 IF p \in DOMAIN @ THEN @[p] ELSE rec]]

-----------------------------------------------------------------------------
(* The hedge chain.                                                        *)

Delta == venue.matched - lo.seen
Detected == lo.open /\ Delta > 0

\* Mutant: the cumulative count is added to what was seen.
ConsumedTwice(c, bad) == [c EXCEPT !.lo.seen = @ + c.venue.matched]

\* The end of _on_fill_detected: a full order closes, a partial one on a
\* halted book is cancelled.
Consumed(c, bad) ==
    [c EXCEPT !.lo.seen = c.venue.matched, !.lo.errors = 0,
              !.lo.open = c.venue.matched < Size,
              !.venue.resting = @ /\ (c.latch.halt = "no" \/ "cancel" \in bad)]

UnwindKinds == {"thin", "blind", "large", "thinAgain", "blindAgain", "dust",
                "reverify", "cancel"}

\* The re-mark at the fill says the hedge is too dear, or the book is gone.
Decline ==
    /\ Detected
    /\ \E bad \in Suffered(UnwindKinds \cup {"decline"}) :
        /\ "decline" \in bad
        /\ Pay(bad)
        /\ Become(Consumed(Unwound(Books, "rest", Delta, bad), bad))
    /\ UNCHANGED batch

Bought(c, got) ==
    [c EXCEPT !.venue.held["hedge"] = @ + got, !.venue.row = @ \/ got > 0]

\* Mutant: the complement is not compared with what was hedged before (N4).
HedgedCumulative(c, said, bad) ==
    IF "complement" \in bad THEN said ELSE Most(said, c.venue.held["hedge"])

\* This fill's hedge: what the venue said, or what the complement grew by.
HedgedNow(c, said, bad) ==
    IF "complement" \in bad THEN said
    ELSE Most(said, Above(c.venue.held["hedge"], c.lo.hedged))

\* Mutant: a short hedge is booked as the whole pair.
HedgeWhole(c, n, said, bad) == DeferPair(c, n, HedgedNow(c, said, bad), bad)

\* _hedge_fill after the hedge order: a full answer is a pair; any other is
\* held against the complement, the hedged part is a smaller pair and only
\* the shortfall is unwound.
HedgeOutcome(c, n, said, bad) ==
    LET new == HedgedNow(c, said, bad)
        part == Least(n, new)
        covered == "complement" \notin bad /\ c.venue.matched <= c.venue.held["hedge"]
    IN  IF said = n THEN DeferPair(c, n, n, bad)
        ELSE IF covered THEN DeferPair(c, n, Most(new, part), bad)
        ELSE Unwound(IF part > 0 THEN DeferPair(c, part, part, bad) ELSE c,
                     "rest", n - part, bad)

\* _hedge_fill: an IOC that may be filled short, or whose answer is lost.
HedgeFill ==
    /\ Detected
    /\ \E bad \in Suffered(UnwindKinds \cup {"miss", "ack", "complement",
                                             "delivery", "refuse"}),
          got \in 0 .. Delta :
        /\ got < Delta <=> "miss" \in bad
        /\ Pay(bad)
        /\ Become(Consumed(HedgeOutcome(Bought(Books, got), Delta,
                               IF "ack" \in bad THEN 0 ELSE got, bad), bad))
    /\ UNCHANGED batch

\* The chain raises after its hedge order: the fill is not consumed.
HedgeRaised ==
    /\ Detected
    /\ \E bad \in Suffered({"raise", "reverify", "cancel"}), got \in {0, Delta} :
        LET c == [Bought(Books, got) EXCEPT !.lo.errors = @ + 1]
        IN  /\ "raise" \in bad
            /\ Pay(bad)
            /\ Become(IF c.lo.errors < MaxErrors THEN c
                      ELSE OrphanDetected(c, "rest", bad))
    /\ UNCHANGED batch

-----------------------------------------------------------------------------
(* Provisional pairs.                                                      *)

\* One confirmation read on the worker.
ConfirmRead(p) ==
    /\ p \in DOMAIN pending /\ pending[p].answer = "none"
    /\ \E bad \in Suffered({"confirm"}) :
        /\ Pay(bad)
        /\ pending' = [pending EXCEPT ![p].answer = "landed",
              ![p].value = IF bad # {} THEN Unread
                           ELSE Delivered(venue.held["rest"], pending[p].base)]
    /\ UNCHANGED <<venue, lo, reg, latch, batch, seq, scene>>

Popped(c, p) ==
    [c EXCEPT !.pending = [q \in DOMAIN @ \ {p} |-> @[q]]]

\* Mutant: what was not delivered goes on counting as hedged.
ResolvedCounted(c, r, got, bad) ==
    Unwound(IF got = 0 THEN c ELSE RecordHedgeLocked(c, got, got, TRUE, bad),
            "hedge", Above(r.hedge, got), bad)

\* _resolve_pending, the record already popped: what was delivered is booked,
\* the hedge of the rest is sold and no longer counts as bought.
Resolved(c, r, got, bad) ==
    LET excess == Above(r.hedge, got)
        d == IF got = 0 THEN c ELSE RecordHedgeLocked(c, got, got, TRUE, bad)
        e == IF r.order = c.lo.order
             THEN [d EXCEPT !.lo.hedged = Above(@, excess)] ELSE d
    IN  Unwound(e, "hedge", excess, bad)

Decide(p, value, final, answered) ==
    LET r == pending[p]
        last == IF value = Unread THEN r.read ELSE value
    IN  \E bad \in Suffered(UnwindKinds \cup {"refuse"}) :
        IF value >= r.rest
        THEN /\ Pay(bad)
             /\ Become(RecordHedgeLocked(Popped(Books, p), r.rest, r.hedge, TRUE, bad))
        ELSE IF final
        THEN /\ Pay(bad)
             /\ Become(Resolved(Popped(Books, p), r, Least(Most(0, last), r.rest), bad))
        ELSE /\ bad = {} /\ answered
             /\ pending' = [pending EXCEPT ![p].read = last, ![p].answer = "none",
                                           ![p].value = Unread]
             /\ UNCHANGED <<venue, lo, reg, latch, seq, scene, mishaps>>

\* _apply_rest_confirm: decided once delivered, or once the deadline is over.
ApplyConfirm(p) ==
    /\ p \in DOMAIN pending /\ pending[p].answer = "landed"
    /\ Decide(p, pending[p].value, pending[p].due, TRUE)
    /\ UNCHANGED batch

\* The backstop of submit_rest_confirmations: no read landed, the last decides.
Backstop(p) ==
    /\ p \in DOMAIN pending /\ pending[p].due
    /\ Decide(p, Unread, TRUE, FALSE)
    /\ UNCHANGED batch

\* The clock: rest_confirm_deadline_s has passed since the fill, which is
\* longer than a batch of positions may wait to be applied (external).
Deadline(p) ==
    /\ p \in DOMAIN pending /\ ~pending[p].due
    /\ \A i \in Legs : batch[i] = Unread
    /\ \E bad \in Suffered({"late"}) : (bad # {} <=> venue.due > 0) /\ Pay(bad)
    /\ pending' = [pending EXCEPT ![p].due = TRUE]
    /\ UNCHANGED <<venue, lo, reg, latch, batch, seq, scene>>

-----------------------------------------------------------------------------
(* The nets.                                                               *)

\* _untracked_fill: the row of our own hedge is nobody's resting order; it is
\* explained by the position, or the position is an orphan.
SweepRow ==
    /\ venue.row
    /\ \E bad \in Suffered({"position", "reverify", "cancel"}) :
        LET c == [Books EXCEPT !.venue.row = FALSE]
        IN  /\ Pay(bad)
            /\ Become(IF "position" \notin bad
                         /\ venue.held["hedge"] <= ExpectedShares(Books, "hedge")
                      THEN c
                      ELSE OrphanDetected([c EXCEPT !.reg.watched = @ \cup {"hedge"}],
                                          "hedge", bad))
    /\ UNCHANGED batch

\* _reconcile_job on the worker: a leg it cannot read is left unread.
ReconcileRead ==
    /\ \A i \in Legs : batch[i] = Unread
    /\ lo.order > 0
    /\ \E bad \in Suffered({"batch"}), i \in Legs :
        /\ Pay(bad)
        /\ batch' = [j \in Legs |-> IF bad # {} /\ i = j THEN Unread ELSE venue.held[j]]
    /\ UNCHANGED <<venue, lo, pending, reg, latch, seq, scene>>

\* settle_provisional_marks: a mark whose position is gone is rebooked at the
\* venue's own number, which only Kalshi gives, and the leg is forgotten.
MarksSettled(c) ==
    IF c.reg.marks["hedge"] = 0 \/ c.venue.held["hedge"] > 0 THEN c
    ELSE [c EXCEPT !.reg.marks["hedge"] = 0, !.reg.expected["hedge"] = 0,
                   !.reg.watched = @ \ {"hedge"}]

\* verify_latched_orphan: flat or explained, by a fresh read.
Retired(c) ==
    \/ c.latch.orphan = NoLeg
    \/ c.venue.held[c.latch.orphan] = 0
    \/ Explained(c, c.latch.orphan)

\* _clear_orphan: the halt goes with it when it is the orphan's.
Cleared(c) ==
    [c EXCEPT !.latch.orphan = NoLeg,
              !.latch.halt = IF @ = "orphan" THEN "no" ELSE @]

\* The suspects and the flat legs of reconcile_positions: positions read
\* earlier on the worker against what is expected now.
Suspects(c) == {i \in c.reg.watched : batch[i] > ExpectedShares(c, i)}
FlatLegs(c) ==
    {i \in c.reg.watched : batch[i] = 0 /\ (i = "rest" => ~c.lo.open)}

\* _sweep_unregistered: held, quoted, and in no registry at all: an alert.
Registered(c, i) ==
    \/ i \in c.reg.watched \/ ExpectedShares(c, i) > 0 \/ c.reg.marks[i] > 0
    \/ i = "rest" /\ c.lo.open
Reconciled(c, bad) ==
    LET s == Suspects(c)
        d == [c EXCEPT !.reg.watched = @ \ FlatLegs(c)]
        e == [d EXCEPT !.reg.alerted =
                 @ \cup {i \in Legs : batch[i] > 0 /\ ~Registered(d, i)}]
    IN  IF s = {} THEN e
        ELSE OrphanDetected(e, IF "rest" \in s THEN "rest" ELSE "hedge", bad)

\* _apply_reconcile_batch, reconcile_positions: every five minutes, and first
\* thing after a start.
ApplyReconcile ==
    /\ \E i \in Legs : batch[i] # Unread
    /\ batch' = [i \in Legs |-> Unread]
    /\ \E bad \in Suffered({"position", "reverify", "cancel"}) :
        LET c == IF "position" \in bad THEN Books ELSE MarksSettled(Books)
        IN  /\ Pay(bad)
            /\ Become(IF latch.orphan = NoLeg THEN Reconciled(c, bad)
                      ELSE IF "position" \in bad \/ ~Retired(c) THEN c
                      ELSE Reconciled(Cleared(c), bad))

-----------------------------------------------------------------------------
(* The order and the venue.                                                *)

\* place_or_reprice: a new order, once the market is clear of the last one.
Place ==
    /\ ~lo.open /\ latch.halt = "no" /\ lo.order < MaxOrders
    /\ lo' = [NoOrder(lo.order + 1) EXCEPT !.open = TRUE]
    /\ venue' = [venue EXCEPT !.resting = TRUE, !.matched = 0]
    /\ reg' = [reg EXCEPT !.watched = @ \cup {"rest"}]
    /\ UNCHANGED <<pending, latch, batch, seq, scene, mishaps>>

\* A cancel is confirmed: nothing rests, and every fill was consumed.
Release ==
    /\ lo.open /\ venue.matched = lo.seen
    /\ lo' = [lo EXCEPT !.open = FALSE]
    /\ venue' = [venue EXCEPT !.resting = FALSE]
    /\ UNCHANGED <<pending, reg, latch, batch, seq, scene, mishaps>>

\* A match, and its delivery on the chain or its failure there.
Match ==
    /\ venue.resting /\ venue.matched < Size
    /\ venue' = [venue EXCEPT !.matched = @ + 1, !.due = @ + 1,
                              !.resting = venue.matched + 1 < Size]
    /\ UNCHANGED <<lo, pending, reg, latch, batch, seq, scene, mishaps>>

Deliver ==
    /\ venue.due > 0
    /\ venue' = [venue EXCEPT !.due = @ - 1, !.held["rest"] = @ + 1]
    /\ UNCHANGED <<lo, pending, reg, latch, batch, seq, scene, mishaps>>

Phantom ==
    /\ venue.due > 0
    /\ \E bad \in Suffered({"phantom"}) : bad # {} /\ Pay(bad)
    /\ venue' = [venue EXCEPT !.due = @ - 1]
    /\ UNCHANGED <<lo, pending, reg, latch, batch, seq, scene>>

\* The process dies, between chains or with a hedge just bought, and starts
\* again: registries and latches are on disk, the order and the pending pairs
\* were not, and the first fill sweep only marks what it reads.
Crash ==
    /\ \E bad \in Suffered({"crash"}), got \in {0} \cup (IF Detected THEN {Delta} ELSE {}) :
        LET c == Bought(Books, got)
        IN  /\ bad # {} /\ Pay(bad)
            /\ Become([c EXCEPT !.lo = NoOrder(lo.order), !.pending = NoPairs,
                                !.venue.row = FALSE, !.reg.alerted = {}])
    /\ batch' = [i \in Legs |-> Unread]

Chain == Decline \/ HedgeFill
Confirm == \E p \in Pids : ConfirmRead(p) \/ ApplyConfirm(p)
Decided == \E p \in Pids : Backstop(p) \/ Deadline(p)

Next ==
    \/ Chain \/ HedgeRaised \/ Confirm \/ Decided
    \/ SweepRow \/ ReconcileRead \/ ApplyReconcile
    \/ Place \/ Release \/ Match \/ Deliver \/ Phantom \/ Crash

Spec == Init /\ [][Next]_vars

-----------------------------------------------------------------------------
(* Properties.                                                             *)

\* Types: every count is a number of shares that can be held, and a provisional
\* pair has a number _pending_seq has reached.
TypeOK ==
    /\ venue.matched \in 0 .. Size /\ venue.due \in Nat
    /\ venue.resting \in BOOLEAN /\ venue.row \in BOOLEAN
    /\ \A i \in Legs : venue.held[i] \in Nat /\ reg.expected[i] \in Nat
                       /\ reg.marks[i] \in Nat /\ batch[i] \in Nat \cup {Unread}
    /\ reg.watched \subseteq Legs /\ reg.alerted \subseteq Legs
    /\ lo.order \in 0 .. MaxOrders /\ lo.seen \in 0 .. Size
    /\ lo.hedged \in Nat /\ lo.errors \in Nat
    /\ DOMAIN pending \subseteq 1 .. seq
    /\ latch.orphan \in Legs \cup {NoLeg}
    /\ latch.halt \in {"no", "orphan", "quarantine"}
    /\ seq \in Nat /\ mishaps \in 0 .. MaxMishaps

\* Both legs of what is booked are there, whatever was delivered late or never,
\* sold or refused: the registry expects no rest share the venue neither holds
\* nor owes, and no hedge share that is not held.
BookedIsHeld ==
    /\ reg.expected["rest"] <= venue.held["rest"] + venue.due
    /\ ExpectedShares(Books, "hedge") <= venue.held["hedge"]

\* No rest share is kept on purpose without its hedge: what a short hedge left
\* over is never registered (RecordHedgeLocked, the dust of an unwind apart).
RestIsHedged == reg.expected["rest"] <= reg.expected["hedge"]

\* What the open order counts as hedged is accounted for on the hedge leg, so
\* the next fill's complement is never held against shares long sold again.
CountedIsExpected == lo.open => lo.hedged <= ExpectedShares(Books, "hedge")

Naked(i) == Above(venue.held[i], ExpectedShares(Books, i))

\* Whatever is held by mistake, some net will meet: the leg is compared with
\* its expectation, an orphan is latched, its row is still to be swept, or no
\* registry knows it, which the sweep of what was quoted reports.
NakedIsCaught ==
    \A i \in Legs : Naked(i) > 0 =>
        \/ i \in reg.watched \/ latch.orphan # NoLeg
        \/ i = "hedge" /\ venue.row
        \/ ~Registered(Books, i)
=============================================================================
