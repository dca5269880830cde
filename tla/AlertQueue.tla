------------------------------ MODULE AlertQueue ------------------------------
(***************************************************************************)
(* The bounded message queue in front of Telegram (tgqueue.py): any thread *)
(* hands a text over, one sender thread delivers.  The loop thread and the *)
(* balance worker both hand texts over; only the loop thread closes.       *)
(* A step is what a thread does between two reads of shared state.         *)
(***************************************************************************)
EXTENDS Integers, Sequences, SequencesExt, FiniteSets

CONSTANTS
    Loop, Other,  \* the two threads that hand texts over
    MaxQueue,     \* MAX_QUEUE
    MaxTexts      \* bound: texts handed over

Threads == {Loop, Other}
Idle == "idle"

VARIABLES
    queue,   \* _q: texts by number
    stop,    \* the _stop event
    sender,  \* the sender thread: "none", "get", "exit" or the text in its hands
    hand,    \* per thread, where it is in enqueue, and with which text
    fate,    \* per text: "new", "held", "sent", "failed" or "dropped"
    order,   \* history: texts in the order they were sent or failed
    author,  \* history: who handed the text over
    closed   \* close has been called

alertVars == <<queue, stop, sender, hand, fate, order, author, closed>>

Texts == 1 .. MaxTexts
NoText == 0
At(place, m) == [at |-> place, text |-> m]

Init ==
    /\ queue = <<>> /\ stop = FALSE /\ sender = At("none", NoText)
    /\ hand = [t \in Threads |-> At(Idle, NoText)]
    /\ fate = [m \in Texts |-> "new"]
    /\ order = <<>>
    /\ author = [m \in Texts |-> Loop]
    /\ closed = FALSE

Alive == sender.at \in {"get", "send"}

\* The next text, or none when they are used up.
NextText == IF \E m \in Texts : fate[m] = "new"
            THEN CHOOSE m \in Texts : fate[m] = "new" /\ \A n \in 1 .. m - 1 : fate[n] # "new"
            ELSE NoText

\* enqueue: on a queue that stops, the text is sent inline.
Enqueue(t) ==
    /\ hand[t].at = Idle /\ NextText # NoText
    /\ t = Loop => ~closed
    /\ hand' = [hand EXCEPT ![t] = At(IF stop THEN "inline" ELSE "trim", NextText)]
    /\ fate' = [fate EXCEPT ![NextText] = "held"]
    /\ author' = [author EXCEPT ![NextText] = t]
    /\ UNCHANGED <<queue, stop, sender, order, closed>>

\* Mutant: the newest text makes room.
TrimmedNewest(q) == [left |-> Front(q), out |-> Last(q)]

Full(q) == Len(q) >= MaxQueue
Trimmed(q) == [left |-> Tail(q), out |-> Head(q)]

\* The oldest texts make room, one get_nowait at a time: the sender may have
\* made some meanwhile.
Trim(t) ==
    /\ hand[t].at = "trim"
    /\ hand' = [hand EXCEPT ![t].at = IF Full(queue) THEN "drop" ELSE "ensure"]
    /\ UNCHANGED <<queue, stop, sender, fate, order, author, closed>>

Drop(t) ==
    /\ hand[t].at = "drop"
    /\ IF queue = <<>>
       THEN hand' = [hand EXCEPT ![t].at = "ensure"] /\ UNCHANGED <<queue, fate>>
       ELSE /\ hand' = [hand EXCEPT ![t].at = "trim"]
            /\ queue' = Trimmed(queue).left
            /\ fate' = [fate EXCEPT ![Trimmed(queue).out] = "dropped"]
    /\ UNCHANGED <<stop, sender, order, author, closed>>

\* _ensure_thread, under its lock.
EnsureThread(t) ==
    /\ hand[t].at = "ensure"
    /\ hand' = [hand EXCEPT ![t].at = "put"]
    /\ IF Alive THEN UNCHANGED <<stop, sender>>
       ELSE stop' = FALSE /\ sender' = At("get", NoText)
    /\ UNCHANGED <<queue, fate, order, author, closed>>

Put(t) ==
    /\ hand[t].at = "put"
    /\ queue' = Append(queue, hand[t].text)
    /\ hand' = [hand EXCEPT ![t] = At(Idle, NoText)]
    /\ UNCHANGED <<stop, sender, fate, order, author, closed>>

\* _deliver: sent, or failed and counted.
Delivered(m) ==
    /\ \E how \in {"sent", "failed"} : fate' = [fate EXCEPT ![m] = how]
    /\ order' = Append(order, m)

Inline(t) ==
    /\ hand[t].at = "inline"
    /\ Delivered(hand[t].text)
    /\ hand' = [hand EXCEPT ![t] = At(Idle, NoText)]
    /\ UNCHANGED <<queue, stop, sender, author, closed>>

\* _run: take a text; an empty queue ends the thread once it is to stop.
Get ==
    /\ sender.at = "get"
    /\ IF queue # <<>>
       THEN sender' = At("send", Head(queue)) /\ queue' = Tail(queue)
       ELSE stop /\ sender' = At("exit", NoText) /\ UNCHANGED queue
    /\ UNCHANGED <<stop, hand, fate, order, author, closed>>

Send ==
    /\ sender.at = "send"
    /\ Delivered(sender.text)
    /\ sender' = At("get", NoText)
    /\ UNCHANGED <<queue, stop, hand, author, closed>>

\* close: the event; join waits for the thread or for its timeout, and the
\* process ends after it.
Close ==
    /\ ~closed /\ hand[Loop].at = Idle
    /\ closed' = TRUE /\ stop' = TRUE
    /\ UNCHANGED <<queue, sender, hand, fate, order, author>>

Step(t) == Enqueue(t) \/ Trim(t) \/ Drop(t) \/ EnsureThread(t) \/ Put(t) \/ Inline(t)

Next == (\E t \in Threads : Step(t)) \/ Get \/ Send \/ Close

-----------------------------------------------------------------------------
TypeOK ==
    /\ queue \in Seq(Texts) /\ stop \in BOOLEAN /\ closed \in BOOLEAN
    /\ sender.at \in {"none", "get", "send", "exit"} /\ sender.text \in Texts \cup {NoText}
    /\ \A t \in Threads : hand[t].at \in {Idle, "trim", "drop", "ensure", "put", "inline"}
    /\ fate \in [Texts -> {"new", "held", "sent", "failed", "dropped"}]
    /\ author \in [Texts -> Threads] /\ order \in Seq(Texts)

\* Two threads may each find room for the last place.
Bounded == Len(queue) <= MaxQueue + Cardinality(Threads) - 1

\* Every text accepted is in exactly one place until it is sent or dropped.
Places(m) ==
    Cardinality({i \in DOMAIN queue : queue[i] = m})
    + Cardinality({t \in Threads : hand[t].text = m})
    + (IF sender.text = m THEN 1 ELSE 0)
OnePlace == \A m \in Texts : Places(m) = IF fate[m] = "held" THEN 1 ELSE 0

\* What the loop thread says is heard in the order it said it.
InOrder ==
    \A i, j \in DOMAIN order : i < j /\ author[order[i]] = Loop /\ author[order[j]] = Loop
        => order[i] < order[j]

\* Dropping never leaves a thread's older text waiting behind a lost newer one.
OldestDropped ==
    \A m, n \in Texts : m < n /\ fate[n] = "dropped" /\ author[m] = author[n]
        => fate[m] # "held" \/ sender.text = m

\* The alert queue loses nothing but its oldest texts, and those only when it
\* is full; what is accepted is delivered once, the loop's texts in order
\* (enqueue, _ensure_thread, _run, close).
AlertsKept == Bounded /\ OnePlace /\ InOrder /\ OldestDropped
=============================================================================
