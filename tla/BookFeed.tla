------------------------------- MODULE BookFeed -------------------------------
(***************************************************************************)
(* The Kalshi order books of the maker (store.py, books.py) and the socket *)
(* that feeds them (feeds.py, KalshiFeed).                                 *)
(*                                                                         *)
(* The venue numbers what it sends on a connection.  A snapshot replaces a *)
(* book, a delta is added to one; a jump in the numbers of the deltas      *)
(* drops every book and subscribes again.  Messages of a connection arrive *)
(* in order; the venue may leave one out, and the socket may break or hang *)
(* with nobody told.                                                       *)
(***************************************************************************)
EXTENDS Integers, Sequences, SequencesExt

CONSTANTS
    Tickers,          \* the tickers of the subscription
    MaxDepth,         \* bound: contracts at the one level a book has
    MaxWire,          \* bound: messages under way
    MaxSent,          \* bound: messages of one connection
    MaxBreaks,        \* bound: lost messages, broken and hung sockets
    LossUnderSnapshot \* may a message be lost while snapshots are under way

NoBook == -1
NoSeq == -1
Depths == 0 .. MaxDepth

VARIABLES
    venue,   \* the exchange: its depths, what it sent, what it still owes
    wire,    \* messages under way on the connection
    store,   \* the books, kalshi_seq of the subscription, _need_resync
    link,    \* the socket: "down", "up" or "hung"
    missed,  \* missed_pongs
    seen,    \* history: the venue's depths when the last frame read was sent
    based,   \* history: tickers whose snapshot came over this connection
    breaks   \* faults so far

bookVars == <<venue, wire, store, link, missed, seen, based, breaks>>

Init ==
    /\ venue = [depth |-> [t \in Tickers |-> 0], sent |-> 0, owed |-> {}]
    /\ wire = <<>>
    /\ store = [book |-> [t \in Tickers |-> NoBook], last |-> NoSeq, resync |-> FALSE]
    /\ link = "down"
    /\ missed = 0
    /\ seen = [t \in Tickers |-> 0]
    /\ based = {}
    /\ breaks = 0

Frame(kind, t, n, depth) ==
    [kind |-> kind, ticker |-> t, seq |-> venue.sent + 1, n |-> n, depth |-> depth]

-----------------------------------------------------------------------------
(* The exchange.                                                           *)

CanSend == link = "up" /\ Len(wire) < MaxWire /\ venue.sent < MaxSent

\* A level changes; subscribers whose snapshot is out get the difference.
Trade(t, n, depth, lost) ==
    LET told == CanSend /\ t \notin venue.owed
        moved == [venue.depth EXCEPT ![t] = depth]
    IN  /\ venue' = [venue EXCEPT !.depth = moved, !.sent = @ + IF told THEN 1 ELSE 0]
        /\ wire' = IF told /\ ~lost THEN Append(wire, Frame("delta", t, n, moved)) ELSE wire
        /\ breaks' = breaks + IF lost THEN 1 ELSE 0
        /\ UNCHANGED <<store, link, missed, seen, based>>

Change ==
    \E t \in Tickers : \E n \in {-1, 1} : \E lost \in BOOLEAN :
        LET depth == venue.depth[t] + n
        IN  /\ depth \in Depths
            /\ link = "up" => CanSend
            /\ lost => /\ CanSend /\ t \notin venue.owed /\ breaks < MaxBreaks
                       /\ LossUnderSnapshot \/ venue.owed = {}
            /\ Trade(t, n, depth, lost)

\* The snapshot a subscription owes for a ticker.
Snapshot ==
    \E t \in venue.owed :
        /\ CanSend
        /\ wire' = Append(wire, Frame("snapshot", t, venue.depth[t], venue.depth))
        /\ venue' = [venue EXCEPT !.sent = @ + 1, !.owed = @ \ {t}]
        /\ UNCHANGED <<store, link, missed, seen, based, breaks>>

-----------------------------------------------------------------------------
(* The store.                                                              *)

\* seq_gap: the number jumped.
SeqGap(last, new) == last # NoSeq /\ new # last + 1

\* KalshiBook.apply_delta: a level is never negative.
ApplyDelta(depth, n) == IF depth + n < 0 THEN 0 ELSE depth + n



\* apply_kalshi of one frame: a snapshot is taken whatever its number is.
Applied(s, f) ==
    IF f.kind = "snapshot"
    THEN [s EXCEPT !.book[f.ticker] = f.n, !.last = f.seq]
    ELSE IF SeqGap(s.last, f.seq)
    THEN [book |-> [t \in Tickers |-> NoBook], last |-> NoSeq, resync |-> TRUE]
    ELSE [s EXCEPT !.book[f.ticker] = IF @ = NoBook THEN NoBook ELSE ApplyDelta(@, f.n),
                   !.last = f.seq]

-----------------------------------------------------------------------------
(* The socket.                                                             *)

\* run and the head of _session: the books of the connection before are kept,
\* and so is the last number, until the snapshots replace them.
Connect ==
    /\ link = "down"
    /\ link' = "up" /\ missed' = 0 /\ based' = {}
    /\ venue' = [venue EXCEPT !.sent = 0, !.owed = Tickers]
    /\ store' = [store EXCEPT !.resync = FALSE]
    /\ UNCHANGED <<wire, seen, breaks>>

\* A frame is read: the pong count is cleared and the frame applied.
Receive ==
    /\ link = "up" /\ ~store.resync /\ wire # <<>>
    /\ LET f == Head(wire)
           s == Applied(store, f)
       IN  /\ store' = s
           /\ seen' = f.depth
           /\ based' = IF f.kind = "snapshot" THEN based \cup {f.ticker} ELSE based
    /\ wire' = Tail(wire) /\ missed' = 0
    /\ UNCHANGED <<venue, link, breaks>>

\* After each frame and each pong: subscribe again if the store asks for it.
Resubscribe ==
    /\ link = "up" /\ store.resync
    /\ venue' = [venue EXCEPT !.owed = Tickers]
    /\ store' = [store EXCEPT !.resync = FALSE]
    /\ UNCHANGED <<wire, link, missed, seen, based, breaks>>

\* The session ends: run waits, then opens another.
Closed ==
    /\ link' = "down" /\ wire' = <<>>
    /\ UNCHANGED <<venue, store, missed, seen, based>>

Broken ==
    /\ link = "up" /\ breaks < MaxBreaks
    /\ Closed /\ breaks' = breaks + 1

\* The peer is gone and nothing says so.
Hang ==
    /\ link = "up" /\ ~store.resync /\ breaks < MaxBreaks
    /\ link' = "hung" /\ wire' = <<>> /\ breaks' = breaks + 1
    /\ UNCHANGED <<venue, store, missed, seen, based>>

\* Mutant: the third missed pong ends the session.
PongMissedThrice ==
    /\ link = "hung"
    /\ IF missed = 2 THEN Closed /\ UNCHANGED breaks
       ELSE missed' = missed + 1 /\ UNCHANGED <<venue, wire, store, link, seen, based, breaks>>

\* No frame and no pong: the second time in a row ends the session.
PongMissed ==
    /\ link = "hung"
    /\ IF missed = 1 THEN Closed /\ UNCHANGED breaks
       ELSE missed' = missed + 1 /\ UNCHANGED <<venue, wire, store, link, seen, based, breaks>>

\* Nothing to read for ten seconds, and a pong.
PongRead ==
    /\ link = "up" /\ wire = <<>> /\ ~store.resync
    /\ missed' = 0
    /\ UNCHANGED <<venue, wire, store, link, seen, based, breaks>>

Feed == Connect \/ Receive \/ Resubscribe \/ PongMissed \/ PongRead

Next == Change \/ Snapshot \/ Feed \/ Broken \/ Hang

Fairness == WF_bookVars(Feed) /\ WF_bookVars(Snapshot)

Spec == Init /\ [][Next]_bookVars /\ Fairness

-----------------------------------------------------------------------------
TypeOK ==
    /\ venue \in [depth : [Tickers -> Depths], sent : 0 .. MaxSent, owed : SUBSET Tickers]
    /\ Len(wire) <= MaxWire
    /\ store \in [book : [Tickers -> {NoBook} \cup 0 .. MaxDepth + MaxBreaks],
                  last : {NoSeq} \cup 1 .. MaxSent, resync : BOOLEAN]
    /\ link \in {"down", "up", "hung"} /\ missed \in 0 .. 1
    /\ seen \in [Tickers -> Depths] /\ based \subseteq Tickers /\ breaks \in 0 .. MaxBreaks


\* Whatever was lost, broken or hung, the feed ends with every book rebuilt
\* over the live connection and true to it (run, _session, _subscribe).
Rebuilt == link = "up" /\ \A t \in Tickers : t \in based /\ store.book[t] = seen[t]
=============================================================================
