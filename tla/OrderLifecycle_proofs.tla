------------------------ MODULE OrderLifecycle_proofs ------------------------
(***************************************************************************)
(* The types and the safety invariants of OrderLifecycle, for any number   *)
(* of keys, orders and shares.                                             *)
(*                                                                         *)
(* The book is never compared with the venue directly: what it acts on is  *)
(* an answer that may be old.  The invariant therefore says of every       *)
(* answer on its way, a row of the poll or the read of a cancel job, that  *)
(* it is still true of its order or that the order is dead (Believed), and *)
(* of a job that it works on the order its key holds or last held.  Each   *)
(* handler of the book then only grows it (Grows) and only by what the     *)
(* venue says (Truly), and the venue only ages (Ages), so one lemma        *)
(* (Stays) covers every step that does not post an order.                  *)
(***************************************************************************)
EXTENDS OrderLifecycle, FiniteSetTheorems, WellFoundedInduction, TLAPS

-----------------------------------------------------------------------------
(* What the state looks like, and the inductive invariant.                 *)

\* The states an order can be in at a venue.
Statuses == {"unborn", "resting", "canceled", "filled"}
\* What the exchange may hold of the orders.
Venues == [Oids -> [key : Keys, matched : 0 .. Size, acked : BOOLEAN, status : Statuses]]
\* What the executor may hold of them.
Books == [open : [Keys -> Oids \cup {None}], seen : [Oids -> 0 .. Size], tried : SUBSET Keys,
          owed : [Keys -> {"no", "fresh", "routing"}]]
\* What a read of an order may answer.
Readings == [got : {"unknown", "record", "row", "absent", "blank"}, status : Statuses,
             matched : 0 .. Size]
\* What a cancel retry may be at.
Jobs == [stage : {"none", "queued", "deleted", "done"}, oid : Oids \cup {None},
         listed : BOOLEAN, read : Readings]
\* What the fill poll may be at.
Polls == [stage : {"idle", "reading", "done", "orders", "fills"},
          rows : UNION {[D -> Readings] : D \in SUBSET Oids}, fills : SUBSET Shares,
          todo : SUBSET (Oids \cup Keys)]

\* No sweep takes a hint for the record, and a key waits for its cancel job.
Honest == "route" \notin Faults /\ ~Overlap

\* The order was ever placed; it rests at the venue.
Born(v, o) == v[o].status # "unborn"
Rests(v, o) == v[o].status = "resting"

\* What was read of an order is still true of it, or was true and it is dead.
Believed(r, o, v) ==
    /\ Born(v, o) /\ r.matched <= v[o].matched
    /\ r.got = "absent" \/ r.status = "canceled" => ~Rests(v, o)

\* A tracked order is an order of its key.
Tracks(v, b) == \A k \in Keys : b.open[k] # None => Born(v, b.open[k]) /\ v[b.open[k]].key = k

\* What the poll still has to do.
PollTodo(v, b, p) ==
    /\ p.stage = "reading" => \A o \in p.todo : o \in Oids /\ Born(v, o)
    /\ p.stage = "orders" =>
          \A k \in p.todo : k \in Keys /\ (b.open[k] = None \/ b.open[k] \in DOMAIN p.rows)

\* A forced cancel is owed for a tracked order, and a job has an order.
Owing(b) == \A k \in Keys : b.owed[k] # "no" => b.open[k] # None
\* A cancel job has an order to cancel.
JobOrder(j) == \A k \in Keys : j[k] # NoJob => j[k].oid \in Oids

\* An order that rests has shares left to match.
Roomy(v) == \A o \in Oids : Rests(v, o) => v[o].matched < Size

\* The typed part of the invariant.
Typed(v, b, j, p) ==
    /\ v \in Venues /\ b \in Books /\ j \in [Keys -> Jobs] /\ p \in Polls
    /\ Tracks(v, b) /\ PollTodo(v, b, p) /\ Owing(b) /\ JobOrder(j) /\ Roomy(v)

\* The shares handed to the hedge are shares the venue matched.
SeenTrue(v, b) ==
    \A o \in Oids : /\ b.seen[o] <= v[o].matched
                    /\ Rests(v, o) => v[o].matched < Size
                    /\ ~Born(v, o) => v[o].matched = 0

\* An order that rests is tracked, or its post was never acknowledged.
AliveTracked(v, b) == \A o \in Oids : Rests(v, o) /\ v[o].acked => b.open[v[o].key] = o

\* A market holds one order of ours, the tracked one if one is.
Lone(v, b) ==
    /\ \A o \in Oids : Rests(v, o) => b.open[v[o].key] \in {None, o}
    /\ \A o, p \in Oids : Rests(v, o) /\ Rests(v, p) /\ v[o].key = v[p].key => o = p

\* A cancel job works on the order its key holds, or last held.
JobTrue(v, b, j) ==
    \A k \in Keys : j[k] # NoJob =>
        /\ b.open[k] \in {None, j[k].oid}
        /\ j[k].listed => ~Rests(v, j[k].oid)
        /\ Believed(j[k].read, j[k].oid, v)

\* Every row of the batch is still believed.
PollTrue(v, p) == \A o \in DOMAIN p.rows : Believed(p.rows[o], o, v)

\* What the book, a job and the poll hold is true of the venue.
Truth(v, b, j, p) ==
    /\ SeenTrue(v, b) /\ AliveTracked(v, b) /\ JobTrue(v, b, j) /\ PollTrue(v, p)
    /\ "ghost" \notin Faults => Lone(v, b)

\* Types of the variables that no other part speaks of.
OthersTyped ==
    /\ onPoly \subseteq Keys /\ marked \subseteq Shares /\ told \subseteq Shares
    /\ warm \in BOOLEAN /\ halted \in BOOLEAN /\ faults \in 0 .. MaxFaults

\* The inductive invariant: the types always, the truth where the sources are honest.
OrderInv ==
    /\ OthersTyped /\ Typed(venue, book, job, poll)
    /\ Honest => Truth(venue, book, job, poll)

\* A row once marked is answered for, when no sweep starts cold and no hedge fails.
MarkedInv ==
    /\ warm
    /\ \A s \in marked : s[2] <= book.seen[s[1]] \/ s \in told
    /\ \A s \in poll.fills : Born(venue, s[1]) /\ s[2] <= venue[s[1]].matched

-----------------------------------------------------------------------------
(* How a step changes the venue and the book, and what the helpers of the book do. *)

\* The venue went on: an order that rested may have matched more, or died.
Ages(v, w) ==
    \A o \in Oids :
        \/ w[o] = v[o]
        \/ /\ Rests(v, o) /\ Born(w, o) /\ w[o].key = v[o].key /\ w[o].acked = v[o].acked
           /\ v[o].matched <= w[o].matched /\ (Rests(w, o) => w[o].matched < Size)

\* The book went on: slots were released and shares handed over.
Grows(b, c) ==
    /\ c \in Books
    /\ \A q \in Keys : c.open[q] = b.open[q] \/ c.open[q] = None
    /\ \A o \in Oids : b.seen[o] <= c.seen[o]
    /\ Owing(b) => Owing(c)

\* Only the slots of dead orders, and only shares the venue matched.
Truly(b, c, v) ==
    /\ \A q \in Keys : c.open[q] = b.open[q] \/ ~Rests(v, b.open[q])
    /\ \A o \in Oids : c.seen[o] = b.seen[o] \/ c.seen[o] <= v[o].matched

\* No order placed is unplaced, no share matched or seen is unmatched or unseen.
Sees(v, b, w, c) ==
    \A o \in Oids : /\ b.seen[o] <= c.seen[o]
                    /\ Born(v, o) => Born(w, o) /\ v[o].matched <= w[o].matched

\* The constants are positive, and no order is called None.
LEMMA OrderFacts ==
    /\ MaxOrders \in Nat \ {0} /\ Size \in Nat \ {0} /\ MaxFaults \in Nat
    /\ \A o \in Oids : o \in Nat /\ o # None
    /\ None \notin Oids
  BY OrderAssumption DEF Oids, None

\* Two steps of the book are one step of it.
LEMMA GrowsTrans ==
    ASSUME NEW b, NEW c, NEW d, Grows(b, c), Grows(c, d), b \in Books
    PROVE  /\ Grows(b, d)
           /\ \A v \in Venues : Truly(b, c, v) /\ Truly(c, d, v) => Truly(b, d, v)
  <1>1. \A o \in Oids : b.seen[o] \in Nat /\ c.seen[o] \in Nat /\ d.seen[o] \in Nat
    BY OrderFacts DEF Grows, Books
  <1>2. Grows(b, d)
    BY <1>1 DEF Grows
  <1>3. ASSUME NEW v \in Venues, Truly(b, c, v), Truly(c, d, v) PROVE Truly(b, d, v)
    BY <1>1, <1>3 DEF Grows, Truly
  <1> QED BY <1>2, <1>3

\* A venue and a book that went on take nothing back.
LEMMA GrownSees ==
    ASSUME NEW v \in Venues, NEW w, Ages(v, w), NEW b, NEW c, Grows(b, c)
    PROVE  Sees(v, b, w, c)
  <1>1. \A o \in Oids : v[o].matched \in Nat
    BY OrderFacts DEF Venues
  <1> QED BY <1>1 DEF Sees, Ages, Grows, Born

\* A book that is left alone went on, truly.
LEMMA GrowsSelf ==
    ASSUME NEW b \in Books
    PROVE  Grows(b, b) /\ \A v \in Venues : Truly(b, b, v)
  BY OrderFacts DEF Grows, Truly, Books

\* The slot of k is released, or a share is seen.
LEMMA ClosedGrows ==
    ASSUME NEW b \in Books, NEW k \in Keys
    PROVE  /\ Grows(b, Closed(b, k)) /\ Closed(b, k).open[k] = None
           /\ \A v \in Venues :
                 b.open[k] # None /\ ~Rests(v, b.open[k]) => Truly(b, Closed(b, k), v)
           /\ \A v \in Venues : b.open[k] = None => Truly(b, Closed(b, k), v)
  <1> DEFINE c == Closed(b, k)
             o2 == [b.open EXCEPT ![k] = None]
             t2 == b.tried \ {k}
             w2 == [b.owed EXCEPT ![k] = "no"]
  <1>1. /\ o2 \in [Keys -> Oids \cup {None}] /\ t2 \in SUBSET Keys
        /\ w2 \in [Keys -> {"no", "fresh", "routing"}] /\ b.seen \in [Oids -> 0 .. Size]
    BY DEF Books
  <1>2. c = [b EXCEPT !.open = o2, !.tried = t2, !.owed = w2]
    BY DEF Closed
  <1>3. \A q \in Keys : o2[q] = IF q = k THEN None ELSE b.open[q]
    BY DEF Books
  <1> HIDE DEF o2, t2, w2
  <1>4. c = [open |-> o2, seen |-> b.seen, tried |-> t2, owed |-> w2]
    BY <1>2 DEF Books
  <1> HIDE DEF c
  <1>5. c \in Books /\ c.open = o2 /\ c.seen = b.seen
    BY <1>1, <1>4 DEF Books
  <1>6. \A q \in Keys : w2[q] = IF q = k THEN "no" ELSE b.owed[q]
    BY DEF Books, w2
  <1>7. c.owed = w2
    BY <1>4
  <1>8. Grows(b, c)
    BY <1>3, <1>5, <1>6, <1>7, OrderFacts DEF Grows, Books, Owing
  <1> QED BY <1>3, <1>5, <1>8 DEF Truly, c

\* More shares of one order are seen.
LEMMA SeenGrows ==
    ASSUME NEW b \in Books, NEW o \in Oids, NEW total \in 0 .. Size, b.seen[o] <= total
    PROVE  LET c == [b EXCEPT !.seen[o] = total] IN
           /\ Grows(b, c) /\ c.open = b.open
           /\ \A x \in Oids : c.seen[x] = IF x = o THEN total ELSE b.seen[x]
  <1> DEFINE s2 == [b.seen EXCEPT ![o] = total]
             c == [b EXCEPT !.seen[o] = total]
  <1>1. s2 \in [Oids -> 0 .. Size]
    BY DEF Books
  <1>2. \A x \in Oids : s2[x] = IF x = o THEN total ELSE b.seen[x]
    BY DEF Books
  <1>3. c = [b EXCEPT !.seen = s2]
    OBVIOUS
  <1> HIDE DEF s2, c
  <1>4. c \in Books /\ c.open = b.open /\ c.seen = s2 /\ c.owed = b.owed
    BY <1>1, <1>3 DEF Books
  <1>5. \A x \in Oids : b.seen[x] <= s2[x]
    BY <1>2, OrderFacts DEF Books
  <1>6. Grows(b, c)
    BY <1>4, <1>5 DEF Grows, Owing
  <1> QED BY <1>2, <1>4, <1>6 DEF c

\* A cancel is owed.
LEMMA OwedGrows ==
    ASSUME NEW b \in Books, NEW k \in Keys, NEW x \in {"no", "fresh", "routing"},
           x = "no" \/ b.open[k] # None
    PROVE  LET c == [b EXCEPT !.owed[k] = x] IN
           Grows(b, c) /\ c.open = b.open /\ c.seen = b.seen
  <1> DEFINE w2 == [b.owed EXCEPT ![k] = x]
             c == [b EXCEPT !.owed[k] = x]
  <1>1. w2 \in [Keys -> {"no", "fresh", "routing"}]
    BY DEF Books
  <1>2. c = [b EXCEPT !.owed = w2]
    OBVIOUS
  <1> HIDE DEF w2, c
  <1>3. c \in Books /\ c.open = b.open /\ c.seen = b.seen /\ c.owed = w2
    BY <1>1, <1>2 DEF Books
  <1>5. \A q \in Keys : w2[q] = IF q = k THEN x ELSE b.owed[q]
    BY DEF Books, w2
  <1>4. Grows(b, c)
    BY <1>3, <1>5, OrderFacts DEF Grows, Books, Owing
  <1> QED BY <1>3, <1>4 DEF c

\* _on_fill_detected: a share the venue matched is handed over, a full order is released.
LEMMA DetectedGrows ==
    ASSUME NEW b \in Books, NEW k \in Keys, NEW total \in 0 .. Size, NEW routing
    PROVE  LET c == Detected(b, k, total, routing) IN
           /\ Grows(b, c)
           /\ b.open[k] \in Oids => total <= c.seen[b.open[k]]
           /\ \A v \in Venues :
                 (b.open[k] # None => /\ total <= v[b.open[k]].matched
                                      /\ Rests(v, b.open[k]) => v[b.open[k]].matched < Size)
                 => Truly(b, c, v)
  <1> DEFINE c == Detected(b, k, total, routing)
             o == b.open[k]
             d == [b EXCEPT !.seen[o] = total]
             e == [d EXCEPT !.owed[k] = IF routing THEN "routing" ELSE "fresh"]
  <1>1. o \in Oids \cup {None} /\ b.seen \in [Oids -> 0 .. Size]
    BY DEF Books
  <1>2. CASE o = None \/ total <= b.seen[o]
    <2>1. c = b
      BY <1>2 DEF Detected
    <2> QED BY <1>2, <2>1, GrowsSelf, OrderFacts
  <1>3. CASE o # None /\ total > b.seen[o]
    <2>1. o \in Oids /\ b.seen[o] \in 0 .. Size
      BY <1>1, <1>3
    <2>0. ~(total <= b.seen[o]) /\ o # None
      BY <1>3, <2>1, OrderFacts
    <2>2. c = IF total >= Size THEN Closed(d, k) ELSE IF halted THEN e ELSE d
      BY <2>0 DEF Detected
    <2>3. /\ Grows(b, d) /\ d.open = b.open
          /\ \A x \in Oids : d.seen[x] = IF x = o THEN total ELSE b.seen[x]
      <3>1. b.seen[o] <= total
        BY <1>3, <2>1, OrderFacts
      <3> HIDE DEF o
      <3> QED BY <2>1, <3>1, SeenGrows
    <2>4. d \in Books
      BY <2>3 DEF Grows
    <2>5. Grows(d, e) /\ e.open = d.open /\ e.seen = d.seen
      <3>1. d.open[k] # None
        BY <1>3, <2>3
      <3> HIDE DEF d
      <3> QED BY <2>4, <3>1, OwedGrows, ZenonT(40)
    <2>6. /\ Grows(b, e) /\ e.open = b.open
          /\ \A x \in Oids : e.seen[x] = IF x = o THEN total ELSE b.seen[x]
      <3> HIDE DEF d, e
      <3> QED BY <2>3, <2>5, GrowsTrans
    <2> HIDE DEF d, e
    <2>7. CASE total < Size
      <3>1. c = d \/ c = e
        BY <2>2, <2>7, OrderFacts
      <3>2. \A v \in Venues : total <= v[o].matched => Truly(b, d, v) /\ Truly(b, e, v)
        BY <2>3, <2>6, OrderFacts DEF Truly
      <3>3. total <= d.seen[o] /\ total <= e.seen[o]
        BY <2>1, <2>3, <2>6
      <3> QED BY <2>3, <2>6, <1>3, <3>1, <3>2, <3>3
    <2>8. CASE total >= Size
      <3>1. c = Closed(d, k)
        BY <2>2, <2>8
      <3>2. Grows(d, c)
        BY <2>4, <3>1, ClosedGrows
      <3>3. Grows(b, c)
        BY <2>3, <3>2, GrowsTrans
      <3>4. total <= c.seen[o]
        <4>1. d.seen[o] = total /\ d.seen[o] <= c.seen[o]
          BY <2>1, <2>3, <3>2 DEF Grows
        <4> QED BY <4>1
      <3>5. ASSUME NEW v \in Venues, total <= v[o].matched, Rests(v, o) => v[o].matched < Size
            PROVE  Truly(b, c, v)
        <4>1. v[o].matched \in 0 .. Size
          BY <2>1 DEF Venues
        <4>2. ~Rests(v, o)
          BY <2>8, <3>5, <4>1, OrderFacts
        <4>3. Truly(d, c, v)
          BY <1>3, <2>3, <2>4, <3>1, <4>2, ClosedGrows
        <4>4. Truly(b, d, v)
          BY <2>3, <3>5, OrderFacts DEF Truly
        <4> QED BY <2>3, <3>2, <4>3, <4>4, GrowsTrans
      <3> QED BY <1>3, <3>3, <3>4, <3>5
    <2> QED BY <2>1, <2>7, <2>8, OrderFacts
  <1> QED BY <1>1, <1>2, <1>3, OrderFacts

\* A hedge that raises leaves the book as it was.
LEMMA HedgedGrows ==
    ASSUME NEW b \in Books, NEW k \in Keys, NEW total \in 0 .. Size, NEW routing, NEW bad
    PROVE  LET c == Hedged(b, k, total, routing, bad) IN
           /\ Grows(b, c)
           /\ "hedge" \notin bad /\ b.open[k] \in Oids => total <= c.seen[b.open[k]]
           /\ \A v \in Venues :
                 (b.open[k] # None => /\ total <= v[b.open[k]].matched
                                      /\ Rests(v, b.open[k]) => v[b.open[k]].matched < Size)
                 => Truly(b, c, v)
  <1> DEFINE c == Hedged(b, k, total, routing, bad)
  <1>1. CASE "hedge" \in bad
    <2>1. c = b
      BY <1>1 DEF Hedged
    <2> QED BY <1>1, <2>1, GrowsSelf
  <1>2. CASE "hedge" \notin bad
    <2>1. c = Detected(b, k, total, routing)
      BY <1>2 DEF Hedged
    <2> QED BY <2>1, DetectedGrows
  <1> QED BY <1>1, <1>2

\* What a cancel decides: the fill that raced it is routed, a dead order leaves.
LEMMA DecidedGrows ==
    ASSUME NEW b \in Books, NEW k \in Keys, b.open[k] \in Oids, NEW r \in Readings,
           NEW listed, NEW store, NEW routing, NEW bad
    PROVE  LET c == Decided(b, k, r, listed, store, routing, bad)
               o == b.open[k]
           IN
           /\ Grows(b, c)
           /\ Confirmed(b, k, r, listed, store, routing) => c.open[k] = None
           /\ \A v \in Venues :
                 (/\ r.matched <= v[o].matched /\ (Rests(v, o) => v[o].matched < Size)
                  /\ listed \/ State(r, b.seen[o]) = "canceled" => ~Rests(v, o))
                 => Truly(b, c, v)
  <1> DEFINE c == Decided(b, k, r, listed, store, routing, bad)
             o == b.open[k]
             d == Raced(b, k, r, store, routing, bad)
             sure == Confirmed(b, k, r, listed, store, routing)
  <1>1. r.matched \in 0 .. Size
    BY DEF Readings
  <1>2. /\ Grows(b, d)
        /\ \A v \in Venues : r.matched <= v[o].matched /\ (Rests(v, o) => v[o].matched < Size)
              => Truly(b, d, v)
    <2>1. d = b \/ d = Hedged(b, k, r.matched, TRUE, bad)
      BY DEF Raced
    <2> HIDE DEF d
    <2> QED BY <1>1, <2>1, HedgedGrows, GrowsSelf
  <1>3. c = IF sure THEN Closed(d, k) ELSE d
    BY DEF Decided
  <1>4. sure => listed \/ State(r, b.seen[o]) = "canceled"
    BY DEF Confirmed
  <1>5. d \in Books
    BY <1>2 DEF Grows
  <1> HIDE DEF c, d, sure
  <1>6. CASE ~sure
    BY <1>2, <1>3, <1>6 DEF c, sure
  <1>7. CASE sure
    <2>1. /\ Grows(d, c) /\ c.open[k] = None
      BY <1>3, <1>5, <1>7, ClosedGrows
    <2>2. Grows(b, c)
      BY <1>2, <2>1, GrowsTrans
    <2>3. ASSUME NEW v \in Venues, r.matched <= v[o].matched, Rests(v, o) => v[o].matched < Size,
                 listed \/ State(r, b.seen[o]) = "canceled" => ~Rests(v, o)
          PROVE  Truly(b, c, v)
      <3>1. ~Rests(v, o)
        BY <1>4, <1>7, <2>3
      <3>2. d.open[k] = o \/ d.open[k] = None
        BY <1>2 DEF Grows
      <3>3. Truly(d, c, v)
        BY <1>3, <1>5, <1>7, <3>1, <3>2, ClosedGrows
      <3>4. Truly(b, d, v)
        BY <1>2, <2>3
      <3> QED BY <1>2, <2>1, <3>3, <3>4, GrowsTrans
    <2> QED BY <1>7, <2>1, <2>2, <2>3 DEF c, sure
  <1> QED BY <1>6, <1>7

\* A DELETE that reaches the venue leaves no order resting.
LEMMA DeletedAges ==
    ASSUME NEW v \in Venues, NEW o \in Oids
    PROVE  /\ Deleted(v, o) \in Venues /\ Ages(v, Deleted(v, o)) /\ ~Rests(Deleted(v, o), o)
           /\ \A x \in Oids : x # o => Deleted(v, o)[x] = v[x]
           /\ Born(v, o) => Born(Deleted(v, o), o)
  <1> DEFINE w == Deleted(v, o)
             y == [v[o] EXCEPT !.status = "canceled"]
  <1>1. CASE v[o].status # "resting"
    <2>1. w = v
      BY <1>1 DEF Deleted
    <2> QED BY <1>1, <2>1 DEF Ages, Rests
  <1>2. CASE v[o].status = "resting"
    <2>1. w = [v EXCEPT ![o] = y]
      BY <1>2 DEF Deleted
    <2>2. v[o] \in [key : Keys, matched : 0 .. Size, acked : BOOLEAN, status : Statuses]
      BY DEF Venues
    <2>3. /\ y \in [key : Keys, matched : 0 .. Size, acked : BOOLEAN, status : Statuses]
          /\ y.key = v[o].key /\ y.matched = v[o].matched /\ y.acked = v[o].acked
          /\ y.status = "canceled"
      BY <2>2 DEF Statuses
    <2> HIDE DEF y, w
    <2>4. w \in Venues /\ \A x \in Oids : w[x] = IF x = o THEN y ELSE v[x]
      BY <2>1, <2>3 DEF Venues
    <2>5. v[o].matched <= w[o].matched
      <3>1. v[o].matched \in 0 .. Size
        BY <2>2
      <3> QED BY <2>3, <2>4, <3>1
    <2>6. ~Rests(w, o) /\ Born(w, o)
      BY <2>3, <2>4 DEF Rests, Born
    <2>7. Ages(v, w)
      BY <1>2, <2>3, <2>4, <2>5, <2>6 DEF Ages, Rests
    <2> QED BY <2>4, <2>6, <2>7 DEF w
  <1> QED BY <1>1, <1>2

\* A read of a born order says what is true of it.
LEMMA ReadingTrue ==
    ASSUME NEW v \in Venues, NEW o \in Oids, NEW bad
    PROVE  /\ Reading(v, o, bad) \in Readings
           /\ Born(v, o) => Believed(Reading(v, o, bad), o, v)
  <1>1. v[o].status \in Statuses /\ v[o].matched \in 0 .. Size
    BY DEF Venues
  <1>2. Reading(v, o, bad) \in Readings
    BY <1>1, OrderFacts DEF Reading, Readings, Statuses
  <1>3. Born(v, o) => Believed(Reading(v, o, bad), o, v)
    BY <1>1, OrderFacts DEF Reading, Believed, Rests
  <1> QED BY <1>2, <1>3

\* An order read as canceled does not rest.
LEMMA CanceledIsDead ==
    ASSUME NEW v, NEW o, NEW r, NEW seen, Believed(r, o, v), State(r, seen) = "canceled"
    PROVE  ~Rests(v, o)
  BY DEF Believed, State

\* Nothing believed is refuted by what the venue does next.
LEMMA BelievedAges ==
    ASSUME NEW v \in Venues, NEW w \in Venues, Ages(v, w), NEW o \in Oids,
           NEW r \in Readings, Believed(r, o, v)
    PROVE  Believed(r, o, w)
  <1>1. r.matched \in Nat /\ v[o].matched \in Nat /\ w[o].matched \in Nat
    BY OrderFacts DEF Readings, Venues
  <1> QED BY <1>1 DEF Ages, Believed, Rests, Born

\* The invariant outlives every step that neither posts nor touches a job or the poll.
LEMMA Stays ==
    ASSUME NEW v, NEW b, NEW j, NEW p, Typed(v, b, j, p),
           NEW w \in Venues, Ages(v, w), NEW c, Grows(b, c)
    PROVE  /\ Typed(w, c, j, p)
           /\ Truth(v, b, j, p) /\ Truly(b, c, w) => Truth(w, c, j, p)
  <1>1. v \in Venues /\ b \in Books /\ j \in [Keys -> Jobs] /\ p \in Polls /\ c \in Books
    BY DEF Typed, Grows
  <1>2. \A o \in Oids : /\ Born(v, o) => Born(w, o) /\ w[o].key = v[o].key
                        /\ Rests(w, o) => Rests(v, o)
                        /\ w[o].key = v[o].key /\ w[o].acked = v[o].acked
                        /\ v[o].matched <= w[o].matched
    BY <1>1, OrderFacts DEF Ages, Born, Rests, Venues
  <1>3. /\ \A k \in Keys : b.open[k] \in Oids \cup {None} /\ c.open[k] \in {b.open[k], None}
        /\ \A o \in Oids : b.seen[o] \in Nat /\ c.seen[o] \in Nat
                           /\ v[o].matched \in Nat /\ w[o].matched \in Nat
    BY <1>1, OrderFacts DEF Grows, Books, Venues
  <1>4. Tracks(w, c)
    BY <1>1, <1>2, <1>3 DEF Tracks, Typed
  <1>5. PollTodo(w, c, p)
    BY <1>1, <1>2, <1>3 DEF PollTodo, Typed
  <1>8. Roomy(w)
    BY DEF Roomy, Typed, Ages, Rests
  <1>6. Typed(w, c, j, p)
    BY <1>1, <1>4, <1>5, <1>8 DEF Typed, Grows
  <1>7. ASSUME Truth(v, b, j, p), Truly(b, c, w) PROVE Truth(w, c, j, p)
    <2>1. SeenTrue(w, c)
      <3> SUFFICES ASSUME NEW o \in Oids
                   PROVE  /\ c.seen[o] <= w[o].matched
                          /\ Rests(w, o) => w[o].matched < Size
                          /\ ~Born(w, o) => w[o].matched = 0
        BY DEF SeenTrue
      <3>1. /\ b.seen[o] <= v[o].matched
            /\ Rests(v, o) => v[o].matched < Size
            /\ ~Born(v, o) => v[o].matched = 0
        BY <1>7 DEF Truth, SeenTrue
      <3>2. c.seen[o] <= w[o].matched
        BY <1>2, <1>3, <1>7, <3>1 DEF Truly
      <3> QED BY <3>1, <3>2 DEF Ages, Rests, Born
    <2>2. AliveTracked(w, c)
      <3> SUFFICES ASSUME NEW o \in Oids, Rests(w, o), w[o].acked
                   PROVE  c.open[w[o].key] = o
        BY DEF AliveTracked
      <3>1. b.open[v[o].key] = o /\ v[o].key \in Keys /\ w[o].key = v[o].key
        BY <1>1, <1>2, <1>7 DEF Truth, AliveTracked, Venues
      <3> QED BY <1>7, <3>1 DEF Truly
    <2>3. JobTrue(w, c, j)
      <3> SUFFICES ASSUME NEW k \in Keys, j[k] # NoJob
                   PROVE  /\ c.open[k] \in {None, j[k].oid}
                          /\ j[k].listed => ~Rests(w, j[k].oid)
                          /\ Believed(j[k].read, j[k].oid, w)
        BY DEF JobTrue
      <3>1. /\ j[k].oid \in Oids /\ b.open[k] \in {None, j[k].oid}
            /\ j[k].listed => ~Rests(v, j[k].oid)
            /\ Believed(j[k].read, j[k].oid, v) /\ j[k].read \in Readings
        BY <1>1, <1>7 DEF Truth, JobTrue, Jobs, Typed, JobOrder
      <3> QED BY <1>1, <1>2, <1>3, <3>1, BelievedAges
    <2>4. PollTrue(w, p)
      <3> SUFFICES ASSUME NEW o \in DOMAIN p.rows PROVE Believed(p.rows[o], o, w)
        BY DEF PollTrue
      <3>1. o \in Oids /\ p.rows[o] \in Readings
        BY <1>1 DEF Polls
      <3> QED BY <1>1, <1>7, <3>1, BelievedAges DEF Truth, PollTrue
    <2>5. ASSUME "ghost" \notin Faults PROVE Lone(w, c)
      <3>1. Lone(v, b)
        BY <1>7, <2>5 DEF Truth
      <3>2. \A o \in Oids : v[o].key \in Keys
        BY <1>1 DEF Venues
      <3> QED BY <1>2, <1>3, <3>1, <3>2 DEF Lone
    <2> QED BY <2>1, <2>2, <2>3, <2>4, <2>5 DEF Truth
  <1> QED BY <1>6, <1>7

-----------------------------------------------------------------------------
(* A post of place_or_reprice.                                             *)

\* No order of k rests.
NoneRests(v, k) == \A x \in Oids : Rests(v, x) => v[x].key # k

\* What must hold for a post on k: no order and no job of k is at hand.
MayPost(b, j, p, k) ==
    /\ b.open[k] = None /\ p.stage \notin {"orders", "fills"}
    /\ Overlap \/ j[k] = NoJob

\* Nor may one rest unseen, where the stack guard can cancel what it lists.
Cleanly(v, k) == "ghost" \notin Faults => NoneRests(v, k)

\* A new order at the venue, with or without its slot, keeps the invariant.
LEMMA PostKeeps ==
    ASSUME NEW v, NEW b, NEW j, NEW p, NEW k \in Keys, Typed(v, b, j, p),
           MayPost(b, j, p, k), NEW o \in Oids, ~Born(v, o),
           NEW y \in [key : Keys, matched : 0 .. Size, acked : BOOLEAN, status : Statuses],
           y.key = k /\ y.status # "unborn" /\ (y.status = "resting" => y.matched < Size),
           NEW c, c = [b EXCEPT !.open[k] = o] \/ (c = b /\ ~y.acked)
    PROVE  LET w == [v EXCEPT ![o] = y] IN
           /\ Typed(w, c, j, p) /\ w \in Venues /\ w[o] = y
           /\ c = b \/ c.open[k] = o
           /\ Sees(v, b, w, c)
           /\ Honest /\ Truth(v, b, j, p) /\ Cleanly(v, k) => Truth(w, c, j, p)
  <1> DEFINE w == [v EXCEPT ![o] = y]
             o2 == [b.open EXCEPT ![k] = o]
  <1>1. v \in Venues /\ b \in Books /\ j \in [Keys -> Jobs] /\ p \in Polls
        /\ Tracks(v, b) /\ PollTodo(v, b, p) /\ Owing(b) /\ JobOrder(j) /\ Roomy(v)
    BY DEF Typed
  <1>3. w \in Venues /\ \A x \in Oids : w[x] = IF x = o THEN y ELSE v[x]
    BY <1>1 DEF Venues
  <1>4. /\ c \in Books /\ c.seen = b.seen
        /\ \A q \in Keys : q # k => c.open[q] = b.open[q]
        /\ c.open[k] = o \/ (c = b /\ ~y.acked)
    <2>1. CASE c = [b EXCEPT !.open[k] = o]
      <3>1. /\ o2 \in [Keys -> Oids \cup {None}]
            /\ \A q \in Keys : o2[q] = IF q = k THEN o ELSE b.open[q]
        BY <1>1 DEF Books
      <3>2. c = [b EXCEPT !.open = o2]
        BY <2>1
      <3> HIDE DEF o2
      <3>3. c \in Books /\ c.open = o2 /\ c.seen = b.seen
        BY <1>1, <3>1, <3>2 DEF Books
      <3> QED BY <2>1, <3>1, <3>3
    <2>2. CASE c = b /\ ~y.acked
      BY <1>1, <2>2
    <2> QED BY <2>1, <2>2
  <1> HIDE DEF w
  <1>5. \A x \in Oids : Born(v, x) => x # o /\ w[x] = v[x] /\ Born(w, x)
    BY <1>3 DEF Born
  <1>6. Born(w, o) /\ (Rests(w, o) => w[o].matched < Size)
    BY <1>3 DEF Born, Rests
  <1>7. Tracks(w, c)
    BY <1>1, <1>3, <1>4, <1>5, <1>6 DEF Tracks, Books
  <1>8. PollTodo(w, c, p)
    BY <1>1, <1>5 DEF PollTodo, MayPost
  <1>11. Owing(c)
    <2>1. c.owed = b.owed
      BY <1>1 DEF Books
    <2> QED BY <1>1, <1>4, <2>1, OrderFacts DEF Owing, MayPost
  <1>13. Roomy(w)
    BY <1>1, <1>3, <1>6 DEF Roomy, Rests
  <1>9. Typed(w, c, j, p)
    BY <1>1, <1>3, <1>4, <1>7, <1>8, <1>11, <1>13 DEF Typed
  <1>10. ASSUME Honest, Truth(v, b, j, p), Cleanly(v, k) PROVE Truth(w, c, j, p)
    <2>1. SeenTrue(w, c)
      <3>1. \A x \in Oids : /\ b.seen[x] <= v[x].matched
                            /\ Rests(v, x) => v[x].matched < Size
                            /\ ~Born(v, x) => v[x].matched = 0
        BY <1>10 DEF Truth, SeenTrue
      <3>2. b.seen[o] \in 0 .. Size /\ b.seen[o] <= 0
        BY <1>1, <3>1 DEF Books
      <3>3. b.seen[o] <= y.matched
        BY <3>2, OrderFacts
      <3> QED BY <1>3, <1>4, <1>6, <3>1, <3>3 DEF SeenTrue, Rests, Born
    <2>2. AliveTracked(w, c)
      <3> SUFFICES ASSUME NEW x \in Oids, Rests(w, x), w[x].acked PROVE c.open[w[x].key] = x
        BY DEF AliveTracked
      <3>1. CASE x = o
        BY <1>3, <1>4, <3>1 DEF MayPost
      <3>2. CASE x # o
        <4>1. b.open[v[x].key] = x /\ w[x].key = v[x].key /\ v[x].key \in Keys /\ x # None
          BY <1>1, <1>3, <1>10, <3>2, OrderFacts DEF Truth, AliveTracked, Rests, Venues
        <4>2. v[x].key # k
          BY <4>1 DEF MayPost
        <4> QED BY <1>4, <4>1, <4>2
      <3> QED BY <3>1, <3>2
    <2>3. JobTrue(w, c, j)
      <3> SUFFICES ASSUME NEW q \in Keys, j[q] # NoJob
                   PROVE  /\ c.open[q] \in {None, j[q].oid}
                          /\ j[q].listed => ~Rests(w, j[q].oid)
                          /\ Believed(j[q].read, j[q].oid, w)
        BY DEF JobTrue
      <3>1. /\ j[q].oid \in Oids /\ b.open[q] \in {None, j[q].oid}
            /\ j[q].listed => ~Rests(v, j[q].oid)
            /\ Believed(j[q].read, j[q].oid, v)
        BY <1>1, <1>10 DEF Truth, JobTrue, JobOrder
      <3>2. q # k
        BY <1>10 DEF MayPost, Honest
      <3>3. w[j[q].oid] = v[j[q].oid]
        BY <1>5, <3>1 DEF Believed
      <3> QED BY <1>4, <3>1, <3>2, <3>3 DEF Believed, Rests, Born
    <2>4. PollTrue(w, p)
      <3> SUFFICES ASSUME NEW x \in DOMAIN p.rows PROVE Believed(p.rows[x], x, w)
        BY DEF PollTrue
      <3>1. x \in Oids /\ Believed(p.rows[x], x, v)
        BY <1>1, <1>10 DEF Polls, Truth, PollTrue
      <3>2. w[x] = v[x]
        BY <1>5, <3>1 DEF Believed
      <3> QED BY <3>1, <3>2 DEF Believed, Rests, Born
    <2>5. ASSUME "ghost" \notin Faults PROVE Lone(w, c)
      <3>1. Lone(v, b) /\ NoneRests(v, k)
        BY <1>10, <2>5 DEF Truth, Cleanly
      <3>2. \A x \in Oids : Rests(w, x) => x = o \/ (Rests(v, x) /\ w[x] = v[x] /\ w[x].key # k)
        BY <1>3, <3>1 DEF Rests, NoneRests
      <3>3. \A x \in Oids : w[x].key \in Keys
        BY <1>3 DEF Venues
      <3>4. w[o].key = k /\ c.open[k] \in {None, o}
        BY <1>3, <1>4 DEF MayPost
      <3>5. \A x \in Oids : Rests(w, x) => c.open[w[x].key] \in {None, x}
        <4> SUFFICES ASSUME NEW x \in Oids, Rests(w, x) PROVE c.open[w[x].key] \in {None, x}
          OBVIOUS
        <4>1. CASE x = o
          BY <3>4, <4>1
        <4>2. CASE x # o
          <5>1. Rests(v, x) /\ w[x] = v[x] /\ w[x].key # k
            BY <3>2, <4>2
          <5>2. b.open[w[x].key] \in {None, x}
            BY <3>1, <5>1 DEF Lone
          <5> QED BY <1>4, <3>3, <5>1, <5>2
        <4> QED BY <4>1, <4>2
      <3>6. \A x, z \in Oids : Rests(w, x) /\ Rests(w, z) /\ w[x].key = w[z].key => x = z
        BY <3>1, <3>2, <3>4 DEF Lone
      <3> QED BY <3>5, <3>6 DEF Lone
    <2> QED BY <2>1, <2>2, <2>3, <2>4, <2>5 DEF Truth
  <1>12. Sees(v, b, w, c)
    <2>1. \A x \in Oids : b.seen[x] \in Nat /\ v[x].matched \in Nat
      BY <1>1, OrderFacts DEF Books, Venues
    <2> QED BY <1>4, <1>5, <2>1 DEF Sees
  <1> QED BY <1>3, <1>4, <1>9, <1>10, <1>12 DEF w

\* A post of place_or_reprice keeps the invariant.
LEMMA PostedKeeps ==
    ASSUME NEW v, NEW b, NEW j, NEW p, NEW k \in Keys, Typed(v, b, j, p),
           MayPost(b, j, p, k), Next1 \in Oids, ~Born(v, Next1), NEW m \in 0 .. 1,
           NEW bad, Posted(v, b, k, m, bad)
    PROVE  /\ Typed(venue', book', j, p)
           /\ Sees(v, b, venue', book')
           /\ Honest /\ Truth(v, b, j, p) /\ Cleanly(v, k) => Truth(venue', book', j, p)
  <1>1. PICK o \in Oids : o = Next1
    OBVIOUS
  <1> DEFINE y == [key |-> k, matched |-> m, acked |-> "ack" \notin bad,
                   status |-> IF m = Size THEN "filled" ELSE "resting"]
             w == [v EXCEPT ![o] = y]
             c == IF "ack" \notin bad THEN [b EXCEPT !.open[k] = o] ELSE b
  <1>2. venue' = w /\ book' = IF "ack" \notin bad THEN Hedged(c, k, m, FALSE, bad) ELSE c
    BY <1>1 DEF Posted
  <1>3. ~Born(v, o)
    BY <1>1
  <1>4. /\ y \in [key : Keys, matched : 0 .. Size, acked : BOOLEAN, status : Statuses]
        /\ y.key = k /\ y.status # "unborn" /\ (y.status = "resting" => y.matched < Size)
        /\ y.matched = m
    BY OrderFacts DEF Statuses
  <1>5. c = [b EXCEPT !.open[k] = o] \/ (c = b /\ ~y.acked)
    OBVIOUS
  <1> HIDE DEF c, y
  <1>6. /\ Typed(w, c, j, p) /\ w \in Venues /\ w[o] = y /\ (c = b \/ c.open[k] = o)
        /\ Sees(v, b, w, c)
        /\ Honest /\ Truth(v, b, j, p) /\ Cleanly(v, k) => Truth(w, c, j, p)
    BY <1>3, <1>4, <1>5, PostKeeps
  <1> HIDE DEF w
  <1>7. CASE book' = c
    BY <1>2, <1>6, <1>7
  <1>8. CASE book' = Hedged(c, k, m, FALSE, bad)
    <2>1. c \in Books /\ m \in 0 .. Size
      BY <1>6, OrderFacts DEF Typed
    <2>2. Grows(c, book')
      BY <1>8, <2>1, HedgedGrows
    <2>3. Ages(w, w)
      BY DEF Ages
    <2>4. Honest /\ Truth(w, c, j, p) => Truly(c, book', w)
      <3> SUFFICES ASSUME SeenTrue(w, c) PROVE Truly(c, book', w)
        BY DEF Truth
      <3>1. m <= w[o].matched /\ (Rests(w, o) => w[o].matched < Size)
        BY <1>4, <1>6, OrderFacts DEF SeenTrue
      <3>2. c.open[k] = o \/ c.open[k] = None
        BY <1>6 DEF MayPost
      <3> QED BY <1>6, <1>8, <2>1, <3>1, <3>2, HedgedGrows
    <2>5. venue' = w
      BY <1>2
    <2>6. /\ Typed(w, book', j, p)
          /\ Truth(w, c, j, p) /\ Truly(c, book', w) => Truth(w, book', j, p)
      BY <1>6, <2>2, <2>3, Stays
    <2>7. Sees(v, b, w, book')
      <3>1. \A x \in Oids : b.seen[x] \in Nat /\ c.seen[x] \in Nat /\ book'.seen[x] \in Nat
        BY <2>1, <2>2, OrderFacts DEF Typed, Grows, Books
      <3> QED BY <1>6, <2>2, <3>1 DEF Sees, Grows
    <2> QED BY <1>6, <2>4, <2>5, <2>6, <2>7, Zenon
  <1> QED BY <1>2, <1>7, <1>8

\* A set of naturals that has a member has a least one.
LEMMA HasLeast ==
    ASSUME NEW S \in SUBSET Nat, S # {}
    PROVE  \E n \in S : \A x \in S : n <= x
  <1> DEFINE Below == {ss \in Nat \X Nat : ss[1] < ss[2]}
  <1>1. IsWellFoundedOn(Below, Nat)
    BY NatLessThanWellFounded DEF OpToRel
  <1> HIDE DEF Below
  <1>2. PICK n \in S : \A x \in S : ~ (<<x, n>> \in Below)
    BY <1>1, WFMin
  <1>3. ASSUME NEW x \in S PROVE n <= x
    <2>1. x \in Nat /\ n \in Nat /\ <<x, n>> \in Nat \X Nat
      OBVIOUS
    <2>2. x < n => <<x, n>> \in Below
      BY <2>1 DEF Below
    <2> QED BY <1>2, <2>1, <2>2
  <1> QED BY <1>3

\* Next1 is an order not yet placed.
LEMMA NextUnborn ==
    ASSUME venue \in Venues, Unborn # {}
    PROVE  Next1 \in Oids /\ ~Born(venue, Next1)
  <1>1. Unborn \subseteq Oids /\ Oids \subseteq Nat
    BY DEF Unborn, Oids
  <1>2. \E o \in Unborn : \A p \in Unborn : o <= p
    BY <1>1, HasLeast
  <1>3. Next1 \in Unborn
    BY <1>2 DEF Next1
  <1> QED BY <1>1, <1>3 DEF Unborn, Born

\* A job is queued, goes on, or is dropped.
LEMMA JobKeeps ==
    ASSUME NEW v, NEW b, NEW j, NEW p, NEW k \in Keys, Typed(v, b, j, p), NEW x \in Jobs,
           x # NoJob => x.oid \in Oids
    PROVE  /\ Typed(v, b, [j EXCEPT ![k] = x], p)
           /\ /\ Truth(v, b, j, p)
              /\ x # NoJob => /\ b.open[k] \in {None, x.oid}
                              /\ x.listed => ~Rests(v, x.oid)
                              /\ Believed(x.read, x.oid, v)
              => Truth(v, b, [j EXCEPT ![k] = x], p)
  <1> DEFINE i == [j EXCEPT ![k] = x]
  <1>1. j \in [Keys -> Jobs]
    BY DEF Typed
  <1>2. i \in [Keys -> Jobs] /\ \A q \in Keys : i[q] = IF q = k THEN x ELSE j[q]
    BY <1>1
  <1> HIDE DEF i
  <1>3. Typed(v, b, i, p)
    BY <1>2 DEF Typed, JobOrder
  <1>4. ASSUME Truth(v, b, j, p),
               x # NoJob => /\ b.open[k] \in {None, x.oid}
                            /\ x.listed => ~Rests(v, x.oid)
                            /\ Believed(x.read, x.oid, v)
        PROVE  Truth(v, b, i, p)
    <2>1. JobTrue(v, b, i)
      BY <1>2, <1>4 DEF Truth, JobTrue
    <2> QED BY <1>4, <2>1 DEF Truth
  <1> QED BY <1>3, <1>4 DEF i

\* The poll goes on.
LEMMA PollKeeps ==
    ASSUME NEW v, NEW b, NEW j, NEW p, Typed(v, b, j, p), NEW q \in Polls, PollTodo(v, b, q)
    PROVE  /\ Typed(v, b, j, q)
           /\ Truth(v, b, j, p) /\ PollTrue(v, q) => Truth(v, b, j, q)
  BY DEF Typed, Truth

-----------------------------------------------------------------------------
(* Steps that change only the venue and the book.                          *)

\* What a failure costs is within the bound.
LEMMA PaysTyped ==
    ASSUME faults \in 0 .. MaxFaults, NEW kinds, NEW bad \in Suffered(kinds), Pay(bad)
    PROVE  faults' \in 0 .. MaxFaults
  <1>1. IsFiniteSet(FaultKinds)
    <2>1. FaultKinds = {"delete"} \cup {"ghost"} \cup {"read"} \cup {"route"} \cup {"list"}
                       \cup {"ack"} \cup {"fills"} \cup {"job"} \cup {"hedge"}
      BY DEF FaultKinds
    <2> QED BY <2>1, FS_Singleton, FS_Union
  <1>2. bad \subseteq FaultKinds /\ faults + Cardinality(bad) <= MaxFaults
    BY OrderAssumption DEF Suffered
  <1>3. Cardinality(bad) \in Nat
    BY <1>1, <1>2, FS_Subset, FS_CardinalityType
  <1> QED BY <1>2, <1>3, OrderFacts DEF Pay

\* A step that changes only the venue and the book, the faults beside.
LEMMA StepKeeps ==
    ASSUME OrderInv, OthersTyped',
           \/ /\ Typed(venue', book', job, poll)
              /\ Honest /\ Truth(venue, book, job, poll) => Truth(venue', book', job, poll)
           \/ /\ venue' \in Venues /\ Ages(venue, venue') /\ Grows(book, book')
              /\ Honest /\ Truth(venue, book, job, poll) => Truly(book, book', venue'),
           UNCHANGED <<job, poll>>
    PROVE  OrderInv'
  <1>1. CASE /\ Typed(venue', book', job, poll)
             /\ Honest /\ Truth(venue, book, job, poll) => Truth(venue', book', job, poll)
    BY <1>1 DEF OrderInv, Honest
  <1>2. CASE /\ venue' \in Venues /\ Ages(venue, venue') /\ Grows(book, book')
             /\ Honest /\ Truth(venue, book, job, poll) => Truly(book, book', venue')
    <2>1. /\ Typed(venue', book', job, poll)
          /\ Truth(venue, book, job, poll) /\ Truly(book, book', venue')
                => Truth(venue', book', job, poll)
      BY <1>2, Stays DEF OrderInv
    <2> QED BY <1>2, <2>1 DEF OrderInv, Honest
  <1> QED BY <1>1, <1>2

\* A venue that is left alone went on.
LEMMA AgesSelf == ASSUME NEW v PROVE Ages(v, v)
  BY DEF Ages

\* Every ghost of k is cancelled, or the DELETE failed.
LEMMA SweptAges ==
    ASSUME venue \in Venues, NEW k \in Keys, NEW bad
    PROVE  /\ Swept(k, bad) \in Venues /\ Ages(venue, Swept(k, bad))
           /\ \A o \in Oids : ~Born(venue, o) => ~Born(Swept(k, bad), o)
           /\ "ghost" \notin bad /\ book.open[k] = None => NoneRests(Swept(k, bad), k)
  <1> DEFINE w == Swept(k, bad)
  <1>1. \A o \in Oids : w[o] = IF o \in Ghosts(k) /\ "ghost" \notin bad
                               THEN Deleted(venue, o)[o] ELSE venue[o]
    BY DEF Swept
  <1>2. \A o \in Oids : Deleted(venue, o)[o]
                          \in [key : Keys, matched : 0 .. Size, acked : BOOLEAN, status : Statuses]
    BY DeletedAges DEF Venues
  <1>3. w \in Venues
    BY <1>2 DEF Swept, Venues
  <1>4. Ages(venue, w)
    BY <1>1, DeletedAges DEF Ages, Born, Rests
  <1>5. \A o \in Oids : ~Born(venue, o) => ~Born(w, o)
    BY <1>1 DEF Born, Ghosts, Resting
  <1>6. ASSUME "ghost" \notin bad, book.open[k] = None PROVE NoneRests(w, k)
    <2> SUFFICES ASSUME NEW o \in Oids, Rests(w, o), w[o].key = k PROVE FALSE
      BY DEF NoneRests
    <2>1. Rests(venue, o) /\ w[o].key = venue[o].key
      BY <1>4 DEF Ages, Rests
    <2>2. o \in Ghosts(k)
      BY <1>6, <2>1, OrderFacts DEF Ghosts, Resting, Rests, Key
    <2>3. ~Rests(Deleted(venue, o), o)
      BY DeletedAges
    <2> QED BY <1>1, <1>6, <2>2, <2>3 DEF Rests
  <1> QED BY <1>3, <1>4, <1>5, <1>6

\* place_or_reprice with nothing tracked: stack guard, then the post.
LEMMA PlaceStep ==
    ASSUME OrderInv, NEW k \in Keys, Place(k)
    PROVE  OrderInv' /\ Sees(venue, book, venue', book')
  <1>1. PICK bad \in Suffered({"list", "ghost", "read", "ack", "hedge"}), m \in 0 .. 1 :
          /\ m = 0 \/ OnPoly(k)
          /\ Pay(bad)
          /\ IF "list" \in bad
             THEN UNCHANGED <<venue, book>>
             ELSE IF \A o \in Ghosts(k) : Cleared(venue, o, bad)
             THEN Posted(Swept(k, bad), book, k, m, bad)
             ELSE venue' = Swept(k, bad) /\ UNCHANGED book
    BY Zenon DEF Place
  <1>2. /\ LoopFree /\ book.open[k] = None /\ MayQuote(k)
        /\ UNCHANGED <<onPoly, job, poll, marked, told, warm, halted>>
    BY DEF Place
  <1>3. Typed(venue, book, job, poll) /\ venue \in Venues /\ book \in Books
    BY DEF OrderInv, Typed
  <1>4. OthersTyped'
    <2>1. faults \in 0 .. MaxFaults
      BY DEF OrderInv, OthersTyped
    <2>2. faults' \in 0 .. MaxFaults
      BY <1>1, <2>1, PaysTyped
    <2> QED BY <1>2, <2>2 DEF OrderInv, OthersTyped
  <1> DEFINE w == Swept(k, bad)
  <1>5. /\ w \in Venues /\ Ages(venue, w)
        /\ \A o \in Oids : ~Born(venue, o) => ~Born(w, o)
        /\ "ghost" \notin bad => NoneRests(w, k)
    BY <1>2, <1>3, SweptAges
  <1> HIDE DEF w
  <1>6. Grows(book, book) /\ Truly(book, book, w) /\ Truly(book, book, venue)
    BY <1>3, <1>5, GrowsSelf
  <1>7. CASE UNCHANGED <<venue, book>>
    BY <1>2, <1>3, <1>4, <1>6, <1>7, AgesSelf, GrownSees, StepKeeps DEF OrderInv
  <1>8. CASE venue' = w /\ UNCHANGED book
    BY <1>2, <1>3, <1>4, <1>5, <1>6, <1>8, GrownSees, StepKeeps
  <1>9. CASE Posted(w, book, k, m, bad)
    <2>1. Next1 \in Oids /\ ~Born(w, Next1)
      BY <1>2, <1>3, <1>5, NextUnborn DEF MayQuote
    <2>2. /\ Typed(w, book, job, poll)
          /\ Truth(venue, book, job, poll) => Truth(w, book, job, poll)
      BY <1>3, <1>5, <1>6, Stays
    <2>3. MayPost(book, job, poll, k) /\ Cleanly(w, k)
      <3>1. poll.stage \notin {"orders", "fills"}
        BY <1>2 DEF LoopFree
      <3>2. Overlap \/ job[k] = NoJob
        BY <1>2 DEF MayQuote
      <3>3. "ghost" \notin Faults => "ghost" \notin bad
        BY <1>1 DEF Suffered
      <3> QED BY <1>2, <1>5, <3>1, <3>2, <3>3 DEF MayPost, Cleanly
    <2>4. /\ Typed(venue', book', job, poll) /\ Sees(w, book, venue', book')
          /\ Honest /\ Truth(w, book, job, poll) => Truth(venue', book', job, poll)
      BY <1>9, <2>1, <2>2, <2>3, PostedKeeps
    <2>5. Sees(venue, book, venue', book')
      <3>1. Sees(venue, book, w, book)
        BY <1>3, <1>5, <1>6, GrownSees
      <3>2. \A x \in Oids : /\ venue[x].matched \in Nat /\ w[x].matched \in Nat
                            /\ venue'[x].matched \in Nat
        BY <1>3, <1>5, <2>4, OrderFacts DEF Typed, Venues
      <3> QED BY <2>4, <3>1, <3>2 DEF Sees
    <2> QED BY <1>2, <1>4, <2>2, <2>4, <2>5, StepKeeps
  <1> QED BY <1>1, <1>7, <1>8, <1>9 DEF w

\* What stands after a cancel decided, and the reprice that may follow it.
LEMMA OnwardKeeps ==
    ASSUME Typed(venue, book, job, poll),
           NEW v \in Venues, Ages(venue, v), \A o \in Oids : ~Born(venue, o) => ~Born(v, o),
           NEW d, Grows(book, d), NEW j \in [Keys -> Jobs], JobOrder(j),
           NEW k \in Keys, NEW again, NEW bad, Onward(v, d, k, again, bad),
           again => poll.stage \notin {"orders", "fills"},
           MayQuote(k) => Overlap \/ j[k] = NoJob
    PROVE  /\ Typed(venue', book', j, poll)
           /\ Sees(venue, book, venue', book')
           /\ /\ Honest /\ Truth(venue, book, j, poll) /\ Truly(book, d, v)
              /\ again /\ d.open[k] = None /\ MayQuote(k) => Cleanly(v, k)
              => Truth(venue', book', j, poll)
  <1>1. Typed(venue, book, j, poll)
    BY DEF Typed
  <1>2. /\ Typed(v, d, j, poll)
        /\ Truth(venue, book, j, poll) /\ Truly(book, d, v) => Truth(v, d, j, poll)
    BY <1>1, Stays
  <1>5. Sees(venue, book, v, d)
    BY GrownSees DEF Typed
  <1>3. CASE venue' = v /\ book' = d
    BY <1>2, <1>3, <1>5
  <1>4. CASE again /\ d.open[k] = None /\ MayQuote(k) /\ Posted(v, d, k, 0, bad)
    <2>1. Next1 \in Oids /\ ~Born(v, Next1)
      BY <1>4, NextUnborn DEF MayQuote, Typed
    <2>2. MayPost(d, j, poll, k)
      BY <1>4 DEF MayPost
    <2>3. 0 \in 0 .. 1
      OBVIOUS
    <2>4. /\ Typed(venue', book', j, poll) /\ Sees(v, d, venue', book')
          /\ Honest /\ Truth(v, d, j, poll) /\ Cleanly(v, k) => Truth(venue', book', j, poll)
      BY <1>2, <1>4, <2>1, <2>2, <2>3, PostedKeeps
    <2>5. Sees(venue, book, venue', book')
      <3>1. \A x \in Oids : book.seen[x] \in Nat /\ d.seen[x] \in Nat /\ book'.seen[x] \in Nat
        BY <1>1, <1>2, <2>4, OrderFacts DEF Typed, Books
      <3>2. \A x \in Oids : /\ venue[x].matched \in Nat /\ v[x].matched \in Nat
                            /\ venue'[x].matched \in Nat
        BY <1>1, <2>4, OrderFacts DEF Typed, Venues
      <3> QED BY <1>5, <2>4, <3>1, <3>2 DEF Sees
    <2> QED BY <1>2, <1>4, <2>4, <2>5
  <1> QED BY <1>3, <1>4 DEF Onward

-----------------------------------------------------------------------------
(* The cancels made on the spot.                                           *)

\* Marking a cancel as tried changes no slot and no share.
LEMMA TriedGrows ==
    ASSUME NEW b \in Books, NEW k \in Keys, NEW t2 \in SUBSET Keys
    PROVE  /\ LET c == [b EXCEPT !.tried = t2] IN
                 Grows(b, c) /\ c.open = b.open /\ c.seen = b.seen
           /\ LET c == [b EXCEPT !.tried = t2, !.owed[k] = "no"] IN
                 Grows(b, c) /\ c.open = b.open /\ c.seen = b.seen
  <1> DEFINE c == [b EXCEPT !.tried = t2]
             d == [b EXCEPT !.tried = t2, !.owed[k] = "no"]
  <1>1. c \in Books /\ c.open = b.open /\ c.seen = b.seen /\ c.owed = b.owed
    BY DEF Books
  <1>2. Grows(b, c)
    BY <1>1, OrderFacts DEF Grows, Books, Owing
  <1>3. d = [c EXCEPT !.owed[k] = "no"]
    BY DEF Books
  <1> HIDE DEF c, d
  <1>4. Grows(c, d) /\ d.open = c.open /\ d.seen = c.seen
    BY <1>1, <1>3, OwedGrows
  <1>5. Grows(b, d)
    BY <1>2, <1>4, GrowsTrans
  <1> QED BY <1>1, <1>2, <1>4, <1>5 DEF c, d

\* A book with the slots and the shares of another.
LEMMA SameTruly ==
    ASSUME NEW b \in Books, NEW c, c.open = b.open, c.seen = b.seen, NEW v
    PROVE  Truly(b, c, v)
  BY DEF Truly

\* An order tracked under k is the only one of k that may rest.
LEMMA OnlyTracked ==
    ASSUME Typed(venue, book, job, poll), Truth(venue, book, job, poll), NEW k \in Keys,
           book.open[k] # None, NEW v \in Venues, Ages(venue, v), ~Rests(v, book.open[k])
    PROVE  Cleanly(v, k)
  <1> SUFFICES ASSUME "ghost" \notin Faults, NEW o \in Oids, Rests(v, o), v[o].key = k
               PROVE  FALSE
    BY DEF Cleanly, NoneRests
  <1>1. Rests(venue, o) /\ venue[o].key = k
    BY DEF Ages, Rests
  <1>2. book.open[k] = o
    BY <1>1 DEF Truth, Lone
  <1> QED BY <1>2

\* The DELETE of a tracked order, the confirming read and the decision.
LEMMA CancelKeeps ==
    ASSUME OrderInv, NEW k \in Keys, book.open[k] # None, NEW store, NEW routing, NEW again,
           CancelInline(k, store, routing, again),
           again => poll.stage \notin {"orders", "fills"}
    PROVE  OrderInv' /\ Sees(venue, book, venue', book')
  <1>1. /\ Typed(venue, book, job, poll) /\ venue \in Venues /\ book \in Books
        /\ job \in [Keys -> Jobs] /\ JobOrder(job) /\ OthersTyped
    BY DEF OrderInv, Typed
  <1>2. PICK o \in Oids : o = book.open[k]
    BY <1>1 DEF Books
  <1> DEFINE tried == [book EXCEPT !.tried = @ \cup {k}, !.owed[k] = "no"]
             V(bad) == IF "delete" \in bad THEN venue ELSE Deleted(venue, o)
             L(bad) == "delete" \notin bad /\ OnPoly(k) /\ Resting(o)
             R(bad) == Reading(V(bad), o, bad)
             D(bad) == Decided(tried, k, R(bad), L(bad), store, routing, bad)
             S(bad) == again /\ Confirmed(tried, k, R(bad), L(bad), store, routing)
  <1>3. PICK bad \in Suffered({"delete", "read", "list", "hedge", "ack"}) :
          /\ Pay(bad)
          /\ Onward(V(bad), D(bad), k, S(bad), bad)
          /\ UNCHANGED <<onPoly, job, poll, marked, told, warm, halted>>
    BY <1>2 DEF CancelInline
  <1>4. PICK v : v = V(bad)
    OBVIOUS
  <1>5. /\ v \in Venues /\ Ages(venue, v) /\ \A x \in Oids : ~Born(venue, x) => ~Born(v, x)
        /\ "delete" \notin bad => ~Rests(v, o)
    <2>1. CASE "delete" \in bad
      BY <1>1, <1>4, <2>1, AgesSelf
    <2>2. CASE "delete" \notin bad
      <3>1. v = Deleted(venue, o)
        BY <1>4, <2>2
      <3>2. ASSUME NEW x \in Oids, ~Born(venue, x) PROVE ~Born(v, x)
        <4>1. Ages(venue, v)
          BY <1>1, <3>1, DeletedAges
        <4> QED BY <3>2, <4>1 DEF Ages, Born, Rests
      <3> QED BY <1>1, <3>1, <3>2, DeletedAges
    <2> QED BY <2>1, <2>2
  <1>6. PICK r : r = Reading(v, o, bad)
    OBVIOUS
  <1>7. r \in Readings /\ Believed(r, o, v)
    <2>1. Born(v, o)
      BY <1>1, <1>2, <1>5 DEF Typed, Tracks, Ages, Born
    <2> QED BY <1>5, <1>6, <2>1, ReadingTrue
  <1>8. PICK listed \in BOOLEAN : listed <=> L(bad)
    OBVIOUS
  <1>9. PICK t : t = tried
    OBVIOUS
  <1>10. /\ Grows(book, t) /\ t.open = book.open /\ t.seen = book.seen
    <2>1. book.tried \cup {k} \in SUBSET Keys
      BY <1>1 DEF Books
    <2> QED BY <1>1, <1>9, <2>1, TriedGrows, ZenonT(40)
  <1>11. t \in Books /\ t.open[k] = o /\ Truly(book, t, v)
    BY <1>1, <1>2, <1>10, SameTruly DEF Grows
  <1> DEFINE d == Decided(t, k, r, listed, store, routing, bad)
             sure == Confirmed(t, k, r, listed, store, routing)
  <1>12. D(bad) = d /\ (S(bad) <=> again /\ sure)
    <2>1. L(bad) = listed
      BY <1>8
    <2> HIDE DEF L
    <2> QED BY <1>4, <1>6, <1>9, <2>1
  <1>13. Onward(v, d, k, S(bad), bad)
    BY <1>3, <1>4, <1>12
  <1>14. Grows(t, d) /\ (sure => d.open[k] = None)
    BY <1>7, <1>11, DecidedGrows
  <1>15. listed => ~Rests(v, o)
    BY <1>5, <1>8
  <1>16. listed \/ State(r, t.seen[o]) = "canceled" => ~Rests(v, o)
    BY <1>7, <1>15, CanceledIsDead
  <1>17. SeenTrue(venue, book) => Truly(t, d, v)
    <2> SUFFICES ASSUME SeenTrue(venue, book) PROVE Truly(t, d, v)
      OBVIOUS
    <2>1. r.matched <= v[o].matched
      BY <1>7 DEF Believed
    <2>2. Rests(v, o) => v[o].matched < Size
      BY <1>5 DEF SeenTrue, Ages, Rests
    <2> QED BY <1>5, <1>7, <1>11, <1>16, <2>1, <2>2, DecidedGrows
  <1>18. Grows(book, d) /\ (Truth(venue, book, job, poll) => Truly(book, d, v))
    <2>1. Truth(venue, book, job, poll) => SeenTrue(venue, book)
      BY DEF Truth
    <2> HIDE DEF d
    <2> QED BY <1>1, <1>5, <1>10, <1>11, <1>14, <1>17, <2>1, GrowsTrans
  <1>19. Truth(venue, book, job, poll) /\ S(bad) => Cleanly(v, k)
    <2>1. S(bad) => ~Rests(v, o)
      BY <1>11, <1>12, <1>16 DEF Confirmed
    <2> QED BY <1>1, <1>2, <1>5, <2>1, OnlyTracked, OrderFacts
  <1>20. S(bad) => poll.stage \notin {"orders", "fills"}
    BY <1>12
  <1>21. MayQuote(k) => Overlap \/ job[k] = NoJob
    BY DEF MayQuote
  <1> HIDE DEF d, S
  <1>22. /\ Typed(venue', book', job, poll) /\ Sees(venue, book, venue', book')
         /\ Honest /\ Truth(venue, book, job, poll) => Truth(venue', book', job, poll)
    BY <1>1, <1>5, <1>13, <1>18, <1>19, <1>20, <1>21, OnwardKeeps
  <1>23. OthersTyped'
    <2>1. faults' \in 0 .. MaxFaults
      BY <1>1, <1>3, PaysTyped DEF OthersTyped
    <2> QED BY <1>1, <1>3, <2>1 DEF OthersTyped
  <1> QED BY <1>3, <1>22, <1>23, StepKeeps

\* The three reasons to cancel on the spot.
LEMMA InlineSteps ==
    ASSUME OrderInv, NEW k \in Keys, Cancel(k) \/ ForceCancel(k) \/ HaltCancel(k)
    PROVE  OrderInv' /\ Sees(venue, book, venue', book')
  <1>1. CASE Cancel(k)
    <2>1. PICK again \in BOOLEAN : CancelInline(k, TRUE, FALSE, again)
      BY <1>1 DEF Cancel
    <2>2. book.open[k] # None /\ poll.stage \notin {"orders", "fills"}
      BY <1>1 DEF Cancel, LoopFree
    <2> QED BY <2>1, <2>2, CancelKeeps
  <1>2. CASE ForceCancel(k)
    <2>1. book.open[k] # None /\ CancelInline(k, FALSE, FALSE, FALSE)
      BY <1>2 DEF ForceCancel
    <2> QED BY <2>1, CancelKeeps
  <1>3. CASE HaltCancel(k)
    <2>1. book.owed[k] # "no" /\ CancelInline(k, TRUE, book.owed[k] = "routing", FALSE)
      BY <1>3 DEF HaltCancel
    <2>2. book.open[k] # None
      BY <2>1 DEF OrderInv, Typed, Owing
    <2> QED BY <2>1, <2>2, CancelKeeps
  <1> QED BY <1>1, <1>2, <1>3

-----------------------------------------------------------------------------
(* The cancel retry on the worker.                                         *)

\* The absent job is a job.
LEMMA NoJobTyped ==
    /\ NoJob \in Jobs /\ NoJob.stage = "none" /\ NoJob.listed = FALSE
    /\ NoJob.read.got = "unknown" /\ NoJob.read.matched = 0 /\ NoJob.read.status = "unborn"
  BY OrderFacts DEF NoJob, Jobs, Readings, Statuses

\* The faults of a step that pays for them.
LEMMA PaidTyped ==
    ASSUME OrderInv, NEW kinds, NEW bad \in Suffered(kinds), Pay(bad),
           UNCHANGED <<onPoly, marked, told, warm, halted>>
    PROVE  OthersTyped'
  <1>1. faults' \in 0 .. MaxFaults
    BY PaysTyped DEF OrderInv, OthersTyped
  <1> QED BY <1>1 DEF OrderInv, OthersTyped

\* A step of a job, the venue going on.
LEMMA JobStepKeeps ==
    ASSUME OrderInv, OthersTyped', NEW k \in Keys, NEW x \in Jobs, x # NoJob => x.oid \in Oids,
           venue' \in Venues, Ages(venue, venue'), job' = [job EXCEPT ![k] = x],
           UNCHANGED <<book, poll>>,
           Honest /\ Truth(venue, book, job, poll) /\ x # NoJob =>
               /\ book.open[k] \in {None, x.oid}
               /\ x.listed => ~Rests(venue', x.oid)
               /\ Believed(x.read, x.oid, venue')
    PROVE  OrderInv'
  <1>1. Typed(venue, book, job, poll) /\ book \in Books
    BY DEF OrderInv, Typed
  <1>2. Grows(book, book) /\ Truly(book, book, venue')
    BY <1>1, GrowsSelf
  <1>3. /\ Typed(venue', book, job, poll)
        /\ Truth(venue, book, job, poll) => Truth(venue', book, job, poll)
    BY <1>1, <1>2, Stays
  <1>4. /\ Typed(venue', book, job', poll)
        /\ Honest /\ Truth(venue, book, job, poll) => Truth(venue', book, job', poll)
    BY <1>3, JobKeeps
  <1> QED BY <1>4 DEF OrderInv, Honest

\* _cancel after a first attempt: a job is queued for the tracked order.
LEMMA RetryStep ==
    ASSUME OrderInv, NEW k \in Keys, CancelRetry(k)
    PROVE  OrderInv'
  <1> DEFINE x == [NoJob EXCEPT !.stage = "queued", !.oid = book.open[k]]
  <1>1. /\ book.open[k] # None /\ job' = [job EXCEPT ![k] = x]
        /\ UNCHANGED <<onPoly, venue, book, poll, marked, told, warm, halted, faults>>
    BY DEF CancelRetry
  <1>2. Typed(venue, book, job, poll) /\ venue \in Venues /\ book \in Books
    BY DEF OrderInv, Typed
  <1>3. book.open[k] \in Oids /\ Born(venue, book.open[k])
    BY <1>1, <1>2 DEF Typed, Tracks, Books
  <1>4. /\ x \in Jobs /\ x.oid = book.open[k] /\ ~x.listed
        /\ x.read.got = "unknown" /\ x.read.matched = 0 /\ x.read.status = "unborn"
    BY <1>3, NoJobTyped DEF Jobs
  <1> HIDE DEF x
  <1>5. venue[x.oid].matched \in 0 .. Size
    BY <1>2, <1>3, <1>4 DEF Venues
  <1>6. Believed(x.read, x.oid, venue)
    BY <1>3, <1>4, <1>5, OrderFacts DEF Believed
  <1>7. OthersTyped'
    BY <1>1 DEF OrderInv, OthersTyped
  <1> QED BY <1>1, <1>2, <1>3, <1>4, <1>6, <1>7, AgesSelf, JobStepKeeps

\* _job, first half: the DELETE of the order it captured.
LEMMA DeleteStep ==
    ASSUME OrderInv, NEW k \in Keys, JobDelete(k)
    PROVE  OrderInv' /\ Sees(venue, book, venue', book')
  <1>1. /\ Typed(venue, book, job, poll) /\ venue \in Venues /\ book \in Books
        /\ job[k] \in Jobs /\ JobOrder(job)
    BY DEF OrderInv, Typed
  <1>2. job[k].stage = "queued"
    BY DEF JobDelete
  <1>3. job[k] # NoJob
    BY <1>2, NoJobTyped
  <1>4. PICK o \in Oids : o = job[k].oid
    BY <1>1, <1>3 DEF JobOrder
  <1>5. PICK bad \in Suffered({"delete"}) :
          /\ Pay(bad)
          /\ venue' = IF "delete" \in bad THEN venue ELSE Deleted(venue, o)
          /\ job' = [job EXCEPT ![k].stage = "deleted",
                       ![k].listed = "delete" \notin bad /\ OnPoly(k) /\ Resting(o)]
    BY <1>4 DEF JobDelete
  <1>6. UNCHANGED <<onPoly, book, poll, marked, told, warm, halted>>
    BY DEF JobDelete
  <1>7. PICK l \in BOOLEAN : l <=> "delete" \notin bad /\ OnPoly(k) /\ Resting(o)
    OBVIOUS
  <1> DEFINE x == [job[k] EXCEPT !.stage = "deleted", !.listed = l]
  <1>8. job' = [job EXCEPT ![k] = x]
    <2>1. l = ("delete" \notin bad /\ OnPoly(k) /\ Resting(o))
      BY <1>7
    <2>2. job' = [job EXCEPT ![k].stage = "deleted", ![k].listed = l]
      BY <1>5, <2>1
    <2>3. job \in [Keys -> Jobs]
      BY DEF OrderInv, Typed
    <2> QED BY <2>2, <2>3
  <1>9. /\ x \in Jobs /\ x.oid = o /\ x.read = job[k].read /\ x.listed = l
    BY <1>1, <1>4 DEF Jobs
  <1> HIDE DEF x
  <1>10. /\ venue' \in Venues /\ Ages(venue, venue')
         /\ l => ~Rests(venue', o)
    <2>1. CASE "delete" \in bad
      BY <1>1, <1>5, <1>7, <2>1, AgesSelf
    <2>2. CASE "delete" \notin bad
      <3>1. venue' = Deleted(venue, o)
        BY <1>5, <2>2
      <3> QED BY <1>1, <3>1, DeletedAges
    <2> QED BY <2>1, <2>2
  <1>11. ASSUME Truth(venue, book, job, poll)
         PROVE  book.open[k] \in {None, o} /\ Believed(x.read, o, venue')
    <2>1. book.open[k] \in {None, o} /\ Believed(job[k].read, o, venue)
      BY <1>3, <1>4, <1>11 DEF Truth, JobTrue
    <2>2. job[k].read \in Readings
      BY <1>1 DEF Jobs
    <2> QED BY <1>1, <1>9, <1>10, <2>1, <2>2, BelievedAges
  <1>12. OthersTyped'
    BY <1>5, <1>6, PaidTyped
  <1>13. Sees(venue, book, venue', book')
    <2>1. Grows(book, book)
      BY <1>1, GrowsSelf
    <2> QED BY <1>1, <1>6, <1>10, <2>1, GrownSees
  <1> QED BY <1>6, <1>8, <1>9, <1>10, <1>11, <1>12, <1>13, JobStepKeeps

\* _job, second half: the read that is to confirm it.
LEMMA ReadStep ==
    ASSUME OrderInv, NEW k \in Keys, JobRead(k)
    PROVE  OrderInv'
  <1>1. /\ Typed(venue, book, job, poll) /\ venue \in Venues /\ book \in Books
        /\ job[k] \in Jobs /\ JobOrder(job) /\ job \in [Keys -> Jobs]
    BY DEF OrderInv, Typed
  <1>2. job[k].stage = "deleted"
    BY DEF JobRead
  <1>3. job[k] # NoJob
    BY <1>2, NoJobTyped
  <1>4. PICK o \in Oids : o = job[k].oid
    BY <1>1, <1>3 DEF JobOrder
  <1>5. PICK bad \in Suffered({"read", "list"}) :
          /\ Pay(bad)
          /\ job' = [job EXCEPT ![k].stage = "done", ![k].read = Reading(venue, o, bad)]
    BY <1>4 DEF JobRead
  <1>6. UNCHANGED <<onPoly, venue, book, poll, marked, told, warm, halted>>
    BY DEF JobRead
  <1>7. PICK r : r = Reading(venue, o, bad)
    OBVIOUS
  <1>8. r \in Readings /\ (Born(venue, o) => Believed(r, o, venue))
    BY <1>1, <1>7, ReadingTrue
  <1> DEFINE x == [job[k] EXCEPT !.stage = "done", !.read = r]
  <1>9. job' = [job EXCEPT ![k] = x]
    BY <1>1, <1>5, <1>7
  <1>10. x \in Jobs /\ x.oid = o /\ x.read = r /\ x.listed = job[k].listed
    BY <1>1, <1>4, <1>8 DEF Jobs
  <1> HIDE DEF x
  <1>11. ASSUME Truth(venue, book, job, poll)
         PROVE  /\ book.open[k] \in {None, o} /\ Believed(x.read, o, venue)
                /\ x.listed => ~Rests(venue, o)
    BY <1>3, <1>4, <1>8, <1>10, <1>11 DEF Truth, JobTrue, Believed
  <1>12. OthersTyped'
    BY <1>5, <1>6, PaidTyped
  <1> QED BY <1>1, <1>6, <1>9, <1>10, <1>11, <1>12, AgesSelf, JobStepKeeps

\* The job is lost.
LEMMA LostStep ==
    ASSUME OrderInv, NEW k \in Keys, JobLost(k)
    PROVE  OrderInv'
  <1>1. PICK bad \in Suffered({"job"}) : Pay(bad)
    BY DEF JobLost
  <1>2. /\ job' = [job EXCEPT ![k] = NoJob]
        /\ UNCHANGED <<onPoly, venue, book, poll, marked, told, warm, halted>>
    BY DEF JobLost
  <1>3. venue \in Venues
    BY DEF OrderInv, Typed
  <1>4. OthersTyped'
    BY <1>1, <1>2, PaidTyped
  <1> QED BY <1>2, <1>3, <1>4, NoJobTyped, AgesSelf, JobStepKeeps

\* _drain_cancel_results.
LEMMA ApplyCancelStep ==
    ASSUME OrderInv, NEW k \in Keys, ApplyCancel(k)
    PROVE  OrderInv' /\ Sees(venue, book, venue', book')
  <1>1. /\ Typed(venue, book, job, poll) /\ venue \in Venues /\ book \in Books
        /\ job[k] \in Jobs /\ JobOrder(job) /\ job \in [Keys -> Jobs] /\ OthersTyped
    BY DEF OrderInv, Typed
  <1>2. /\ job[k].stage = "done" /\ job' = [job EXCEPT ![k] = NoJob]
        /\ UNCHANGED <<onPoly, poll, marked, told, warm, halted>>
    BY DEF ApplyCancel
  <1>3. job[k] # NoJob
    BY <1>2, NoJobTyped
  <1>4. /\ Typed(venue, book, job', poll) /\ JobOrder(job') /\ job' \in [Keys -> Jobs]
        /\ Truth(venue, book, job, poll) => Truth(venue, book, job', poll)
    <2>1. /\ Typed(venue, book, job', poll)
          /\ Truth(venue, book, job, poll) => Truth(venue, book, job', poll)
      BY <1>1, <1>2, NoJobTyped, JobKeeps
    <2> QED BY <2>1 DEF Typed
  <1>5. CASE book.open[k] = None
    <2>1. /\ book' = [book EXCEPT !.tried = @ \ {k}] /\ UNCHANGED <<venue, faults>>
      BY <1>5 DEF ApplyCancel
    <2>2. book.tried \ {k} \in SUBSET Keys
      BY <1>1 DEF Books
    <2>3. Grows(book, book') /\ book'.open = book.open /\ book'.seen = book.seen
      BY <1>1, <2>1, <2>2, TriedGrows
    <2>4. Truly(book, book', venue)
      BY <1>1, <2>3, SameTruly
    <2>5. /\ Typed(venue, book', job', poll)
          /\ Truth(venue, book, job', poll) => Truth(venue, book', job', poll)
      BY <1>1, <1>4, <2>3, <2>4, AgesSelf, Stays
    <2>6. OthersTyped'
      BY <1>1, <1>2, <2>1 DEF OthersTyped
    <2>7. Sees(venue, book, venue', book')
      BY <1>1, <2>1, <2>3, AgesSelf, GrownSees
    <2> QED BY <1>2, <1>4, <2>1, <2>5, <2>6, <2>7 DEF OrderInv, Honest
  <1>6. CASE book.open[k] # None
    <2>1. PICK o \in Oids : o = book.open[k]
      BY <1>1, <1>6 DEF Books
    <2> DEFINE R(bad) == IF job[k].read.got # "unknown" THEN job[k].read
                         ELSE Reading(venue, o, bad \cup {"read"})
               L == job[k].listed /\ job[k].oid = o
    <2>2. PICK bad \in Suffered({"list", "hedge", "ack"}), store \in BOOLEAN, again \in BOOLEAN :
            /\ again => store /\ LoopFree
            /\ Pay(bad)
            /\ Onward(venue, Decided(book, k, R(bad), L, store, FALSE, bad), k,
                      again /\ Confirmed(book, k, R(bad), L, store, FALSE), bad)
      BY <1>6, <2>1, ZenonT(40) DEF ApplyCancel
    <2>3. PICK r : r = R(bad)
      OBVIOUS
    <2>4. PICK listed \in BOOLEAN : listed <=> L
      OBVIOUS
    <2>5. L = listed
      BY <2>4
    <2> HIDE DEF R, L
    <2> DEFINE d == Decided(book, k, r, listed, store, FALSE, bad)
               sure == again /\ Confirmed(book, k, r, listed, store, FALSE)
    <2>6. Onward(venue, d, k, sure, bad)
      BY <2>2, <2>3, <2>5
    <2>7. r \in Readings
      <3>1. Reading(venue, o, bad \cup {"read"}) \in Readings
        BY <1>1, ReadingTrue
      <3>2. job[k].read \in Readings
        BY <1>1 DEF Jobs
      <3> QED BY <2>3, <3>1, <3>2 DEF R
    <2>8. Grows(book, d)
      BY <1>1, <2>1, <2>7, DecidedGrows
    <2>9. Truth(venue, book, job, poll) => Truly(book, d, venue)
      <3> SUFFICES ASSUME Truth(venue, book, job, poll) PROVE Truly(book, d, venue)
        OBVIOUS
      <3>1. /\ job[k].oid = o /\ Believed(job[k].read, o, venue)
            /\ job[k].listed => ~Rests(venue, o)
        BY <1>3, <1>6, <2>1 DEF Truth, JobTrue
      <3>2. Believed(r, o, venue)
        <4>1. Believed(Reading(venue, o, bad \cup {"read"}), o, venue)
          <5>1. Born(venue, o)
            BY <3>1 DEF Believed
          <5> QED BY <1>1, <5>1, ReadingTrue
        <4> QED BY <2>3, <3>1, <4>1 DEF R
      <3>3. listed => ~Rests(venue, o)
        BY <2>4, <3>1 DEF L
      <3>4. r.matched <= venue[o].matched /\ (Rests(venue, o) => venue[o].matched < Size)
        BY <3>2 DEF Truth, SeenTrue, Believed
      <3>5. listed \/ State(r, book.seen[o]) = "canceled" => ~Rests(venue, o)
        BY <3>2, <3>3, CanceledIsDead
      <3> QED BY <1>1, <2>1, <2>7, <3>4, <3>5, DecidedGrows
    <2>10. sure => poll.stage \notin {"orders", "fills"}
      BY <2>2 DEF LoopFree
    <2>11. MayQuote(k) => Overlap \/ job'[k] = NoJob
      BY <1>3 DEF MayQuote
    <2>12. MayQuote(k) => ~Honest
      BY <1>3 DEF MayQuote, Honest
    <2> HIDE DEF d, sure
    <2>13. /\ Typed(venue', book', job', poll) /\ Sees(venue, book, venue', book')
           /\ Honest /\ Truth(venue, book, job', poll) /\ Truly(book, d, venue)
                 => Truth(venue', book', job', poll)
      <3>1. Honest => (sure /\ d.open[k] = None /\ MayQuote(k) => Cleanly(venue, k))
        BY <2>12
      <3> QED BY <1>1, <1>4, <2>6, <2>8, <2>10, <2>11, <3>1, AgesSelf, OnwardKeeps
    <2>14. OthersTyped'
      BY <1>2, <2>2, PaidTyped
    <2> QED BY <1>2, <1>4, <2>9, <2>13, <2>14 DEF OrderInv, Honest
  <1> QED BY <1>5, <1>6

-----------------------------------------------------------------------------
(* The off-loop fill poll.                                                 *)

\* The idle poll is a poll.
LEMMA NoPollTyped ==
    /\ NoPoll \in Polls /\ NoPoll.stage = "idle" /\ DOMAIN NoPoll.rows = {}
    /\ NoPoll = [stage |-> "idle", rows |-> <<>>, fills |-> {}, todo |-> {}]
  <1>1. <<>> \in [{} -> Readings] /\ DOMAIN <<>> = {}
    OBVIOUS
  <1>2. <<>> \in UNION {[D -> Readings] : D \in SUBSET Oids}
    BY <1>1
  <1> QED BY <1>1, <1>2 DEF NoPoll, Polls

\* A step of the poll that touches neither the venue nor the book.
LEMMA PollStepKeeps ==
    ASSUME OrderInv, OthersTyped', poll' \in Polls, PollTodo(venue, book, poll'),
           UNCHANGED <<venue, book, job>>,
           Honest /\ Truth(venue, book, job, poll) => PollTrue(venue, poll')
    PROVE  OrderInv'
  <1>1. Typed(venue, book, job, poll)
    BY DEF OrderInv
  <1>2. /\ Typed(venue, book, job, poll')
        /\ Honest /\ Truth(venue, book, job, poll) => Truth(venue, book, job, poll')
    BY <1>1, PollKeeps
  <1> QED BY <1>2 DEF OrderInv, Honest

\* The batch goes on to another stage with the rows it has, or is dropped.
LEMMA StageSteps ==
    ASSUME OrderInv, SubmitPoll \/ PollFills \/ PollLost \/ ApplyPoll \/ SweepStart \/ SweepEnd
    PROVE  OrderInv'
  <1>1. /\ Typed(venue, book, job, poll) /\ venue \in Venues /\ book \in Books
        /\ poll \in Polls /\ OthersTyped
    BY DEF OrderInv, Typed
  <1>2. CASE poll' = NoPoll /\ OthersTyped' /\ UNCHANGED <<venue, book, job>>
    <2>1. PollTodo(venue, book, poll') /\ PollTrue(venue, poll')
      BY <1>2, NoPollTyped DEF PollTodo, PollTrue
    <2> QED BY <1>2, <2>1, NoPollTyped, PollStepKeeps
  <1>3. CASE SubmitPoll
    <2>1. /\ poll' = [NoPoll EXCEPT !.stage = "reading", !.todo = Tracked]
          /\ UNCHANGED <<onPoly, venue, book, job, marked, told, warm, halted, faults>>
      BY <1>3 DEF SubmitPoll
    <2>2. \A o \in Tracked : o \in Oids /\ Born(venue, o)
      BY <1>1 DEF Tracked, Typed, Tracks, Books
    <2>3. /\ poll' \in Polls /\ poll'.stage = "reading" /\ poll'.todo = Tracked
          /\ DOMAIN poll'.rows = {}
      <3>1. Tracked \in SUBSET (Oids \cup Keys)
        BY <2>2
      <3> HIDE DEF NoPoll
      <3> QED BY <2>1, <3>1, NoPollTyped DEF Polls
    <2>4. PollTodo(venue, book, poll') /\ PollTrue(venue, poll')
      BY <2>2, <2>3 DEF PollTodo, PollTrue
    <2>5. OthersTyped'
      BY <1>1, <2>1 DEF OthersTyped
    <2> QED BY <2>1, <2>3, <2>4, <2>5, PollStepKeeps
  <1>4. CASE PollFills
    <2>1. PICK bad \in Suffered({"fills"}) :
            Pay(bad) /\ poll' = [poll EXCEPT !.stage = "done",
                                   !.fills = IF "fills" \in bad THEN {} ELSE KalshiShares]
      BY <1>4 DEF PollFills
    <2>2. UNCHANGED <<onPoly, venue, book, job, marked, told, warm, halted>>
      BY <1>4 DEF PollFills
    <2>3. PICK f \in SUBSET Shares : f = IF "fills" \in bad THEN {} ELSE KalshiShares
      BY DEF KalshiShares
    <2>4. poll' \in Polls /\ poll'.stage = "done" /\ poll'.rows = poll.rows
      BY <1>1, <2>1, <2>3 DEF Polls
    <2>5. PollTodo(venue, book, poll') /\ (PollTrue(venue, poll) => PollTrue(venue, poll'))
      BY <2>4 DEF PollTodo, PollTrue
    <2>6. OthersTyped'
      BY <2>1, <2>2, PaidTyped
    <2> QED BY <2>2, <2>4, <2>5, <2>6, PollStepKeeps DEF Truth
  <1>5. CASE PollLost
    <2>1. PICK bad \in Suffered({"job"}) : Pay(bad)
      BY <1>5 DEF PollLost
    <2>2. poll' = NoPoll /\ UNCHANGED <<onPoly, venue, book, job, marked, told, warm, halted>>
      BY <1>5 DEF PollLost
    <2> QED BY <1>2, <2>1, <2>2, PaidTyped
  <1>6. CASE ApplyPoll
    <2>1. /\ poll' = [poll EXCEPT !.stage = "orders",
                        !.todo = {k \in Keys : book.open[k] \in DOMAIN poll.rows}]
          /\ UNCHANGED <<onPoly, venue, book, job, marked, told, warm, halted, faults>>
      BY <1>6 DEF ApplyPoll
    <2>2. PICK K \in SUBSET (Oids \cup Keys) : K = {k \in Keys : book.open[k] \in DOMAIN poll.rows}
      OBVIOUS
    <2>3. /\ poll' \in Polls /\ poll'.stage = "orders" /\ poll'.rows = poll.rows /\ poll'.todo = K
      BY <1>1, <2>1, <2>2 DEF Polls
    <2>4. PollTodo(venue, book, poll') /\ (PollTrue(venue, poll) => PollTrue(venue, poll'))
      BY <2>2, <2>3 DEF PollTodo, PollTrue
    <2>5. OthersTyped'
      BY <1>1, <2>1 DEF OthersTyped
    <2> QED BY <2>1, <2>3, <2>4, <2>5, PollStepKeeps DEF Truth
  <1>7. CASE SweepStart
    <2>1. /\ warm' = TRUE /\ UNCHANGED <<onPoly, venue, book, job, told, halted, faults>>
          /\ \/ poll' = [poll EXCEPT !.stage = "fills"] /\ UNCHANGED marked
             \/ poll' = NoPoll /\ marked' = marked \cup poll.fills
      BY <1>7 DEF SweepStart
    <2>2. poll.fills \subseteq Shares
      BY <1>1 DEF Polls
    <2>3. OthersTyped'
      BY <1>1, <2>1, <2>2 DEF OthersTyped
    <2>4. CASE poll' = NoPoll
      BY <1>2, <2>1, <2>3, <2>4
    <2>5. CASE poll' = [poll EXCEPT !.stage = "fills"]
      <3>1. poll' \in Polls /\ poll'.stage = "fills" /\ poll'.rows = poll.rows
        BY <1>1, <2>5 DEF Polls
      <3>2. PollTodo(venue, book, poll') /\ (PollTrue(venue, poll) => PollTrue(venue, poll'))
        BY <3>1 DEF PollTodo, PollTrue
      <3> QED BY <2>1, <2>3, <3>1, <3>2, PollStepKeeps DEF Truth
    <2> QED BY <2>1, <2>4, <2>5
  <1>8. CASE SweepEnd
    <2>1. /\ poll' = NoPoll
          /\ UNCHANGED <<onPoly, venue, book, job, marked, told, warm, halted, faults>>
      BY <1>8 DEF SweepEnd
    <2>2. OthersTyped'
      BY <1>1, <2>1 DEF OthersTyped
    <2> QED BY <1>2, <2>1, <2>2
  <1> QED BY <1>3, <1>4, <1>5, <1>6, <1>7, <1>8

\* One order of the batch is read.
LEMMA PollReadStep ==
    ASSUME OrderInv, NEW o \in Oids, PollRead(o)
    PROVE  OrderInv'
  <1>1. /\ Typed(venue, book, job, poll) /\ venue \in Venues /\ book \in Books
        /\ poll \in Polls /\ OthersTyped
    BY DEF OrderInv, Typed
  <1>2. poll.stage = "reading" /\ o \in poll.todo
        /\ UNCHANGED <<onPoly, venue, book, job, marked, told, warm, halted>>
    BY DEF PollRead
  <1> DEFINE R(bad) == IF Resting(o) /\ "list" \notin bad THEN Reading(venue, o, {})
                 ELSE IF "read" \notin bad THEN Reading(venue, o, {})
                 ELSE IF OnPoly(Key(o)) THEN Reading(venue, o, {"read", "list"})
                 ELSE IF "list" \in bad
                      THEN [Reading(venue, o, bad) EXCEPT !.got = "blank"]
                      ELSE Reading(venue, o, {"read"})
  <1>3. PICK bad \in Suffered({"list", "read"}) :
          /\ Pay(bad)
          /\ poll' = [poll EXCEPT !.todo = @ \ {o},
                        !.rows = [p \in DOMAIN @ \cup {o} |-> IF p = o THEN R(bad) ELSE @[p]]]
    BY Zenon DEF PollRead
  <1>4. PICK r : r = R(bad)
    OBVIOUS
  <1>5. Born(venue, o)
    BY <1>1, <1>2 DEF Typed, PollTodo
  <1>6. r \in Readings /\ Believed(r, o, venue)
    <2>1. \A B : Reading(venue, o, B) \in Readings /\ Believed(Reading(venue, o, B), o, venue)
      BY <1>1, <1>5, ReadingTrue
    <2> DEFINE z == Reading(venue, o, bad)
               y == [z EXCEPT !.got = "blank"]
    <2>2. z \in Readings /\ Believed(z, o, venue)
      BY <2>1
    <2> HIDE DEF z
    <2>3. y \in Readings /\ y.got = "blank" /\ y.matched = z.matched /\ y.status = z.status
      BY <2>2 DEF Readings
    <2> HIDE DEF y
    <2>4. Believed(y, o, venue)
      BY <2>2, <2>3 DEF Believed
    <2>5. r = y \/ \E B : r = Reading(venue, o, B)
      BY <1>4 DEF y, z
    <2> QED BY <2>1, <2>3, <2>4, <2>5
  <1> HIDE DEF R
  <1> DEFINE rows == [p \in DOMAIN poll.rows \cup {o} |-> IF p = o THEN r ELSE poll.rows[p]]
             todo == poll.todo \ {o}
  <1>7. /\ poll.rows \in UNION {[D -> Readings] : D \in SUBSET Oids}
        /\ DOMAIN poll.rows \subseteq Oids /\ \A p \in DOMAIN poll.rows : poll.rows[p] \in Readings
    BY <1>1 DEF Polls
  <1>8. /\ rows \in UNION {[D -> Readings] : D \in SUBSET Oids}
        /\ todo \in SUBSET (Oids \cup Keys)
        /\ DOMAIN rows = DOMAIN poll.rows \cup {o}
        /\ \A p \in DOMAIN rows : rows[p] = IF p = o THEN r ELSE poll.rows[p]
    <2>1. rows \in [DOMAIN poll.rows \cup {o} -> Readings]
      BY <1>6, <1>7
    <2>2. DOMAIN poll.rows \cup {o} \in SUBSET Oids
      BY <1>7
    <2>3. todo \in SUBSET (Oids \cup Keys)
      BY <1>1 DEF Polls
    <2> QED BY <2>1, <2>2, <2>3
  <1>9. poll' = [poll EXCEPT !.todo = todo, !.rows = rows]
    BY <1>3, <1>4
  <1> HIDE DEF rows, todo
  <1>10. poll' \in Polls /\ poll'.stage = "reading" /\ poll'.rows = rows /\ poll'.todo = todo
    BY <1>1, <1>2, <1>8, <1>9 DEF Polls
  <1>11. PollTodo(venue, book, poll')
    BY <1>1, <1>2, <1>10 DEF Typed, PollTodo, todo
  <1>12. PollTrue(venue, poll) => PollTrue(venue, poll')
    BY <1>6, <1>8, <1>10 DEF PollTrue
  <1>13. OthersTyped'
    BY <1>2, <1>3, PaidTyped
  <1> QED BY <1>2, <1>10, <1>11, <1>12, <1>13, PollStepKeeps DEF Truth

-----------------------------------------------------------------------------
(* The walk through the batch, the sweep, the sockets and the venue.       *)

\* What poll_open_orders makes of one row of its batch.
LEMMA PolledGrows ==
    ASSUME venue \in Venues, book \in Books, NEW k \in Keys, book.open[k] \in Oids,
           NEW r \in Readings, NEW bad
    PROVE  /\ Grows(book, Polled(k, r, bad))
           /\ SeenTrue(venue, book) /\ Believed(r, book.open[k], venue)
                 => Truly(book, Polled(k, r, bad), venue)
  <1> DEFINE c == Polled(k, r, bad)
             o == book.open[k]
  <1>1. r.matched \in 0 .. Size
    BY DEF Readings
  <1>2. \/ c = book
        \/ c = Closed(book, k) /\ r.got \in {"blank", "absent"} /\ Gone(o, r, bad)
        \/ c = Closed(book, k) /\ r.status = "canceled"
        \/ c = Hedged(book, k, r.matched, FALSE, bad)
    BY DEF Polled
  <1>3. CASE c = book
    BY <1>3, GrowsSelf
  <1>4. CASE c = Closed(book, k) /\ (Believed(r, o, venue) => ~Rests(venue, o))
    BY <1>4, ClosedGrows, OrderFacts
  <1>5. CASE c = Hedged(book, k, r.matched, FALSE, bad)
    <2>1. SeenTrue(venue, book) /\ Believed(r, o, venue)
             => r.matched <= venue[o].matched /\ (Rests(venue, o) => venue[o].matched < Size)
      BY DEF SeenTrue, Believed
    <2> QED BY <1>1, <1>5, <2>1, HedgedGrows
  <1>6. Gone(o, r, bad) \/ r.status = "canceled" => (Believed(r, o, venue) => ~Rests(venue, o))
    BY DEF Gone, Believed, Resting, Rests
  <1> QED BY <1>2, <1>3, <1>4, <1>5, <1>6

\* poll_open_orders: one order of the batch is applied.
LEMMA PollOrderStep ==
    ASSUME OrderInv, NEW k \in Keys, PollOrder(k)
    PROVE  OrderInv' /\ Sees(venue, book, venue', book')
  <1>1. /\ Typed(venue, book, job, poll) /\ venue \in Venues /\ book \in Books
        /\ poll \in Polls /\ OthersTyped
    BY DEF OrderInv, Typed
  <1>2. /\ poll.stage = "orders" /\ k \in poll.todo /\ poll' = [poll EXCEPT !.todo = @ \ {k}]
        /\ UNCHANGED <<onPoly, venue, job, marked, told, warm, halted>>
    BY DEF PollOrder
  <1>3. PICK bad \in Suffered({"hedge", "list"}) :
          /\ Pay(bad)
          /\ book' = IF book.open[k] = None THEN book ELSE Polled(k, poll.rows[book.open[k]], bad)
    BY Zenon DEF PollOrder
  <1>4. /\ Grows(book, book')
        /\ Truth(venue, book, job, poll) => Truly(book, book', venue)
    <2>1. CASE book.open[k] = None
      BY <1>1, <1>3, <2>1, GrowsSelf
    <2>2. CASE book.open[k] # None
      <3>1. PICK o \in Oids : o = book.open[k]
        BY <1>1, <2>2 DEF Books
      <3>2. o \in DOMAIN poll.rows
        BY <1>1, <1>2, <2>2, <3>1 DEF Typed, PollTodo
      <3>3. PICK r \in Readings : r = poll.rows[o]
        BY <1>1, <3>2 DEF Polls
      <3>4. book' = Polled(k, r, bad)
        BY <1>3, <2>2, <3>1, <3>3
      <3>5. Truth(venue, book, job, poll) => SeenTrue(venue, book) /\ Believed(r, o, venue)
        BY <3>2, <3>3 DEF Truth, PollTrue
      <3> QED BY <1>1, <3>1, <3>4, <3>5, PolledGrows
    <2> QED BY <2>1, <2>2
  <1>5. /\ Typed(venue, book', job, poll)
        /\ Truth(venue, book, job, poll) => Truth(venue, book', job, poll)
    BY <1>1, <1>4, AgesSelf, Stays
  <1>6. /\ poll' \in Polls /\ poll'.stage = poll.stage /\ poll'.rows = poll.rows
        /\ poll'.todo = poll.todo \ {k}
    BY <1>1, <1>2 DEF Polls
  <1>7. PollTodo(venue, book', poll')
    BY <1>2, <1>5, <1>6 DEF Typed, PollTodo
  <1>8. Truth(venue, book', job, poll) => PollTrue(venue, poll')
    BY <1>6 DEF Truth, PollTrue
  <1>9. /\ Typed(venue, book', job, poll')
        /\ Truth(venue, book', job, poll) => Truth(venue, book', job, poll')
    BY <1>5, <1>6, <1>7, <1>8, PollKeeps
  <1>10. OthersTyped'
    BY <1>2, <1>3, PaidTyped
  <1>11. Sees(venue, book, venue, book')
    BY <1>1, <1>4, AgesSelf, GrownSees
  <1> QED BY <1>2, <1>5, <1>9, <1>10, <1>11 DEF OrderInv, Honest

\* _route_venue_cumulative.
LEMMA RoutedGrows ==
    ASSUME venue \in Venues, book \in Books, NEW k \in Keys, book.open[k] \in Oids, NEW bad
    PROVE  /\ Grows(book, Routed(k, bad))
           /\ "route" \notin bad /\ SeenTrue(venue, book) => Truly(book, Routed(k, bad), venue)
           /\ "route" \notin bad /\ "hedge" \notin bad =>
                 venue[book.open[k]].matched <= Routed(k, bad).seen[book.open[k]]
  <1>1. PICK o \in Oids : o = book.open[k]
    OBVIOUS
  <1>2. venue[o].matched \in 0 .. Size /\ book.seen[o] \in 0 .. Size
    BY DEF Venues, Books
  <1>3. Cumulative(o, bad) \in 0 .. Size
    BY <1>2, OrderFacts DEF Cumulative, Smaller
  <1>4. PICK total \in 0 .. Size : total = Cumulative(o, bad)
    BY <1>3
  <1>5. Routed(k, bad) = Hedged(book, k, total, FALSE, bad)
    BY <1>1, <1>4 DEF Routed
  <1>6. "route" \notin bad => total = venue[o].matched
    BY <1>4 DEF Cumulative
  <1>7. SeenTrue(venue, book) /\ "route" \notin bad
           => total <= venue[o].matched /\ (Rests(venue, o) => venue[o].matched < Size)
    BY <1>2, <1>6 DEF SeenTrue
  <1> QED BY <1>1, <1>5, <1>6, <1>7, HedgedGrows, OrderFacts

\* A step that only hands shares of a tracked order to the hedge.
LEMMA FillKeeps ==
    ASSUME OrderInv, OthersTyped', Grows(book, book'),
           Honest /\ SeenTrue(venue, book) => Truly(book, book', venue),
           UNCHANGED <<venue, job, poll>>
    PROVE  OrderInv' /\ Sees(venue, book, venue', book')
  <1>1. venue \in Venues /\ (Truth(venue, book, job, poll) => SeenTrue(venue, book))
    BY DEF OrderInv, Typed, Truth
  <1> QED BY <1>1, AgesSelf, GrownSees, StepKeeps

\* The row of a tracked order, in the sweep or in a frame.
LEMMA HintStep ==
    ASSUME OrderInv, NEW s \in Shares, book.open[Key(s[1])] = s[1],
           NEW bad \in Suffered({"route", "hedge"}), Pay(bad),
           book' = Routed(Key(s[1]), bad), marked' = marked \cup {s},
           UNCHANGED <<onPoly, venue, job, poll, told, warm, halted>>
    PROVE  /\ OrderInv' /\ Sees(venue, book, venue', book')
           /\ "route" \notin Faults /\ "hedge" \notin Faults =>
                 venue[s[1]].matched <= book'.seen[s[1]]
  <1>1. /\ venue \in Venues /\ book \in Books /\ OthersTyped
    BY DEF OrderInv, Typed
  <1>2. PICK o \in Oids : o = s[1]
    BY DEF Shares
  <1>3. PICK k \in Keys : k = Key(o)
    BY <1>1 DEF Key, Venues
  <1>4. book.open[k] = o /\ book' = Routed(k, bad)
    BY <1>2, <1>3
  <1>5. "route" \notin Faults => "route" \notin bad
    BY DEF Suffered
  <1>6. "hedge" \notin Faults => "hedge" \notin bad
    BY DEF Suffered
  <1>7. OthersTyped'
    <2>1. faults' \in 0 .. MaxFaults
      BY <1>1, PaysTyped DEF OthersTyped
    <2> QED BY <1>1, <2>1 DEF OthersTyped
  <1>8. /\ Grows(book, book')
        /\ "route" \notin Faults /\ SeenTrue(venue, book) => Truly(book, book', venue)
        /\ "route" \notin Faults /\ "hedge" \notin Faults => venue[o].matched <= book'.seen[o]
    BY <1>1, <1>4, <1>5, <1>6, RoutedGrows
  <1>9. OrderInv' /\ Sees(venue, book, venue', book')
    BY <1>7, <1>8, FillKeeps DEF Honest
  <1> QED BY <1>2, <1>8, <1>9

\* poll_kalshi_fills: one row of the sweep, ours or reported.
LEMMA SweepFillStep ==
    ASSUME OrderInv, NEW s \in Shares, SweepFill(s)
    PROVE  /\ OrderInv' /\ Sees(venue, book, venue', book')
           /\ s \in poll.fills /\ marked' = marked \cup {s} /\ told \subseteq told'
           /\ "route" \notin Faults /\ "hedge" \notin Faults =>
                 s \in told' \/ venue[s[1]].matched <= book'.seen[s[1]]
  <1>1. /\ s \in poll.fills /\ marked' = marked \cup {s}
        /\ UNCHANGED <<onPoly, venue, job, poll, warm, halted>>
    BY DEF SweepFill
  <1>2. CASE book.open[Key(s[1])] = s[1]
    <2>1. PICK bad \in Suffered({"route", "hedge"}) :
            Pay(bad) /\ book' = Routed(Key(s[1]), bad) /\ UNCHANGED told
      BY <1>2, Zenon DEF SweepFill
    <2> QED BY <1>1, <1>2, <2>1, HintStep
  <1>3. CASE book.open[Key(s[1])] # s[1]
    <2>1. told' = told \cup {s} /\ UNCHANGED <<book, faults>>
      BY <1>3 DEF SweepFill, Reported
    <2>2. book \in Books /\ venue \in Venues /\ OthersTyped'
      BY <1>1, <2>1 DEF OrderInv, OthersTyped, Typed
    <2>3. Grows(book, book') /\ Truly(book, book', venue)
      BY <2>1, <2>2, GrowsSelf
    <2>4. OrderInv' /\ Sees(venue, book, venue', book')
      BY <1>1, <2>2, <2>3, FillKeeps
    <2> QED BY <1>1, <2>1, <2>4
  <1> QED BY <1>2, <1>3

\* on_kalshi_fill: one frame of a tracked order.
LEMMA FrameStep ==
    ASSUME OrderInv, NEW s \in Shares, KalshiFrame(s)
    PROVE  /\ OrderInv' /\ Sees(venue, book, venue', book')
           /\ s \in KalshiShares /\ marked' = marked \cup {s} /\ UNCHANGED <<poll, told>>
           /\ "route" \notin Faults /\ "hedge" \notin Faults =>
                 venue[s[1]].matched <= book'.seen[s[1]]
  <1>1. PICK bad \in Suffered({"route", "hedge"}) :
          Pay(bad) /\ book' = Routed(Key(s[1]), bad)
    BY Zenon DEF KalshiFrame
  <1>2. /\ s \in KalshiShares /\ marked' = marked \cup {s} /\ book.open[Key(s[1])] = s[1]
        /\ UNCHANGED <<onPoly, venue, job, poll, told, warm, halted>>
    BY DEF KalshiFrame
  <1> QED BY <1>1, <1>2, HintStep

\* on_order_update: the cumulative count of a Polymarket order.
LEMMA PolyFrameStep ==
    ASSUME OrderInv, NEW o \in Oids, NEW m \in 1 .. Size, PolyFrame(o, m)
    PROVE  OrderInv' /\ Sees(venue, book, venue', book')
  <1>1. PICK bad \in Suffered({"hedge"}) :
          Pay(bad) /\ book' = Hedged(book, Key(o), m, FALSE, bad)
    BY Zenon DEF PolyFrame
  <1>2. /\ m <= venue[o].matched /\ book.open[Key(o)] = o
        /\ UNCHANGED <<onPoly, venue, job, poll, marked, told, warm, halted>>
    BY DEF PolyFrame
  <1>3. venue \in Venues /\ book \in Books
    BY DEF OrderInv, Typed
  <1>4. PICK k \in Keys : k = Key(o)
    BY <1>3 DEF Key, Venues
  <1>5. m \in 0 .. Size
    BY OrderFacts
  <1>6. /\ Grows(book, book')
        /\ SeenTrue(venue, book) => Truly(book, book', venue)
    <2>1. SeenTrue(venue, book) => (Rests(venue, o) => venue[o].matched < Size)
      BY DEF SeenTrue
    <2> QED BY <1>1, <1>2, <1>3, <1>4, <1>5, <2>1, HedgedGrows
  <1>7. OthersTyped'
    BY <1>1, <1>2, PaidTyped
  <1> QED BY <1>2, <1>6, <1>7, FillKeeps

\* The venue matches or cancels; nothing of the book is touched.
LEMMA VenueStep ==
    ASSUME OrderInv, NEW o \in Oids, VenueFill(o) \/ VenueCancel(o)
    PROVE  OrderInv' /\ Sees(venue, book, venue', book')
  <1>1. /\ Resting(o) /\ UNCHANGED <<onPoly, book, job, poll, marked, told, warm, halted, faults>>
    BY DEF VenueFill, VenueCancel
  <1>2. /\ venue \in Venues /\ book \in Books /\ OthersTyped /\ OthersTyped'
        /\ Grows(book, book) /\ \A v \in Venues : Truly(book, book, v)
    BY <1>1, GrowsSelf DEF OrderInv, Typed, OthersTyped
  <1>3. CASE VenueCancel(o)
    <2>1. venue' = Deleted(venue, o)
      BY <1>3 DEF VenueCancel
    <2>2. venue' \in Venues /\ Ages(venue, venue')
      BY <1>2, <2>1, DeletedAges
    <2> QED BY <1>1, <1>2, <2>2, GrownSees, StepKeeps
  <1>4. CASE VenueFill(o) /\ venue[o].matched < Size
    <2> DEFINE y == [venue[o] EXCEPT !.matched = @ + 1,
                        !.status = IF venue[o].matched + 1 = Size THEN "filled" ELSE @]
    <2>1. venue' = [venue EXCEPT ![o] = y]
      BY <1>2, <1>4 DEF VenueFill, Venues
    <2>2. /\ venue[o] \in [key : Keys, matched : 0 .. Size, acked : BOOLEAN, status : Statuses]
          /\ venue[o].status = "resting"
      BY <1>1, <1>2 DEF Venues, Resting
    <2>3. venue[o].matched + 1 \in 0 .. Size
      BY <1>4, <2>2, OrderFacts
    <2>4. PICK st \in {"filled", "resting"} :
            st = IF venue[o].matched + 1 = Size THEN "filled" ELSE venue[o].status
      BY <2>2
    <2>5. PICK n \in 0 .. Size : n = venue[o].matched + 1
      BY <2>3
    <2>6. y = [venue[o] EXCEPT !.matched = n, !.status = st]
      BY <2>4, <2>5
    <2>7. /\ y \in [key : Keys, matched : 0 .. Size, acked : BOOLEAN, status : Statuses]
          /\ y.key = venue[o].key /\ y.acked = venue[o].acked /\ y.matched = n /\ y.status = st
      BY <2>2, <2>6 DEF Statuses
    <2> HIDE DEF y
    <2>8. venue' \in Venues /\ \A x \in Oids : venue'[x] = IF x = o THEN y ELSE venue[x]
      BY <1>2, <2>1, <2>7 DEF Venues
    <2>9. /\ venue[o].matched <= n /\ (st = "resting" => n < Size)
      BY <2>2, <2>4, <2>5, OrderFacts
    <2>10. Ages(venue, venue')
      BY <1>1, <2>2, <2>7, <2>8, <2>9 DEF Ages, Rests, Born
    <2> QED BY <1>1, <1>2, <2>8, <2>10, GrownSees, StepKeeps
  <1>5. VenueFill(o) => venue[o].matched < Size
    <2>1. Rests(venue, o)
      BY <1>1 DEF Resting, Rests
    <2> QED BY <2>1 DEF OrderInv, Typed, Roomy
  <1> QED BY <1>3, <1>4, <1>5

\* Nothing is placed, asked or marked yet.
LEMMA StartsTrue == Init => OrderInv /\ (~ColdStart => MarkedInv)
  <1> SUFFICES ASSUME Init PROVE OrderInv /\ (~ColdStart => MarkedInv)
    OBVIOUS
  <1>1. PICK k0 \in Keys : venue = [o \in Oids |-> [key |-> k0, status |-> "unborn", matched |-> 0,
                                                   acked |-> FALSE]]
    <2>1. (CHOOSE k \in Keys : TRUE) \in Keys
      BY OrderAssumption
    <2> QED BY <2>1 DEF Init
  <1>2. /\ book = [open |-> [k \in Keys |-> None], seen |-> [o \in Oids |-> 0],
                   tried |-> {}, owed |-> [k \in Keys |-> "no"]]
        /\ job = [k \in Keys |-> NoJob] /\ poll = NoPoll
        /\ onPoly \in SUBSET Keys /\ marked = {} /\ told = {} /\ warm = ~ColdStart
        /\ halted = FALSE /\ faults = 0
    BY DEF Init
  <1>3. /\ venue \in Venues
        /\ \A o \in Oids : ~Born(venue, o) /\ ~Rests(venue, o) /\ venue[o].matched = 0
    BY <1>1, OrderFacts DEF Venues, Statuses, Born, Rests
  <1>4. /\ book \in Books /\ \A k \in Keys : book.open[k] = None /\ book.owed[k] = "no"
        /\ \A o \in Oids : book.seen[o] = 0
    BY <1>2, OrderFacts DEF Books
  <1>5. job \in [Keys -> Jobs] /\ poll \in Polls /\ \A k \in Keys : job[k] = NoJob
    BY <1>2, NoJobTyped, NoPollTyped
  <1>6. Tracks(venue, book) /\ Owing(book) /\ JobOrder(job) /\ Roomy(venue)
    BY <1>3, <1>4, <1>5 DEF Tracks, Owing, JobOrder, Roomy
  <1>7. PollTodo(venue, book, poll) /\ PollTrue(venue, poll) /\ poll.fills = {}
    BY <1>2, NoPollTyped DEF PollTodo, PollTrue
  <1>8. Typed(venue, book, job, poll)
    BY <1>3, <1>4, <1>5, <1>6, <1>7 DEF Typed
  <1>9. Truth(venue, book, job, poll)
    <2>1. SeenTrue(venue, book) /\ AliveTracked(venue, book) /\ Lone(venue, book)
      BY <1>3, <1>4 DEF SeenTrue, AliveTracked, Lone
    <2>2. JobTrue(venue, book, job)
      BY <1>5 DEF JobTrue
    <2> QED BY <1>7, <2>1, <2>2 DEF Truth
  <1>10. OthersTyped
    <2>1. (~ColdStart) \in BOOLEAN
      BY Zenon
    <2>2. warm \in BOOLEAN
      BY <1>2, <2>1, Zenon
    <2>3. 0 \in 0 .. MaxFaults /\ FALSE \in BOOLEAN
      BY OrderFacts
    <2>4. halted \in BOOLEAN /\ faults \in 0 .. MaxFaults
      BY <1>2, <2>3, Zenon
    <2> QED BY <1>2, <2>2, <2>4 DEF OthersTyped
  <1>11. ~ColdStart => MarkedInv
    BY <1>2, <1>7 DEF MarkedInv
  <1> QED BY <1>8, <1>9, <1>10, <1>11 DEF OrderInv

\* Every step keeps the invariant, and takes no order and no share back.
LEMMA OrderSteps ==
    ASSUME OrderInv, [Next]_vars
    PROVE  OrderInv' /\ Sees(venue, book, venue', book')
  <1>1. venue \in Venues /\ book \in Books
    BY DEF OrderInv, Typed
  <1>2. Sees(venue, book, venue, book)
    BY <1>1, AgesSelf, GrowsSelf, GrownSees
  <1>3. CASE SubmitPoll \/ PollFills \/ PollLost \/ ApplyPoll \/ SweepStart \/ SweepEnd
    <2>1. UNCHANGED <<venue, book>>
      BY <1>3 DEF SubmitPoll, PollFills, PollLost, ApplyPoll, SweepStart, SweepEnd
    <2> QED BY <1>2, <1>3, <2>1, StageSteps
  <1>4. ASSUME NEW o \in Oids, PollRead(o)
        PROVE  OrderInv' /\ Sees(venue, book, venue', book')
    <2>1. UNCHANGED <<venue, book>>
      BY <1>4 DEF PollRead
    <2> QED BY <1>2, <1>4, <2>1, PollReadStep
  <1>5. ASSUME NEW k \in Keys, CancelRetry(k) \/ JobRead(k) \/ JobLost(k)
        PROVE  OrderInv' /\ Sees(venue, book, venue', book')
    <2>1. UNCHANGED <<venue, book>>
      BY <1>5 DEF CancelRetry, JobRead, JobLost
    <2> QED BY <1>2, <1>5, <2>1, RetryStep, ReadStep, LostStep
  <1>6. ASSUME NEW k \in Keys, JobDelete(k)
        PROVE  OrderInv' /\ Sees(venue, book, venue', book')
    BY <1>6, DeleteStep
  <1>7. CASE Halt
    <2>1. halted' = TRUE /\ UNCHANGED <<onPoly, venue, book, job, poll, marked, told, warm, faults>>
      BY <1>7 DEF Halt
    <2> QED BY <1>2, <2>1 DEF OrderInv, OthersTyped
  <1>8. CASE UNCHANGED vars
    <2>1. UNCHANGED <<onPoly, venue, book, job, poll, marked, told, warm, halted, faults>>
      BY <1>8 DEF vars
    <2> QED BY <1>2, <2>1 DEF OrderInv, OthersTyped
  <1>9. CASE Next
    <2>1. CASE PollStep
      BY <1>3, <1>4, <2>1, PollOrderStep, SweepFillStep, InlineSteps DEF PollStep
    <2> QED BY <1>3, <1>5, <1>6, <1>7, <1>9, <2>1, PlaceStep, InlineSteps, ApplyCancelStep,
               FrameStep, VenueStep, PolyFrameStep DEF Next
  <1> QED BY <1>8, <1>9

\* What a step marks is answered for, and what the poll holds was matched.
LEMMA MarkedKeeps ==
    ASSUME OrderInv, MarkedInv, OrderInv', Sees(venue, book, venue', book'), warm',
           told \subseteq told',
           \A s \in marked' : s \in marked \/ s[2] <= book'.seen[s[1]] \/ s \in told',
           \A s \in poll'.fills : s \in poll.fills \/ s \in KalshiShares
    PROVE  MarkedInv'
  <1>1. /\ marked \subseteq Shares /\ poll.fills \subseteq Shares
        /\ \A o \in Oids : /\ book.seen[o] \in Nat /\ book'.seen[o] \in Nat
                           /\ venue[o].matched \in Nat /\ venue'[o].matched \in Nat
    BY OrderFacts DEF OrderInv, OthersTyped, Typed, Polls, Books, Venues
  <1>2. \A s \in Shares : s[1] \in Oids /\ s[2] \in Nat
    BY OrderFacts DEF Shares
  <1>3. \A s \in KalshiShares : s \in Shares /\ Born(venue, s[1]) /\ s[2] <= venue[s[1]].matched
    BY DEF KalshiShares, Born
  <1>4. \A s \in marked' : s[2] <= book'.seen[s[1]] \/ s \in told'
    BY <1>1, <1>2 DEF MarkedInv, Sees
  <1>5. \A s \in poll'.fills : Born(venue', s[1]) /\ s[2] <= venue'[s[1]].matched
    BY <1>1, <1>2, <1>3 DEF MarkedInv, Sees
  <1> QED BY <1>4, <1>5 DEF MarkedInv

\* A row is marked only together with the hedge or the report of its share.
LEMMA MarkedSteps ==
    ASSUME "route" \notin Faults, "hedge" \notin Faults, OrderInv, MarkedInv, [Next]_vars
    PROVE  MarkedInv'
  <1>1. OrderInv' /\ Sees(venue, book, venue', book')
    BY OrderSteps
  <1>2. warm /\ \A s \in poll.fills : s[2] <= venue[s[1]].matched
    BY DEF MarkedInv
  <1>3. \A s \in Shares : /\ s[2] \in Nat /\ venue[s[1]].matched \in Nat
                          /\ book'.seen[s[1]] \in Nat
    BY <1>1, OrderFacts DEF Shares, OrderInv, Typed, Venues, Books
  <1>4. NoPoll.fills = {}
    BY NoPollTyped
  <1>5. CASE UNCHANGED <<marked, told, warm, poll>>
    BY <1>1, <1>2, <1>5, MarkedKeeps
  <1>6. ASSUME NEW s \in Shares, SweepFill(s)
        PROVE  MarkedInv'
    <2>1. /\ s \in poll.fills /\ marked' = marked \cup {s} /\ told \subseteq told'
          /\ s \in told' \/ venue[s[1]].matched <= book'.seen[s[1]]
      BY <1>6, SweepFillStep
    <2>2. UNCHANGED <<warm, poll>>
      BY <1>6 DEF SweepFill
    <2>3. s \in told' \/ s[2] <= book'.seen[s[1]]
      BY <1>2, <1>3, <2>1
    <2> QED BY <1>1, <1>2, <2>1, <2>2, <2>3, MarkedKeeps
  <1>7. ASSUME NEW s \in Shares, KalshiFrame(s)
        PROVE  MarkedInv'
    <2>1. /\ s \in KalshiShares /\ marked' = marked \cup {s} /\ UNCHANGED <<poll, told>>
          /\ venue[s[1]].matched <= book'.seen[s[1]]
      BY <1>7, FrameStep
    <2>2. UNCHANGED warm
      BY <1>7 DEF KalshiFrame
    <2>3. s[2] <= book'.seen[s[1]]
      BY <1>3, <2>1 DEF KalshiShares
    <2> QED BY <1>1, <1>2, <2>1, <2>2, <2>3, MarkedKeeps
  <1>8. CASE SubmitPoll \/ PollFills \/ PollLost \/ ApplyPoll \/ SweepStart \/ SweepEnd
    <2>1. /\ warm' /\ UNCHANGED <<told, marked>>
          /\ poll'.fills \subseteq poll.fills \cup KalshiShares
      <3>1. poll \in Polls
        BY DEF OrderInv, Typed
      <3>2. CASE poll' = NoPoll
        BY <1>2, <1>4, <1>8, <3>2
           DEF SubmitPoll, PollFills, PollLost, ApplyPoll, SweepStart, SweepEnd
      <3>3. CASE SubmitPoll
        <4>1. poll'.fills = NoPoll.fills
          BY <3>3 DEF SubmitPoll, NoPoll
        <4> QED BY <1>2, <1>4, <3>3, <4>1 DEF SubmitPoll
      <3>4. CASE PollFills
        <4>1. PICK f \in {{}, KalshiShares} : poll' = [poll EXCEPT !.stage = "done", !.fills = f]
          BY <3>4 DEF PollFills
        <4>2. poll'.fills = f
          BY <3>1, <4>1 DEF Polls
        <4> QED BY <1>2, <3>4, <4>2 DEF PollFills
      <3>5. CASE ApplyPoll \/ (SweepStart /\ poll' = [poll EXCEPT !.stage = "fills"])
        <4>1. poll'.fills = poll.fills
          BY <3>1, <3>5 DEF ApplyPoll, Polls
        <4> QED BY <1>2, <3>5, <4>1 DEF ApplyPoll, SweepStart
      <3> QED BY <1>2, <1>8, <3>2, <3>3, <3>4, <3>5 DEF PollLost, SweepStart, SweepEnd
    <2> QED BY <1>1, <2>1, MarkedKeeps
  <1>9. ASSUME NEW o \in Oids, PollRead(o)
        PROVE  MarkedInv'
    <2>1. UNCHANGED <<marked, told, warm>> /\ poll'.fills = poll.fills
      <3>1. poll \in Polls
        BY DEF OrderInv, Typed
      <3>2. \E t, u : poll' = [poll EXCEPT !.todo = t, !.rows = u]
        BY <1>9, Zenon DEF PollRead
      <3>3. poll'.fills = poll.fills
        BY <3>1, <3>2 DEF Polls
      <3> QED BY <1>9, <3>3 DEF PollRead
    <2> QED BY <1>1, <1>2, <2>1, MarkedKeeps
  <1>10. ASSUME NEW k \in Keys, PollOrder(k)
         PROVE  MarkedInv'
    <2>1. UNCHANGED <<marked, told, warm>> /\ poll' = [poll EXCEPT !.todo = @ \ {k}]
      BY <1>10 DEF PollOrder
    <2>2. poll'.fills = poll.fills
      BY <2>1 DEF OrderInv, Typed, Polls
    <2> QED BY <1>1, <1>2, <2>1, <2>2, MarkedKeeps
  <1>11. ASSUME NEW k \in Keys,
                \/ Place(k) \/ Cancel(k) \/ ForceCancel(k) \/ HaltCancel(k) \/ CancelRetry(k)
                \/ JobDelete(k) \/ JobRead(k) \/ JobLost(k) \/ ApplyCancel(k)
         PROVE  MarkedInv'
    <2>1. UNCHANGED <<marked, told, warm, poll>>
      BY <1>11 DEF Place, Cancel, ForceCancel, HaltCancel, CancelInline, CancelRetry, JobDelete,
                   JobRead, JobLost, ApplyCancel
    <2> QED BY <1>5, <2>1
  <1>12. ASSUME NEW o \in Oids, NEW m \in 1 .. Size,
                VenueFill(o) \/ VenueCancel(o) \/ PolyFrame(o, m)
         PROVE  MarkedInv'
    <2>1. UNCHANGED <<marked, told, warm, poll>>
      BY <1>12 DEF VenueFill, VenueCancel, PolyFrame
    <2> QED BY <1>5, <2>1
  <1>13. CASE Halt \/ UNCHANGED vars
    BY <1>5, <1>13 DEF Halt, vars
  <1>14. 1 \in 1 .. Size
    BY OrderFacts
  <1>15. CASE PollStep
    BY <1>6, <1>8, <1>9, <1>10, <1>11, <1>15 DEF PollStep
  <1> QED BY <1>7, <1>8, <1>11, <1>12, <1>13, <1>14, <1>15 DEF Next

-----------------------------------------------------------------------------
(* The theorems.                                                           *)

\* The inductive invariant holds of every reachable state.
LEMMA OrderInvHolds == Spec => []OrderInv
  <1>1. Init => OrderInv
    BY StartsTrue
  <1>2. OrderInv /\ [Next]_vars => OrderInv'
    BY OrderSteps
  <1> QED BY <1>1, <1>2, PTL DEF Spec

\* The variables keep their types and every tracked order is an order of its own key,
\* whatever fails and however many keys, orders and shares there are.
THEOREM OrdersTyped == Spec => []TypeOK
  <1>1. OrderInv => TypeOK
    <2> SUFFICES ASSUME OrderInv PROVE TypeOK
      OBVIOUS
    <2>1. /\ venue \in Venues /\ book \in Books /\ job \in [Keys -> Jobs] /\ poll \in Polls
          /\ Tracks(venue, book) /\ OthersTyped
      BY DEF OrderInv, Typed
    <2>2. \A k \in Keys : book.open[k] # None => Key(book.open[k]) = k
      BY <2>1 DEF Tracks, Key
    <2>3. \A k \in Keys : /\ job[k].stage \in {"none", "queued", "deleted", "done"}
                          /\ job[k].oid \in Oids \cup {None}
      BY <2>1 DEF Jobs
    <2>4. /\ poll.stage \in {"idle", "reading", "done", "orders", "fills"}
          /\ DOMAIN poll.rows \subseteq Oids /\ poll.fills \subseteq Shares
      BY <2>1 DEF Polls
    <2>5. /\ book.open \in [Keys -> Oids \cup {None}] /\ book.seen \in [Oids -> 0 .. Size]
          /\ book.tried \subseteq Keys /\ book.owed \in [Keys -> {"no", "fresh", "routing"}]
      BY <2>1 DEF Books
    <2>6. venue \in [Oids -> [key : Keys, matched : 0 .. Size, acked : BOOLEAN,
                              status : {"unborn", "resting", "canceled", "filled"}]]
      BY <2>1 DEF Venues, Statuses
    <2> QED BY <2>1, <2>2, <2>3, <2>4, <2>5, <2>6 DEF TypeOK, OthersTyped
  <1> QED BY <1>1, OrderInvHolds, PTL

\* The detectors of a fill never hand the hedge more shares of an order than the venue
\* matched (matched_seen, _on_fill_detected), as long as the record behind a Kalshi hint
\* is readable and a key is not quoted again before its cancel job answered.
THEOREM NeverOverhedged == ASSUME Honest PROVE Spec => []SeenIsVenueTruth
  <1>1. OrderInv => SeenIsVenueTruth
    BY DEF OrderInv, Truth, SeenTrue, SeenIsVenueTruth
  <1> QED BY <1>1, OrderInvHolds, PTL

\* An acknowledged order leaves the book only when the venue no longer holds it
\* (_cancel_confirmed, poll_open_orders, _on_fill_detected), under the same conditions.
THEOREM ClosedMeansDead == ASSUME Honest PROVE Spec => []ClosedIsDead
  <1>1. OrderInv => ClosedIsDead
    BY DEF OrderInv, Truth, AliveTracked, ClosedIsDead, Resting, Rests, Key
  <1> QED BY <1>1, OrderInvHolds, PTL

\* Two orders of ours never rest on one market (_stack_guard_ok), even after lost
\* acknowledgements, when the DELETE of a ghost the guard lists takes effect.
THEOREM OneOrderRests == ASSUME Honest, "ghost" \notin Faults PROVE Spec => []OneResting
  <1>1. OrderInv => OneResting
    BY DEF OrderInv, Truth, Lone, OneResting, Resting, Rests, Key
  <1> QED BY <1>1, OrderInvHolds, PTL

\* A share matched on Kalshi is hedged, reported, tracked or still ahead of the sweep
\* (_seen_fill_ids), in a process whose sweep has been primed, when neither the record
\* behind a hint nor the hedge chain fails.
THEOREM KalshiFillsNeverForgotten ==
    ASSUME "route" \notin Faults, "hedge" \notin Faults, ~ColdStart
    PROVE  Spec => []KalshiFillsKept
  <1>1. Init => MarkedInv
    BY StartsTrue
  <1>2. OrderInv /\ MarkedInv /\ [Next]_vars => MarkedInv'
    BY MarkedSteps
  <1>3. MarkedInv => KalshiFillsKept
    BY DEF MarkedInv, KalshiFillsKept
  <1> QED BY <1>1, <1>2, <1>3, OrderInvHolds, PTL DEF Spec
=============================================================================
