-------------------------- MODULE HedgeChain_proofs --------------------------
(***************************************************************************)
(* Proofs about HedgeChain: that what the registries of the executor book  *)
(* is held, that a booked rest share has its hedge, and that the hedges an *)
(* order counts are expected on the hedge leg.  What may go wrong with the *)
(* rest leg is borne by one inductive invariant (FullSafe), what may go    *)
(* wrong with the hedge by another (ShortSafe).                            *)
(***************************************************************************)
EXTENDS HedgeChain, SumTheorems

Venue == [resting : BOOLEAN, matched : 0 .. Size, due : Nat, held : [Legs -> Nat],
          row : BOOLEAN]
Order == [open : BOOLEAN, order : 0 .. MaxOrders, seen : 0 .. Size, hedged : Nat,
          errors : Nat]
Registry == [expected : [Legs -> Nat], marks : [Legs -> Nat],
             watched : SUBSET Legs, alerted : SUBSET Legs]
Latch == [orphan : Legs \cup {NoLeg}, quarantine : BOOLEAN,
          halt : {"no", "orphan", "quarantine"}]
Reading == Nat \cup {Unread}
Pair == [rest : Nat, hedge : Nat, base : Nat, read : Reading, order : 0 .. MaxOrders,
         due : BOOLEAN, answer : {"none", "landed"}, value : Reading]
Pairs == UNION {[D -> Pair] : D \in SUBSET Nat}
Book == [venue : Venue, lo : Order, pending : Pairs, reg : Registry, latch : Latch,
         seq : Nat]

\* A book whose provisional pairs have the numbers given out so far.
Kind(c) == c \in Book /\ DOMAIN c.pending \in SUBSET (1 .. c.seq)

TypeInv ==
    /\ Kind(Books)
    /\ batch \in [Legs -> Reading]
    /\ scene \in Scenes /\ mishaps \in 0 .. MaxMishaps

\* d differs from c in latches, alerts, watches, marks and orders at rest alone.
Same(c, d) ==
    /\ d.lo = c.lo /\ d.pending = c.pending /\ d.seq = c.seq
    /\ d.reg.expected = c.reg.expected
    /\ d.venue.held = c.venue.held /\ d.venue.due = c.venue.due
    /\ d.venue.matched = c.venue.matched
    /\ d.venue.resting => c.venue.resting

-----------------------------------------------------------------------------
(* The shares owed to provisional pairs.                                   *)

\* What each provisional pair of f has on leg i.
Sides(f, i) == [p \in DOMAIN f |-> f[p][i]]

\* What the pairs Q of f have on leg i together.
Owed(f, i, Q) == Total(Sides(f, i), Q)

LEMMA PendingIsTotal ==
    ASSUME NEW f, NEW i, NEW S \in SUBSET DOMAIN f
    PROVE  MapThenSumSet(LAMBDA p : f[p][i], S) = Owed(f, i, S)
  <1> DEFINE Takes(it) ==
                it = [s \in SUBSET S |->
                        IF s = {} THEN 0
                        ELSE LET x == CHOOSE x \in s : TRUE
                             IN  f[x][i] + it[s \ {x}]]
  <1>1. ASSUME NEW it PROVE Sums(it, Sides(f, i), S) <=> Takes(it)
    <2>1. \A s \in SUBSET S : s # {} =>
            Pick(s) \in s /\ Sides(f, i)[Pick(s)] = f[Pick(s)][i]
      BY DEF Pick, Sides
    <2> QED BY <2>1 DEF Sums, Pick
  <1> QED BY <1>1, ZenonT(40) DEF MapThenSumSet, MapThenFoldSet, Total, Owed

LEMMA PairsFinite ==
    ASSUME NEW c, Kind(c)
    PROVE  /\ IsFiniteSet(DOMAIN c.pending)
           /\ c.pending \in [DOMAIN c.pending -> Pair]
           /\ \A i \in Legs, p \in DOMAIN c.pending :
                c.pending[p][i] \in Nat /\ Sides(c.pending, i)[p] = c.pending[p][i]
  <1>1. c.pending \in Pairs /\ c.seq \in Nat
    BY DEF Kind, Book
  <1>2. c.pending \in [DOMAIN c.pending -> Pair]
    BY <1>1 DEF Pairs
  <1>3. \A i \in Legs, p \in DOMAIN c.pending : c.pending[p][i] \in Nat
    BY <1>2 DEF Pair, Legs
  <1>4. IsFiniteSet(DOMAIN c.pending)
    <2>1. IsFiniteSet(1 .. c.seq)
      BY <1>1, FS_Interval
    <2> QED BY <2>1, FS_Subset DEF Kind
  <1> QED BY <1>2, <1>3, <1>4 DEF Sides

LEMMA ExpectedType ==
    ASSUME NEW c, Kind(c), NEW i \in Legs
    PROVE  /\ ExpectedShares(c, i) = c.reg.expected[i] + Owed(c.pending, i, DOMAIN c.pending)
           /\ Owed(c.pending, i, DOMAIN c.pending) \in Nat
           /\ c.reg.expected[i] \in Nat
           /\ ExpectedShares(c, i) \in Nat
  <1>1. Owed(c.pending, i, DOMAIN c.pending) \in Nat
    BY PairsFinite, TotalType DEF Owed
  <1>2. c.reg.expected[i] \in Nat
    BY DEF Kind, Book, Registry
  <1>3. PendingShares(c, i) = Owed(c.pending, i, DOMAIN c.pending)
    BY PendingIsTotal DEF PendingShares
  <1> QED BY <1>1, <1>2, <1>3 DEF ExpectedShares

-----------------------------------------------------------------------------
(* What each operator makes of a book.                                     *)

LEMMA OrphanKind ==
    ASSUME NEW c, Kind(c), NEW i \in Legs, NEW bad
    PROVE  Kind(OrphanDetected(c, i, bad)) /\ Same(c, OrphanDetected(c, i, bad))
  <1> DEFINE b == [c EXCEPT !.latch.orphan = i]
             e == [b EXCEPT !.latch.halt = "orphan"]
             d == [e EXCEPT !.venue.resting = @ /\ "cancel" \in bad]
  <1>1. b \in Book /\ b.pending = c.pending /\ b.seq = c.seq /\ b.venue = c.venue
        /\ b.lo = c.lo /\ b.reg = c.reg
    BY DEF Kind, Book, Latch
  <1> HIDE DEF b
  <1>2. e \in Book /\ e.pending = c.pending /\ e.seq = c.seq /\ e.venue = c.venue
        /\ e.lo = c.lo /\ e.reg = c.reg
    BY <1>1 DEF Book, Latch
  <1> HIDE DEF e
  <1>3. d \in Book /\ d.pending = c.pending /\ d.seq = c.seq
        /\ d.lo = c.lo /\ d.reg = c.reg
    BY <1>2 DEF Book, Venue
  <1>4. d.venue.held = c.venue.held /\ d.venue.due = c.venue.due
        /\ d.venue.matched = c.venue.matched /\ (d.venue.resting => c.venue.resting)
    BY <1>2 DEF Book, Venue
  <1>5. Kind(d) /\ Same(c, d)
    BY <1>3, <1>4 DEF Kind, Same
  <1>6. d = [c EXCEPT !.latch.orphan = i, !.latch.halt = "orphan",
                   !.venue.resting = @ /\ "cancel" \in bad]
    BY <1>2 DEF e, b
  <1>7. Kind(c) /\ Same(c, c)
    BY DEF Same
  <1> QED BY <1>5, <1>6, <1>7 DEF OrphanDetected

\* What selling n shares of leg i makes of c, unless it is done blind.
Sells(c, d, i, n, bad) ==
    /\ d.lo = c.lo /\ d.pending = c.pending /\ d.seq = c.seq
    /\ d.venue.due = c.venue.due /\ d.venue.matched = c.venue.matched
    /\ d.venue.resting => c.venue.resting
    /\ \A j \in Legs : j # i => /\ d.venue.held[j] = c.venue.held[j]
                                /\ d.reg.expected[j] = c.reg.expected[j]
    /\ d.venue.held[i] <= c.venue.held[i]
    /\ d.reg.expected[i] = c.reg.expected[i] + IF "dust" \in bad THEN n ELSE 0
    /\ "dust" \in bad => d.venue.held[i] = c.venue.held[i]
    /\ "blind" \notin bad => \/ d.venue.held[i] >= c.venue.held[i] - n
                             \/ d.venue.held[i] >= ExpectedShares(c, i)

LEMMA UnwoundDust ==
    ASSUME NEW c, Kind(c), NEW i \in Legs, NEW n \in Nat, n # 0, NEW bad, "dust" \in bad
    PROVE  Kind(Unwound(c, i, n, bad)) /\ Sells(c, Unwound(c, i, n, bad), i, n, bad)
  <1> DEFINE a == [c EXCEPT !.reg.expected[i] = @ + n]
             b == [a EXCEPT !.reg.watched = @ \cup {i}]
             d == [b EXCEPT !.reg.marks[i] = n]
  <1>1. /\ a \in Book /\ a.pending = c.pending /\ a.seq = c.seq /\ a.venue = c.venue
        /\ a.lo = c.lo /\ a.reg.expected[i] = c.reg.expected[i] + n
        /\ a.reg.watched = c.reg.watched
        /\ \A j \in Legs : j # i => a.reg.expected[j] = c.reg.expected[j]
    <2>1. c.reg \in Registry /\ c.reg.expected[i] + n \in Nat
      BY DEF Kind, Book, Registry
    <2>2. a \in Book
      BY <2>1 DEF Kind, Book, Registry
    <2>3. /\ a.pending = c.pending /\ a.seq = c.seq /\ a.venue = c.venue
          /\ a.lo = c.lo /\ a.reg.watched = c.reg.watched
      BY DEF Kind, Book, Registry
    <2>4. /\ a.reg.expected[i] = c.reg.expected[i] + n
          /\ \A j \in Legs : j # i => a.reg.expected[j] = c.reg.expected[j]
      BY <2>1 DEF Kind, Book, Registry
    <2> QED BY <2>2, <2>3, <2>4
  <1> HIDE DEF a
  <1>2. /\ b \in Book /\ b.pending = c.pending /\ b.seq = c.seq /\ b.venue = c.venue
        /\ b.lo = c.lo /\ b.reg.expected = a.reg.expected
    BY <1>1 DEF Book, Registry
  <1> HIDE DEF b
  <1>3. /\ d \in Book /\ d.pending = c.pending /\ d.seq = c.seq /\ d.venue = c.venue
        /\ d.lo = c.lo /\ d.reg.expected = a.reg.expected
    BY <1>2 DEF Book, Registry
  <1>4. d = Unwound(c, i, n, bad)
    <2>1. d = [c EXCEPT !.reg.expected[i] = @ + n, !.reg.watched = @ \cup {i},
                        !.reg.marks[i] = n]
      BY <1>1 DEF a, b
    <2> HIDE DEF d
    <2> QED BY <2>1 DEF Unwound
  <1> HIDE DEF d
  <1>5. c.venue.held[i] \in Nat
    BY DEF Kind, Book, Venue
  <1>6. Sells(c, d, i, n, bad)
    BY <1>1, <1>3, <1>5 DEF Sells
  <1> QED BY <1>3, <1>4, <1>6 DEF Kind

LEMMA UnwoundKind ==
    ASSUME NEW c, Kind(c), NEW i \in Legs, NEW n \in Nat, NEW bad
    PROVE  Kind(Unwound(c, i, n, bad)) /\ Sells(c, Unwound(c, i, n, bad), i, n, bad)
  <1>0. c.venue.held[i] \in Nat /\ c.reg.expected[i] \in Nat
    BY DEF Kind, Book, Venue, Registry
  <1>1. CASE n = 0
    <2>1. Unwound(c, i, n, bad) = c
      BY <1>1 DEF Unwound
    <2>2. Sells(c, c, i, n, bad)
      BY <1>0, <1>1 DEF Sells
    <2> QED BY <2>1, <2>2
  <1>2. CASE n # 0 /\ "dust" \in bad
    BY <1>2, UnwoundDust
  <1>3. CASE n # 0 /\ "dust" \notin bad
    <2> DEFINE keep == ExpectedShares(c, i)
               u == Sold(c.venue.held[i], keep, n, "thin" \in bad, "blind" \in bad)
               w == Sold(u.left, keep, u.naked, "thinAgain" \in bad, "blindAgain" \in bad)
               v == IF u.flat \/ "large" \in bad THEN u ELSE w
               row == c.venue.row \/ i = "hedge"
               up == c.venue.resting /\ (i # "rest" \/ "cancel" \in bad)
               a == [c EXCEPT !.venue.held[i] = v.left]
               b == [a EXCEPT !.venue.row = row]
               d == [b EXCEPT !.venue.resting = up]
               e == [d EXCEPT !.reg.marks[i] = u.naked]
               z == OrphanDetected(e, i, bad)
    <2>1. keep \in Nat
      BY ExpectedType
    <2> HIDE DEF keep
    <2>2. /\ u.left \in Nat /\ u.left <= c.venue.held[i] /\ u.naked \in Nat
          /\ u.left >= c.venue.held[i] - n \/ u.left >= keep
          /\ "blind" \notin bad /\ ~u.flat => u.left = keep + u.naked
      <3> DEFINE h == c.venue.held[i]
                 first == IF "thin" \in bad \/ n > h THEN h ELSE h - n
                 left == IF "thin" \in bad \/ "blind" \in bad \/ first <= keep THEN first
                         ELSE keep
                 naked == IF "blind" \in bad THEN n ELSE Above(left, keep)
      <3>1. /\ u.left = left /\ u.naked = naked
            /\ "blind" \notin bad /\ ~u.flat => ~(left <= keep)
        BY DEF Sold
      <3> HIDE DEF u
      <3>2. first \in Nat /\ first <= h /\ first >= h - n
        BY <1>0
      <3> HIDE DEF first, h
      <3>3. left \in Nat /\ left <= first /\ (left >= first \/ left >= keep)
        BY <2>1, <3>2
      <3> HIDE DEF left
      <3>4. naked \in Nat /\ ("blind" \notin bad /\ ~(left <= keep) => left = keep + naked)
        BY <2>1, <3>3 DEF Above, Most
      <3> HIDE DEF naked
      <3>5. h \in Nat
        BY <1>0 DEF h
      <3>6. /\ left <= h
            /\ left >= h - n \/ left >= keep
        BY <2>1, <3>2, <3>3, <3>5
      <3> QED BY <3>1, <3>3, <3>4, <3>6 DEF h
    <2> HIDE DEF u
    <2>3. /\ w.left \in Nat /\ w.left <= u.left
          /\ w.left >= u.left - u.naked \/ w.left >= keep
      BY <2>1, <2>2 DEF Sold, Above, Most
    <2> HIDE DEF w
    <2>4. /\ v.left \in Nat /\ v.left <= c.venue.held[i]
          /\ "blind" \notin bad => \/ v.left >= c.venue.held[i] - n
                                   \/ v.left >= keep
      BY <1>0, <2>1, <2>2, <2>3
    <2>5. Unwound(c, i, n, bad) = IF v.flat THEN d ELSE z
      <3>1. d = [c EXCEPT !.venue.held[i] = v.left, !.venue.row = @ \/ i = "hedge",
                          !.venue.resting = @ /\ (i # "rest" \/ "cancel" \in bad)]
        BY DEF Kind, Book, Venue
      <3> HIDE DEF d
      <3> QED BY <1>3, <3>1 DEF Unwound, keep, u, w
    <2> HIDE DEF v
    <2>6. /\ a \in Book /\ a.pending = c.pending /\ a.seq = c.seq /\ a.reg = c.reg
          /\ a.lo = c.lo /\ a.venue.held[i] = v.left
          /\ \A j \in Legs : j # i => a.venue.held[j] = c.venue.held[j]
          /\ a.venue.due = c.venue.due /\ a.venue.matched = c.venue.matched
          /\ a.venue.resting = c.venue.resting
      BY <2>4 DEF Kind, Book, Venue
    <2> HIDE DEF a
    <2>7. row \in BOOLEAN /\ up \in BOOLEAN
      OBVIOUS
    <2>8. up => c.venue.resting
      OBVIOUS
    <2> HIDE DEF row, up
    <2>9. /\ b \in Book /\ b.pending = c.pending /\ b.seq = c.seq /\ b.reg = c.reg
          /\ b.lo = c.lo /\ b.venue.held = a.venue.held
          /\ b.venue.due = c.venue.due /\ b.venue.matched = c.venue.matched
      BY <2>6, <2>7 DEF Book, Venue
    <2> HIDE DEF b
    <2>10. /\ d \in Book /\ d.pending = c.pending /\ d.seq = c.seq /\ d.reg = c.reg
           /\ d.lo = c.lo /\ d.venue.held = a.venue.held
           /\ d.venue.due = c.venue.due /\ d.venue.matched = c.venue.matched
           /\ d.venue.resting = up
      BY <2>7, <2>9 DEF Book, Venue
    <2> HIDE DEF d
    <2>11. /\ e \in Book /\ e.pending = c.pending /\ e.seq = c.seq /\ e.venue = d.venue
           /\ e.lo = c.lo /\ e.reg.expected = c.reg.expected
      BY <2>2, <2>10 DEF Book, Registry
    <2> HIDE DEF e
    <2>12. Kind(d) /\ Kind(e)
      BY <2>10, <2>11 DEF Kind
    <2>13. Kind(z) /\ Same(e, z)
      BY <2>12, OrphanKind
    <2> HIDE DEF z
    <2>14. Sells(c, d, i, n, bad)
      BY <1>0, <1>3, <2>4, <2>6, <2>8, <2>10 DEF Sells, keep
    <2>15. Sells(c, z, i, n, bad)
      BY <1>0, <1>3, <2>4, <2>6, <2>8, <2>10, <2>11, <2>13 DEF Sells, Same, keep
    <2> QED BY <2>5, <2>12, <2>13, <2>14, <2>15
  <1> QED BY <1>1, <1>2, <1>3

\* d is c with n rest and h hedge shares registered, whatever the order counts.
Booked(c, d, n, h) ==
    /\ d.pending = c.pending /\ d.seq = c.seq
    /\ d.venue.held = c.venue.held /\ d.venue.due = c.venue.due
    /\ d.venue.matched = c.venue.matched
    /\ d.venue.resting => c.venue.resting
    /\ d.lo.open = c.lo.open /\ d.lo.order = c.lo.order /\ d.lo.seen = c.lo.seen
    /\ d.reg.expected["rest"] = c.reg.expected["rest"] + n
    /\ d.reg.expected["hedge"] = c.reg.expected["hedge"] + h

LEMMA QuarantineKind ==
    ASSUME NEW c, Kind(c), NEW bad
    PROVE  Kind(Quarantined(c, bad)) /\ Same(c, Quarantined(c, bad))
  <1> DEFINE a == [c EXCEPT !.latch.quarantine = TRUE]
             b == [a EXCEPT !.latch.halt = "quarantine"]
             d == [b EXCEPT !.venue.resting = @ /\ "cancel" \in bad]
  <1>1. a \in Book /\ a.pending = c.pending /\ a.seq = c.seq /\ a.venue = c.venue
        /\ a.lo = c.lo /\ a.reg = c.reg
    BY DEF Kind, Book, Latch
  <1> HIDE DEF a
  <1>2. b \in Book /\ b.pending = c.pending /\ b.seq = c.seq /\ b.venue = c.venue
        /\ b.lo = c.lo /\ b.reg = c.reg
    BY <1>1 DEF Book, Latch
  <1> HIDE DEF b
  <1>3. d \in Book /\ d.pending = c.pending /\ d.seq = c.seq
        /\ d.lo = c.lo /\ d.reg = c.reg
    BY <1>2 DEF Book, Venue
  <1>4. d.venue.held = c.venue.held /\ d.venue.due = c.venue.due
        /\ d.venue.matched = c.venue.matched /\ (d.venue.resting => c.venue.resting)
    BY <1>2 DEF Book, Venue
  <1>5. Kind(d) /\ Same(c, d)
    BY <1>3, <1>4 DEF Kind, Same
  <1>6. d = [c EXCEPT !.latch.quarantine = TRUE, !.latch.halt = "quarantine",
                   !.venue.resting = @ /\ "cancel" \in bad]
    BY <1>2 DEF b, a
  <1>7. Kind(c) /\ Same(c, c)
    BY DEF Same
  <1> QED BY <1>5, <1>6, <1>7 DEF Quarantined

\* A booking that counts its hedge, and one whose hedge was counted before.
RecordNow(c, n, h, bad) == RecordHedgeLocked(c, n, h, FALSE, bad)
RecordLater(c, n, h, bad) == RecordHedgeLocked(c, n, h, TRUE, bad)

LEMMA RecordKind ==
    ASSUME NEW c, Kind(c), NEW n \in Nat, NEW h \in Nat, NEW bad
    PROVE  LET d == RecordNow(c, n, h, bad)
               e == RecordLater(c, n, h, bad)
           IN  /\ Kind(d) /\ Booked(c, d, n, h)
               /\ d.lo.hedged = IF "refuse" \in bad THEN c.lo.hedged
                                ELSE c.lo.hedged + h
               /\ Kind(e) /\ Booked(c, e, n, h) /\ e.lo.hedged = c.lo.hedged
  <1> DEFINE a == [c EXCEPT !.reg.expected.rest = @ + n]
             d == [a EXCEPT !.reg.expected.hedge = @ + h]
             e == [d EXCEPT !.lo.hedged = @ + h]
  <1>1. /\ a \in Book /\ a.pending = c.pending /\ a.seq = c.seq /\ a.venue = c.venue
        /\ a.lo = c.lo /\ a.reg.expected["rest"] = c.reg.expected["rest"] + n
        /\ a.reg.expected["hedge"] = c.reg.expected["hedge"]
    BY DEF Kind, Book, Registry, Legs
  <1> HIDE DEF a
  <1>2. /\ d \in Book /\ d.pending = c.pending /\ d.seq = c.seq /\ d.venue = c.venue
        /\ d.lo = c.lo /\ d.reg.expected["rest"] = c.reg.expected["rest"] + n
        /\ d.reg.expected["hedge"] = c.reg.expected["hedge"] + h
    BY <1>1 DEF Book, Registry, Legs
  <1>3. d = [c EXCEPT !.reg.expected.rest = @ + n, !.reg.expected.hedge = @ + h]
    BY <1>1 DEF a
  <1> HIDE DEF d
  <1>4. Kind(d) /\ Booked(c, d, n, h) /\ d.lo.hedged = c.lo.hedged
    BY <1>2 DEF Kind, Booked
  <1>5. /\ e \in Book /\ e.pending = c.pending /\ e.seq = c.seq /\ e.venue = c.venue
        /\ e.lo.open = c.lo.open /\ e.lo.order = c.lo.order /\ e.lo.seen = c.lo.seen
        /\ e.lo.hedged = c.lo.hedged + h /\ e.reg = d.reg
    BY <1>2 DEF Book, Order
  <1> HIDE DEF e
  <1>6. Kind(e) /\ Booked(c, e, n, h)
    BY <1>2, <1>4, <1>5 DEF Kind, Booked
  <1>7. Kind(Quarantined(d, bad)) /\ Same(d, Quarantined(d, bad))
    BY <1>4, QuarantineKind
  <1>8. /\ Booked(c, Quarantined(d, bad), n, h)
        /\ Quarantined(d, bad).lo.hedged = c.lo.hedged
    BY <1>4, <1>7 DEF Booked, Same
  <1> DEFINE r == RecordNow(c, n, h, bad)
             t == RecordLater(c, n, h, bad)
  <1>9. /\ r = IF "refuse" \in bad THEN Quarantined(d, bad) ELSE e
        /\ t = IF "refuse" \in bad THEN Quarantined(d, bad) ELSE d
    BY <1>3 DEF RecordHedgeLocked, RecordNow, RecordLater, e
  <1> HIDE DEF r, t
  <1>10. CASE "refuse" \in bad
    <2>1. /\ Kind(r) /\ Booked(c, r, n, h) /\ r.lo.hedged = c.lo.hedged
          /\ Kind(t) /\ Booked(c, t, n, h) /\ t.lo.hedged = c.lo.hedged
      BY <1>7, <1>8, <1>9, <1>10
    <2> QED BY <1>10, <2>1 DEF r, t
  <1>11. CASE "refuse" \notin bad
    <2>1. /\ Kind(r) /\ Booked(c, r, n, h) /\ r.lo.hedged = c.lo.hedged + h
          /\ Kind(t) /\ Booked(c, t, n, h) /\ t.lo.hedged = c.lo.hedged
      BY <1>4, <1>5, <1>6, <1>9, <1>11
    <2> QED BY <1>11, <2>1 DEF r, t
  <1> QED BY <1>10, <1>11

\* A deferred pair, booked, was counted when its hedge was bought.
LEMMA LaterKind ==
    ASSUME NEW c, Kind(c), NEW n \in Nat, NEW h \in Nat, NEW bad, NEW z,
           z = RecordLater(c, n, h, bad)
    PROVE  Kind(z) /\ Booked(c, z, n, h) /\ z.lo.hedged = c.lo.hedged
  BY RecordKind

\* d is c with a provisional pair of n rest and h hedge shares.
Deferred(c, d, n, h) ==
    LET p == c.seq + 1
    IN  /\ d.reg = c.reg /\ d.seq = p /\ d.venue = c.venue
        /\ d.lo.open = c.lo.open /\ d.lo.order = c.lo.order /\ d.lo.seen = c.lo.seen
        /\ d.lo.hedged = c.lo.hedged + h
        /\ DOMAIN d.pending = DOMAIN c.pending \cup {p} /\ p \notin DOMAIN c.pending
        /\ \A q \in DOMAIN c.pending : d.pending[q] = c.pending[q]
        /\ d.pending[p].rest = n /\ d.pending[p].hedge = h
        /\ d.pending[p].base = ExpectedShares(c, "rest")
        /\ d.pending[p].read <= Above(c.venue.held["rest"], ExpectedShares(c, "rest"))
        /\ d.pending[p].order = c.lo.order /\ d.pending[p].value = Unread

\* What _defer_pair does: it books what is already delivered.
Paired(c, d, n, h, bad) ==
    \/ /\ Booked(c, d, n, h)
       /\ d.lo.hedged = c.lo.hedged + IF "refuse" \in bad THEN 0 ELSE h
       /\ n > 0 => c.venue.held["rest"] >= ExpectedShares(c, "rest") + n
    \/ Deferred(c, d, n, h)

LEMMA DeferKind ==
    ASSUME NEW c, Kind(c), NEW n \in Nat, NEW h \in Nat, NEW bad
    PROVE  Kind(DeferPair(c, n, h, bad)) /\ Paired(c, DeferPair(c, n, h, bad), n, h, bad)
  <1> DEFINE base == ExpectedShares(c, "rest")
             got == IF "delivery" \in bad THEN Unread
                    ELSE Delivered(c.venue.held["rest"], base)
             rec == [rest |-> n, hedge |-> h, base |-> base,
                     read |-> got, order |-> c.lo.order, due |-> FALSE,
                     answer |-> "none", value |-> Unread]
             new == [p \in DOMAIN c.pending \cup {c.seq + 1} |->
                        IF p \in DOMAIN c.pending THEN c.pending[p] ELSE rec]
             a == [c EXCEPT !.seq = @ + 1]
             b == [a EXCEPT !.lo.hedged = @ + h]
             d == [b EXCEPT !.pending = new]
             r == RecordNow(c, n, h, bad)
  <1>1. base \in Nat /\ c.venue.held["rest"] \in Nat /\ c.seq \in Nat
        /\ c.lo.order \in 0 .. MaxOrders /\ c.lo.hedged \in Nat
    BY ExpectedType DEF Kind, Book, Venue, Legs, Order
  <1> HIDE DEF base
  <1>2. /\ got \in Reading /\ got <= Above(c.venue.held["rest"], base)
        /\ got \in Nat => got = Above(c.venue.held["rest"], base)
    BY <1>1 DEF Reading, Unread, Delivered, Above, Most
  <1> HIDE DEF got
  <1>3. DeferPair(c, n, h, bad) = IF got >= n THEN r ELSE d
    <2>1. d = [c EXCEPT !.seq = @ + 1, !.lo.hedged = @ + h, !.pending = new]
      BY DEF Kind, Book, Order
    <2> HIDE DEF d, r
    <2> QED BY <2>1 DEF DeferPair, RecordNow, got, base, r
  <1>4. rec \in Pair
    BY <1>1, <1>2 DEF Pair, Reading
  <1>5. /\ rec.rest = n /\ rec.hedge = h /\ rec.base = base /\ rec.read = got
        /\ rec.order = c.lo.order /\ rec.value = Unread
    OBVIOUS
  <1> HIDE DEF rec
  <1>6. /\ DOMAIN c.pending \in SUBSET (1 .. c.seq)
        /\ c.pending \in [DOMAIN c.pending -> Pair]
    BY PairsFinite DEF Kind
  <1>7. c.seq + 1 \notin DOMAIN c.pending
    BY <1>1, <1>6
  <1>8. /\ DOMAIN new = DOMAIN c.pending \cup {c.seq + 1}
        /\ DOMAIN new \in SUBSET (1 .. c.seq + 1)
        /\ new \in [DOMAIN new -> Pair]
        /\ \A q \in DOMAIN c.pending : new[q] = c.pending[q]
        /\ new[c.seq + 1] = rec
    BY <1>1, <1>4, <1>6, <1>7
  <1> HIDE DEF new
  <1>9. new \in Pairs
    <2>1. DOMAIN new \in SUBSET Nat
      BY <1>1, <1>8
    <2> QED BY <1>8, <2>1 DEF Pairs
  <1>10. /\ a \in Book /\ a.pending = c.pending /\ a.seq = c.seq + 1 /\ a.venue = c.venue
         /\ a.lo = c.lo /\ a.reg = c.reg
    BY DEF Kind, Book
  <1> HIDE DEF a
  <1>11. /\ b \in Book /\ b.seq = c.seq + 1 /\ b.venue = c.venue
         /\ b.reg = c.reg /\ b.lo.hedged = c.lo.hedged + h
         /\ b.lo.open = c.lo.open /\ b.lo.order = c.lo.order /\ b.lo.seen = c.lo.seen
    BY <1>10 DEF Book, Order
  <1> HIDE DEF b
  <1>12. /\ d \in Book /\ d.seq = c.seq + 1 /\ d.venue = c.venue
         /\ d.reg = c.reg /\ d.lo = b.lo /\ d.pending = new
    BY <1>9, <1>11 DEF Book
  <1> HIDE DEF d
  <1>13. Kind(d) /\ Deferred(c, d, n, h)
    BY <1>2, <1>5, <1>7, <1>8, <1>11, <1>12 DEF Kind, Deferred, base
  <1>14. /\ Kind(r) /\ Booked(c, r, n, h)
         /\ r.lo.hedged = c.lo.hedged + IF "refuse" \in bad THEN 0 ELSE h
    <2>1. /\ Kind(r) /\ Booked(c, r, n, h)
          /\ r.lo.hedged = IF "refuse" \in bad THEN c.lo.hedged ELSE c.lo.hedged + h
      BY RecordKind
    <2> HIDE DEF r
    <2> QED BY <1>1, <2>1
  <1> HIDE DEF r
  <1>15. CASE got >= n
    <2>1. n > 0 => c.venue.held["rest"] >= base + n
      BY <1>1, <1>2, <1>15 DEF Reading, Unread, Above, Most
    <2> QED BY <1>3, <1>14, <1>15, <2>1 DEF Paired, base
  <1>16. CASE ~(got >= n)
    BY <1>3, <1>13, <1>16 DEF Paired
  <1> QED BY <1>15, <1>16

\* d is c with shares of the hedge leg bought.
Buys(c, d, got) ==
    /\ d.lo.open = c.lo.open /\ d.lo.order = c.lo.order /\ d.lo.seen = c.lo.seen
    /\ d.lo.hedged = c.lo.hedged
    /\ d.pending = c.pending /\ d.seq = c.seq /\ d.reg = c.reg
    /\ d.venue.held["rest"] = c.venue.held["rest"]
    /\ d.venue.held["hedge"] = c.venue.held["hedge"] + got
    /\ d.venue.due = c.venue.due /\ d.venue.matched = c.venue.matched
    /\ d.venue.resting = c.venue.resting

LEMMA BoughtKind ==
    ASSUME NEW c, Kind(c), NEW got \in Nat
    PROVE  Kind(Bought(c, got)) /\ Buys(c, Bought(c, got), got) /\ Bought(c, got).lo = c.lo
  <1> DEFINE a == [c EXCEPT !.venue.held["hedge"] = @ + got]
             row == c.venue.row \/ got > 0
             d == [a EXCEPT !.venue.row = row]
  <1>1. /\ a \in Book /\ a.pending = c.pending /\ a.seq = c.seq /\ a.reg = c.reg
        /\ a.lo = c.lo /\ a.venue.held["rest"] = c.venue.held["rest"]
        /\ a.venue.held["hedge"] = c.venue.held["hedge"] + got
        /\ a.venue.due = c.venue.due /\ a.venue.matched = c.venue.matched
        /\ a.venue.resting = c.venue.resting /\ a.venue.row = c.venue.row
    BY DEF Kind, Book, Venue, Legs
  <1>2. d = Bought(c, got)
    BY <1>1 DEF Bought
  <1> HIDE DEF a
  <1>3. row \in BOOLEAN
    OBVIOUS
  <1> HIDE DEF row
  <1>4. /\ d \in Book /\ d.pending = c.pending /\ d.seq = c.seq /\ d.reg = c.reg
        /\ d.lo = c.lo /\ d.venue.held = a.venue.held
        /\ d.venue.due = c.venue.due /\ d.venue.matched = c.venue.matched
        /\ d.venue.resting = c.venue.resting
    BY <1>1, <1>3 DEF Book, Venue
  <1> HIDE DEF d
  <1>5. Kind(d) /\ Buys(c, d, got)
    BY <1>1, <1>4 DEF Kind, Buys
  <1> QED BY <1>2, <1>4, <1>5

\* d is c with every fill seen.
Seen(c, d) ==
    /\ d.lo.open = (c.venue.matched < Size) /\ d.lo.order = c.lo.order
    /\ d.lo.seen = c.venue.matched /\ d.lo.hedged = c.lo.hedged
    /\ d.pending = c.pending /\ d.seq = c.seq /\ d.reg = c.reg
    /\ d.venue.held = c.venue.held
    /\ d.venue.due = c.venue.due /\ d.venue.matched = c.venue.matched
    /\ d.venue.resting => c.venue.resting

LEMMA ConsumedKind ==
    ASSUME NEW c, Kind(c), NEW bad
    PROVE  Kind(Consumed(c, bad)) /\ Seen(c, Consumed(c, bad))
  <1> DEFINE open == c.venue.matched < Size
             up == c.venue.resting /\ (c.latch.halt = "no" \/ "cancel" \in bad)
             a == [c EXCEPT !.lo.seen = c.venue.matched]
             b == [a EXCEPT !.lo.errors = 0]
             d == [b EXCEPT !.lo.open = open]
             e == [d EXCEPT !.venue.resting = up]
  <1>1. open \in BOOLEAN /\ up \in BOOLEAN /\ (up => c.venue.resting)
    OBVIOUS
  <1>2. Consumed(c, bad) = e
    <2>1. e = [c EXCEPT !.lo.seen = c.venue.matched, !.lo.errors = 0,
                   !.lo.open = c.venue.matched < Size,
                   !.venue.resting = @ /\ (c.latch.halt = "no" \/ "cancel" \in bad)]
      OBVIOUS
    <2> HIDE DEF e
    <2> QED BY <2>1 DEF Consumed
  <1>3. /\ a \in Book /\ a.pending = c.pending /\ a.seq = c.seq /\ a.reg = c.reg
        /\ a.lo.order = c.lo.order /\ a.lo.seen = c.venue.matched
        /\ a.lo.hedged = c.lo.hedged /\ a.venue = c.venue
    BY DEF Kind, Book, Order, Venue
  <1> HIDE DEF a, open, up
  <1>4. /\ b \in Book /\ b.pending = c.pending /\ b.seq = c.seq /\ b.reg = c.reg
        /\ b.lo.order = c.lo.order /\ b.lo.seen = c.venue.matched
        /\ b.lo.hedged = c.lo.hedged /\ b.venue = c.venue
    BY <1>3 DEF Book, Order
  <1> HIDE DEF b
  <1>5. /\ d \in Book /\ d.pending = c.pending /\ d.seq = c.seq /\ d.reg = c.reg
        /\ d.lo.order = c.lo.order /\ d.lo.seen = c.venue.matched
        /\ d.lo.hedged = c.lo.hedged /\ d.lo.open = open /\ d.venue = c.venue
    BY <1>1, <1>4 DEF Book, Order
  <1> HIDE DEF d
  <1>6. /\ e \in Book /\ e.pending = c.pending /\ e.seq = c.seq /\ e.reg = c.reg
        /\ e.lo = d.lo /\ e.venue.held = c.venue.held /\ e.venue.due = c.venue.due
        /\ e.venue.matched = c.venue.matched /\ e.venue.resting = up
    BY <1>1, <1>5 DEF Book, Venue
  <1> HIDE DEF e
  <1>7. Kind(e) /\ Seen(c, e)
    BY <1>1, <1>5, <1>6 DEF Kind, Seen, open
  <1> QED BY <1>2, <1>7

LEMMA NowType ==
    ASSUME NEW c, Kind(c), NEW said \in Nat, NEW bad
    PROVE  /\ HedgedNow(c, said, bad) \in Nat
           /\ "complement" \in bad => HedgedNow(c, said, bad) = said
           /\ "complement" \notin bad =>
                HedgedNow(c, said, bad) = Most(said, Above(c.venue.held["hedge"], c.lo.hedged))
  <1>1. c.venue.held["hedge"] \in Nat /\ c.lo.hedged \in Nat
    BY DEF Kind, Book, Venue, Legs, Order
  <1> QED BY <1>1 DEF HedgedNow, Most, Above

LEMMA OutcomeKind ==
    ASSUME NEW c, Kind(c), NEW n \in Nat, NEW said \in Nat, NEW bad
    PROVE  Kind(HedgeOutcome(c, n, said, bad))
  <1> DEFINE new == HedgedNow(c, said, bad)
             part == Least(n, new)
             covered == "complement" \notin bad /\ c.venue.matched <= c.venue.held["hedge"]
             d == IF part > 0 THEN DeferPair(c, part, part, bad) ELSE c
  <1>1. new \in Nat
    BY NowType
  <1> HIDE DEF new
  <1>2. part \in Nat /\ n - part \in Nat /\ Most(new, part) \in Nat
    BY <1>1 DEF Least, Most
  <1>3. HedgeOutcome(c, n, said, bad) =
            IF said = n THEN DeferPair(c, n, n, bad)
            ELSE IF covered THEN DeferPair(c, n, Most(new, part), bad)
            ELSE Unwound(d, "rest", n - part, bad)
    BY DEF HedgeOutcome, new
  <1> HIDE DEF part, covered
  <1>4. Kind(DeferPair(c, n, n, bad)) /\ Kind(DeferPair(c, n, Most(new, part), bad))
    BY <1>2, DeferKind
  <1>5. Kind(d)
    BY <1>2, DeferKind
  <1> HIDE DEF d
  <1>6. Kind(Unwound(d, "rest", n - part, bad))
    BY <1>2, <1>5, UnwoundKind DEF Legs
  <1> QED BY <1>3, <1>4, <1>6

\* d is c without the provisional pair p.
Pops(c, d, p) ==
    /\ d.lo = c.lo /\ d.seq = c.seq /\ d.reg = c.reg /\ d.venue = c.venue
    /\ DOMAIN d.pending = DOMAIN c.pending \ {p}
    /\ \A q \in DOMAIN c.pending \ {p} : d.pending[q] = c.pending[q]

LEMMA PoppedKind ==
    ASSUME NEW c, Kind(c), NEW p
    PROVE  Kind(Popped(c, p)) /\ Pops(c, Popped(c, p), p)
  <1> DEFINE f == [q \in DOMAIN c.pending \ {p} |-> c.pending[q]]
             d == [c EXCEPT !.pending = f]
  <1>1. /\ DOMAIN c.pending \in SUBSET (1 .. c.seq)
        /\ c.pending \in [DOMAIN c.pending -> Pair] /\ c.seq \in Nat
    BY PairsFinite DEF Kind, Book
  <1>2. /\ DOMAIN f = DOMAIN c.pending \ {p} /\ f \in [DOMAIN f -> Pair]
        /\ DOMAIN f \in SUBSET (1 .. c.seq)
        /\ \A q \in DOMAIN c.pending \ {p} : f[q] = c.pending[q]
    BY <1>1
  <1>3. d = Popped(c, p)
    BY DEF Popped
  <1> HIDE DEF f
  <1>4. f \in Pairs
    <2>1. DOMAIN f \in SUBSET Nat
      BY <1>1, <1>2
    <2> QED BY <1>2, <2>1 DEF Pairs
  <1>5. /\ d \in Book /\ d.lo = c.lo /\ d.seq = c.seq /\ d.reg = c.reg
        /\ d.venue = c.venue /\ d.pending = f
    BY <1>4 DEF Kind, Book
  <1> HIDE DEF d
  <1> QED BY <1>2, <1>3, <1>5 DEF Kind, Pops

LEMMA UncountedKind ==
    ASSUME NEW c, Kind(c), NEW n \in Nat
    PROVE  LET d == [c EXCEPT !.lo.hedged = Above(@, n)]
           IN  /\ Kind(d) /\ d.lo.hedged = Above(c.lo.hedged, n)
               /\ d.lo.open = c.lo.open /\ d.lo.order = c.lo.order
               /\ d.lo.seen = c.lo.seen /\ d.pending = c.pending /\ d.seq = c.seq
               /\ d.reg = c.reg /\ d.venue = c.venue
  <1> DEFINE m == Above(c.lo.hedged, n)
             d == [c EXCEPT !.lo.hedged = m]
  <1>1. m \in Nat
    BY DEF Kind, Book, Order, Above, Most
  <1> HIDE DEF m
  <1>2. /\ d \in Book /\ d.lo.hedged = m /\ d.lo.open = c.lo.open
        /\ d.lo.order = c.lo.order /\ d.lo.seen = c.lo.seen
        /\ d.pending = c.pending /\ d.seq = c.seq /\ d.reg = c.reg /\ d.venue = c.venue
    BY <1>1 DEF Kind, Book, Order
  <1>3. Kind(d)
    BY <1>2 DEF Kind
  <1> QED BY <1>2, <1>3 DEF m

\* Above what was delivered, and what it leaves of a hedge.
LEMMA AboveType ==
    ASSUME NEW a \in Int, NEW b \in Int
    PROVE  Above(a, b) \in Nat /\ Above(a, b) >= a - b
           /\ (a >= b => Above(a, b) = a - b) /\ (a < b => Above(a, b) = 0)
  BY DEF Above, Most

\* What _resolve_pending makes of a book it took r from: x is the book with
\* what was delivered, y the same with the rest no longer counted.
LEMMA ResolvedKind ==
    ASSUME NEW c, Kind(c), NEW r \in Pair, NEW got \in Nat, NEW bad
    PROVE  \E x, y : LET e == Above(r.hedge, got)
                     IN  /\ Kind(x) /\ Booked(c, x, got, got) /\ x.lo.hedged = c.lo.hedged
                         /\ Kind(y) /\ y.pending = x.pending /\ y.seq = x.seq
                         /\ y.reg = x.reg /\ y.venue = x.venue
                         /\ y.lo.open = x.lo.open /\ y.lo.order = x.lo.order
                         /\ y.lo.seen = x.lo.seen
                         /\ y.lo.hedged = IF r.order = c.lo.order
                                          THEN Above(x.lo.hedged, e) ELSE x.lo.hedged
                         /\ e \in Nat
                         /\ Kind(Resolved(c, r, got, bad))
                         /\ Resolved(c, r, got, bad) = Unwound(y, "hedge", e, bad)
  <1> DEFINE e == Above(r.hedge, got)
             x == IF got = 0 THEN c ELSE RecordLater(c, got, got, bad)
             z == [x EXCEPT !.lo.hedged = Above(@, e)]
             y == IF r.order = c.lo.order THEN z ELSE x
  <1>1. e \in Nat
    <2>1. r.hedge \in Int /\ got \in Int
      BY DEF Pair
    <2> QED BY <2>1, AboveType
  <1>2. Resolved(c, r, got, bad) = Unwound(y, "hedge", e, bad)
    <2>1. y = IF r.order = c.lo.order
              THEN [x EXCEPT !.lo.hedged = Above(@, e)] ELSE x
      OBVIOUS
    <2> QED BY DEF Resolved, RecordLater
  <1>3. c.lo.hedged \in Nat /\ c.reg.expected["rest"] \in Nat
        /\ c.reg.expected["hedge"] \in Nat
    BY DEF Kind, Book, Order, Registry, Legs
  <1>4. Kind(x) /\ Booked(c, x, got, got) /\ x.lo.hedged = c.lo.hedged
    <2>1. CASE got = 0
      BY <1>3, <2>1 DEF Booked
    <2>2. CASE got # 0
      BY <2>2, RecordKind
    <2> QED BY <2>1, <2>2
  <1> HIDE DEF x, e
  <1>5. /\ Kind(z) /\ z.lo.hedged = Above(x.lo.hedged, e)
        /\ z.lo.open = x.lo.open /\ z.lo.order = x.lo.order
        /\ z.lo.seen = x.lo.seen /\ z.pending = x.pending /\ z.seq = x.seq
        /\ z.reg = x.reg /\ z.venue = x.venue
    BY <1>1, <1>4, UncountedKind
  <1> HIDE DEF z
  <1>6. /\ Kind(y) /\ y.pending = x.pending /\ y.seq = x.seq
        /\ y.reg = x.reg /\ y.venue = x.venue
        /\ y.lo.open = x.lo.open /\ y.lo.order = x.lo.order /\ y.lo.seen = x.lo.seen
        /\ y.lo.hedged = IF r.order = c.lo.order
                         THEN Above(x.lo.hedged, e) ELSE x.lo.hedged
    BY <1>4, <1>5
  <1> HIDE DEF y
  <1>7. Kind(Unwound(y, "hedge", e, bad))
    BY <1>1, <1>6, UnwoundKind DEF Legs
  <1>8. \E xx, yy : /\ Kind(xx) /\ Booked(c, xx, got, got) /\ xx.lo.hedged = c.lo.hedged
                    /\ Kind(yy) /\ yy.pending = xx.pending /\ yy.seq = xx.seq
                    /\ yy.reg = xx.reg /\ yy.venue = xx.venue
                    /\ yy.lo.open = xx.lo.open /\ yy.lo.order = xx.lo.order
                    /\ yy.lo.seen = xx.lo.seen
                    /\ yy.lo.hedged = IF r.order = c.lo.order
                                      THEN Above(xx.lo.hedged, e) ELSE xx.lo.hedged
                    /\ Resolved(c, r, got, bad) = Unwound(yy, "hedge", e, bad)
    BY <1>2, <1>4, <1>6
  <1> QED BY <1>1, <1>2, <1>7, <1>8 DEF e

\* d is c with the mark of the hedge leg settled: nothing of it is held or
\* expected any more.
Settled(c, d) ==
    /\ d.lo = c.lo /\ d.pending = c.pending /\ d.seq = c.seq /\ d.venue = c.venue
    /\ d.reg.expected["rest"] = c.reg.expected["rest"]
    /\ \/ d.reg.expected["hedge"] = c.reg.expected["hedge"]
       \/ d.reg.expected["hedge"] = 0 /\ c.venue.held["hedge"] = 0

LEMMA SettledKind ==
    ASSUME NEW c, Kind(c)
    PROVE  Kind(MarksSettled(c)) /\ Settled(c, MarksSettled(c))
  <1> DEFINE a == [c EXCEPT !.reg.marks["hedge"] = 0]
             b == [a EXCEPT !.reg.expected["hedge"] = 0]
             d == [b EXCEPT !.reg.watched = @ \ {"hedge"}]
  <1>1. /\ a \in Book /\ a.pending = c.pending /\ a.seq = c.seq /\ a.venue = c.venue
        /\ a.lo = c.lo /\ a.reg.expected = c.reg.expected
        /\ a.reg.watched = c.reg.watched
    BY DEF Kind, Book, Registry, Legs
  <1>2. d = [c EXCEPT !.reg.marks["hedge"] = 0, !.reg.expected["hedge"] = 0,
                   !.reg.watched = @ \ {"hedge"}]
    <2>1. b.reg.watched = c.reg.watched
      BY DEF Kind, Book, Registry, Legs
    <2> QED BY <2>1 DEF a, b
  <1> HIDE DEF a
  <1>3. /\ b \in Book /\ b.pending = c.pending /\ b.seq = c.seq /\ b.venue = c.venue
        /\ b.lo = c.lo /\ b.reg.expected["hedge"] = 0
        /\ b.reg.expected["rest"] = c.reg.expected["rest"]
    BY <1>1 DEF Book, Registry, Legs
  <1> HIDE DEF b
  <1>4. /\ d \in Book /\ d.pending = c.pending /\ d.seq = c.seq /\ d.venue = c.venue
        /\ d.lo = c.lo /\ d.reg.expected = b.reg.expected
    BY <1>3 DEF Book, Registry
  <1> HIDE DEF d
  <1>5. c.venue.held["hedge"] \in Nat
    BY DEF Kind, Book, Venue, Legs
  <1>6. ASSUME ~(c.venue.held["hedge"] > 0) PROVE Kind(d) /\ Settled(c, d)
    BY <1>3, <1>4, <1>5, <1>6 DEF Kind, Settled
  <1>7. Kind(c) /\ Settled(c, c)
    BY DEF Settled
  <1> QED BY <1>2, <1>6, <1>7 DEF MarksSettled

LEMMA ClearedKind ==
    ASSUME NEW c, Kind(c)
    PROVE  Kind(Cleared(c)) /\ Same(c, Cleared(c))
  <1> DEFINE halt == IF c.latch.halt = "orphan" THEN "no" ELSE c.latch.halt
             a == [c EXCEPT !.latch.orphan = NoLeg]
             d == [a EXCEPT !.latch.halt = halt]
  <1>1. /\ a \in Book /\ a.pending = c.pending /\ a.seq = c.seq /\ a.venue = c.venue
        /\ a.lo = c.lo /\ a.reg = c.reg
    BY DEF Kind, Book, Latch
  <1>2. halt \in {"no", "orphan", "quarantine"}
    BY DEF Kind, Book, Latch
  <1>3. d = Cleared(c)
    BY DEF Cleared, Kind, Book, Latch
  <1> HIDE DEF a, halt
  <1>4. /\ d \in Book /\ d.pending = c.pending /\ d.seq = c.seq /\ d.venue = c.venue
        /\ d.lo = c.lo /\ d.reg = c.reg
    BY <1>1, <1>2 DEF Book, Latch
  <1> HIDE DEF d
  <1> QED BY <1>3, <1>4 DEF Kind, Same

LEMMA ReconciledKind ==
    ASSUME NEW c, Kind(c), NEW bad
    PROVE  Kind(Reconciled(c, bad)) /\ Same(c, Reconciled(c, bad))
  <1> DEFINE s == Suspects(c)
             d == [c EXCEPT !.reg.watched = @ \ FlatLegs(c)]
             told == d.reg.alerted \cup {i \in Legs : batch[i] > 0 /\ ~Registered(d, i)}
             e == [d EXCEPT !.reg.alerted = told]
             i == IF "rest" \in s THEN "rest" ELSE "hedge"
             z == OrphanDetected(e, i, bad)
  <1>1. /\ d \in Book /\ d.pending = c.pending /\ d.seq = c.seq /\ d.venue = c.venue
        /\ d.lo = c.lo /\ d.reg.expected = c.reg.expected
        /\ d.reg.alerted \subseteq Legs
    BY DEF Kind, Book, Registry
  <1>2. Reconciled(c, bad) = IF s = {} THEN e ELSE z
    BY DEF Reconciled
  <1> HIDE DEF d
  <1>3. told \in SUBSET Legs
    BY <1>1
  <1> HIDE DEF told, s
  <1>4. /\ e \in Book /\ e.pending = c.pending /\ e.seq = c.seq /\ e.venue = c.venue
        /\ e.lo = c.lo /\ e.reg.expected = c.reg.expected
    BY <1>1, <1>3 DEF Book, Registry
  <1> HIDE DEF e
  <1>5. Kind(e) /\ Same(c, e)
    BY <1>4 DEF Kind, Same
  <1>6. i \in Legs
    BY DEF Legs
  <1> HIDE DEF i
  <1>7. Kind(z) /\ Same(e, z)
    BY <1>5, <1>6, OrphanKind
  <1> HIDE DEF z
  <1>8. Same(c, z)
    BY <1>5, <1>7 DEF Same
  <1> QED BY <1>2, <1>5, <1>7, <1>8

-----------------------------------------------------------------------------
(* Every action keeps the types.                                           *)

\* What a loop step becomes is the next book.
LEMMA BecomeKind ==
    ASSUME NEW c, Kind(c), Become(c)
    PROVE  Kind(Books)' /\ scene' = scene
  <1>1. /\ venue' \in Venue /\ lo' \in Order /\ pending' \in Pairs
        /\ reg' \in Registry /\ latch' \in Latch /\ seq' \in Nat
        /\ DOMAIN pending' \in SUBSET (1 .. seq')
    BY DEF Kind, Book, Become
  <1>2. Books' = [venue |-> venue', lo |-> lo', pending |-> pending', reg |-> reg',
                  latch |-> latch', seq |-> seq']
    BY DEF Books
  <1>3. /\ Books' \in Book /\ Books'.pending = pending' /\ Books'.seq = seq'
    BY <1>1, <1>2 DEF Book
  <1>4. Kind(Books')
    BY <1>1, <1>3 DEF Kind
  <1> QED BY <1>4 DEF Become, Kind

\* The parts of the present book.
LEMMA BooksParts ==
    ASSUME Kind(Books)
    PROVE  /\ venue \in Venue /\ lo \in Order /\ pending \in Pairs
           /\ reg \in Registry /\ latch \in Latch /\ seq \in Nat
           /\ DOMAIN pending \in SUBSET (1 .. seq)
           /\ pending \in [DOMAIN pending -> Pair]
           /\ Books.venue = venue /\ Books.lo = lo /\ Books.pending = pending
           /\ Books.reg = reg /\ Books.latch = latch /\ Books.seq = seq
  <1>1. /\ Books.venue = venue /\ Books.lo = lo /\ Books.pending = pending
        /\ Books.reg = reg /\ Books.latch = latch /\ Books.seq = seq
    BY DEF Books
  <1>2. pending \in [DOMAIN pending -> Pair]
    BY <1>1, PairsFinite
  <1> QED BY <1>1, <1>2 DEF Kind, Book

\* A step pays for what it suffers.
LEMMA PayType ==
    ASSUME NEW K, NEW bad \in Suffered(K), mishaps \in 0 .. MaxMishaps, Pay(bad)
    PROVE  mishaps' \in 0 .. MaxMishaps /\ bad \subseteq scene \cap K
  <1>1. bad = {} \/ \E a, b \in scene \cap K : bad = {a, b}
    BY DEF Suffered
  <1>2. IsFiniteSet(bad) /\ bad \subseteq scene \cap K
    <2>1. CASE bad = {}
      BY <2>1, FS_EmptySet
    <2>2. ASSUME NEW a \in scene \cap K, NEW b \in scene \cap K, bad = {a, b}
          PROVE  IsFiniteSet(bad) /\ bad \subseteq scene \cap K
      <3>1. IsFiniteSet({a}) /\ {a, b} = {a} \cup {b} /\ IsFiniteSet({b})
        BY FS_Singleton
      <3>2. IsFiniteSet({a} \cup {b})
        BY <3>1, FS_Union
      <3> QED BY <2>2, <3>1, <3>2
    <2> QED BY <1>1, <2>1, <2>2
  <1>3. Cardinality(bad) \in Nat
    BY <1>2, FS_CardinalityType
  <1>4. mishaps + Cardinality(bad) <= MaxMishaps
    BY DEF Suffered
  <1> QED BY <1>2, <1>3, <1>4, HedgeAssumption DEF Pay

LEMMA BecomeIs ==
    ASSUME NEW c, Kind(c), Become(c)
    PROVE  Books' = c
  <1>1. c = [venue |-> c.venue, lo |-> c.lo, pending |-> c.pending, reg |-> c.reg,
             latch |-> c.latch, seq |-> c.seq]
    BY DEF Kind, Book
  <1>2. Books' = [venue |-> venue', lo |-> lo', pending |-> pending', reg |-> reg',
                  latch |-> latch', seq |-> seq']
    BY DEF Books
  <1> QED BY <1>1, <1>2 DEF Become

\* g is f with other answers for the pair p.
Answered(f, g, p) ==
    /\ DOMAIN g = DOMAIN f
    /\ \A q \in DOMAIN f : q # p => g[q] = f[q]
    /\ g[p].rest = f[p].rest /\ g[p].hedge = f[p].hedge
    /\ g[p].base = f[p].base /\ g[p].order = f[p].order

\* f with a read of its pair p landed, and with its deadline over.
Landed(f, p, value) == [f EXCEPT ![p].answer = "landed", ![p].value = value]
Overdue(f, p) == [f EXCEPT ![p].due = TRUE]

LEMMA LandedKind ==
    ASSUME NEW f, f \in Pairs, NEW p \in DOMAIN f, NEW value \in Reading, NEW g,
           g = Landed(f, p, value)
    PROVE  g \in Pairs /\ Answered(f, g, p) /\ g[p].read = f[p].read /\ g[p].value = value
  <1> DEFINE a == [f EXCEPT ![p].answer = "landed"]
             b == [a EXCEPT ![p].value = value]
  <1>1. f \in [DOMAIN f -> Pair] /\ DOMAIN f \in SUBSET Nat
    BY DEF Pairs
  <1>2. a \in [DOMAIN f -> Pair] /\ Answered(f, a, p) /\ a[p].read = f[p].read
    BY <1>1 DEF Pair, Answered
  <1>3. b = g
    BY DEF a, Landed
  <1> HIDE DEF a
  <1>4. /\ b \in [DOMAIN f -> Pair] /\ Answered(f, b, p)
        /\ b[p].read = f[p].read /\ b[p].value = value
    BY <1>2 DEF Pair, Answered
  <1> HIDE DEF b
  <1>5. b \in Pairs
    BY <1>1, <1>4 DEF Pairs
  <1> QED BY <1>3, <1>4, <1>5

\* f with the decision about its pair p put off.
PutOff(f, p, read) ==
    [f EXCEPT ![p].read = read, ![p].answer = "none", ![p].value = Unread]

LEMMA PutOffKind ==
    ASSUME NEW f, f \in Pairs, NEW p \in DOMAIN f, NEW read \in Reading, NEW g,
           g = PutOff(f, p, read)
    PROVE  g \in Pairs /\ Answered(f, g, p) /\ g[p].read = read /\ g[p].value = Unread
  <1> DEFINE a == [f EXCEPT ![p].read = read]
             b == [a EXCEPT ![p].answer = "none"]
             d == [b EXCEPT ![p].value = Unread]
  <1>1. f \in [DOMAIN f -> Pair] /\ DOMAIN f \in SUBSET Nat
    BY DEF Pairs
  <1>2. Unread \in Reading
    BY DEF Reading
  <1>3. a \in [DOMAIN f -> Pair] /\ Answered(f, a, p) /\ a[p].read = read
    BY <1>1 DEF Pair, Answered
  <1>4. d = g
    BY DEF a, b, PutOff
  <1> HIDE DEF a
  <1>5. b \in [DOMAIN f -> Pair] /\ Answered(f, b, p) /\ b[p].read = read
    BY <1>3 DEF Pair, Answered
  <1> HIDE DEF b
  <1>6. /\ d \in [DOMAIN f -> Pair] /\ Answered(f, d, p) /\ d[p].read = read
        /\ d[p].value = Unread
    BY <1>2, <1>5 DEF Pair, Answered
  <1> HIDE DEF d
  <1>7. d \in Pairs
    BY <1>1, <1>6 DEF Pairs
  <1> QED BY <1>4, <1>6, <1>7

LEMMA OverdueKind ==
    ASSUME NEW f, f \in Pairs, NEW p \in DOMAIN f, NEW g, g = Overdue(f, p)
    PROVE  /\ g \in Pairs /\ Answered(f, g, p)
           /\ g[p].read = f[p].read /\ g[p].value = f[p].value
  <1>1. f \in [DOMAIN f -> Pair] /\ DOMAIN f \in SUBSET Nat
    BY DEF Pairs
  <1>2. /\ g \in [DOMAIN f -> Pair] /\ Answered(f, g, p)
        /\ g[p].read = f[p].read /\ g[p].value = f[p].value
    BY <1>1 DEF Pair, Answered, Overdue
  <1> QED BY <1>1, <1>2 DEF Pairs

\* A loop step that becomes a well-formed book, and pays for what it suffers.
LEMMA BecomeType ==
    ASSUME TypeInv, NEW c, Kind(c), Become(c), NEW K, NEW bad \in Suffered(K), Pay(bad),
           batch' \in [Legs -> Reading]
    PROVE  TypeInv'
  <1>1. Kind(Books)' /\ scene' = scene
    BY BecomeKind
  <1>2. mishaps' \in 0 .. MaxMishaps
    BY PayType DEF TypeInv
  <1> QED BY <1>1, <1>2 DEF TypeInv

\* What is left over when a step writes the parts of the book by name.
LEMMA PartsType ==
    ASSUME venue' \in Venue, lo' \in Order, pending' \in Pairs, reg' \in Registry,
           latch' \in Latch, seq' \in Nat, DOMAIN pending' \in SUBSET (1 .. seq')
    PROVE  Kind(Books)'
  <1>1. Books' = [venue |-> venue', lo |-> lo', pending |-> pending', reg |-> reg',
                  latch |-> latch', seq |-> seq']
    BY DEF Books
  <1> QED BY <1>1 DEF Kind, Book

LEMMA DeclineType == TypeInv /\ Decline => TypeInv'
  <1> SUFFICES ASSUME TypeInv, Decline PROVE TypeInv'
    OBVIOUS
  <1>1. PICK bad \in Suffered(UnwindKinds \cup {"decline"}) :
            Pay(bad) /\ Become(Consumed(Unwound(Books, "rest", Delta, bad), bad))
    BY DEF Decline
  <1>2. Delta \in Nat
    BY BooksParts DEF TypeInv, Decline, Detected, Delta, Venue, Order
  <1>3. Kind(Unwound(Books, "rest", Delta, bad))
    BY <1>2, UnwoundKind DEF TypeInv, Legs
  <1>4. Kind(Consumed(Unwound(Books, "rest", Delta, bad), bad))
    BY <1>3, ConsumedKind
  <1>5. batch' \in [Legs -> Reading]
    BY DEF TypeInv, Decline
  <1> QED BY <1>1, <1>4, <1>5, BecomeType

LEMMA FillType == TypeInv /\ HedgeFill => TypeInv'
  <1> SUFFICES ASSUME TypeInv, HedgeFill PROVE TypeInv'
    OBVIOUS
  <1> DEFINE K == UnwindKinds \cup {"miss", "ack", "complement", "delivery", "refuse"}
  <1>1. PICK bad \in Suffered(K), got \in 0 .. Delta :
            /\ Pay(bad)
            /\ Become(Consumed(HedgeOutcome(Bought(Books, got), Delta,
                                   IF "ack" \in bad THEN 0 ELSE got, bad), bad))
    BY DEF HedgeFill
  <1> HIDE DEF K
  <1> DEFINE said == IF "ack" \in bad THEN 0 ELSE got
  <1>2. Delta \in Nat
    BY BooksParts DEF TypeInv, HedgeFill, Detected, Delta, Venue, Order
  <1>3. got \in Nat /\ said \in Nat
    BY <1>2
  <1> HIDE DEF said
  <1>4. Kind(Bought(Books, got))
    BY <1>3, BoughtKind DEF TypeInv
  <1>5. Kind(HedgeOutcome(Bought(Books, got), Delta, said, bad))
    BY <1>2, <1>3, <1>4, OutcomeKind
  <1>6. Kind(Consumed(HedgeOutcome(Bought(Books, got), Delta, said, bad), bad))
    BY <1>5, ConsumedKind
  <1>7. batch' \in [Legs -> Reading]
    BY DEF TypeInv, HedgeFill
  <1> QED BY <1>1, <1>6, <1>7, BecomeType DEF said

\* A chain that raises once more: the errors of the order, and the shares bought.
LEMMA RaisedKind ==
    ASSUME NEW c, Kind(c), NEW got \in Nat
    PROVE  LET d == [Bought(c, got) EXCEPT !.lo.errors = @ + 1]
           IN  Kind(d) /\ Buys(c, d, got)
  <1> DEFINE a == Bought(c, got)
             d == [a EXCEPT !.lo.errors = @ + 1]
  <1>1. Kind(a) /\ Buys(c, a, got)
    BY BoughtKind
  <1> HIDE DEF a
  <1>2. /\ d \in Book /\ d.lo.open = a.lo.open /\ d.lo.order = a.lo.order
        /\ d.lo.seen = a.lo.seen /\ d.lo.hedged = a.lo.hedged
        /\ d.pending = a.pending /\ d.seq = a.seq /\ d.reg = a.reg /\ d.venue = a.venue
    BY <1>1 DEF Kind, Book, Order
  <1> HIDE DEF d
  <1>3. Kind(d) /\ Buys(c, d, got)
    BY <1>1, <1>2 DEF Kind, Buys
  <1> QED BY <1>3 DEF d, a

LEMMA RaisedType == TypeInv /\ HedgeRaised => TypeInv'
  <1> SUFFICES ASSUME TypeInv, HedgeRaised PROVE TypeInv'
    OBVIOUS
  <1> DEFINE K == {"raise", "reverify", "cancel"}
             c(got) == [Bought(Books, got) EXCEPT !.lo.errors = @ + 1]
  <1>1. PICK bad \in Suffered(K), got \in {0, Delta} :
            /\ Pay(bad)
            /\ Become(IF c(got).lo.errors < MaxErrors THEN c(got)
                      ELSE OrphanDetected(c(got), "rest", bad))
    BY DEF HedgeRaised
  <1> HIDE DEF K
  <1>2. got \in Nat
    BY BooksParts DEF TypeInv, HedgeRaised, Detected, Delta, Venue, Order
  <1>3. Kind(c(got))
    BY <1>2, RaisedKind DEF TypeInv
  <1> HIDE DEF c
  <1>4. Kind(OrphanDetected(c(got), "rest", bad))
    BY <1>3, OrphanKind DEF Legs
  <1>5. batch' \in [Legs -> Reading]
    BY DEF TypeInv, HedgeRaised
  <1>6. Kind(IF c(got).lo.errors < MaxErrors THEN c(got)
             ELSE OrphanDetected(c(got), "rest", bad))
    BY <1>3, <1>4
  <1> QED BY <1>1, <1>5, <1>6, BecomeType

LEMMA ReadType ==
    ASSUME TypeInv, NEW p, ConfirmRead(p)
    PROVE  TypeInv'
  <1>1. PICK bad \in Suffered({"confirm"}) :
            /\ Pay(bad)
            /\ pending' = [pending EXCEPT ![p].answer = "landed",
                  ![p].value = IF bad # {} THEN Unread
                               ELSE Delivered(venue.held["rest"], pending[p].base)]
    BY DEF ConfirmRead
  <1> DEFINE value == IF bad # {} THEN Unread
                      ELSE Delivered(venue.held["rest"], pending[p].base)
  <1>2. p \in DOMAIN pending /\ pending \in Pairs /\ pending[p].base \in Nat
        /\ venue.held["rest"] \in Nat
    BY BooksParts DEF ConfirmRead, TypeInv, Pair, Venue, Legs
  <1>3. value \in Reading
    BY <1>2 DEF Reading, Delivered, Above, Most
  <1> HIDE DEF value
  <1>4. pending' \in Pairs /\ DOMAIN pending' = DOMAIN pending
    <2>1. pending' = Landed(pending, p, value)
      BY <1>1 DEF value, Landed
    <2> QED BY <1>2, <1>3, <2>1, LandedKind DEF Answered
  <1>5. Kind(Books)'
    BY <1>4, BooksParts, PartsType DEF ConfirmRead, TypeInv
  <1>6. mishaps' \in 0 .. MaxMishaps
    BY <1>1, PayType DEF TypeInv
  <1> QED BY <1>5, <1>6 DEF TypeInv, ConfirmRead

\* A decision on a pair of the book: it is taken with a book, or put off.
LEMMA DecideType ==
    ASSUME TypeInv, NEW p \in DOMAIN pending, NEW value \in Reading, NEW final, NEW answered,
           Decide(p, value, final, answered), UNCHANGED batch
    PROVE  TypeInv'
  <1> DEFINE r == pending[p]
             last == IF value = Unread THEN r.read ELSE value
             K == UnwindKinds \cup {"refuse"}
             c == Popped(Books, p)
             got == Least(Most(0, last), r.rest)
  <1>1. r \in Pair /\ r.rest \in Nat /\ r.hedge \in Nat /\ last \in Reading
    BY BooksParts DEF TypeInv, Pair
  <1>2. got \in Nat
    BY <1>1 DEF Least, Most, Reading, Unread
  <1> HIDE DEF K
  <1>3. PICK bad \in Suffered(K) :
          \/ /\ Pay(bad)
             /\ Become(RecordLater(c, r.rest, r.hedge, bad))
          \/ /\ Pay(bad)
             /\ Become(Resolved(c, r, got, bad))
          \/ /\ pending' = [pending EXCEPT ![p].read = last, ![p].answer = "none",
                                           ![p].value = Unread]
             /\ UNCHANGED <<venue, lo, reg, latch, seq, scene, mishaps>>
    BY DEF Decide, RecordLater, K
  <1>4. Kind(c)
    BY PoppedKind DEF TypeInv
  <1>5. Kind(RecordLater(c, r.rest, r.hedge, bad)) /\ Kind(Resolved(c, r, got, bad))
    <2> HIDE DEF c, r, got
    <2>1. Kind(RecordLater(c, r.rest, r.hedge, bad))
      BY <1>1, <1>4, RecordKind
    <2>2. Kind(Resolved(c, r, got, bad))
      BY <1>1, <1>2, <1>4, ResolvedKind
    <2> QED BY <2>1, <2>2
  <1> HIDE DEF c, got
  <1>6. batch' \in [Legs -> Reading]
    BY DEF TypeInv
  <1>7. CASE Pay(bad) /\ Become(RecordLater(c, r.rest, r.hedge, bad))
    BY <1>5, <1>6, <1>7, BecomeType
  <1>8. CASE Pay(bad) /\ Become(Resolved(c, r, got, bad))
    BY <1>5, <1>6, <1>8, BecomeType
  <1>9. CASE /\ pending' = [pending EXCEPT ![p].read = last, ![p].answer = "none",
                                           ![p].value = Unread]
             /\ UNCHANGED <<venue, lo, reg, latch, seq, scene, mishaps>>
    <2> HIDE DEF last, r
    <2>1. pending \in Pairs
      BY BooksParts DEF TypeInv
    <2>2. pending' \in Pairs /\ DOMAIN pending' = DOMAIN pending
      <3>1. pending' = PutOff(pending, p, last)
        BY <1>9 DEF PutOff
      <3> QED BY <1>1, <2>1, <3>1, PutOffKind DEF Answered
    <2>3. Kind(Books)'
      BY <1>9, <2>2, BooksParts, PartsType DEF TypeInv
    <2> QED BY <1>9, <2>3 DEF TypeInv
  <1> QED BY <1>3, <1>7, <1>8, <1>9

LEMMA DecidedType ==
    ASSUME TypeInv, NEW p, ApplyConfirm(p) \/ Backstop(p) \/ Deadline(p)
    PROVE  TypeInv'
  <1>1. Unread \in Reading
    BY DEF Reading
  <1>2. CASE ApplyConfirm(p)
    <2>1. p \in DOMAIN pending /\ pending[p].value \in Reading
      BY <1>2, BooksParts DEF ApplyConfirm, TypeInv, Pair
    <2>2. UNCHANGED batch /\ Decide(p, pending[p].value, pending[p].due, TRUE)
      BY <1>2 DEF ApplyConfirm
    <2> QED BY <2>1, <2>2, DecideType, Zenon
  <1>3. CASE Backstop(p)
    <2>1. p \in DOMAIN pending /\ UNCHANGED batch /\ Decide(p, Unread, TRUE, FALSE)
      BY <1>3 DEF Backstop
    <2> QED BY <1>1, <2>1, DecideType, Zenon
  <1>4. CASE Deadline(p)
    <2>1. p \in DOMAIN pending /\ pending \in Pairs
      BY <1>4, BooksParts DEF Deadline, TypeInv
    <2>2. pending' \in Pairs /\ DOMAIN pending' = DOMAIN pending
      <3>1. pending' = Overdue(pending, p)
        BY <1>4 DEF Deadline, Overdue
      <3> QED BY <1>1, <2>1, <3>1, OverdueKind DEF Answered
    <2>3. Kind(Books)'
      BY <1>4, <2>2, BooksParts, PartsType DEF Deadline, TypeInv
    <2>4. mishaps' \in 0 .. MaxMishaps
      BY <1>4, PayType DEF Deadline, TypeInv
    <2> QED BY <1>4, <2>3, <2>4 DEF TypeInv, Deadline
  <1> QED BY <1>2, <1>3, <1>4

\* d is c with an alert, a row or a watch of the nets rewritten.
LEMMA SweptKind ==
    ASSUME NEW c, Kind(c)
    PROVE  LET d == [c EXCEPT !.venue.row = FALSE]
               e == [d EXCEPT !.reg.watched = @ \cup {"hedge"}]
           IN  Kind(d) /\ Same(c, d) /\ Kind(e) /\ Same(c, e)
  <1> DEFINE d == [c EXCEPT !.venue.row = FALSE]
             e == [d EXCEPT !.reg.watched = @ \cup {"hedge"}]
  <1>1. /\ d \in Book /\ d.pending = c.pending /\ d.seq = c.seq
        /\ d.lo = c.lo /\ d.reg = c.reg
        /\ d.venue.held = c.venue.held /\ d.venue.due = c.venue.due
        /\ d.venue.matched = c.venue.matched /\ d.venue.resting = c.venue.resting
    BY DEF Kind, Book, Venue
  <1> HIDE DEF d
  <1>2. /\ e \in Book /\ e.pending = c.pending /\ e.seq = c.seq
        /\ e.lo = c.lo /\ e.reg.expected = c.reg.expected /\ e.venue = d.venue
    BY <1>1 DEF Book, Registry, Legs
  <1> HIDE DEF e
  <1>3. Kind(d) /\ Same(c, d) /\ Kind(e) /\ Same(c, e)
    BY <1>1, <1>2 DEF Kind, Same
  <1> QED BY <1>3 DEF d, e

\* What a sweep of the row makes of the book.
Swept(bad) ==
    LET c == [Books EXCEPT !.venue.row = FALSE]
    IN  IF "position" \notin bad
           /\ venue.held["hedge"] <= ExpectedShares(Books, "hedge")
        THEN c
        ELSE OrphanDetected([c EXCEPT !.reg.watched = @ \cup {"hedge"}], "hedge", bad)

LEMMA SweptIsKind ==
    ASSUME Kind(Books), NEW bad
    PROVE  Kind(Swept(bad)) /\ Same(Books, Swept(bad))
  <1> DEFINE c == [Books EXCEPT !.venue.row = FALSE]
             e == [c EXCEPT !.reg.watched = @ \cup {"hedge"}]
             z == OrphanDetected(e, "hedge", bad)
  <1>1. Kind(c) /\ Same(Books, c) /\ Kind(e) /\ Same(Books, e)
    BY SweptKind
  <1>2. Swept(bad) = IF "position" \notin bad
                        /\ venue.held["hedge"] <= ExpectedShares(Books, "hedge") THEN c ELSE z
    BY DEF Swept
  <1> HIDE DEF c, e
  <1>3. Kind(z) /\ Same(e, z)
    BY <1>1, OrphanKind DEF Legs
  <1>4. Same(Books, z)
    BY <1>1, <1>3 DEF Same
  <1> HIDE DEF z
  <1> QED BY <1>1, <1>2, <1>3, <1>4

\* What applying a batch makes of the book c.
Applied(c, bad) ==
    IF latch.orphan = NoLeg THEN Reconciled(c, bad)
    ELSE IF "position" \in bad \/ ~Retired(c) THEN c
    ELSE Reconciled(Cleared(c), bad)

LEMMA AppliedKind ==
    ASSUME NEW c, Kind(c), NEW bad
    PROVE  Kind(Applied(c, bad)) /\ Same(c, Applied(c, bad))
  <1>1. Kind(Reconciled(c, bad)) /\ Same(c, Reconciled(c, bad))
    BY ReconciledKind
  <1>2. Kind(Cleared(c)) /\ Same(c, Cleared(c))
    BY ClearedKind
  <1>3. Kind(Reconciled(Cleared(c), bad)) /\ Same(Cleared(c), Reconciled(Cleared(c), bad))
    BY <1>2, ReconciledKind
  <1>4. Same(c, c) /\ Same(c, Reconciled(Cleared(c), bad))
    BY <1>2, <1>3 DEF Same
  <1> QED BY <1>1, <1>3, <1>4 DEF Applied

LEMMA NetsType ==
    ASSUME TypeInv, SweepRow \/ ReconcileRead \/ ApplyReconcile
    PROVE  TypeInv'
  <1>1. CASE SweepRow
    <2>1. PICK bad \in Suffered({"position", "reverify", "cancel"}) :
              Pay(bad) /\ Become(Swept(bad))
      BY <1>1 DEF SweepRow, Swept
    <2>2. Kind(Swept(bad))
      BY SweptIsKind DEF TypeInv
    <2>3. batch' \in [Legs -> Reading]
      BY <1>1 DEF TypeInv, SweepRow
    <2> QED BY <2>1, <2>2, <2>3, BecomeType
  <1>2. CASE ReconcileRead
    <2>1. PICK bad \in Suffered({"batch"}), i \in Legs :
              /\ Pay(bad)
              /\ batch' = [j \in Legs |-> IF bad # {} /\ i = j THEN Unread
                                          ELSE venue.held[j]]
      BY <1>2 DEF ReconcileRead
    <2>2. \A j \in Legs : venue.held[j] \in Reading
      BY BooksParts DEF TypeInv, Venue, Reading
    <2>3. batch' \in [Legs -> Reading]
      BY <2>1, <2>2 DEF Reading
    <2>4. mishaps' \in 0 .. MaxMishaps
      BY <2>1, PayType DEF TypeInv
    <2>5. Kind(Books)'
      BY <1>2, BooksParts, PartsType DEF ReconcileRead, TypeInv
    <2> QED BY <1>2, <2>3, <2>4, <2>5 DEF ReconcileRead, TypeInv
  <1>3. CASE ApplyReconcile
    <2> DEFINE c(bad) == IF "position" \in bad THEN Books ELSE MarksSettled(Books)
    <2>1. PICK bad \in Suffered({"position", "reverify", "cancel"}) :
              Pay(bad) /\ Become(Applied(c(bad), bad))
      BY <1>3 DEF ApplyReconcile, Applied
    <2>2. Kind(c(bad))
      BY SettledKind DEF TypeInv
    <2> HIDE DEF c
    <2>3. Kind(Applied(c(bad), bad))
      BY <2>2, AppliedKind
    <2>4. batch' \in [Legs -> Reading]
      BY <1>3 DEF ApplyReconcile, Reading
    <2> QED BY <2>1, <2>3, <2>4, BecomeType
  <1> QED BY <1>1, <1>2, <1>3

LEMMA VenueType ==
    ASSUME TypeInv, Place \/ Release \/ Match \/ Deliver \/ Phantom
    PROVE  TypeInv'
  <1> USE HedgeAssumption
  <1>0. /\ venue \in Venue /\ lo \in Order /\ reg \in Registry
        /\ 0 \in 0 .. Size /\ pending \in Pairs /\ latch \in Latch /\ seq \in Nat
        /\ DOMAIN pending \in SUBSET (1 .. seq)
    BY BooksParts DEF TypeInv
  <1>1. CASE Place
    <2>1. lo' \in Order
      <3>1. lo.order + 1 \in 0 .. MaxOrders
        BY <1>0, <1>1 DEF Place, Order
      <3>2. NoOrder(lo.order + 1) \in Order
        BY <1>0, <3>1 DEF NoOrder, Order
      <3> QED BY <1>1, <3>2 DEF Place, Order
    <2>2. venue' \in Venue
      BY <1>0, <1>1 DEF Place, Venue
    <2>3. reg' \in Registry
      BY <1>0, <1>1 DEF Place, Registry, Legs
    <2>4. Kind(Books)'
      BY <1>0, <1>1, <2>1, <2>2, <2>3, PartsType DEF Place
    <2> QED BY <1>1, <2>4 DEF Place, TypeInv
  <1>2. CASE Release
    <2>1. lo' \in Order /\ venue' \in Venue
      BY <1>0, <1>2 DEF Release, Order, Venue
    <2>2. Kind(Books)'
      BY <1>0, <1>2, <2>1, PartsType DEF Release
    <2> QED BY <1>2, <2>2 DEF Release, TypeInv
  <1>3. CASE Match
    <2>1. venue' \in Venue
      <3> DEFINE m == venue.matched + 1
                 n == venue.due + 1
                 up == venue.matched + 1 < Size
      <3>1. m \in 0 .. Size /\ n \in Nat /\ up \in BOOLEAN
        BY <1>0, <1>3 DEF Match, Venue
      <3>2. venue' = [venue EXCEPT !.matched = m, !.due = n, !.resting = up]
        BY <1>3 DEF Match
      <3> HIDE DEF m, n, up
      <3> QED BY <1>0, <3>1, <3>2, Zenon DEF Venue
    <2>2. Kind(Books)'
      BY <1>0, <1>3, <2>1, PartsType DEF Match
    <2> QED BY <1>3, <2>2 DEF Match, TypeInv
  <1>4. CASE Deliver
    <2>1. venue' \in Venue
      <3> DEFINE n == venue.due - 1
                 h == [venue.held EXCEPT !["rest"] = @ + 1]
      <3>1. n \in Nat /\ h \in [Legs -> Nat]
        BY <1>0, <1>4 DEF Deliver, Venue, Legs
      <3>2. venue' = [venue EXCEPT !.due = n, !.held = h]
        BY <1>0, <1>4 DEF Deliver, Venue
      <3> HIDE DEF n, h
      <3> QED BY <1>0, <3>1, <3>2 DEF Venue
    <2>2. Kind(Books)'
      BY <1>0, <1>4, <2>1, PartsType DEF Deliver
    <2> QED BY <1>4, <2>2 DEF Deliver, TypeInv
  <1>5. CASE Phantom
    <2>1. venue' \in Venue
      BY <1>0, <1>5 DEF Phantom, Venue
    <2>2. Kind(Books)'
      BY <1>0, <1>5, <2>1, PartsType DEF Phantom
    <2>3. mishaps' \in 0 .. MaxMishaps
      BY <1>5, PayType DEF Phantom, TypeInv
    <2> QED BY <1>5, <2>2, <2>3 DEF Phantom, TypeInv
  <1> QED BY <1>1, <1>2, <1>3, <1>4, <1>5

\* d is c after a crash: the order and the pending pairs are forgotten.
Forgets(c, d) ==
    /\ d.lo = NoOrder(c.lo.order) /\ d.pending = NoPairs
    /\ d.reg.expected = c.reg.expected
    /\ d.venue.held = c.venue.held /\ d.venue.due = c.venue.due
    /\ d.venue.matched = c.venue.matched
    /\ d.venue.resting = c.venue.resting

Restarted(c) ==
    [c EXCEPT !.lo = NoOrder(c.lo.order), !.pending = NoPairs,
              !.venue.row = FALSE, !.reg.alerted = {}]

LEMMA RestartedKind ==
    ASSUME NEW c, Kind(c)
    PROVE  Kind(Restarted(c)) /\ Forgets(c, Restarted(c))
  <1> DEFINE a == [c EXCEPT !.lo = NoOrder(c.lo.order)]
             b == [a EXCEPT !.pending = NoPairs]
             d == [b EXCEPT !.venue.row = FALSE]
             e == [d EXCEPT !.reg.alerted = {}]
  <1>1. NoOrder(c.lo.order) \in Order
    BY HedgeAssumption DEF Kind, Book, Order, NoOrder
  <1>2. NoPairs \in Pairs /\ DOMAIN NoPairs = {}
    <2>1. NoPairs \in [{} -> Pair] /\ DOMAIN NoPairs = {}
      BY DEF NoPairs
    <2> QED BY <2>1 DEF Pairs
  <1>3. /\ a \in Book /\ a.lo = NoOrder(c.lo.order) /\ a.seq = c.seq
        /\ a.venue = c.venue /\ a.reg = c.reg
    BY <1>1 DEF Kind, Book
  <1>4. e = Restarted(c)
    BY DEF Restarted
  <1> HIDE DEF a
  <1>5. /\ b \in Book /\ b.lo = NoOrder(c.lo.order) /\ b.seq = c.seq
        /\ b.venue = c.venue /\ b.reg = c.reg /\ b.pending = NoPairs
    BY <1>2, <1>3 DEF Book
  <1> HIDE DEF b
  <1>6. /\ d \in Book /\ d.lo = NoOrder(c.lo.order) /\ d.seq = c.seq
        /\ d.reg = c.reg /\ d.pending = NoPairs
        /\ d.venue.held = c.venue.held /\ d.venue.due = c.venue.due
        /\ d.venue.matched = c.venue.matched
        /\ d.venue.resting = c.venue.resting
    BY <1>5 DEF Book, Venue
  <1> HIDE DEF d
  <1>7. /\ e \in Book /\ e.lo = NoOrder(c.lo.order) /\ e.seq = c.seq
        /\ e.reg.expected = c.reg.expected /\ e.pending = NoPairs /\ e.venue = d.venue
    BY <1>6 DEF Book, Registry
  <1> HIDE DEF e
  <1>8. DOMAIN e.pending \in SUBSET (1 .. e.seq)
    BY <1>2, <1>7
  <1>9. Kind(e) /\ Forgets(c, e)
    BY <1>6, <1>7, <1>8 DEF Kind, Forgets
  <1> QED BY <1>4, <1>9

\* What a crash, with got shares just bought, makes of the book.
LEMMA CrashBecomes ==
    ASSUME TypeInv, Crash
    PROVE  \E bad \in Suffered({"crash"}), got \in {0} \cup (IF Detected THEN {Delta} ELSE {}) :
              /\ got \in Nat /\ Pay(bad)
              /\ Kind(Bought(Books, got)) /\ Buys(Books, Bought(Books, got), got)
              /\ Kind(Restarted(Bought(Books, got)))
              /\ Forgets(Bought(Books, got), Restarted(Bought(Books, got)))
              /\ Become(Restarted(Bought(Books, got)))
  <1>1. PICK bad \in Suffered({"crash"}), got \in {0} \cup (IF Detected THEN {Delta} ELSE {}) :
            /\ Pay(bad)
            /\ Become([Bought(Books, got) EXCEPT !.lo = NoOrder(lo.order),
                          !.pending = NoPairs, !.venue.row = FALSE, !.reg.alerted = {}])
    BY DEF Crash
  <1>2. got \in Nat
    BY BooksParts DEF TypeInv, Detected, Delta, Venue, Order
  <1>3. /\ Kind(Bought(Books, got)) /\ Buys(Books, Bought(Books, got), got)
        /\ Bought(Books, got).lo = Books.lo
    BY <1>2, BoughtKind DEF TypeInv
  <1>4. Become(Restarted(Bought(Books, got)))
    BY <1>1, <1>3, BooksParts DEF Restarted, TypeInv
  <1>5. Kind(Restarted(Bought(Books, got)))
        /\ Forgets(Bought(Books, got), Restarted(Bought(Books, got)))
    BY <1>3, RestartedKind
  <1> QED BY <1>1, <1>2, <1>3, <1>4, <1>5

LEMMA CrashType == TypeInv /\ Crash => TypeInv'
  <1> SUFFICES ASSUME TypeInv, Crash PROVE TypeInv'
    OBVIOUS
  <1>1. PICK bad \in Suffered({"crash"}), got \in {0} \cup (IF Detected THEN {Delta} ELSE {}) :
            /\ Pay(bad) /\ Kind(Restarted(Bought(Books, got)))
            /\ Become(Restarted(Bought(Books, got)))
    BY CrashBecomes
  <1>2. batch' \in [Legs -> Reading]
    BY DEF Crash, Reading
  <1> QED BY <1>1, <1>2, BecomeType

LEMMA TypeInit == Init => TypeInv
  <1> SUFFICES ASSUME Init PROVE TypeInv
    OBVIOUS
  <1>1. venue \in Venue /\ lo \in Order /\ reg \in Registry /\ latch \in Latch /\ seq \in Nat
    BY HedgeAssumption DEF Init, Venue, Order, Registry, Latch, NoOrder, Legs
  <1>2. pending \in Pairs /\ DOMAIN pending \in SUBSET (1 .. seq)
    <2>1. pending \in [{} -> Pair] /\ DOMAIN pending = {}
      BY DEF Init, NoPairs
    <2> QED BY <2>1 DEF Pairs
  <1>3. Kind(Books)
    BY <1>1, <1>2 DEF Kind, Books, Book
  <1> QED BY <1>3, HedgeAssumption DEF TypeInv, Init, Reading

LEMMA TypeStep == TypeInv /\ [Next]_vars => TypeInv'
  <1> SUFFICES ASSUME TypeInv, [Next]_vars PROVE TypeInv'
    OBVIOUS
  <1>1. CASE Decline \/ HedgeFill \/ HedgeRaised \/ Crash
    BY <1>1, DeclineType, FillType, RaisedType, CrashType
  <1>2. CASE \E p : ConfirmRead(p) \/ ApplyConfirm(p) \/ Backstop(p) \/ Deadline(p)
    BY <1>2, ReadType, DecidedType
  <1>3. CASE SweepRow \/ ReconcileRead \/ ApplyReconcile
    BY <1>3, NetsType
  <1>4. CASE Place \/ Release \/ Match \/ Deliver \/ Phantom
    BY <1>4, VenueType
  <1>5. CASE UNCHANGED vars
    <2>1. Books' = Books
      BY <1>5 DEF vars, Books
    <2> QED BY <1>5, <2>1 DEF TypeInv, vars
  <1> QED BY <1>1, <1>2, <1>3, <1>4, <1>5 DEF Next, Chain, Confirm, Decided

LEMMA TypeInvariant == Spec => []TypeInv
  BY TypeInit, TypeStep, PTL DEF Spec

\* Whatever goes wrong, and however often, every count stays a number of shares
\* and every provisional pair has a number that was given out.
THEOREM HedgeTyped == Spec => []TypeOK
  <1>1. TypeInv => TypeOK
    <2> SUFFICES ASSUME TypeInv PROVE TypeOK
      OBVIOUS
    <2>1. /\ venue \in Venue /\ lo \in Order /\ reg \in Registry /\ latch \in Latch
          /\ seq \in Nat /\ DOMAIN pending \in SUBSET (1 .. seq)
      BY BooksParts DEF TypeInv
    <2> QED BY <2>1 DEF TypeOK, TypeInv, Venue, Order, Registry, Latch, Reading
  <1> QED BY <1>1, TypeInvariant, PTL

-----------------------------------------------------------------------------
(* Sums over provisional pairs that come and go.                           *)

\* A sum is a number, it splits, and a part of it is no more than all of it.
LEMMA OwedParts ==
    ASSUME NEW c, Kind(c), NEW i \in Legs, NEW Q \in SUBSET DOMAIN c.pending
    PROVE  /\ IsFiniteSet(Q) /\ Owed(c.pending, i, Q) \in Nat
           /\ \A p \in Q : /\ Owed(c.pending, i, Q \ {p}) \in Nat
                           /\ Owed(c.pending, i, Q) =
                                c.pending[p][i] + Owed(c.pending, i, Q \ {p})
           /\ \A R \in SUBSET Q : Owed(c.pending, i, R) <= Owed(c.pending, i, Q)
  <1> DEFINE g == Sides(c.pending, i)
  <1>1. IsFiniteSet(Q) /\ \A p \in Q : g[p] \in Nat /\ g[p] = c.pending[p][i]
    BY PairsFinite, FS_Subset
  <1> HIDE DEF g
  <1>2. Nat \in {Nat, Int} /\ \A p \in Q : g[p] \in Int
    BY <1>1
  <1>3. Total(g, Q) \in Nat
    BY <1>1, <1>2, TotalType
  <1>4. ASSUME NEW p \in Q
        PROVE  Total(g, Q \ {p}) \in Nat /\ Total(g, Q) = g[p] + Total(g, Q \ {p})
    <2>1. IsFiniteSet(Q \ {p})
      BY <1>1, FS_Subset
    <2> QED BY <1>1, <1>2, <2>1, TotalType, TotalWithout
  <1>5. \A R \in SUBSET Q : Total(g, R) <= Total(g, Q)
    BY <1>1, TotalWithin
  <1> QED BY <1>1, <1>3, <1>4, <1>5 DEF Owed, g

LEMMA OwedWithout ==
    ASSUME NEW c, Kind(c), NEW i \in Legs, NEW Q \in SUBSET DOMAIN c.pending, NEW p \in Q
    PROVE  /\ Owed(c.pending, i, Q) \in Nat /\ Owed(c.pending, i, Q \ {p}) \in Nat
           /\ Owed(c.pending, i, Q) = c.pending[p][i] + Owed(c.pending, i, Q \ {p})
  <1>1. Owed(c.pending, i, Q) \in Nat
    BY OwedParts
  <1>2. Owed(c.pending, i, Q \ {p}) \in Nat
    BY OwedParts
  <1>3. Owed(c.pending, i, Q) = c.pending[p][i] + Owed(c.pending, i, Q \ {p})
    BY OwedParts
  <1> QED BY <1>1, <1>2, <1>3

\* What is owed to pairs that are in both books is the same.
LEMMA OwedSame ==
    ASSUME NEW c, Kind(c), NEW d, NEW i \in Legs, NEW Q \in SUBSET DOMAIN c.pending,
           Q \subseteq DOMAIN d.pending, \A q \in Q : d.pending[q][i] = c.pending[q][i]
    PROVE  Owed(d.pending, i, Q) = Owed(c.pending, i, Q)
  <1>1. IsFiniteSet(Q) /\ \A q \in Q : Sides(d.pending, i)[q] = Sides(c.pending, i)[q]
    BY OwedParts DEF Sides
  <1> QED BY <1>1, TotalSame DEF Owed

\* Nothing is owed to no pair.
LEMMA OwedNone ==
    ASSUME NEW f, NEW i
    PROVE  Owed(f, i, {}) = 0
  BY FS_EmptySet, TotalGives DEF Owed

\* The pairs of f that were made before p, and those of the order n.
Before(f, p) == {q \in DOMAIN f : q < p}
Own(f, n) == {q \in DOMAIN f : f[q].order = n}

\* What f has on leg i, on the rest leg ahead of p, and for the order n.
AllOwed(f, i) == Owed(f, i, DOMAIN f)
Ahead(f, p) == Owed(f, "rest", Before(f, p))
OwnHedges(f, n) == Owed(f, "hedge", Own(f, n))

\* A pair with p after it counts in what is ahead of p.
LEMMA AheadOrder ==
    ASSUME NEW c, Kind(c), NEW p \in DOMAIN c.pending
    PROVE  /\ Ahead(c.pending, p) \in Nat /\ AllOwed(c.pending, "rest") \in Nat
           /\ Ahead(c.pending, p) + c.pending[p].rest <= AllOwed(c.pending, "rest")
           /\ \A q \in DOMAIN c.pending : q > p =>
                Ahead(c.pending, p) + c.pending[p].rest <= Ahead(c.pending, q)
  <1> DEFINE f == c.pending
             U == Before(f, p) \cup {p}
  <1>1. DOMAIN f \subseteq Nat
    BY DEF Kind, Book
  <1>2. U \in SUBSET DOMAIN f /\ Before(f, p) = U \ {p} /\ p \in U /\ "rest" \in Legs
    BY <1>1 DEF Before, Legs
  <1>3. Owed(f, "rest", U) = f[p]["rest"] + Owed(f, "rest", U \ {p})
        /\ Owed(f, "rest", U \ {p}) \in Nat /\ Owed(f, "rest", U) \in Nat
    <2> HIDE DEF U
    <2>1. ASSUME NEW i \in Legs, NEW x \in U
          PROVE  /\ Owed(f, i, U) \in Nat /\ Owed(f, i, U \ {x}) \in Nat
                 /\ Owed(f, i, U) = f[x][i] + Owed(f, i, U \ {x})
      <3>1. Owed(f, i, U) \in Nat
        BY <1>2, OwedParts
      <3>2. Owed(f, i, U \ {x}) \in Nat
        BY <1>2, OwedParts
      <3>3. Owed(f, i, U) = f[x][i] + Owed(f, i, U \ {x})
        BY <1>2, OwedParts
      <3> QED BY <3>1, <3>2, <3>3
    <2> QED BY <1>2, <2>1
  <1>4. \A T \in SUBSET DOMAIN f : U \subseteq T =>
            Owed(f, "rest", U) <= Owed(f, "rest", T) /\ Owed(f, "rest", T) \in Nat
    <2> HIDE DEF U
    <2> QED BY <1>2, OwedParts
  <1>5. Ahead(f, p) + f[p].rest = Owed(f, "rest", U) /\ f[p].rest \in Nat
    <2>1. f[p]["rest"] = f[p].rest /\ f[p]["rest"] \in Nat
      BY PairsFinite DEF Legs
    <2> HIDE DEF U
    <2> QED BY <1>2, <1>3, <2>1 DEF Ahead
  <1>6. ASSUME NEW q \in DOMAIN f, q > p PROVE U \subseteq Before(f, q)
    BY <1>1, <1>6 DEF Before
  <1>7. Before(f, p) \in SUBSET DOMAIN f /\ \A q : Before(f, q) \in SUBSET DOMAIN f
    BY DEF Before
  <1> HIDE DEF U
  <1>8. Ahead(f, p) \in Nat
    BY <1>2, <1>3 DEF Ahead
  <1> QED BY <1>2, <1>4, <1>5, <1>6, <1>7, <1>8 DEF AllOwed, Ahead

-----------------------------------------------------------------------------
(* When every hedge is bought in full.                                     *)

\* No hedge is declined, missed or unheard of, and no sale is blind.
Full(S) == S \cap {"decline", "miss", "ack", "blind"} = {}

\* Whatever was read of the pair p is still there, and what it says is above
\* the booked pairs and all that came before p; or that is there as well.
FullPair(c, p) ==
    LET r == c.pending[p]
        booked == c.reg.expected["rest"] + Ahead(c.pending, p)
        held == c.venue.held["rest"]
    IN  /\ r.rest <= r.hedge
        /\ r.read <= Above(held, r.base) /\ r.value <= Above(held, r.base)
        /\ r.base >= booked \/ held >= booked + r.rest

\* What stays true of a book when hedges are bought in full.
FullInv(c) ==
    /\ c.reg.expected["rest"] <= c.venue.held["rest"]
    /\ c.reg.expected["rest"] <= c.reg.expected["hedge"]
    /\ c.reg.expected["hedge"] + AllOwed(c.pending, "hedge") <= c.venue.held["hedge"]
    /\ c.lo.open => c.lo.hedged <=
           c.reg.expected["hedge"] + OwnHedges(c.pending, c.lo.order)
    /\ \A p \in DOMAIN c.pending : FullPair(c, p)

\* The numbers of a well-formed book.
LEMMA Numbers ==
    ASSUME NEW c, Kind(c)
    PROVE  /\ c.reg.expected["rest"] \in Nat /\ c.reg.expected["hedge"] \in Nat
           /\ c.venue.held["rest"] \in Nat /\ c.venue.held["hedge"] \in Nat
           /\ c.venue.due \in Nat /\ c.venue.matched \in 0 .. Size
           /\ c.lo.hedged \in Nat /\ c.lo.seen \in 0 .. Size /\ c.lo.open \in BOOLEAN
           /\ c.lo.order \in 0 .. MaxOrders /\ c.seq \in Nat
           /\ AllOwed(c.pending, "rest") \in Nat /\ AllOwed(c.pending, "hedge") \in Nat
           /\ \A n : OwnHedges(c.pending, n) \in Nat
                     /\ OwnHedges(c.pending, n) <= AllOwed(c.pending, "hedge")
           /\ \A p \in DOMAIN c.pending :
                /\ Ahead(c.pending, p) \in Nat /\ c.pending[p].rest \in Nat
                /\ c.pending[p].hedge \in Nat /\ c.pending[p].base \in Nat
                /\ c.pending[p].read \in Nat \cup {-1} /\ c.pending[p].value \in Nat \cup {-1}
                /\ c.pending[p].order \in 0 .. MaxOrders
  <1>1. "rest" \in Legs /\ "hedge" \in Legs
    BY DEF Legs
  <1>2. \A i \in Legs : AllOwed(c.pending, i) \in Nat
    BY OwedParts DEF AllOwed
  <1>3. ASSUME NEW n
        PROVE  OwnHedges(c.pending, n) \in Nat
               /\ OwnHedges(c.pending, n) <= AllOwed(c.pending, "hedge")
    <2>1. Own(c.pending, n) \in SUBSET DOMAIN c.pending
      BY DEF Own
    <2>2. OwnHedges(c.pending, n) \in Nat
      BY <1>1, <2>1, OwedParts DEF OwnHedges
    <2>3. OwnHedges(c.pending, n) <= AllOwed(c.pending, "hedge")
      BY <1>1, <2>1, OwedParts DEF OwnHedges, AllOwed
    <2> QED BY <2>2, <2>3
  <1>4. ASSUME NEW p \in DOMAIN c.pending
        PROVE  /\ Ahead(c.pending, p) \in Nat /\ c.pending[p].rest \in Nat
               /\ c.pending[p].hedge \in Nat /\ c.pending[p].base \in Nat
               /\ c.pending[p].read \in Nat \cup {-1} /\ c.pending[p].value \in Nat \cup {-1}
               /\ c.pending[p].order \in 0 .. MaxOrders
    <2>1. c.pending[p] \in Pair
      BY PairsFinite
    <2>2. Ahead(c.pending, p) \in Nat
      BY AheadOrder
    <2> QED BY <2>1, <2>2 DEF Pair, Reading, Unread
  <1>5. /\ c.reg.expected["rest"] \in Nat /\ c.reg.expected["hedge"] \in Nat
        /\ c.venue.held["rest"] \in Nat /\ c.venue.held["hedge"] \in Nat
        /\ c.venue.due \in Nat /\ c.venue.matched \in 0 .. Size
        /\ c.lo.hedged \in Nat /\ c.lo.seen \in 0 .. Size /\ c.lo.open \in BOOLEAN
        /\ c.lo.order \in 0 .. MaxOrders /\ c.seq \in Nat
    BY <1>1 DEF Kind, Book, Registry, Venue, Order
  <1> QED BY <1>1, <1>2, <1>3, <1>4, <1>5

\* Where pairs and bookings stay, more shares and less counted do no harm.
LEMMA FullKept ==
    ASSUME NEW c, Kind(c), FullInv(c), NEW d, Kind(d), d.pending = c.pending,
           d.reg.expected["rest"] = c.reg.expected["rest"],
           d.reg.expected["hedge"] = c.reg.expected["hedge"],
           d.venue.held["rest"] >= c.venue.held["rest"],
           d.venue.held["hedge"] >= c.venue.held["hedge"],
           d.lo.open => /\ c.lo.open /\ d.lo.order = c.lo.order
                        /\ d.lo.hedged <= c.lo.hedged
    PROVE  FullInv(d)
  <1>1. \A p \in DOMAIN c.pending : FullPair(d, p)
    BY Numbers DEF FullInv, FullPair, Above, Most
  <1>2. ASSUME d.lo.open
        PROVE  d.lo.hedged <= d.reg.expected["hedge"] + OwnHedges(d.pending, d.lo.order)
    <2>1. c.lo.hedged <= c.reg.expected["hedge"] + OwnHedges(c.pending, c.lo.order)
          /\ d.lo.hedged <= c.lo.hedged /\ d.lo.order = c.lo.order
      BY <1>2 DEF FullInv
    <2>2. OwnHedges(d.pending, d.lo.order) = OwnHedges(c.pending, c.lo.order)
      BY <2>1
    <2>3. /\ OwnHedges(c.pending, c.lo.order) \in Nat /\ c.reg.expected["hedge"] \in Nat
          /\ c.lo.hedged \in Nat /\ d.lo.hedged \in Nat
      BY Numbers
    <2> QED BY <2>1, <2>2, <2>3
  <1>3. /\ d.reg.expected["rest"] <= d.venue.held["rest"]
        /\ d.reg.expected["rest"] <= d.reg.expected["hedge"]
        /\ d.reg.expected["hedge"] + AllOwed(d.pending, "hedge") <= d.venue.held["hedge"]
    BY Numbers DEF FullInv
  <1> QED BY <1>1, <1>2, <1>3 DEF FullInv

\* A pair that is delivered is booked at once.
LEMMA FullBooked ==
    ASSUME NEW c, Kind(c), FullInv(c), NEW d, Kind(d), NEW n \in Nat, n > 0,
           Booked(c, d, n, n),
           c.reg.expected["hedge"] + AllOwed(c.pending, "hedge") + n <= c.venue.held["hedge"],
           c.venue.held["rest"] >= c.reg.expected["rest"] + AllOwed(c.pending, "rest") + n,
           d.lo.hedged <= c.lo.hedged + n
    PROVE  FullInv(d)
  <1>1. ASSUME NEW p \in DOMAIN c.pending PROVE FullPair(d, p)
    <2>1. Ahead(c.pending, p) + c.pending[p].rest <= AllOwed(c.pending, "rest")
      BY AheadOrder
    <2>2. FullPair(c, p)
      BY DEF FullInv
    <2> QED BY <2>1, <2>2, Numbers DEF FullPair, Booked
  <1>2. d.pending = c.pending
    BY DEF Booked
  <1>3. ASSUME d.lo.open
        PROVE  d.lo.hedged <= d.reg.expected["hedge"] + OwnHedges(d.pending, d.lo.order)
    <2>1. c.lo.hedged <= c.reg.expected["hedge"] + OwnHedges(c.pending, c.lo.order)
      BY <1>3 DEF FullInv, Booked
    <2>2. /\ d.reg.expected["hedge"] = c.reg.expected["hedge"] + n
          /\ OwnHedges(d.pending, d.lo.order) = OwnHedges(c.pending, c.lo.order)
      BY <1>2 DEF Booked
    <2>3. /\ c.lo.hedged \in Nat /\ d.lo.hedged \in Nat /\ c.reg.expected["hedge"] \in Nat
          /\ OwnHedges(c.pending, c.lo.order) \in Nat
      BY Numbers
    <2> QED BY <2>1, <2>2, <2>3
  <1>4. /\ d.reg.expected["rest"] <= d.venue.held["rest"]
        /\ d.reg.expected["rest"] <= d.reg.expected["hedge"]
        /\ d.reg.expected["hedge"] + AllOwed(d.pending, "hedge") <= d.venue.held["hedge"]
    BY <1>2, Numbers DEF FullInv, Booked
  <1> QED BY <1>1, <1>2, <1>3, <1>4 DEF FullInv

\* What is owed once a pair is kept as provisional.
LEMMA DeferredOwes ==
    ASSUME NEW c, Kind(c), NEW d, Kind(d), NEW n \in Nat, NEW h \in Nat, Deferred(c, d, n, h)
    PROVE  /\ AllOwed(d.pending, "hedge") = AllOwed(c.pending, "hedge") + h
           /\ AllOwed(d.pending, "rest") = AllOwed(c.pending, "rest") + n
           /\ OwnHedges(d.pending, c.lo.order) = OwnHedges(c.pending, c.lo.order) + h
           /\ \A q \in DOMAIN c.pending : Ahead(d.pending, q) = Ahead(c.pending, q)
           /\ Ahead(d.pending, c.seq + 1) = AllOwed(c.pending, "rest")
  <1> DEFINE p == c.seq + 1
             D == DOMAIN c.pending
             f == c.pending
             g == d.pending
  <1>1. /\ DOMAIN g = D \cup {p} /\ p \notin D /\ \A q \in D : g[q] = f[q]
        /\ g[p].rest = n /\ g[p].hedge = h /\ g[p].order = c.lo.order
        /\ D \in SUBSET (1 .. c.seq) /\ c.seq \in Nat
    BY DEF Deferred, Kind, Book
  <1>2. ASSUME NEW i \in Legs, NEW Q \in SUBSET D
        PROVE  Owed(g, i, Q) = Owed(f, i, Q)
    BY <1>1, OwedSame
  <1>3. ASSUME NEW i \in Legs, NEW Q \in SUBSET D
        PROVE  Owed(g, i, Q \cup {p}) = Owed(f, i, Q) + g[p][i]
    <2> DEFINE U == Q \cup {p}
    <2>1. U \in SUBSET DOMAIN g /\ p \in U /\ U \ {p} = Q
      BY <1>1
    <2> HIDE DEF U, p
    <2>2. Owed(g, i, U) = g[p][i] + Owed(g, i, U \ {p})
      BY <2>1, OwedParts
    <2>3. g[p][i] \in Nat /\ Owed(f, i, Q) \in Nat
      <3>1. g[p][i] \in Nat
        BY <1>1, PairsFinite
      <3>2. Owed(f, i, Q) \in Nat
        BY OwedParts
      <3> QED BY <3>1, <3>2
    <2> QED BY <1>2, <2>1, <2>2, <2>3 DEF U
  <1>4. "rest" \in Legs /\ "hedge" \in Legs
    BY DEF Legs
  <1>5. /\ Before(g, p) = D /\ \A q \in D : Before(g, q) = Before(f, q)
    BY <1>1 DEF Before
  <1>6. Own(g, c.lo.order) = Own(f, c.lo.order) \cup {p}
    BY <1>1 DEF Own
  <1>7. g[p]["rest"] = n /\ g[p]["hedge"] = h
    BY <1>1
  <1> HIDE DEF p
  <1>8. /\ AllOwed(g, "hedge") = AllOwed(f, "hedge") + h
        /\ AllOwed(g, "rest") = AllOwed(f, "rest") + n
    BY <1>1, <1>3, <1>4, <1>7 DEF AllOwed
  <1>9. OwnHedges(g, c.lo.order) = OwnHedges(f, c.lo.order) + h
    <2>1. Own(f, c.lo.order) \in SUBSET D
      BY DEF Own
    <2> QED BY <1>3, <1>4, <1>6, <1>7, <2>1 DEF OwnHedges
  <1>10. ASSUME NEW q \in D PROVE Ahead(g, q) = Ahead(f, q)
    <2>1. Before(f, q) \in SUBSET D
      BY DEF Before
    <2> QED BY <1>2, <1>4, <1>5, <2>1 DEF Ahead
  <1>11. Ahead(g, p) = AllOwed(f, "rest")
    BY <1>2, <1>4, <1>5 DEF Ahead, AllOwed
  <1> QED BY <1>8, <1>9, <1>10, <1>11 DEF p

\* One that is not is kept as provisional.
LEMMA FullDeferred ==
    ASSUME NEW c, Kind(c), FullInv(c), NEW d, Kind(d), NEW n \in Nat,
           Deferred(c, d, n, n),
           c.reg.expected["hedge"] + AllOwed(c.pending, "hedge") + n <= c.venue.held["hedge"]
    PROVE  FullInv(d)
  <1> DEFINE p == c.seq + 1
  <1>1. /\ AllOwed(d.pending, "hedge") = AllOwed(c.pending, "hedge") + n
        /\ AllOwed(d.pending, "rest") = AllOwed(c.pending, "rest") + n
        /\ OwnHedges(d.pending, c.lo.order) = OwnHedges(c.pending, c.lo.order) + n
        /\ \A q \in DOMAIN c.pending : Ahead(d.pending, q) = Ahead(c.pending, q)
        /\ Ahead(d.pending, p) = AllOwed(c.pending, "rest")
    BY DeferredOwes
  <1>2. /\ d.reg = c.reg /\ d.venue = c.venue /\ d.lo.open = c.lo.open
        /\ d.lo.order = c.lo.order /\ d.lo.hedged = c.lo.hedged + n
        /\ DOMAIN d.pending = DOMAIN c.pending \cup {p}
        /\ \A q \in DOMAIN c.pending : d.pending[q] = c.pending[q]
        /\ d.pending[p].rest = n /\ d.pending[p].hedge = n
        /\ d.pending[p].base = ExpectedShares(c, "rest")
        /\ d.pending[p].read <= Above(c.venue.held["rest"], ExpectedShares(c, "rest"))
        /\ d.pending[p].value = -1
    BY DEF Deferred, Unread
  <1> HIDE DEF p
  <1>3. ASSUME NEW q \in DOMAIN c.pending PROVE FullPair(d, q)
    BY <1>1, <1>2 DEF FullInv, FullPair
  <1>4. FullPair(d, p)
    <2>1. ExpectedShares(c, "rest") = c.reg.expected["rest"] + AllOwed(c.pending, "rest")
      BY ExpectedType DEF AllOwed, Legs
    <2> QED BY <1>1, <1>2, <2>1, Numbers DEF FullPair, Above, Most
  <1>5. \A q \in DOMAIN d.pending : FullPair(d, q)
    BY <1>2, <1>3, <1>4
  <1>6. ASSUME d.lo.open
        PROVE  d.lo.hedged <= d.reg.expected["hedge"] + OwnHedges(d.pending, d.lo.order)
    <2>1. c.lo.hedged <= c.reg.expected["hedge"] + OwnHedges(c.pending, c.lo.order)
      BY <1>2, <1>6 DEF FullInv
    <2>2. OwnHedges(d.pending, d.lo.order) = OwnHedges(c.pending, c.lo.order) + n
      BY <1>1, <1>2
    <2>3. /\ OwnHedges(c.pending, c.lo.order) \in Nat /\ c.reg.expected["hedge"] \in Nat
          /\ c.lo.hedged \in Nat
      BY Numbers
    <2> QED BY <1>2, <2>1, <2>2, <2>3
  <1>7. d.reg.expected["hedge"] + AllOwed(d.pending, "hedge") <= d.venue.held["hedge"]
    BY <1>1, <1>2, Numbers
  <1> QED BY <1>2, <1>5, <1>6, <1>7 DEF FullInv

\* The pair p of Q counts for what it owes; p gone from f, the order n keeps
\* the hedges of its other pairs.
Apart(f, i, Q, p) == Owed(f, i, Q) = f[p][i] + Owed(f, i, Q \ {p})
OwnLeft(f, g, p, n) ==
    OwnHedges(f, n) = OwnHedges(g, n) + IF f[p].order = n THEN f[p].hedge ELSE 0

LEMMA OwedOne ==
    ASSUME NEW c, Kind(c), NEW i \in Legs, NEW Q \in SUBSET DOMAIN c.pending, NEW p \in Q
    PROVE  Apart(c.pending, i, Q, p)
  BY OwedParts DEF Apart

\* What is owed once the pair p is decided.
LEMMA PoppedOwes ==
    ASSUME NEW c, Kind(c), NEW p \in DOMAIN c.pending, NEW z, Kind(z),
           DOMAIN z.pending = DOMAIN c.pending \ {p},
           \A q \in DOMAIN c.pending \ {p} : z.pending[q] = c.pending[q]
    PROVE  /\ AllOwed(c.pending, "hedge") = AllOwed(z.pending, "hedge") + c.pending[p].hedge
           /\ AllOwed(c.pending, "rest") = AllOwed(z.pending, "rest") + c.pending[p].rest
           /\ \A n : OwnLeft(c.pending, z.pending, p, n)
           /\ \A q \in DOMAIN z.pending : Ahead(c.pending, q) = Ahead(z.pending, q) +
                        IF p < q THEN c.pending[p].rest ELSE 0
  <1> DEFINE D == DOMAIN c.pending
             f == c.pending
             g == z.pending
  <1>1. D \subseteq Nat
    BY DEF Kind, Book
  <1>2. ASSUME NEW i \in Legs, NEW Q \in SUBSET (D \ {p})
        PROVE  Owed(g, i, Q) = Owed(f, i, Q) /\ Owed(f, i, Q) \in Nat
    <2>1. Q \in SUBSET DOMAIN f /\ Q \subseteq DOMAIN g
      OBVIOUS
    <2>2. Owed(f, i, Q) \in Nat
      BY <2>1, OwedParts
    <2>3. \A q \in Q : g[q][i] = f[q][i]
      OBVIOUS
    <2> QED BY <2>1, <2>2, <2>3, OwedSame
  <1>3. ASSUME NEW i \in Legs, NEW Q \in SUBSET D, p \in Q
        PROVE  Owed(f, i, Q) = Owed(g, i, Q \ {p}) + f[p][i]
    <2>0. Q \in SUBSET DOMAIN c.pending /\ p \in Q
      BY <1>3
    <2>1. Owed(f, i, Q) = f[p][i] + Owed(f, i, Q \ {p})
      <3>1. Apart(c.pending, i, Q, p)
        BY <2>0, OwedOne
      <3> QED BY <3>1 DEF Apart
    <2>2. f[p][i] \in Nat
      BY PairsFinite
    <2>3. Q \ {p} \in SUBSET (D \ {p})
      OBVIOUS
    <2>4. Owed(g, i, Q \ {p}) = Owed(f, i, Q \ {p}) /\ Owed(f, i, Q \ {p}) \in Nat
      BY <1>2, <2>3
    <2> QED BY <2>1, <2>2, <2>4
  <1>4. "rest" \in Legs /\ "hedge" \in Legs
    BY DEF Legs
  <1>5. f[p]["rest"] = f[p].rest /\ f[p]["hedge"] = f[p].hedge
    OBVIOUS
  <1>6. DOMAIN g = D \ {p} /\ DOMAIN f = D /\ p \in D
    OBVIOUS
  <1>7. /\ AllOwed(f, "hedge") = AllOwed(g, "hedge") + f[p].hedge
        /\ AllOwed(f, "rest") = AllOwed(g, "rest") + f[p].rest
    BY <1>3, <1>4, <1>5, <1>6 DEF AllOwed
  <1>8. ASSUME NEW n
        PROVE  OwnHedges(f, n) = OwnHedges(g, n) + IF f[p].order = n THEN f[p].hedge ELSE 0
    <2>1. Own(f, n) \in SUBSET D /\ Own(g, n) = Own(f, n) \ {p}
          /\ (p \in Own(f, n) <=> f[p].order = n)
      BY DEF Own
    <2>2. CASE f[p].order = n
      BY <1>3, <1>4, <1>5, <2>1, <2>2 DEF OwnHedges
    <2>3. CASE f[p].order # n
      <3>1. Own(f, n) \in SUBSET (D \ {p}) /\ Own(g, n) = Own(f, n)
        BY <2>1, <2>3
      <3>2. OwnHedges(g, n) = OwnHedges(f, n) /\ OwnHedges(f, n) \in Nat
        BY <1>2, <1>4, <3>1 DEF OwnHedges
      <3> QED BY <2>3, <3>2
    <2> QED BY <2>2, <2>3
  <1>9. ASSUME NEW q \in D \ {p}
        PROVE  Ahead(f, q) = Ahead(g, q) + IF p < q THEN f[p].rest ELSE 0
    <2>1. Before(f, q) \in SUBSET D /\ Before(g, q) = Before(f, q) \ {p}
          /\ (p \in Before(f, q) <=> p < q)
      BY DEF Before
    <2>2. CASE p < q
      BY <1>3, <1>4, <1>5, <2>1, <2>2 DEF Ahead
    <2>3. CASE ~(p < q)
      <3>1. Before(f, q) \in SUBSET (D \ {p}) /\ Before(g, q) = Before(f, q)
        BY <2>1, <2>3
      <3>2. Ahead(g, q) = Ahead(f, q) /\ Ahead(f, q) \in Nat
        BY <1>2, <1>4, <3>1 DEF Ahead
      <3> QED BY <2>3, <3>2
    <2> QED BY <2>2, <2>3
  <1> QED BY <1>7, <1>8, <1>9 DEF OwnLeft

\* A pair is decided: got of its shares are booked, got of which were read.
LEMMA FullDecided ==
    ASSUME NEW c, Kind(c), FullInv(c), NEW p \in DOMAIN c.pending, NEW z, Kind(z),
           DOMAIN z.pending = DOMAIN c.pending \ {p},
           \A q \in DOMAIN c.pending \ {p} : z.pending[q] = c.pending[q],
           z.venue.held["rest"] = c.venue.held["rest"],
           NEW got \in Nat, got <= c.pending[p].rest,
           got > 0 => got <= Above(c.venue.held["rest"], c.pending[p].base),
           z.reg.expected["rest"] = c.reg.expected["rest"] + got,
           z.reg.expected["hedge"] >= c.reg.expected["hedge"] + got,
           z.reg.expected["hedge"] + AllOwed(z.pending, "hedge") <= z.venue.held["hedge"],
           z.lo.open => z.lo.hedged <=
               z.reg.expected["hedge"] + OwnHedges(z.pending, z.lo.order)
    PROVE  FullInv(z)
  <1> DEFINE r == c.pending[p]
             held == c.venue.held["rest"]
             booked == c.reg.expected["rest"]
             ahead == Ahead(c.pending, p)
  <1>1. /\ r.rest \in Nat /\ r.base \in Nat /\ held \in Nat /\ booked \in Nat
        /\ ahead \in Nat
    BY Numbers
  <1>2. r.base >= booked + ahead \/ held >= booked + ahead + r.rest
    BY <1>1 DEF FullInv, FullPair
  <1>3. got > 0 => held >= r.base + got
    BY <1>1 DEF Above, Most
  <1> HIDE DEF r, held, booked, ahead
  <1>4. got > 0 => held >= booked + ahead + got
    <2>1. got <= r.rest
      BY DEF r
    <2> QED BY <1>1, <1>2, <1>3, <2>1
  <1>5. ASSUME NEW q \in DOMAIN z.pending PROVE FullPair(z, q)
    <2> DEFINE s == c.pending[q]
               front == Ahead(c.pending, q)
               left == Ahead(z.pending, q)
    <2>1. q \in DOMAIN c.pending \ {p} /\ z.pending[q] = s
      OBVIOUS
    <2>2. /\ s.rest \in Nat /\ s.base \in Nat /\ front \in Nat /\ left \in Nat
          /\ p \in Nat /\ q \in Nat
      BY <2>1, Numbers DEF Kind, Book
    <2>3. /\ s.rest <= s.hedge
          /\ s.read <= Above(held, s.base) /\ s.value <= Above(held, s.base)
          /\ s.base >= booked + front \/ held >= booked + front + s.rest
      BY <2>1 DEF FullInv, FullPair, held, booked
    <2>4. front = left + IF p < q THEN r.rest ELSE 0
      BY PoppedOwes DEF r
    <2>5. ~(p < q) => front + s.rest <= ahead
      BY <2>1, <2>2, AheadOrder DEF ahead
    <2> HIDE DEF s, front, left
    <2>6. s.base >= booked + got + left \/ held >= booked + got + left + s.rest
      <3>1. got <= r.rest
        BY DEF r
      <3>2. CASE p < q
        BY <1>1, <2>2, <2>3, <2>4, <3>1, <3>2
      <3>3. CASE ~(p < q) /\ got = 0
        BY <1>1, <2>2, <2>3, <2>4, <3>3
      <3>4. CASE ~(p < q) /\ got > 0
        BY <1>1, <1>4, <2>2, <2>4, <2>5, <3>4
      <3> QED BY <3>2, <3>3, <3>4
    <2> QED BY <2>1, <2>3, <2>6 DEF FullPair, s, left, held, booked
  <1>6. z.reg.expected["rest"] <= z.venue.held["rest"]
    <2>1. booked <= held
      BY DEF FullInv, booked, held
    <2>2. booked + got <= held
      BY <1>1, <1>4, <2>1
    <2> QED BY <2>2 DEF booked, held
  <1>7. z.reg.expected["rest"] <= z.reg.expected["hedge"]
    BY Numbers DEF FullInv
  <1> QED BY <1>5, <1>6, <1>7 DEF FullInv

\* A pair delivered in full is booked, with its whole hedge.
LEMMA FullRecord ==
    ASSUME NEW c, Kind(c), FullInv(c), NEW p \in DOMAIN c.pending, NEW b, Kind(b),
           Pops(c, b, p), NEW z, Kind(z),
           Booked(b, z, c.pending[p].rest, c.pending[p].hedge), z.lo.hedged = b.lo.hedged,
           c.pending[p].value >= c.pending[p].rest
    PROVE  FullInv(z)
  <1> DEFINE r == c.pending[p]
  <1>1. /\ DOMAIN z.pending = DOMAIN c.pending \ {p}
        /\ \A q \in DOMAIN c.pending \ {p} : z.pending[q] = c.pending[q]
        /\ z.venue.held = c.venue.held
        /\ z.reg.expected["rest"] = c.reg.expected["rest"] + r.rest
        /\ z.reg.expected["hedge"] = c.reg.expected["hedge"] + r.hedge
        /\ z.lo.hedged = c.lo.hedged /\ z.lo.order = c.lo.order /\ z.lo.open = c.lo.open
    BY DEF Pops, Booked
  <1>2. /\ AllOwed(c.pending, "hedge") = AllOwed(z.pending, "hedge") + r.hedge
        /\ \A n : OwnHedges(c.pending, n) = OwnHedges(z.pending, n) +
                     IF r.order = n THEN r.hedge ELSE 0
    <2>1. AllOwed(c.pending, "hedge") = AllOwed(z.pending, "hedge") + c.pending[p].hedge
      BY <1>1, PoppedOwes
    <2>2. \A n : OwnLeft(c.pending, z.pending, p, n)
      BY <1>1, PoppedOwes
    <2> QED BY <2>1, <2>2 DEF OwnLeft
  <1>3. /\ r.rest \in Nat /\ r.hedge \in Nat /\ r.value \in Nat \cup {-1}
        /\ c.reg.expected["hedge"] \in Nat /\ AllOwed(z.pending, "hedge") \in Nat
        /\ c.venue.held["hedge"] \in Nat /\ c.lo.hedged \in Nat
        /\ OwnHedges(z.pending, c.lo.order) \in Nat
    BY Numbers
  <1>4. r.rest <= r.hedge /\ r.value <= Above(c.venue.held["rest"], r.base)
        /\ c.reg.expected["hedge"] + AllOwed(c.pending, "hedge") <= c.venue.held["hedge"]
        /\ (c.lo.open => c.lo.hedged <=
                c.reg.expected["hedge"] + OwnHedges(c.pending, c.lo.order))
    BY DEF FullInv, FullPair
  <1>5. Above(c.venue.held["rest"], r.base) \in Nat
    BY Numbers DEF Above, Most
  <1>6. r.value >= r.rest
    OBVIOUS
  <1>7. z.venue.held["rest"] = c.venue.held["rest"]
        /\ z.venue.held["hedge"] = c.venue.held["hedge"]
    BY <1>1
  <1> HIDE DEF r
  <1>8. r.rest <= Above(c.venue.held["rest"], r.base)
    BY <1>3, <1>4, <1>5, <1>6
  <1>9. z.reg.expected["hedge"] + AllOwed(z.pending, "hedge") <= z.venue.held["hedge"]
    BY <1>1, <1>2, <1>3, <1>4, <1>7
  <1>10. ASSUME z.lo.open
         PROVE  z.lo.hedged <= z.reg.expected["hedge"] + OwnHedges(z.pending, z.lo.order)
    <2>1. c.lo.hedged <= c.reg.expected["hedge"] + OwnHedges(c.pending, c.lo.order)
      BY <1>1, <1>4, <1>10
    <2>2. OwnHedges(c.pending, c.lo.order) <= OwnHedges(z.pending, c.lo.order) + r.hedge
      BY <1>2, <1>3
    <2>3. OwnHedges(c.pending, c.lo.order) \in Nat
      BY Numbers
    <2> QED BY <1>1, <1>3, <2>1, <2>2, <2>3
  <1>11. z.reg.expected["hedge"] >= c.reg.expected["hedge"] + r.rest
    BY <1>1, <1>3, <1>4
  <1>12. r.rest <= r.rest
    BY <1>3
  <1> QED BY <1>1, <1>3, <1>7, <1>8, <1>9, <1>10, <1>11, <1>12, FullDecided DEF r

\* One decided short of that keeps what was delivered; the rest of its hedge
\* is sold, or kept on purpose when it is dust.
LEMMA FullResolved ==
    ASSUME NEW c, Kind(c), FullInv(c), NEW p \in DOMAIN c.pending, NEW bad, "blind" \notin bad,
           NEW b, Kind(b), Pops(c, b, p), NEW got \in Nat, got <= c.pending[p].rest,
           got > 0 => got <= Above(c.venue.held["rest"], c.pending[p].base)
    PROVE  FullInv(Resolved(b, c.pending[p], got, bad))
  <1> DEFINE r == c.pending[p]
             e == Above(r.hedge, got)
             z == Resolved(b, r, got, bad)
  <1>0. r \in Pair
    BY PairsFinite
  <1>1. PICK x, y :
            /\ Kind(x) /\ Booked(b, x, got, got) /\ x.lo.hedged = b.lo.hedged
            /\ Kind(y) /\ y.pending = x.pending /\ y.seq = x.seq
            /\ y.reg = x.reg /\ y.venue = x.venue
            /\ y.lo.open = x.lo.open /\ y.lo.order = x.lo.order
            /\ y.lo.seen = x.lo.seen
            /\ y.lo.hedged = IF r.order = b.lo.order THEN Above(x.lo.hedged, e)
                             ELSE x.lo.hedged
            /\ e \in Nat /\ Kind(z) /\ z = Unwound(y, "hedge", e, bad)
    <2> HIDE DEF r
    <2> QED BY <1>0, ResolvedKind
  <1> HIDE DEF z
  <1>2. Sells(y, z, "hedge", e, bad)
    BY <1>1, UnwoundKind DEF Legs
  <1>3. /\ DOMAIN z.pending = DOMAIN c.pending \ {p}
        /\ \A q \in DOMAIN c.pending \ {p} : z.pending[q] = c.pending[q]
        /\ z.venue.held["rest"] = c.venue.held["rest"]
        /\ z.reg.expected["rest"] = c.reg.expected["rest"] + got
        /\ y.venue.held["hedge"] = c.venue.held["hedge"]
        /\ y.reg.expected["hedge"] = c.reg.expected["hedge"] + got
        /\ y.pending = z.pending /\ z.lo = y.lo
        /\ z.lo.order = c.lo.order /\ z.lo.open = c.lo.open
        /\ y.lo.hedged = IF r.order = c.lo.order THEN Above(c.lo.hedged, e)
                         ELSE c.lo.hedged
    <2>1. y.pending = b.pending /\ y.venue = x.venue /\ x.venue.held = b.venue.held
      BY <1>1 DEF Booked
    <2>2. z.pending = y.pending /\ z.lo = y.lo
      BY <1>2 DEF Sells
    <2>3. /\ DOMAIN z.pending = DOMAIN c.pending \ {p}
          /\ \A q \in DOMAIN c.pending \ {p} : z.pending[q] = c.pending[q]
      BY <2>1, <2>2 DEF Pops
    <2>4. /\ y.venue.held["hedge"] = c.venue.held["hedge"]
          /\ y.venue.held["rest"] = c.venue.held["rest"]
      BY <2>1 DEF Pops
    <2>5. /\ y.reg.expected["rest"] = c.reg.expected["rest"] + got
          /\ y.reg.expected["hedge"] = c.reg.expected["hedge"] + got
      BY <1>1 DEF Pops, Booked
    <2>6. /\ z.venue.held["rest"] = y.venue.held["rest"]
          /\ z.reg.expected["rest"] = y.reg.expected["rest"]
      BY <1>2 DEF Sells, Legs
    <2>7. y.lo.order = c.lo.order /\ y.lo.open = c.lo.open
      BY <1>1 DEF Pops, Booked
    <2>8. y.lo.hedged = IF r.order = c.lo.order THEN Above(c.lo.hedged, e) ELSE c.lo.hedged
      BY <1>1 DEF Pops
    <2> HIDE DEF e
    <2> QED BY <2>2, <2>3, <2>4, <2>5, <2>6, <2>7, <2>8
  <1>4. /\ AllOwed(c.pending, "hedge") = AllOwed(z.pending, "hedge") + r.hedge
        /\ \A n : OwnHedges(c.pending, n) = OwnHedges(z.pending, n) +
                     IF r.order = n THEN r.hedge ELSE 0
    <2>0. Kind(z)
      BY <1>1
    <2>1. AllOwed(c.pending, "hedge") = AllOwed(z.pending, "hedge") + c.pending[p].hedge
      BY <2>0, <1>3, PoppedOwes
    <2>2. \A n : OwnLeft(c.pending, z.pending, p, n)
      BY <2>0, <1>3, PoppedOwes
    <2> QED BY <2>1, <2>2 DEF r, OwnLeft
  <1>5. /\ r.rest \in Nat /\ r.hedge \in Nat
        /\ c.reg.expected["hedge"] \in Nat /\ AllOwed(z.pending, "hedge") \in Nat
        /\ c.venue.held["hedge"] \in Nat /\ c.lo.hedged \in Nat
        /\ z.venue.held["hedge"] \in Nat
        /\ OwnHedges(z.pending, c.lo.order) \in Nat
    BY <1>1, Numbers
  <1>6. r.rest <= r.hedge
        /\ c.reg.expected["hedge"] + AllOwed(c.pending, "hedge") <= c.venue.held["hedge"]
        /\ (c.lo.open => c.lo.hedged <=
                c.reg.expected["hedge"] + OwnHedges(c.pending, c.lo.order))
    BY DEF FullInv, FullPair
  <1>7. got <= r.rest /\ (got > 0 => got <= Above(c.venue.held["rest"], r.base))
    OBVIOUS
  <1> HIDE DEF r
  <1>8. e \in Nat /\ e = r.hedge - got
    BY <1>5, <1>6, <1>7 DEF Above, Most
  <1> HIDE DEF e
  <1>9. /\ z.reg.expected["hedge"] = c.reg.expected["hedge"] + got +
                IF "dust" \in bad THEN e ELSE 0
        /\ z.reg.expected["hedge"] >= c.reg.expected["hedge"] + got
    BY <1>2, <1>3, <1>5, <1>8 DEF Sells
  <1>10. z.reg.expected["hedge"] + AllOwed(z.pending, "hedge") <= z.venue.held["hedge"]
    <2>1. CASE "dust" \in bad
      <3>1. z.venue.held["hedge"] = c.venue.held["hedge"]
        BY <1>2, <1>3, <2>1 DEF Sells
      <3> QED BY <1>4, <1>5, <1>6, <1>8, <1>9, <2>1, <3>1
    <2>2. CASE "dust" \notin bad
      <3>1. ExpectedShares(y, "hedge") = y.reg.expected["hedge"] + AllOwed(y.pending, "hedge")
        BY <1>1, ExpectedType DEF AllOwed, Legs
      <3>2. \/ z.venue.held["hedge"] >= c.venue.held["hedge"] - e
            \/ z.venue.held["hedge"] >= ExpectedShares(y, "hedge")
        BY <1>2, <1>3 DEF Sells
      <3>3. ExpectedShares(y, "hedge") = c.reg.expected["hedge"] + got
                                          + AllOwed(z.pending, "hedge")
        BY <1>3, <3>1
      <3> QED BY <1>4, <1>5, <1>6, <1>8, <1>9, <2>2, <3>2, <3>3
    <2> QED BY <2>1, <2>2
  <1>11. ASSUME z.lo.open
         PROVE  z.lo.hedged <= z.reg.expected["hedge"] + OwnHedges(z.pending, z.lo.order)
    <2>1. c.lo.hedged <= c.reg.expected["hedge"] + OwnHedges(c.pending, c.lo.order)
      BY <1>3, <1>6, <1>11
    <2>2. z.lo.hedged = IF r.order = c.lo.order THEN Above(c.lo.hedged, e) ELSE c.lo.hedged
      BY <1>3
    <2>3. OwnHedges(c.pending, c.lo.order) = OwnHedges(z.pending, c.lo.order) +
              IF r.order = c.lo.order THEN r.hedge ELSE 0
      BY <1>4
    <2>4. z.lo.order = c.lo.order /\ z.reg.expected["hedge"] \in Nat
      BY <1>1, <1>3, Numbers
    <2>5. CASE r.order = c.lo.order
      <3>1. z.lo.hedged = Above(c.lo.hedged, e)
        BY <2>2, <2>5
      <3>2. Above(c.lo.hedged, e) <= c.reg.expected["hedge"] + got
                                      + OwnHedges(z.pending, c.lo.order)
        BY <1>5, <1>7, <1>8, <2>1, <2>3, <2>5 DEF Above, Most
      <3>3. Above(c.lo.hedged, e) \in Nat
        BY <1>5, <1>8 DEF Above, Most
      <3> QED BY <1>5, <1>9, <2>4, <3>1, <3>2, <3>3
    <2>6. CASE r.order # c.lo.order
      BY <1>5, <1>9, <2>1, <2>2, <2>3, <2>4, <2>6
    <2> QED BY <2>5, <2>6
  <1>12. FullInv(z)
    BY <1>1, <1>3, <1>7, <1>9, <1>10, <1>11, FullDecided DEF r
  <1> QED BY <1>12 DEF z, r

\* A fill whose hedge is bought in full keeps FullInv.
LEMMA FullFill ==
    ASSUME NEW c, Kind(c), FullInv(c), c.lo.open, NEW n \in Nat, n > 0,
           NEW d, Kind(d), Buys(c, d, n), NEW bad
    PROVE  FullInv(Consumed(DeferPair(d, n, n, bad), bad))
  <1> DEFINE e == DeferPair(d, n, n, bad)
             z == Consumed(e, bad)
  <1>1. FullInv(d)
    BY FullKept, Numbers DEF Buys
  <1>2. d.reg.expected["hedge"] + AllOwed(d.pending, "hedge") + n <= d.venue.held["hedge"]
    BY Numbers DEF FullInv, Buys
  <1>3. Kind(e) /\ Paired(d, e, n, n, bad)
    BY DeferKind
  <1>4. ExpectedShares(d, "rest") = d.reg.expected["rest"] + AllOwed(d.pending, "rest")
    BY ExpectedType DEF AllOwed, Legs
  <1> HIDE DEF e
  <1>5. FullInv(e) /\ e.lo.open
    <2>1. CASE Deferred(d, e, n, n)
      <3>1. FullInv(e)
        BY <1>1, <1>2, <1>3, <2>1, FullDeferred
      <3> QED BY <2>1, <3>1 DEF Deferred, Buys
    <2>2. CASE ~Deferred(d, e, n, n)
      <3>1. /\ Booked(d, e, n, n)
            /\ e.lo.hedged = d.lo.hedged + IF "refuse" \in bad THEN 0 ELSE n
            /\ d.venue.held["rest"] >= ExpectedShares(d, "rest") + n
        BY <1>3, <2>2 DEF Paired
      <3>2. e.lo.hedged <= d.lo.hedged + n
        BY <3>1, Numbers
      <3>3. d.venue.held["rest"] >= d.reg.expected["rest"] + AllOwed(d.pending, "rest") + n
        BY <1>4, <3>1
      <3>4. FullInv(e)
        BY <1>1, <1>2, <1>3, <3>1, <3>2, <3>3, FullBooked
      <3> QED BY <3>1, <3>4 DEF Booked, Buys
    <2> QED BY <2>1, <2>2
  <1>6. Kind(z) /\ Seen(e, z)
    BY <1>3, ConsumedKind
  <1> HIDE DEF z
  <1>7. FullInv(z)
    <2>1. /\ z.pending = e.pending /\ z.reg = e.reg /\ z.venue.held = e.venue.held
          /\ z.lo.order = e.lo.order /\ z.lo.hedged = e.lo.hedged
      BY <1>6 DEF Seen
    <2>2. /\ z.venue.held["rest"] >= e.venue.held["rest"]
          /\ z.venue.held["hedge"] >= e.venue.held["hedge"] /\ z.lo.hedged <= e.lo.hedged
      BY <1>3, <1>6, <2>1, Numbers
    <2> QED BY <1>3, <1>5, <1>6, <2>1, <2>2, FullKept
  <1> QED BY <1>7 DEF z, e

\* A scene of the first kind only brings mishaps of the first kind.
LEMMA FullScene ==
    ASSUME Full(scene), NEW K, NEW bad, bad \subseteq scene \cap K
    PROVE  "decline" \notin bad /\ "miss" \notin bad /\ "ack" \notin bad /\ "blind" \notin bad
  BY DEF Full

\* The hedge is bought whole and said so: it is a pair.
LEMMA FullChain ==
    ASSUME TypeInv, Full(scene), FullInv(Books), Decline \/ HedgeFill
    PROVE  FullInv(Books)'
  <1>1. CASE Decline
    <2>1. PICK bad \in Suffered(UnwindKinds \cup {"decline"}) : "decline" \in bad /\ Pay(bad)
      BY <1>1 DEF Decline
    <2>2. bad \subseteq scene \cap (UnwindKinds \cup {"decline"})
      BY <2>1, PayType DEF TypeInv
    <2> QED BY <2>1, <2>2, FullScene
  <1>2. CASE HedgeFill
    <2>1. PICK bad \in Suffered(UnwindKinds \cup {"miss", "ack", "complement",
                                                  "delivery", "refuse"}),
               got \in 0 .. Delta :
              /\ got < Delta <=> "miss" \in bad
              /\ Pay(bad)
              /\ Become(Consumed(HedgeOutcome(Bought(Books, got), Delta,
                                     IF "ack" \in bad THEN 0 ELSE got, bad), bad))
      BY <1>2 DEF HedgeFill
    <2>2. "miss" \notin bad /\ "ack" \notin bad
      <3>1. bad \subseteq scene \cap (UnwindKinds \cup {"miss", "ack", "complement",
                                                  "delivery", "refuse"})
        BY <2>1, PayType DEF TypeInv
      <3> QED BY <3>1, FullScene
    <2>3. Delta \in Int /\ Delta > 0 /\ Books.lo.open /\ Books.lo = lo
      BY <1>2, BooksParts DEF TypeInv, HedgeFill, Detected, Delta, Venue, Order
    <2>4. got = Delta /\ Delta \in Nat
      BY <2>1, <2>2, <2>3
    <2> DEFINE n == Delta
               d == Bought(Books, n)
               z == Consumed(DeferPair(d, n, n, bad), bad)
    <2>5. Become(z)
      BY <2>1, <2>2, <2>4 DEF HedgeOutcome
    <2>6. n \in Nat /\ n > 0
      BY <2>3, <2>4
    <2> HIDE DEF n
    <2>7. Kind(Books) /\ Kind(d) /\ Buys(Books, d, n)
      BY <2>6, BoughtKind DEF TypeInv
    <2> HIDE DEF d
    <2>8. Kind(DeferPair(d, n, n, bad))
      BY <2>6, <2>7, DeferKind
    <2>9. Kind(z)
      BY <2>8, ConsumedKind
    <2>10. FullInv(z)
      BY <2>3, <2>6, <2>7, FullFill
    <2> HIDE DEF z
    <2>11. Books' = z
      BY <2>5, <2>9, BecomeIs
    <2> QED BY <2>10, <2>11
  <1> QED BY <1>1, <1>2

\* What only alerts, marks or latches keeps FullInv.
LEMMA FullSame ==
    ASSUME NEW c, Kind(c), FullInv(c), NEW d, Kind(d), Same(c, d)
    PROVE  FullInv(d)
  <1>1. /\ d.pending = c.pending
        /\ d.reg.expected["rest"] = c.reg.expected["rest"]
        /\ d.reg.expected["hedge"] = c.reg.expected["hedge"]
        /\ d.venue.held["rest"] = c.venue.held["rest"]
        /\ d.venue.held["hedge"] = c.venue.held["hedge"] /\ d.lo = c.lo
    BY DEF Same
  <1>2. /\ d.venue.held["rest"] >= c.venue.held["rest"]
        /\ d.venue.held["hedge"] >= c.venue.held["hedge"] /\ d.lo.hedged <= c.lo.hedged
    BY <1>1, Numbers
  <1> QED BY <1>1, <1>2, FullKept

\* A leg is only rebooked at nothing when nothing of it is held or owed.
LEMMA FullSettled ==
    ASSUME NEW c, Kind(c), FullInv(c), NEW d, Kind(d), Settled(c, d)
    PROVE  FullInv(d)
  <1>1. d.reg.expected["hedge"] = c.reg.expected["hedge"]
    BY Numbers DEF Settled, FullInv
  <1>2. /\ d.venue.held["rest"] >= c.venue.held["rest"]
        /\ d.venue.held["hedge"] >= c.venue.held["hedge"] /\ d.lo.hedged <= c.lo.hedged
    BY Numbers DEF Settled
  <1> QED BY <1>1, <1>2, FullKept DEF Settled

\* Shares bought without a booking are held without being expected.
LEMMA FullBought ==
    ASSUME NEW c, Kind(c), FullInv(c), NEW got \in Nat, NEW d, Kind(d), Buys(c, d, got)
    PROVE  FullInv(d)
  <1>1. /\ d.venue.held["rest"] >= c.venue.held["rest"]
        /\ d.venue.held["hedge"] >= c.venue.held["hedge"] /\ d.lo.hedged <= c.lo.hedged
    BY Numbers DEF Buys
  <1> QED BY <1>1, FullKept DEF Buys

\* A crash forgets what was pending; no pair was kept without its hedge.
LEMMA FullForgets ==
    ASSUME NEW c, Kind(c), FullInv(c), NEW d, Kind(d), Forgets(c, d)
    PROVE  FullInv(d)
  <1>1. DOMAIN d.pending = {} /\ ~d.lo.open
    BY DEF Forgets, NoPairs, NoOrder
  <1>2. AllOwed(d.pending, "hedge") = 0
    BY <1>1, OwedNone DEF AllOwed
  <1>3. /\ d.reg.expected["rest"] <= d.venue.held["rest"]
        /\ d.reg.expected["rest"] <= d.reg.expected["hedge"]
        /\ d.reg.expected["hedge"] + AllOwed(d.pending, "hedge") <= d.venue.held["hedge"]
    BY <1>2, Numbers DEF FullInv, Forgets
  <1> QED BY <1>1, <1>3 DEF FullInv

\* Raising, sweeping, reconciling and crashing keep FullInv.
LEMMA FullNets ==
    ASSUME TypeInv, FullInv(Books),
           HedgeRaised \/ SweepRow \/ ReconcileRead \/ ApplyReconcile \/ Crash
    PROVE  FullInv(Books)'
  <1>0. Kind(Books)
    BY DEF TypeInv
  <1>1. CASE HedgeRaised
    <2> DEFINE d(got) == [Bought(Books, got) EXCEPT !.lo.errors = @ + 1]
    <2>1. PICK bad \in Suffered({"raise", "reverify", "cancel"}), got \in {0, Delta} :
              Become(IF d(got).lo.errors < MaxErrors THEN d(got)
                     ELSE OrphanDetected(d(got), "rest", bad))
      BY <1>1 DEF HedgeRaised
    <2>2. got \in Nat
      BY <1>1, <2>1, BooksParts DEF TypeInv, HedgeRaised, Detected, Delta, Venue, Order
    <2>3. Kind(d(got)) /\ Buys(Books, d(got), got)
      BY <1>0, <2>2, RaisedKind
    <2> HIDE DEF d
    <2>4. FullInv(d(got))
      BY <1>0, <2>2, <2>3, FullBought
    <2>5. Kind(OrphanDetected(d(got), "rest", bad)) /\ FullInv(OrphanDetected(d(got), "rest", bad))
      BY <2>3, <2>4, OrphanKind, FullSame DEF Legs
    <2> QED BY <2>1, <2>3, <2>4, <2>5, BecomeIs
  <1>2. CASE SweepRow
    <2>1. PICK bad \in Suffered({"position", "reverify", "cancel"}) : Become(Swept(bad))
      BY <1>2 DEF SweepRow, Swept
    <2> QED BY <1>0, <2>1, SweptIsKind, FullSame, BecomeIs
  <1>3. CASE ReconcileRead
    BY <1>3 DEF ReconcileRead, Books
  <1>4. CASE ApplyReconcile
    <2> DEFINE c(bad) == IF "position" \in bad THEN Books ELSE MarksSettled(Books)
    <2>1. PICK bad \in Suffered({"position", "reverify", "cancel"}) :
              Become(Applied(c(bad), bad))
      BY <1>4 DEF ApplyReconcile, Applied
    <2>2. Kind(c(bad)) /\ FullInv(c(bad))
      BY <1>0, SettledKind, FullSettled
    <2> HIDE DEF c
    <2> QED BY <2>1, <2>2, AppliedKind, FullSame, BecomeIs
  <1>5. CASE Crash
    <2> DEFINE d(got) == Bought(Books, got)
               z(got) == Restarted(Bought(Books, got))
    <2>1. PICK got : /\ got \in Nat /\ Kind(d(got)) /\ Buys(Books, d(got), got)
                     /\ Kind(z(got)) /\ Forgets(d(got), z(got)) /\ Become(z(got))
      BY <1>5, CrashBecomes
    <2> HIDE DEF d, z
    <2>2. FullInv(d(got))
      BY <1>0, <2>1, FullBought
    <2> QED BY <2>1, <2>2, FullForgets, BecomeIs
  <1> QED BY <1>1, <1>2, <1>3, <1>4, <1>5

\* An answer changes nothing of what is owed.
LEMMA AnsweredOwes ==
    ASSUME NEW c, Kind(c), NEW p \in DOMAIN c.pending, NEW d,
           Answered(c.pending, d.pending, p)
    PROVE  /\ AllOwed(d.pending, "hedge") = AllOwed(c.pending, "hedge")
           /\ AllOwed(d.pending, "rest") = AllOwed(c.pending, "rest")
           /\ \A n : OwnHedges(d.pending, n) = OwnHedges(c.pending, n)
           /\ \A q \in DOMAIN c.pending : Ahead(d.pending, q) = Ahead(c.pending, q)
  <1>1. /\ DOMAIN d.pending = DOMAIN c.pending
        /\ \A q \in DOMAIN c.pending : /\ d.pending[q].rest = c.pending[q].rest
                                       /\ d.pending[q].hedge = c.pending[q].hedge
                                       /\ d.pending[q].order = c.pending[q].order
    BY DEF Answered
  <1>2. ASSUME NEW i \in Legs, NEW Q \in SUBSET DOMAIN c.pending
        PROVE  Owed(d.pending, i, Q) = Owed(c.pending, i, Q)
    <2>1. Q \subseteq DOMAIN d.pending /\ \A q \in Q : d.pending[q][i] = c.pending[q][i]
      BY <1>1 DEF Legs
    <2> QED BY <2>1, OwedSame
  <1>3. "rest" \in Legs /\ "hedge" \in Legs
    BY DEF Legs
  <1>4. \A n : /\ Own(d.pending, n) = Own(c.pending, n)
               /\ Own(c.pending, n) \in SUBSET DOMAIN c.pending
    BY <1>1 DEF Own
  <1>5. \A q \in DOMAIN c.pending : /\ Before(d.pending, q) = Before(c.pending, q)
                                    /\ Before(c.pending, q) \in SUBSET DOMAIN c.pending
    BY <1>1 DEF Before
  <1>6. DOMAIN c.pending \in SUBSET DOMAIN c.pending
    OBVIOUS
  <1>7. /\ AllOwed(d.pending, "hedge") = AllOwed(c.pending, "hedge")
        /\ AllOwed(d.pending, "rest") = AllOwed(c.pending, "rest")
    BY <1>1, <1>2, <1>3, <1>6 DEF AllOwed
  <1>8. \A n : OwnHedges(d.pending, n) = OwnHedges(c.pending, n)
    BY <1>2, <1>3, <1>4 DEF OwnHedges
  <1>9. \A q \in DOMAIN c.pending : Ahead(d.pending, q) = Ahead(c.pending, q)
    BY <1>2, <1>3, <1>5 DEF Ahead
  <1> QED BY <1>7, <1>8, <1>9

\* Nor does a read of what was delivered, however late it is applied.
LEMMA FullAnswered ==
    ASSUME NEW c, Kind(c), FullInv(c), NEW p \in DOMAIN c.pending, NEW d, Kind(d),
           d.reg = c.reg, d.venue = c.venue, d.lo = c.lo,
           Answered(c.pending, d.pending, p),
           d.pending[p].read <= Above(c.venue.held["rest"], c.pending[p].base),
           d.pending[p].value <= Above(c.venue.held["rest"], c.pending[p].base)
    PROVE  FullInv(d)
  <1>1. /\ AllOwed(d.pending, "hedge") = AllOwed(c.pending, "hedge")
        /\ \A n : OwnHedges(d.pending, n) = OwnHedges(c.pending, n)
        /\ \A q \in DOMAIN c.pending : Ahead(d.pending, q) = Ahead(c.pending, q)
    BY AnsweredOwes
  <1>2. ASSUME NEW q \in DOMAIN d.pending PROVE FullPair(d, q)
    <2>1. q \in DOMAIN c.pending
      BY DEF Answered
    <2>2. Ahead(d.pending, q) = Ahead(c.pending, q) /\ FullPair(c, q)
      BY <1>1, <2>1 DEF FullInv
    <2>3. CASE q = p
      BY <2>2, <2>3 DEF FullPair, Answered
    <2>4. CASE q # p
      <3>1. d.pending[q] = c.pending[q]
        BY <2>1, <2>4 DEF Answered
      <3> QED BY <2>2, <3>1 DEF FullPair
    <2> QED BY <2>3, <2>4
  <1>3. d.lo.open => d.lo.hedged <=
            d.reg.expected["hedge"] + OwnHedges(d.pending, d.lo.order)
    BY <1>1 DEF FullInv
  <1>4. /\ d.reg.expected["rest"] <= d.venue.held["rest"]
        /\ d.reg.expected["rest"] <= d.reg.expected["hedge"]
        /\ d.reg.expected["hedge"] + AllOwed(d.pending, "hedge") <= d.venue.held["hedge"]
    BY <1>1 DEF FullInv
  <1> QED BY <1>2, <1>3, <1>4 DEF FullInv

\* A decision about p keeps FullInv, whichever way it falls.
LEMMA FullDecide ==
    ASSUME TypeInv, Full(scene), FullInv(Books), NEW p \in DOMAIN pending,
           NEW value \in {Unread, pending[p].value}, NEW final, NEW answered,
           Decide(p, value, final, answered)
    PROVE  FullInv(Books)'
  <1> DEFINE r == Books.pending[p]
             last == IF value = Unread THEN r.read ELSE value
             b == Popped(Books, p)
             got == Least(Most(0, last), r.rest)
             most == Above(Books.venue.held["rest"], r.base)
  <1>0. Kind(Books) /\ Books.pending = pending /\ p \in DOMAIN Books.pending
    BY BooksParts DEF TypeInv
  <1>1. /\ r.rest \in Nat /\ r.read \in Nat \cup {-1} /\ r.value \in Nat \cup {-1}
        /\ r.base \in Nat /\ Books.venue.held["rest"] \in Nat
    BY <1>0, Numbers
  <1>2. r.read <= most /\ r.value <= most
    BY <1>0 DEF FullInv, FullPair
  <1>3. most \in Nat
    BY <1>1, AboveType
  <1>4. value = -1 \/ value = r.value
    BY <1>0 DEF Unread
  <1>5. last \in Nat \cup {-1} /\ last <= most
    BY <1>1, <1>2, <1>3, <1>4 DEF Unread
  <1>6. PICK bad \in Suffered(UnwindKinds \cup {"refuse"}) :
          \/ /\ value >= r.rest
             /\ Pay(bad)
             /\ Become(RecordLater(b, r.rest, r.hedge, bad))
          \/ /\ Pay(bad)
             /\ Become(Resolved(b, r, got, bad))
          \/ /\ pending' = [pending EXCEPT ![p].read = last, ![p].answer = "none",
                                           ![p].value = Unread]
             /\ UNCHANGED <<venue, lo, reg, latch, seq, scene, mishaps>>
    BY <1>0 DEF Decide, RecordLater
  <1>7. Kind(b) /\ Pops(Books, b, p)
    BY <1>0, PoppedKind
  <1>8. r.hedge \in Nat
    BY <1>0, Numbers
  <1> HIDE DEF b
  <1>9. CASE /\ value >= r.rest
             /\ Become(RecordLater(b, r.rest, r.hedge, bad))
    <2> DEFINE z == RecordLater(b, r.rest, r.hedge, bad)
    <2>1. Kind(z) /\ Booked(b, z, r.rest, r.hedge) /\ z.lo.hedged = b.lo.hedged
      <3> HIDE DEF r
      <3> QED BY <1>1, <1>7, <1>8, LaterKind
    <2>2. Become(z)
      BY <1>9
    <2>3. r.value >= r.rest
      BY <1>1, <1>4, <1>9
    <2> HIDE DEF z
    <2>4. FullInv(z)
      BY <1>0, <1>7, <2>1, <2>3, FullRecord
    <2> QED BY <2>1, <2>2, <2>4, BecomeIs
  <1>10. CASE Pay(bad) /\ Become(Resolved(b, r, got, bad))
    <2> DEFINE z == Resolved(b, r, got, bad)
    <2>1. bad \subseteq scene \cap (UnwindKinds \cup {"refuse"})
      BY <1>10, PayType DEF TypeInv
    <2>2. "blind" \notin bad
      BY <2>1, FullScene
    <2>3. got \in Nat /\ got <= r.rest /\ (got > 0 => got <= most)
      <3> HIDE DEF r, last, most
      <3> QED BY <1>1, <1>3, <1>5 DEF Least, Most
    <2>4. r \in Pair
      BY <1>0, PairsFinite
    <2> HIDE DEF got
    <2>5. FullInv(z)
      BY <1>0, <1>7, <2>2, <2>3, FullResolved
    <2>6. Kind(z)
      <3> HIDE DEF r
      <3> QED BY <1>7, <2>3, <2>4, ResolvedKind
    <2>7. Become(z)
      BY <1>10 DEF got
    <2> HIDE DEF z
    <2> QED BY <2>5, <2>6, <2>7, BecomeIs
  <1>11. CASE /\ pending' = [pending EXCEPT ![p].read = last, ![p].answer = "none",
                                           ![p].value = Unread]
              /\ UNCHANGED <<venue, lo, reg, latch, seq, scene, mishaps>>
    <2> DEFINE d == Books'
    <2>1. pending \in Pairs /\ DOMAIN pending \in SUBSET (1 .. seq)
      BY BooksParts DEF TypeInv
    <2>2. last \in Reading /\ Unread \in Reading
      BY <1>5 DEF Reading, Unread
    <2> HIDE DEF last, r
    <2>3. /\ pending' \in Pairs /\ Answered(pending, pending', p)
          /\ pending'[p].read = last /\ pending'[p].value = Unread
      <3>1. pending' = PutOff(pending, p, last)
        BY <1>11 DEF PutOff
      <3> QED BY <2>1, <2>2, <3>1, PutOffKind
    <2>4. Kind(d)
      BY <1>11, <2>1, <2>3, BooksParts, PartsType DEF TypeInv, Answered
    <2>5. /\ d.reg = Books.reg /\ d.venue = Books.venue /\ d.lo = Books.lo
          /\ d.pending = pending'
      BY <1>11 DEF Books
    <2> HIDE DEF d
    <2>6. d.pending[p].read <= most /\ d.pending[p].value <= most
      BY <1>3, <1>5, <2>3, <2>5 DEF Unread
    <2>7. FullInv(d)
      BY <1>0, <2>3, <2>4, <2>5, <2>6, FullAnswered DEF r
    <2> QED BY <2>7 DEF d
  <1> QED BY <1>6, <1>9, <1>10, <1>11

\* Reading, deciding and the deadline keep FullInv.
LEMMA FullReads ==
    ASSUME TypeInv, Full(scene), FullInv(Books), NEW p,
           ConfirmRead(p) \/ ApplyConfirm(p) \/ Backstop(p) \/ Deadline(p)
    PROVE  FullInv(Books)'
  <1>0. /\ Kind(Books) /\ Books.pending = pending /\ Books.venue = venue /\ p \in DOMAIN pending
        /\ pending \in Pairs /\ DOMAIN pending \in SUBSET (1 .. seq)
    BY BooksParts DEF TypeInv, ConfirmRead, ApplyConfirm, Backstop, Deadline
  <1>1. CASE ApplyConfirm(p)
    BY <1>0, <1>1, FullDecide DEF ApplyConfirm
  <1>2. CASE Backstop(p)
    BY <1>0, <1>2, FullDecide DEF Backstop
  <1>3. CASE ConfirmRead(p) \/ Deadline(p)
    <2> DEFINE most == Above(venue.held["rest"], pending[p].base)
               d == Books'
    <2>1. /\ pending[p].read \in Nat \cup {-1} /\ pending[p].read <= most
          /\ pending[p].value \in Nat \cup {-1} /\ pending[p].value <= most
          /\ most \in Nat
      <3>1. /\ pending[p].read \in Nat \cup {-1} /\ pending[p].value \in Nat \cup {-1}
            /\ pending[p].base \in Nat /\ venue.held["rest"] \in Nat
        BY <1>0, Numbers
      <3>2. most \in Nat
        BY <3>1 DEF Above, Most
      <3>3. pending[p].read <= most /\ pending[p].value <= most
        BY <1>0 DEF FullInv, FullPair
      <3> QED BY <3>1, <3>2, <3>3
    <2> HIDE DEF most
    <2>2. /\ pending' \in Pairs /\ Answered(pending, pending', p)
          /\ pending'[p].read <= most /\ pending'[p].value <= most
      <3>1. CASE ConfirmRead(p)
        <4>1. PICK bad \in Suffered({"confirm"}) :
                pending' = [pending EXCEPT ![p].answer = "landed",
                    ![p].value = IF bad # {} THEN Unread
                                 ELSE Delivered(venue.held["rest"], pending[p].base)]
          BY <3>1 DEF ConfirmRead
        <4> DEFINE value == IF bad # {} THEN Unread ELSE most
        <4>2. value \in Reading /\ value <= most
          BY <2>1 DEF Reading, Unread
        <4>3. pending' = Landed(pending, p, value)
          BY <4>1 DEF Delivered, most, Landed
        <4> HIDE DEF value
        <4>4. /\ pending' \in Pairs /\ Answered(pending, pending', p)
              /\ pending'[p].read = pending[p].read /\ pending'[p].value = value
          BY <1>0, <4>2, <4>3, LandedKind
        <4> QED BY <2>1, <4>2, <4>4
      <3>2. CASE Deadline(p)
        <4>1. pending' = Overdue(pending, p)
          BY <3>2 DEF Deadline, Overdue
        <4>2. /\ pending' \in Pairs /\ Answered(pending, pending', p)
              /\ pending'[p].read = pending[p].read /\ pending'[p].value = pending[p].value
          BY <1>0, <4>1, OverdueKind
        <4> QED BY <2>1, <4>2
      <3> QED BY <1>3, <3>1, <3>2
    <2>3. Kind(d)
      BY <1>3, <1>0, <2>2, BooksParts, PartsType DEF TypeInv, Answered, ConfirmRead, Deadline
    <2>4. /\ d.reg = Books.reg /\ d.venue = Books.venue /\ d.lo = Books.lo
          /\ d.pending = pending'
      BY <1>3 DEF Books, ConfirmRead, Deadline
    <2> HIDE DEF d
    <2>5. /\ d.pending[p].read <= Above(Books.venue.held["rest"], Books.pending[p].base)
          /\ d.pending[p].value <= Above(Books.venue.held["rest"], Books.pending[p].base)
      BY <1>0, <2>2, <2>4 DEF most
    <2>6. FullInv(d)
      BY <1>0, <2>2, <2>3, <2>4, <2>5, FullAnswered
    <2> QED BY <2>6 DEF d
  <1> QED BY <1>1, <1>2, <1>3

\* The order and the venue change no registry and sell nothing.
LEMMA VenueMoves ==
    ASSUME venue \in Venue, reg \in Registry, Place \/ Release \/ Match \/ Deliver \/ Phantom
    PROVE  /\ pending' = pending /\ reg'.expected = reg.expected
           /\ venue'.held["hedge"] = venue.held["hedge"]
           /\ \/ venue'.held["rest"] = venue.held["rest"]
              \/ venue'.held["rest"] = venue.held["rest"] + 1
  <1>1. CASE Place
    BY <1>1 DEF Place, Venue, Registry
  <1>2. CASE Release
    BY <1>2 DEF Release, Venue
  <1>3. CASE Match
    BY <1>3 DEF Match, Venue
  <1>4. CASE Deliver
    BY <1>4 DEF Deliver, Venue, Legs
  <1>5. CASE Phantom
    BY <1>5 DEF Phantom, Venue
  <1> QED BY <1>1, <1>2, <1>3, <1>4, <1>5

\* The order and the venue keep FullInv: a new order has nothing hedged.
LEMMA FullVenue ==
    ASSUME TypeInv, TypeInv', FullInv(Books), Place \/ Release \/ Match \/ Deliver \/ Phantom
    PROVE  FullInv(Books)'
  <1> DEFINE d == Books'
  <1>0. Kind(Books) /\ Kind(d)
    BY DEF TypeInv
  <1>1. /\ Books.venue = venue /\ Books.lo = lo /\ Books.reg = reg /\ Books.pending = pending
        /\ d.venue = venue' /\ d.lo = lo' /\ d.reg = reg' /\ d.pending = pending'
    BY DEF Books
  <1>2. /\ venue \in Venue /\ lo \in Order /\ reg \in Registry
    BY BooksParts DEF TypeInv
  <1>3. /\ d.pending = Books.pending /\ d.reg.expected = Books.reg.expected
        /\ d.venue.held["rest"] >= Books.venue.held["rest"]
        /\ d.venue.held["hedge"] >= Books.venue.held["hedge"]
    <2>1. /\ pending' = pending /\ reg'.expected = reg.expected
          /\ venue'.held["hedge"] = venue.held["hedge"]
          /\ \/ venue'.held["rest"] = venue.held["rest"]
             \/ venue'.held["rest"] = venue.held["rest"] + 1
      BY <1>2, VenueMoves
    <2>2. venue.held["rest"] \in Nat /\ venue.held["hedge"] \in Nat
      BY <1>2 DEF Venue, Legs
    <2> HIDE DEF d
    <2> QED BY <1>1, <2>1, <2>2
  <1>4. CASE Place
    <2>1. d.lo.open /\ d.lo.hedged = 0
      BY <1>1, <1>4 DEF Place, NoOrder
    <2> HIDE DEF d
    <2>2. \A q \in DOMAIN d.pending : FullPair(d, q)
      BY <1>0, <1>3, Numbers DEF FullInv, FullPair, Above, Most
    <2>3. d.lo.hedged <= d.reg.expected["hedge"] + OwnHedges(d.pending, d.lo.order)
      <3>1. d.reg.expected["hedge"] \in Nat /\ OwnHedges(d.pending, d.lo.order) \in Nat
        BY <1>0, Numbers
      <3> QED BY <2>1, <3>1
    <2>4. /\ d.reg.expected["rest"] <= d.venue.held["rest"]
          /\ d.reg.expected["rest"] <= d.reg.expected["hedge"]
          /\ d.reg.expected["hedge"] + AllOwed(d.pending, "hedge") <= d.venue.held["hedge"]
      BY <1>0, <1>3, Numbers DEF FullInv
    <2>5. FullInv(d)
      BY <2>2, <2>3, <2>4 DEF FullInv
    <2> QED BY <2>5 DEF d
  <1>5. CASE ~Place
    <2>1. d.lo.open => Books.lo.open /\ d.lo.order = Books.lo.order
                       /\ d.lo.hedged = Books.lo.hedged
      BY <1>1, <1>2, <1>5 DEF Release, Match, Deliver, Phantom, Order
    <2> HIDE DEF d
    <2>2. d.lo.open => d.lo.hedged <= Books.lo.hedged
      BY <1>0, <2>1, Numbers
    <2>3. FullInv(d)
      BY <1>0, <1>3, <2>1, <2>2, FullKept
    <2> QED BY <2>3 DEF d
  <1> QED BY <1>4, <1>5

\* What a behaviour may suffer is settled when it starts.
LEMMA SceneStays ==
    ASSUME [Next]_vars
    PROVE  scene' = scene
  <1>1. CASE Decline
    BY <1>1 DEF Decline, Become
  <1>2. CASE HedgeFill
    BY <1>2 DEF HedgeFill, Become
  <1>3. CASE HedgeRaised
    BY <1>3 DEF HedgeRaised, Become
  <1>4. ASSUME NEW p, NEW value, NEW final, NEW answered, Decide(p, value, final, answered)
        PROVE  scene' = scene
    BY <1>4 DEF Decide, Become
  <1>5. CASE Confirm \/ Decided
    BY <1>4, <1>5 DEF Confirm, Decided, ConfirmRead, ApplyConfirm, Backstop, Deadline
  <1>6. CASE SweepRow
    BY <1>6 DEF SweepRow, Become
  <1>7. CASE ReconcileRead
    BY <1>7 DEF ReconcileRead
  <1>8. CASE ApplyReconcile
    BY <1>8 DEF ApplyReconcile, Become
  <1>9. CASE Place \/ Release \/ Match \/ Deliver \/ Phantom
    BY <1>9 DEF Place, Release, Match, Deliver, Phantom
  <1>10. CASE Crash
    BY <1>10 DEF Crash, Become
  <1>11. CASE UNCHANGED vars
    BY <1>11 DEF vars
  <1> QED BY <1>1, <1>2, <1>3, <1>5, <1>6, <1>7, <1>8, <1>9, <1>10, <1>11 DEF Next, Chain

\* The inductive invariant of the first kind of scene.
FullSafe == TypeInv /\ (Full(scene) => FullInv(Books))

LEMMA FullInit == Init => FullSafe
  <1> SUFFICES ASSUME Init PROVE FullInv(Books)
    BY TypeInit DEF FullSafe
  <1>1. DOMAIN Books.pending = {} /\ ~Books.lo.open
    BY DEF Init, Books, NoPairs, NoOrder
  <1>2. AllOwed(Books.pending, "hedge") = 0
    BY <1>1, OwedNone DEF AllOwed
  <1>3. /\ Books.reg.expected["rest"] = 0 /\ Books.reg.expected["hedge"] = 0
        /\ Books.venue.held["rest"] = 0 /\ Books.venue.held["hedge"] = 0
    BY DEF Init, Books, Legs
  <1> QED BY <1>1, <1>2, <1>3 DEF FullInv

LEMMA FullStep == FullSafe /\ [Next]_vars => FullSafe'
  <1> SUFFICES ASSUME FullSafe, [Next]_vars PROVE FullSafe'
    OBVIOUS
  <1>1. TypeInv /\ TypeInv' /\ scene' = scene
    BY SceneStays, TypeStep DEF FullSafe
  <1>2. SUFFICES ASSUME Full(scene) PROVE FullInv(Books)'
    BY <1>1 DEF FullSafe
  <1>3. FullInv(Books)
    BY <1>2 DEF FullSafe
  <1>4. CASE Decline \/ HedgeFill
    BY <1>1, <1>2, <1>3, <1>4, FullChain
  <1>5. CASE HedgeRaised \/ SweepRow \/ ReconcileRead \/ ApplyReconcile \/ Crash
    BY <1>1, <1>3, <1>5, FullNets
  <1>6. CASE \E p : ConfirmRead(p) \/ ApplyConfirm(p) \/ Backstop(p) \/ Deadline(p)
    BY <1>1, <1>2, <1>3, <1>6, FullReads
  <1>7. CASE Place \/ Release \/ Match \/ Deliver \/ Phantom
    BY <1>1, <1>3, <1>7, FullVenue
  <1>8. CASE UNCHANGED vars
    BY <1>3, <1>8 DEF vars, Books
  <1> QED BY <1>4, <1>5, <1>6, <1>7, <1>8 DEF Next, Chain, Confirm, Decided

LEMMA FullInvariant == Spec => []FullSafe
  BY FullInit, FullStep, PTL DEF Spec

\* What the invariant says of the books.
LEMMA FullSays ==
    ASSUME TypeInv, FullInv(Books)
    PROVE  BookedIsHeld /\ RestIsHedged /\ CountedIsExpected
  <1>0. Kind(Books)
    BY DEF TypeInv
  <1>1. /\ Books.venue = venue /\ Books.lo = lo /\ Books.reg = reg
    BY DEF Books
  <1>2. ExpectedShares(Books, "hedge") =
            Books.reg.expected["hedge"] + AllOwed(Books.pending, "hedge")
    BY <1>0, ExpectedType DEF AllOwed, Legs
  <1>3. BookedIsHeld
    BY <1>0, <1>1, <1>2, Numbers DEF BookedIsHeld, FullInv
  <1>4. RestIsHedged
    BY <1>1 DEF RestIsHedged, FullInv
  <1>5. CountedIsExpected
    <2> SUFFICES ASSUME lo.open PROVE lo.hedged <= ExpectedShares(Books, "hedge")
      BY DEF CountedIsExpected
    <2>1. Books.lo.hedged <= Books.reg.expected["hedge"]
                             + OwnHedges(Books.pending, Books.lo.order)
      BY <1>1 DEF FullInv
    <2> QED BY <1>0, <1>1, <1>2, <2>1, Numbers
  <1> QED BY <1>3, <1>4, <1>5

-----------------------------------------------------------------------------
(* Hedges that are short or never bought: one order, delivered in the end.  *)

\* A scene in which every share is delivered, everything bought is booked and
\* counted, and an unwind can always be read: hedges may be declined, short or
\* lost, reads fail, books be thin, and the process crash.
Short(S) == S \cap {"phantom", "dust", "refuse", "raise", "blind"} = {}

\* Every pair is of the order, with its hedge.
Hedged(c) ==
    \A p \in DOMAIN c.pending :
        c.pending[p].rest <= c.pending[p].hedge /\ c.pending[p].order = c.lo.order

\* Before the first order there is nothing.
Pristine(c) ==
    /\ DOMAIN c.pending = {} /\ ~c.lo.open /\ ~c.venue.resting
    /\ c.reg.expected["rest"] = 0 /\ c.reg.expected["hedge"] = 0
    /\ c.venue.held["rest"] = 0 /\ c.venue.held["hedge"] = 0
    /\ c.venue.due = 0 /\ c.venue.matched = 0

\* What is expected has its other leg and is held, n matched shares apart.
Backed(c, n) ==
    /\ c.reg.expected["hedge"] + AllOwed(c.pending, "hedge") <= c.venue.held["hedge"]
    /\ c.reg.expected["rest"] <= c.reg.expected["hedge"]
    /\ c.reg.expected["rest"] + AllOwed(c.pending, "rest") + n
           <= c.venue.held["rest"] + c.venue.due
    /\ Hedged(c)

\* The open order counts what is expected on the hedge leg, all of it bought
\* for shares that were matched.
Counts(c, n) ==
    /\ c.lo.hedged = c.reg.expected["hedge"] + AllOwed(c.pending, "hedge")
    /\ c.venue.held["hedge"] <= n

ShortInv(c) ==
    /\ Backed(c, IF c.lo.open THEN c.venue.matched - c.lo.seen ELSE 0)
    /\ c.lo.open => Counts(c, c.lo.seen) /\ c.lo.seen <= c.venue.matched
    /\ c.lo.order = 0 => Pristine(c)

\* Inside a chain, with n matched shares still to be paired or sold.
Chained(c, n) == Backed(c, n) /\ Counts(c, c.venue.matched) /\ c.lo.order # 0

\* Part of the fill becomes a pair, whose hedge was bought.
LEMMA ShortPaired ==
    ASSUME NEW c, Kind(c), NEW n \in Nat, Chained(c, n), NEW m \in Nat, m <= n,
           NEW h \in Nat, m <= h, NEW bad, "refuse" \notin bad,
           c.reg.expected["hedge"] + AllOwed(c.pending, "hedge") + h <= c.venue.held["hedge"],
           NEW d, Kind(d), Paired(c, d, m, h, bad)
    PROVE  Chained(d, n - m)
  <1>1. CASE Deferred(c, d, m, h)
    <2>1. /\ AllOwed(d.pending, "hedge") = AllOwed(c.pending, "hedge") + h
          /\ AllOwed(d.pending, "rest") = AllOwed(c.pending, "rest") + m
      BY <1>1, DeferredOwes
    <2>2. /\ d.reg = c.reg /\ d.venue = c.venue /\ d.lo.order = c.lo.order
          /\ d.lo.hedged = c.lo.hedged + h
      BY <1>1 DEF Deferred
    <2>3. Hedged(d)
      BY <1>1 DEF Deferred, Hedged, Chained, Backed
    <2>4. Counts(d, d.venue.matched)
      BY <2>1, <2>2, Numbers DEF Counts, Chained
    <2>5. Backed(d, n - m)
      BY <2>1, <2>2, <2>3, Numbers DEF Backed, Chained
    <2> QED BY <2>2, <2>4, <2>5 DEF Chained
  <1>2. CASE ~Deferred(c, d, m, h)
    <2>1. /\ d.pending = c.pending /\ d.venue.held = c.venue.held /\ d.venue.due = c.venue.due
          /\ d.venue.matched = c.venue.matched /\ d.lo.order = c.lo.order
          /\ d.reg.expected["rest"] = c.reg.expected["rest"] + m
          /\ d.reg.expected["hedge"] = c.reg.expected["hedge"] + h
          /\ d.lo.hedged = c.lo.hedged + h
      <3>1. Booked(c, d, m, h) /\ d.lo.hedged = c.lo.hedged + h
        BY <1>2 DEF Paired
      <3> QED BY <3>1 DEF Booked
    <2>2. Hedged(d)
      BY <2>1 DEF Hedged, Chained, Backed
    <2>3. Counts(d, d.venue.matched)
      BY <2>1, Numbers DEF Counts, Chained
    <2>4. Backed(d, n - m)
      BY <2>1, <2>2, Numbers DEF Backed, Chained
    <2> QED BY <2>1, <2>3, <2>4 DEF Chained
  <1> QED BY <1>1, <1>2

\* The rest of the fill is sold, or what is left of it is what is expected.
LEMMA ShortUnwound ==
    ASSUME NEW c, Kind(c), NEW n \in Nat, Chained(c, n), NEW bad, "dust" \notin bad,
           "blind" \notin bad, NEW d, Kind(d), Sells(c, d, "rest", n, bad)
    PROVE  Chained(d, 0)
  <1>1. /\ d.pending = c.pending /\ d.lo = c.lo
        /\ d.venue.due = c.venue.due /\ d.venue.matched = c.venue.matched
        /\ d.venue.held["hedge"] = c.venue.held["hedge"]
        /\ d.reg.expected["hedge"] = c.reg.expected["hedge"]
        /\ d.reg.expected["rest"] = c.reg.expected["rest"] + 0
    BY DEF Sells, Legs
  <1>2. ExpectedShares(c, "rest") = c.reg.expected["rest"] + AllOwed(c.pending, "rest")
    BY ExpectedType DEF AllOwed, Legs
  <1>3. \/ d.venue.held["rest"] >= c.venue.held["rest"] - n
        \/ d.venue.held["rest"] >= c.reg.expected["rest"] + AllOwed(c.pending, "rest")
    BY <1>2 DEF Sells
  <1>4. Hedged(d)
    BY <1>1 DEF Hedged, Chained, Backed
  <1>5. Counts(d, d.venue.matched)
    BY <1>1 DEF Counts, Chained
  <1>6. Backed(d, 0)
    BY <1>1, <1>3, <1>4, Numbers DEF Backed, Chained
  <1> QED BY <1>1, <1>5, <1>6 DEF Chained

\* The fill is consumed: nothing matched is left unseen.
LEMMA ShortSeen ==
    ASSUME NEW c, Kind(c), Chained(c, 0), NEW d, Kind(d), Seen(c, d)
    PROVE  ShortInv(d)
  <1>1. /\ d.pending = c.pending /\ d.reg = c.reg /\ d.venue.held = c.venue.held
        /\ d.venue.due = c.venue.due /\ d.venue.matched = c.venue.matched
        /\ d.lo.order = c.lo.order /\ d.lo.seen = d.venue.matched
        /\ d.lo.hedged = c.lo.hedged
    BY DEF Seen
  <1>2. d.lo.seen \in Nat
    BY Numbers, HedgeAssumption
  <1>3. (IF d.lo.open THEN d.venue.matched - d.lo.seen ELSE 0) = 0
    BY <1>1, <1>2
  <1>4. Backed(d, 0) /\ Counts(d, d.lo.seen)
    BY <1>1 DEF Backed, Counts, Chained, Hedged
  <1> QED BY <1>1, <1>2, <1>3, <1>4 DEF ShortInv, Chained

\* With an open order, a fill of n shares and the hedge bought for it.
LEMMA ShortBought ==
    ASSUME NEW c, Kind(c), ShortInv(c), c.lo.open, NEW n \in Nat,
           n = c.venue.matched - c.lo.seen, NEW got \in 0 .. n,
           NEW d, Kind(d), Buys(c, d, got)
    PROVE  Chained(d, n) /\ d.venue.held["hedge"] - d.lo.hedged >= got
           /\ d.venue.held["hedge"] <= d.venue.matched - n + got
  <1>1. /\ d.pending = c.pending /\ d.reg = c.reg /\ d.lo.hedged = c.lo.hedged
        /\ d.lo.order = c.lo.order
        /\ d.venue.held["rest"] = c.venue.held["rest"]
        /\ d.venue.held["hedge"] = c.venue.held["hedge"] + got
        /\ d.venue.due = c.venue.due /\ d.venue.matched = c.venue.matched
    BY DEF Buys
  <1>2. /\ c.lo.seen \in Nat /\ c.venue.matched \in Nat /\ c.venue.held["hedge"] \in Nat
        /\ c.lo.hedged \in Nat /\ got \in Nat /\ got <= n
        /\ c.reg.expected["hedge"] \in Nat /\ AllOwed(c.pending, "hedge") \in Nat
    BY Numbers, HedgeAssumption
  <1>3. /\ Backed(c, n) /\ Counts(c, c.lo.seen) /\ c.lo.order # 0
    BY DEF ShortInv, Pristine
  <1>4. /\ c.lo.hedged = c.reg.expected["hedge"] + AllOwed(c.pending, "hedge")
        /\ c.venue.held["hedge"] <= c.lo.seen
        /\ c.reg.expected["hedge"] + AllOwed(c.pending, "hedge") <= c.venue.held["hedge"]
    BY <1>3 DEF Backed, Counts
  <1>5. d.venue.held["hedge"] - d.lo.hedged >= got
        /\ d.venue.held["hedge"] <= d.venue.matched - n + got
    BY <1>1, <1>2, <1>4
  <1>6. Counts(d, d.venue.matched)
    BY <1>1, <1>2, <1>4 DEF Counts
  <1>7. Hedged(d)
    BY <1>1, <1>3 DEF Backed, Hedged
  <1>8. Backed(d, n)
    BY <1>1, <1>2, <1>3, <1>7 DEF Backed
  <1> QED BY <1>1, <1>3, <1>5, <1>6, <1>8 DEF Chained

\* Whatever the venue says it filled of what was bought, the chain pairs what
\* was hedged and sells the rest.
LEMMA ShortOutcome ==
    ASSUME NEW d, Kind(d), NEW n \in Nat, Chained(d, n), NEW got \in 0 .. n,
           d.venue.held["hedge"] - d.lo.hedged >= got,
           d.venue.held["hedge"] <= d.venue.matched - n + got,
           NEW said \in {0, got}, NEW bad, Short(bad)
    PROVE  Chained(HedgeOutcome(d, n, said, bad), 0)
  <1> DEFINE new == HedgedNow(d, said, bad)
             part == Least(n, new)
             most == Most(new, part)
             a == DeferPair(d, n, n, bad)
             b == DeferPair(d, n, most, bad)
             e == DeferPair(d, part, part, bad)
             f == IF part > 0 THEN e ELSE d
             z == Unwound(f, "rest", n - part, bad)
             H == d.reg.expected["hedge"] + AllOwed(d.pending, "hedge")
             held == d.venue.held["hedge"]
  <1>1. "refuse" \notin bad /\ "dust" \notin bad /\ "blind" \notin bad
    BY DEF Short
  <1>2. /\ d.lo.hedged = H /\ d.lo.hedged \in Nat /\ held \in Nat /\ got \in Nat
        /\ got <= n /\ said \in Nat /\ said <= got
        /\ d.venue.matched \in Nat
    BY Numbers, HedgeAssumption DEF Chained, Counts
  <1>3. /\ new \in Nat
        /\ "complement" \in bad => new = said
        /\ "complement" \notin bad => new = Most(said, Above(held, d.lo.hedged))
    BY <1>2, NowType
  <1> HIDE DEF new, H, held
  <1>4. held - H >= got /\ held <= d.venue.matched - n + got
    BY <1>2 DEF held
  <1>5. H + new <= held
    BY <1>2, <1>3, <1>4 DEF Most, Above
  <1>6. part \in Nat /\ part <= n /\ part <= new
    BY <1>3 DEF Least
  <1> HIDE DEF part
  <1>7. most = new
    BY <1>3, <1>6 DEF Most
  <1> HIDE DEF most
  <1>8. HedgeOutcome(d, n, said, bad) =
            IF said = n THEN a
            ELSE IF "complement" \notin bad /\ d.venue.matched <= held THEN b ELSE z
    BY DEF HedgeOutcome, new, part, most, held
  <1>9. ASSUME NEW m \in Nat, NEW h \in Nat
        PROVE  /\ Kind(DeferPair(d, m, h, bad))
               /\ Paired(d, DeferPair(d, m, h, bad), m, h, bad)
    BY DeferKind
  <1>10. ASSUME NEW m \in Nat, m <= n, NEW h \in Nat, m <= h, H + h <= held
         PROVE  Chained(DeferPair(d, m, h, bad), n - m)
    <2>1. d.reg.expected["hedge"] + AllOwed(d.pending, "hedge") + h <= d.venue.held["hedge"]
      BY <1>10 DEF H, held
    <2> QED BY <1>1, <1>9, <1>10, <2>1, ShortPaired
  <1> HIDE DEF a, b, e, f, z
  <1>11. CASE said = n
    <2>1. H + n <= held
      BY <1>2, <1>4, <1>11
    <2>2. Chained(a, n - n)
      BY <1>10, <2>1 DEF a
    <2> QED BY <1>8, <1>11, <2>2
  <1>12. CASE said # n /\ "complement" \notin bad /\ d.venue.matched <= held
    <2>1. n <= new
      BY <1>2, <1>3, <1>4, <1>12 DEF Most, Above
    <2>2. Chained(b, n - n)
      BY <1>3, <1>5, <1>7, <1>10, <2>1 DEF b
    <2> QED BY <1>8, <1>12, <2>2
  <1>13. CASE said # n /\ ~("complement" \notin bad /\ d.venue.matched <= held)
    <2>1. n - part \in Nat
      BY <1>6
    <2>2. Kind(f) /\ Chained(f, n - part)
      <3>1. CASE part > 0
        <4>1. H + part <= held
          BY <1>2, <1>3, <1>5, <1>6 DEF Chained
        <4>2. Kind(e)
          BY <1>6, <1>9 DEF e
        <4>3. part <= part
          BY <1>6
        <4>4. Chained(e, n - part)
          BY <1>6, <1>10, <4>1, <4>3 DEF e
        <4> QED BY <3>1, <4>2, <4>4 DEF f
      <3>2. CASE ~(part > 0)
        <4>1. n - part = n
          BY <1>6, <3>2
        <4> QED BY <3>2, <4>1 DEF f
      <3> QED BY <3>1, <3>2
    <2>3. Kind(z) /\ Sells(f, z, "rest", n - part, bad)
      BY <2>1, <2>2, UnwoundKind DEF z, Legs
    <2>4. Chained(z, 0)
      BY <1>1, <2>1, <2>2, <2>3, ShortUnwound
    <2> QED BY <1>8, <1>13, <2>4
  <1> QED BY <1>11, <1>12, <1>13

LEMMA ShortScene ==
    ASSUME Short(scene), NEW K, NEW bad, bad \subseteq scene \cap K
    PROVE  Short(bad)
  BY DEF Short

\* A fill keeps ShortInv, whether its hedge is declined, short or lost.
LEMMA ShortChain ==
    ASSUME TypeInv, Short(scene), ShortInv(Books), Decline \/ HedgeFill
    PROVE  ShortInv(Books)'
  <1>0. /\ Kind(Books) /\ Books.lo = lo /\ Books.venue = venue /\ lo.open
        /\ Delta \in Nat /\ Delta = Books.venue.matched - Books.lo.seen
    BY BooksParts DEF TypeInv, Decline, HedgeFill, Detected, Delta, Venue, Order
  <1>1. ASSUME NEW x, Kind(x), Chained(x, 0), NEW bad, Become(Consumed(x, bad))
        PROVE  ShortInv(Books)'
    <2>1. Kind(Consumed(x, bad)) /\ Seen(x, Consumed(x, bad))
      BY <1>1, ConsumedKind
    <2>2. ShortInv(Consumed(x, bad))
      BY <1>1, <2>1, ShortSeen
    <2> QED BY <1>1, <2>1, <2>2, BecomeIs
  <1>2. CASE Decline
    <2>1. PICK bad \in Suffered(UnwindKinds \cup {"decline"}) :
              Pay(bad) /\ Become(Consumed(Unwound(Books, "rest", Delta, bad), bad))
      BY <1>2 DEF Decline
    <2>2. "dust" \notin bad /\ "blind" \notin bad
      <3>1. bad \subseteq scene \cap (UnwindKinds \cup {"decline"})
        BY <2>1, PayType DEF TypeInv
      <3> QED BY <3>1, ShortScene DEF Short
    <2> DEFINE x == Unwound(Books, "rest", Delta, bad)
    <2>3. Kind(x) /\ Sells(Books, x, "rest", Delta, bad)
      BY <1>0, UnwoundKind DEF Legs
    <2>4. Chained(Books, Delta)
      <3> DEFINE n == Delta
      <3>1. n \in Nat /\ n = Books.venue.matched - Books.lo.seen /\ Books.lo.open
        BY <1>0
      <3> HIDE DEF n
      <3>2. Backed(Books, n) /\ Counts(Books, Books.lo.seen) /\ Books.lo.order # 0
            /\ Books.lo.seen <= Books.venue.matched
        BY <3>1 DEF ShortInv, Pristine
      <3>3. Counts(Books, Books.venue.matched)
        BY <1>0, <3>2, Numbers, HedgeAssumption DEF Counts
      <3>4. Chained(Books, n)
        BY <3>2, <3>3 DEF Chained
      <3> QED BY <3>4 DEF n
    <2>5. Chained(x, 0)
      BY <1>0, <2>2, <2>3, <2>4, ShortUnwound
    <2>6. Become(Consumed(x, bad))
      BY <2>1
    <2> HIDE DEF x
    <2> QED BY <1>1, <2>3, <2>5, <2>6
  <1>3. CASE HedgeFill
    <2> DEFINE K == UnwindKinds \cup {"miss", "ack", "complement", "delivery", "refuse"}
               n == Delta
    <2>1. PICK bad \in Suffered(K), got \in 0 .. n :
              /\ Pay(bad)
              /\ Become(Consumed(HedgeOutcome(Bought(Books, got), n,
                                     IF "ack" \in bad THEN 0 ELSE got, bad), bad))
      BY <1>3 DEF HedgeFill
    <2> HIDE DEF K
    <2>2. Short(bad)
      <3>1. bad \subseteq scene \cap K
        BY <2>1, PayType DEF TypeInv
      <3> QED BY <3>1, ShortScene
    <2> DEFINE d == Bought(Books, got)
               said == IF "ack" \in bad THEN 0 ELSE got
               x == HedgeOutcome(d, n, said, bad)
    <2>3. n \in Nat /\ n = Books.venue.matched - Books.lo.seen /\ Books.lo.open
      BY <1>0
    <2>4. Become(Consumed(x, bad)) /\ said \in {0, got} /\ got \in Nat /\ said \in Nat
      BY <2>1, <2>3
    <2> HIDE DEF n
    <2>5. Kind(d) /\ Buys(Books, d, got)
      BY <1>0, <2>4, BoughtKind
    <2> HIDE DEF d
    <2>6. /\ Chained(d, n) /\ d.venue.held["hedge"] - d.lo.hedged >= got
          /\ d.venue.held["hedge"] <= d.venue.matched - n + got
      BY <1>0, <2>1, <2>3, <2>5, ShortBought
    <2> HIDE DEF said
    <2>7. Kind(x) /\ Chained(x, 0)
      BY <2>1, <2>2, <2>3, <2>4, <2>5, <2>6, ShortOutcome, OutcomeKind
    <2> HIDE DEF x
    <2> QED BY <1>1, <2>4, <2>7
  <1> QED BY <1>2, <1>3

\* What only alerts, marks or latches keeps ShortInv.
LEMMA ShortSame ==
    ASSUME NEW c, Kind(c), ShortInv(c), NEW d, Kind(d), Same(c, d)
    PROVE  ShortInv(d)
  BY DEF Same, ShortInv, Backed, Counts, Hedged, Pristine

\* A leg is only rebooked at nothing when nothing of it is held or owed.
LEMMA ShortSettled ==
    ASSUME NEW c, Kind(c), ShortInv(c), NEW d, Kind(d), Settled(c, d)
    PROVE  ShortInv(d)
  <1>1. d.reg.expected["hedge"] = c.reg.expected["hedge"]
    <2>1. c.reg.expected["hedge"] + AllOwed(c.pending, "hedge") <= c.venue.held["hedge"]
      BY DEF ShortInv, Backed
    <2> QED BY <2>1, Numbers DEF Settled
  <1> QED BY <1>1 DEF Settled, ShortInv, Backed, Counts, Hedged, Pristine

\* A crash forgets the order and what was pending, its last hedge too.
LEMMA ShortForgets ==
    ASSUME NEW c, Kind(c), ShortInv(c), NEW got \in Nat, c.lo.order = 0 => got = 0,
           NEW b, Kind(b), Buys(c, b, got), NEW d, Kind(d), Forgets(b, d)
    PROVE  ShortInv(d)
  <1>1. DOMAIN d.pending = {} /\ ~d.lo.open /\ d.lo.order = c.lo.order
    BY DEF Forgets, NoPairs, NoOrder, Buys
  <1>2. AllOwed(d.pending, "hedge") = 0 /\ AllOwed(d.pending, "rest") = 0
    BY <1>1, OwedNone DEF AllOwed
  <1>3. /\ d.reg.expected["rest"] = c.reg.expected["rest"]
        /\ d.reg.expected["hedge"] = c.reg.expected["hedge"]
        /\ d.venue.held["rest"] = c.venue.held["rest"]
        /\ d.venue.held["hedge"] = c.venue.held["hedge"] + got
        /\ d.venue.due = c.venue.due /\ d.venue.matched = c.venue.matched
        /\ d.venue.resting = c.venue.resting
    BY DEF Forgets, Buys
  <1>4. (IF c.lo.open THEN c.venue.matched - c.lo.seen ELSE 0) \in Nat
    BY Numbers, HedgeAssumption DEF ShortInv
  <1>5. Backed(d, 0)
    BY <1>1, <1>2, <1>3, <1>4, Numbers DEF Backed, ShortInv, Hedged
  <1>6. d.lo.order = 0 => Pristine(d)
    BY <1>1, <1>3, Numbers DEF Pristine, ShortInv
  <1> QED BY <1>1, <1>5, <1>6 DEF ShortInv

\* Sweeping, reconciling and crashing keep ShortInv.
LEMMA ShortNets ==
    ASSUME TypeInv, ShortInv(Books), SweepRow \/ ReconcileRead \/ ApplyReconcile \/ Crash
    PROVE  ShortInv(Books)'
  <1>0. Kind(Books)
    BY DEF TypeInv
  <1>1. CASE SweepRow
    <2>1. PICK bad \in Suffered({"position", "reverify", "cancel"}) : Become(Swept(bad))
      BY <1>1 DEF SweepRow, Swept
    <2> QED BY <1>0, <2>1, SweptIsKind, ShortSame, BecomeIs
  <1>2. CASE ReconcileRead
    BY <1>2 DEF ReconcileRead, Books
  <1>3. CASE ApplyReconcile
    <2> DEFINE c(bad) == IF "position" \in bad THEN Books ELSE MarksSettled(Books)
    <2>1. PICK bad \in Suffered({"position", "reverify", "cancel"}) :
              Become(Applied(c(bad), bad))
      BY <1>3 DEF ApplyReconcile, Applied
    <2>2. Kind(c(bad)) /\ ShortInv(c(bad))
      BY <1>0, SettledKind, ShortSettled
    <2> HIDE DEF c
    <2> QED BY <2>1, <2>2, AppliedKind, ShortSame, BecomeIs
  <1>4. CASE Crash
    <2> DEFINE d(got) == Bought(Books, got)
               z(got) == Restarted(Bought(Books, got))
    <2>1. PICK got \in {0} \cup (IF Detected THEN {Delta} ELSE {}) :
              /\ got \in Nat /\ Kind(d(got)) /\ Buys(Books, d(got), got)
              /\ Kind(z(got)) /\ Forgets(d(got), z(got)) /\ Become(z(got))
      BY <1>4, CrashBecomes
    <2>2. Books.lo.order = 0 => got = 0
      <3>1. Books.lo = lo
        BY DEF Books
      <3>2. Books.lo.order = 0 => ~lo.open
        BY <3>1 DEF ShortInv, Pristine
      <3> QED BY <2>1, <3>2 DEF Detected
    <2> HIDE DEF d, z
    <2>3. ShortInv(z(got))
      BY <1>0, <2>1, <2>2, ShortForgets
    <2> QED BY <2>1, <2>3, BecomeIs
  <1> QED BY <1>1, <1>2, <1>3, <1>4

\* An answer changes nothing of what is owed.
LEMMA ShortAnswered ==
    ASSUME NEW c, Kind(c), ShortInv(c), NEW p \in DOMAIN c.pending, NEW d, Kind(d),
           d.reg = c.reg, d.venue = c.venue, d.lo = c.lo,
           Answered(c.pending, d.pending, p)
    PROVE  ShortInv(d)
  <1>1. /\ AllOwed(d.pending, "hedge") = AllOwed(c.pending, "hedge")
        /\ AllOwed(d.pending, "rest") = AllOwed(c.pending, "rest")
    BY AnsweredOwes
  <1>2. Hedged(c)
    BY DEF ShortInv, Backed
  <1>3. ASSUME NEW q \in DOMAIN d.pending
        PROVE  d.pending[q].rest <= d.pending[q].hedge /\ d.pending[q].order = d.lo.order
    <2>1. q \in DOMAIN c.pending
      BY DEF Answered
    <2>2. CASE q = p
      BY <1>2, <2>1, <2>2 DEF Answered, Hedged
    <2>3. CASE q # p
      <3>1. d.pending[q] = c.pending[q]
        BY <2>1, <2>3 DEF Answered
      <3> QED BY <1>2, <2>1, <3>1 DEF Hedged
    <2> QED BY <2>2, <2>3
  <1>4. Hedged(d)
    BY <1>3 DEF Hedged
  <1>5. c.lo.order # 0
    BY DEF ShortInv, Pristine
  <1> QED BY <1>1, <1>4, <1>5 DEF ShortInv, Backed, Counts

\* A pair p is decided: got of its shares are booked, and of its hedge what is
\* booked, kept or sold stays counted exactly as far as it is expected.
LEMMA ShortDecided ==
    ASSUME NEW c, Kind(c), ShortInv(c), NEW p \in DOMAIN c.pending, NEW z, Kind(z),
           DOMAIN z.pending = DOMAIN c.pending \ {p},
           \A q \in DOMAIN c.pending \ {p} : z.pending[q] = c.pending[q],
           z.venue.held["rest"] = c.venue.held["rest"],
           z.venue.held["hedge"] <= c.venue.held["hedge"],
           z.venue.due = c.venue.due, z.venue.matched = c.venue.matched,
           z.lo.open = c.lo.open, z.lo.order = c.lo.order, z.lo.seen = c.lo.seen,
           NEW got \in Nat, got <= c.pending[p].rest,
           NEW kept \in Nat, got <= kept, kept <= c.pending[p].hedge,
           z.reg.expected["rest"] = c.reg.expected["rest"] + got,
           z.reg.expected["hedge"] = c.reg.expected["hedge"] + kept,
           z.lo.hedged = Above(c.lo.hedged, c.pending[p].hedge - kept),
           z.reg.expected["hedge"] + AllOwed(z.pending, "hedge") <= z.venue.held["hedge"]
    PROVE  ShortInv(z)
  <1> DEFINE r == c.pending[p]
  <1>1. AllOwed(c.pending, "hedge") = AllOwed(z.pending, "hedge") + r.hedge
    BY PoppedOwes
  <1>2. AllOwed(c.pending, "rest") = AllOwed(z.pending, "rest") + r.rest
    BY PoppedOwes
  <1>3. r.rest \in Nat /\ r.hedge \in Nat
    BY Numbers
  <1> HIDE DEF r
  <1>4. /\ got <= r.rest /\ kept <= r.hedge
        /\ z.lo.hedged = Above(c.lo.hedged, r.hedge - kept)
    BY DEF r
  <1>5. Hedged(z)
    BY DEF Hedged, ShortInv, Backed
  <1> DEFINE n == IF c.lo.open THEN c.venue.matched - c.lo.seen ELSE 0
  <1>6. n \in Int
    BY Numbers, HedgeAssumption
  <1>7. (IF z.lo.open THEN z.venue.matched - z.lo.seen ELSE 0) = n
    OBVIOUS
  <1>8. Backed(c, n)
    BY DEF ShortInv
  <1> HIDE DEF n
  <1>9. z.reg.expected["rest"] <= z.reg.expected["hedge"]
    BY <1>8, Numbers DEF Backed
  <1>10. z.reg.expected["rest"] + AllOwed(z.pending, "rest") + n
             <= z.venue.held["rest"] + z.venue.due
    <2>1. c.reg.expected["rest"] + AllOwed(c.pending, "rest") + n
              <= c.venue.held["rest"] + c.venue.due
      BY <1>8 DEF Backed
    <2>2. /\ c.reg.expected["rest"] \in Nat /\ AllOwed(z.pending, "rest") \in Nat
          /\ c.venue.held["rest"] \in Nat /\ c.venue.due \in Nat
      BY Numbers
    <2> QED BY <1>2, <1>3, <1>4, <1>6, <2>1, <2>2
  <1>11. Backed(z, n)
    BY <1>5, <1>9, <1>10 DEF Backed
  <1>12. ASSUME z.lo.open
         PROVE  Counts(z, z.lo.seen) /\ z.lo.seen <= z.venue.matched
    <2>1. /\ c.lo.hedged = c.reg.expected["hedge"] + AllOwed(c.pending, "hedge")
          /\ c.venue.held["hedge"] <= c.lo.seen /\ c.lo.seen <= c.venue.matched
      BY <1>12 DEF ShortInv, Counts
    <2>2. /\ c.reg.expected["hedge"] \in Nat /\ AllOwed(z.pending, "hedge") \in Nat
          /\ c.lo.hedged \in Nat
      BY Numbers
    <2>3. z.lo.hedged = z.reg.expected["hedge"] + AllOwed(z.pending, "hedge")
      <3> DEFINE e == r.hedge - kept
                 H == AllOwed(z.pending, "hedge")
                 k == c.reg.expected["hedge"]
      <3>1. e \in Nat /\ z.lo.hedged = Above(c.lo.hedged, e) /\ H \in Nat /\ k \in Nat
        BY <1>3, <1>4, <2>2
      <3>2. c.lo.hedged = k + (H + r.hedge)
        BY <1>1, <2>1
      <3>3. r.hedge = e + kept
        BY <1>3
      <3>4. z.reg.expected["hedge"] = k + kept
        OBVIOUS
      <3> HIDE DEF e, H, k
      <3>5. c.lo.hedged \in Nat /\ c.lo.hedged >= e
        BY <3>1, <3>2, <3>3
      <3>6. z.lo.hedged = c.lo.hedged - e
        BY <3>1, <3>5 DEF Above, Most
      <3>7. z.lo.hedged = z.reg.expected["hedge"] + H
        BY <3>1, <3>2, <3>3, <3>4, <3>6
      <3> QED BY <3>7 DEF H
    <2>4. z.venue.held["hedge"] <= z.lo.seen
      BY <2>1, Numbers, HedgeAssumption
    <2> QED BY <2>1, <2>3, <2>4 DEF Counts
  <1>13. c.lo.order # 0
    BY DEF ShortInv, Pristine
  <1> QED BY <1>7, <1>11, <1>12, <1>13 DEF ShortInv, n

\* A pair decided in full is booked with its whole hedge.
LEMMA ShortRecord ==
    ASSUME NEW c, Kind(c), ShortInv(c), NEW p \in DOMAIN c.pending, NEW b, Kind(b),
           Pops(c, b, p), NEW z, Kind(z),
           Booked(b, z, c.pending[p].rest, c.pending[p].hedge), z.lo.hedged = b.lo.hedged
    PROVE  ShortInv(z)
  <1> DEFINE r == c.pending[p]
  <1>1. /\ DOMAIN z.pending = DOMAIN c.pending \ {p}
        /\ \A q \in DOMAIN c.pending \ {p} : z.pending[q] = c.pending[q]
        /\ z.venue.held = c.venue.held
        /\ z.venue.due = c.venue.due /\ z.venue.matched = c.venue.matched
        /\ z.reg.expected["rest"] = c.reg.expected["rest"] + r.rest
        /\ z.reg.expected["hedge"] = c.reg.expected["hedge"] + r.hedge
        /\ z.lo.hedged = c.lo.hedged /\ z.lo.order = c.lo.order /\ z.lo.open = c.lo.open
        /\ z.lo.seen = c.lo.seen
    BY DEF Pops, Booked
  <1>2. AllOwed(c.pending, "hedge") = AllOwed(z.pending, "hedge") + r.hedge
    BY <1>1, PoppedOwes
  <1>3. /\ r.rest \in Nat /\ r.hedge \in Nat /\ c.lo.hedged \in Nat
        /\ c.venue.held["hedge"] \in Nat /\ c.reg.expected["hedge"] \in Nat
        /\ AllOwed(z.pending, "hedge") \in Nat
    BY Numbers
  <1>4. r.rest <= r.hedge
    BY DEF ShortInv, Backed, Hedged
  <1>5. z.lo.hedged = Above(c.lo.hedged, r.hedge - r.hedge)
    BY <1>1, <1>3 DEF Above, Most
  <1>6. z.reg.expected["hedge"] + AllOwed(z.pending, "hedge") <= z.venue.held["hedge"]
    <2>1. c.reg.expected["hedge"] + AllOwed(c.pending, "hedge") <= c.venue.held["hedge"]
      BY DEF ShortInv, Backed
    <2> HIDE DEF r
    <2> QED BY <1>1, <1>2, <1>3, <2>1
  <1>7. r.rest <= r.rest /\ r.hedge <= r.hedge
        /\ z.venue.held["hedge"] <= c.venue.held["hedge"]
        /\ z.venue.held["rest"] = c.venue.held["rest"]
    BY <1>1, <1>3
  <1> QED BY <1>1, <1>3, <1>4, <1>5, <1>6, <1>7, ShortDecided

\* One decided short of that keeps what was delivered and sells the rest of its
\* hedge, which then no longer counts.
LEMMA ShortResolved ==
    ASSUME NEW c, Kind(c), ShortInv(c), NEW p \in DOMAIN c.pending, NEW bad, Short(bad),
           NEW b, Kind(b), Pops(c, b, p), NEW got \in Nat, got <= c.pending[p].rest
    PROVE  ShortInv(Resolved(b, c.pending[p], got, bad))
  <1> DEFINE r == c.pending[p]
             e == Above(r.hedge, got)
             z == Resolved(b, r, got, bad)
  <1>0. r \in Pair
    BY PairsFinite
  <1>1. PICK x, y :
            /\ Kind(x) /\ Booked(b, x, got, got) /\ x.lo.hedged = b.lo.hedged
            /\ Kind(y) /\ y.pending = x.pending /\ y.seq = x.seq
            /\ y.reg = x.reg /\ y.venue = x.venue
            /\ y.lo.open = x.lo.open /\ y.lo.order = x.lo.order
            /\ y.lo.seen = x.lo.seen
            /\ y.lo.hedged = IF r.order = b.lo.order THEN Above(x.lo.hedged, e)
                             ELSE x.lo.hedged
            /\ e \in Nat /\ Kind(z) /\ z = Unwound(y, "hedge", e, bad)
    <2> HIDE DEF r
    <2> QED BY <1>0, ResolvedKind
  <1> HIDE DEF z
  <1>2. Sells(y, z, "hedge", e, bad) /\ "dust" \notin bad /\ "blind" \notin bad
    BY <1>1, UnwoundKind DEF Legs, Short
  <1>3. r.order = c.lo.order
    BY DEF ShortInv, Backed, Hedged
  <1>4. /\ DOMAIN z.pending = DOMAIN c.pending \ {p}
        /\ \A q \in DOMAIN c.pending \ {p} : z.pending[q] = c.pending[q]
        /\ z.venue.held["rest"] = c.venue.held["rest"]
        /\ z.venue.held["hedge"] <= c.venue.held["hedge"]
        /\ z.venue.due = c.venue.due /\ z.venue.matched = c.venue.matched
        /\ z.reg.expected["rest"] = c.reg.expected["rest"] + got
        /\ y.venue.held["hedge"] = c.venue.held["hedge"]
        /\ y.reg.expected["hedge"] = c.reg.expected["hedge"] + got
        /\ z.reg.expected["hedge"] = y.reg.expected["hedge"] + 0
        /\ y.pending = z.pending /\ z.lo = y.lo
        /\ z.lo.order = c.lo.order /\ z.lo.open = c.lo.open /\ z.lo.seen = c.lo.seen
    <2>1. /\ DOMAIN z.pending = DOMAIN c.pending \ {p}
          /\ \A q \in DOMAIN c.pending \ {p} : z.pending[q] = c.pending[q]
          /\ y.pending = z.pending
      <3>1. y.pending = b.pending
        BY <1>1 DEF Booked
      <3>2. z.pending = y.pending
        BY <1>2 DEF Sells
      <3> QED BY <3>1, <3>2 DEF Pops
    <2>2. /\ z.lo = y.lo /\ z.lo.order = c.lo.order /\ z.lo.open = c.lo.open
          /\ z.lo.seen = c.lo.seen
      <3>1. z.lo = y.lo
        BY <1>2 DEF Sells
      <3>2. y.lo.order = c.lo.order /\ y.lo.open = c.lo.open /\ y.lo.seen = c.lo.seen
        BY <1>1 DEF Pops, Booked
      <3> QED BY <3>1, <3>2
    <2>3. y.venue.held = c.venue.held /\ y.venue.due = c.venue.due
          /\ y.venue.matched = c.venue.matched
      BY <1>1 DEF Pops, Booked
    <2>4. /\ z.venue.held["rest"] = c.venue.held["rest"]
          /\ z.venue.held["hedge"] <= c.venue.held["hedge"]
          /\ z.venue.due = c.venue.due /\ z.venue.matched = c.venue.matched
      BY <1>2, <2>3 DEF Sells, Legs
    <2>5. /\ y.reg.expected["rest"] = c.reg.expected["rest"] + got
          /\ y.reg.expected["hedge"] = c.reg.expected["hedge"] + got
      BY <1>1 DEF Pops, Booked
    <2>6. /\ z.reg.expected["rest"] = y.reg.expected["rest"]
          /\ z.reg.expected["hedge"] = y.reg.expected["hedge"] + 0
      BY <1>2 DEF Sells, Legs
    <2> HIDE DEF e
    <2> QED BY <2>1, <2>2, <2>3, <2>4, <2>5, <2>6
  <1>5. z.lo.hedged = Above(c.lo.hedged, e)
    BY <1>1, <1>3, <1>4 DEF Pops
  <1>6. AllOwed(c.pending, "hedge") = AllOwed(z.pending, "hedge") + r.hedge
    <2>1. Kind(z)
      BY <1>1
    <2> QED BY <1>4, <2>1, PoppedOwes
  <1>7. /\ r.rest \in Nat /\ r.hedge \in Nat
        /\ c.reg.expected["hedge"] \in Nat /\ AllOwed(z.pending, "hedge") \in Nat
        /\ c.venue.held["hedge"] \in Nat /\ z.venue.held["hedge"] \in Nat
    BY <1>1, Numbers
  <1>8. r.rest <= r.hedge
        /\ c.reg.expected["hedge"] + AllOwed(c.pending, "hedge") <= c.venue.held["hedge"]
    BY DEF ShortInv, Backed, Hedged
  <1>9. got <= r.rest
    OBVIOUS
  <1> HIDE DEF r
  <1>10. e = r.hedge - got /\ got <= r.hedge
    BY <1>7, <1>8, <1>9 DEF Above, Most
  <1>11. z.reg.expected["hedge"] = c.reg.expected["hedge"] + got
    BY <1>4, <1>7
  <1> HIDE DEF e
  <1>12. z.reg.expected["hedge"] + AllOwed(z.pending, "hedge") <= z.venue.held["hedge"]
    <2>1. ExpectedShares(y, "hedge") = y.reg.expected["hedge"] + AllOwed(y.pending, "hedge")
      BY <1>1, ExpectedType DEF AllOwed, Legs
    <2>2. \/ z.venue.held["hedge"] >= c.venue.held["hedge"] - e
          \/ z.venue.held["hedge"] >= ExpectedShares(y, "hedge")
      BY <1>2, <1>4 DEF Sells
    <2>3. ExpectedShares(y, "hedge") = c.reg.expected["hedge"] + got
                                        + AllOwed(z.pending, "hedge")
      BY <1>4, <2>1
    <2> QED BY <1>6, <1>7, <1>8, <1>10, <1>11, <2>2, <2>3
  <1>13. z.lo.hedged = Above(c.lo.hedged, r.hedge - got)
    BY <1>5, <1>10
  <1>14. got <= got /\ Kind(z)
    BY <1>1
  <1>15. ShortInv(z)
    BY <1>4, <1>10, <1>11, <1>12, <1>13, <1>14, ShortDecided DEF r
  <1> QED BY <1>15 DEF z, r

\* A decision about p keeps ShortInv, whichever way it falls.
LEMMA ShortDecide ==
    ASSUME TypeInv, Short(scene), ShortInv(Books), NEW p \in DOMAIN pending,
           NEW value \in {Unread, pending[p].value}, NEW final, NEW answered,
           Decide(p, value, final, answered)
    PROVE  ShortInv(Books)'
  <1> DEFINE r == Books.pending[p]
             last == IF value = Unread THEN r.read ELSE value
             b == Popped(Books, p)
             got == Least(Most(0, last), r.rest)
  <1>0. Kind(Books) /\ Books.pending = pending /\ p \in DOMAIN Books.pending
    BY BooksParts DEF TypeInv
  <1>1. /\ r.rest \in Nat /\ r.read \in Nat \cup {-1} /\ r.value \in Nat \cup {-1}
    BY <1>0, Numbers
  <1>2. value = -1 \/ value = r.value
    BY <1>0 DEF Unread
  <1>3. last \in Nat \cup {-1}
    BY <1>1, <1>2 DEF Unread
  <1>4. PICK bad \in Suffered(UnwindKinds \cup {"refuse"}) :
          \/ /\ Pay(bad)
             /\ Become(RecordLater(b, r.rest, r.hedge, bad))
          \/ /\ Pay(bad)
             /\ Become(Resolved(b, r, got, bad))
          \/ /\ pending' = [pending EXCEPT ![p].read = last, ![p].answer = "none",
                                           ![p].value = Unread]
             /\ UNCHANGED <<venue, lo, reg, latch, seq, scene, mishaps>>
    BY <1>0 DEF Decide, RecordLater
  <1>5. Kind(b) /\ Pops(Books, b, p)
    BY <1>0, PoppedKind
  <1>6. r.hedge \in Nat
    BY <1>0, Numbers
  <1> HIDE DEF b
  <1>7. CASE Become(RecordLater(b, r.rest, r.hedge, bad))
    <2> DEFINE z == RecordLater(b, r.rest, r.hedge, bad)
    <2>1. Kind(z) /\ Booked(b, z, r.rest, r.hedge) /\ z.lo.hedged = b.lo.hedged
      <3> HIDE DEF r
      <3> QED BY <1>1, <1>5, <1>6, LaterKind
    <2>2. Become(z)
      BY <1>7
    <2> HIDE DEF z
    <2>3. ShortInv(z)
      BY <1>0, <1>5, <2>1, ShortRecord
    <2> QED BY <2>1, <2>2, <2>3, BecomeIs
  <1>8. CASE Pay(bad) /\ Become(Resolved(b, r, got, bad))
    <2> DEFINE z == Resolved(b, r, got, bad)
    <2>1. bad \subseteq scene \cap (UnwindKinds \cup {"refuse"})
      BY <1>8, PayType DEF TypeInv
    <2>2. Short(bad)
      BY <2>1, ShortScene
    <2>3. got \in Nat /\ got <= r.rest
      <3> HIDE DEF r, last
      <3> QED BY <1>1, <1>3 DEF Least, Most
    <2>4. r \in Pair
      BY <1>0, PairsFinite
    <2> HIDE DEF got
    <2>5. ShortInv(z)
      BY <1>0, <1>5, <2>2, <2>3, ShortResolved
    <2>6. Kind(z)
      <3> HIDE DEF r
      <3> QED BY <1>5, <2>3, <2>4, ResolvedKind
    <2>7. Become(z)
      BY <1>8 DEF got
    <2> HIDE DEF z
    <2> QED BY <2>5, <2>6, <2>7, BecomeIs
  <1>9. CASE /\ pending' = [pending EXCEPT ![p].read = last, ![p].answer = "none",
                                           ![p].value = Unread]
             /\ UNCHANGED <<venue, lo, reg, latch, seq, scene, mishaps>>
    <2> DEFINE d == Books'
    <2>1. pending \in Pairs /\ DOMAIN pending \in SUBSET (1 .. seq)
      BY BooksParts DEF TypeInv
    <2>2. last \in Reading
      BY <1>3 DEF Reading, Unread
    <2> HIDE DEF last, r
    <2>3. pending' \in Pairs /\ Answered(pending, pending', p)
      <3>1. pending' = PutOff(pending, p, last)
        BY <1>9 DEF PutOff
      <3> QED BY <2>1, <2>2, <3>1, PutOffKind
    <2>4. Kind(d)
      BY <1>9, <2>1, <2>3, BooksParts, PartsType DEF TypeInv, Answered
    <2>5. /\ d.reg = Books.reg /\ d.venue = Books.venue /\ d.lo = Books.lo
          /\ d.pending = pending'
      BY <1>9 DEF Books
    <2> HIDE DEF d
    <2>6. ShortInv(d)
      BY <1>0, <2>3, <2>4, <2>5, ShortAnswered
    <2> QED BY <2>6 DEF d
  <1> QED BY <1>4, <1>7, <1>8, <1>9

\* Reading, deciding and the deadline keep ShortInv.
LEMMA ShortReads ==
    ASSUME TypeInv, Short(scene), ShortInv(Books), NEW p,
           ConfirmRead(p) \/ ApplyConfirm(p) \/ Backstop(p) \/ Deadline(p)
    PROVE  ShortInv(Books)'
  <1>0. /\ Kind(Books) /\ Books.pending = pending /\ Books.venue = venue /\ p \in DOMAIN pending
        /\ pending \in Pairs /\ DOMAIN pending \in SUBSET (1 .. seq)
    BY BooksParts DEF TypeInv, ConfirmRead, ApplyConfirm, Backstop, Deadline
  <1>1. CASE ApplyConfirm(p)
    BY <1>0, <1>1, ShortDecide DEF ApplyConfirm
  <1>2. CASE Backstop(p)
    BY <1>0, <1>2, ShortDecide DEF Backstop
  <1>3. CASE ConfirmRead(p) \/ Deadline(p)
    <2> DEFINE d == Books'
    <2>1. pending' \in Pairs /\ Answered(pending, pending', p)
      <3>1. CASE ConfirmRead(p)
        <4> DEFINE most == Above(venue.held["rest"], pending[p].base)
        <4>1. PICK bad \in Suffered({"confirm"}) :
                pending' = [pending EXCEPT ![p].answer = "landed",
                    ![p].value = IF bad # {} THEN Unread
                                 ELSE Delivered(venue.held["rest"], pending[p].base)]
          BY <3>1 DEF ConfirmRead
        <4>2. most \in Nat
          <5>1. pending[p].base \in Nat /\ venue.held["rest"] \in Nat
            BY <1>0, Numbers
          <5> QED BY <5>1 DEF Above, Most
        <4> DEFINE value == IF bad # {} THEN Unread ELSE most
        <4>3. value \in Reading
          BY <4>2 DEF Reading
        <4>4. pending' = Landed(pending, p, value)
          BY <4>1 DEF Delivered, Landed
        <4> HIDE DEF value
        <4> QED BY <1>0, <4>3, <4>4, LandedKind
      <3>2. CASE Deadline(p)
        <4>1. pending' = Overdue(pending, p)
          BY <3>2 DEF Deadline, Overdue
        <4> QED BY <1>0, <4>1, OverdueKind
      <3> QED BY <1>3, <3>1, <3>2
    <2>2. Kind(d)
      BY <1>3, <1>0, <2>1, BooksParts, PartsType DEF TypeInv, Answered, ConfirmRead, Deadline
    <2>3. /\ d.reg = Books.reg /\ d.venue = Books.venue /\ d.lo = Books.lo
          /\ d.pending = pending'
      BY <1>3 DEF Books, ConfirmRead, Deadline
    <2> HIDE DEF d
    <2>4. ShortInv(d)
      BY <1>0, <2>1, <2>2, <2>3, ShortAnswered
    <2> QED BY <2>4 DEF d
  <1> QED BY <1>1, <1>2, <1>3

\* The order and the venue keep ShortInv: the one order is the first.
LEMMA ShortVenue ==
    ASSUME TypeInv, TypeInv', MaxOrders <= 1, ShortInv(Books),
           Place \/ Release \/ Match \/ Deliver
    PROVE  ShortInv(Books)'
  <1> DEFINE d == Books'
             c == Books
  <1>0. Kind(c) /\ Kind(d) /\ ShortInv(c)
    BY DEF TypeInv
  <1>1. /\ c.venue = venue /\ c.lo = lo /\ c.reg = reg /\ c.pending = pending
        /\ d.venue = venue' /\ d.lo = lo' /\ d.reg = reg' /\ d.pending = pending'
    BY DEF Books
  <1>2. /\ venue \in Venue /\ lo \in Order /\ reg \in Registry
    BY BooksParts DEF TypeInv
  <1>3. /\ d.pending = c.pending /\ d.reg.expected = c.reg.expected
        /\ d.venue.held["hedge"] = c.venue.held["hedge"]
    BY <1>1, <1>2, VenueMoves
  <1>4. CASE Place
    <2>1. /\ lo.order < MaxOrders /\ lo.order \in Nat /\ MaxOrders \in Nat
      BY <1>2, <1>4, HedgeAssumption DEF Place, Order
    <2>2. Pristine(c)
      <3>1. lo.order = 0
        BY <2>1
      <3> QED BY <1>1, <3>1 DEF ShortInv
    <2>3. /\ d.lo.open /\ d.lo.hedged = 0 /\ d.lo.seen = 0 /\ d.lo.order # 0
      BY <1>1, <1>4, <2>1 DEF Place, NoOrder
    <2>4. /\ d.venue.matched = 0 /\ d.venue.due = c.venue.due
          /\ d.venue.held["rest"] = c.venue.held["rest"]
      BY <1>1, <1>2, <1>4 DEF Place, Venue
    <2> HIDE DEF d, c
    <2>5. AllOwed(d.pending, "hedge") = 0 /\ AllOwed(d.pending, "rest") = 0
      BY <1>3, <2>2, OwedNone DEF AllOwed, Pristine
    <2>6. (IF d.lo.open THEN d.venue.matched - d.lo.seen ELSE 0) = 0
      BY <2>3, <2>4
    <2>7. Backed(d, 0) /\ Counts(d, d.lo.seen)
      BY <1>3, <2>2, <2>3, <2>4, <2>5 DEF Backed, Counts, Hedged, Pristine
    <2>8. ShortInv(d)
      BY <2>3, <2>4, <2>6, <2>7 DEF ShortInv
    <2> QED BY <2>8 DEF d
  <1>5. CASE Release
    <2>1. /\ c.lo.open /\ ~d.lo.open /\ d.lo.order = c.lo.order
          /\ c.venue.matched = c.lo.seen
          /\ d.venue.due = c.venue.due /\ d.venue.held["rest"] = c.venue.held["rest"]
      BY <1>1, <1>2, <1>5 DEF Release, Venue, Order
    <2> HIDE DEF d, c
    <2>2. c.lo.order # 0
      BY <1>0, <2>1 DEF ShortInv, Pristine
    <2>3. (IF c.lo.open THEN c.venue.matched - c.lo.seen ELSE 0) = 0
      BY <1>0, <2>1, Numbers, HedgeAssumption
    <2>4. Backed(d, 0)
      BY <1>0, <1>3, <2>1, <2>3 DEF ShortInv, Backed, Hedged
    <2>5. ShortInv(d)
      BY <2>1, <2>2, <2>4 DEF ShortInv
    <2> QED BY <2>5 DEF d
  <1>6. CASE Match
    <2>1. /\ c.venue.resting /\ d.lo = c.lo
          /\ d.venue.due = c.venue.due + 1 /\ d.venue.held["rest"] = c.venue.held["rest"]
          /\ d.venue.matched = c.venue.matched + 1
      BY <1>1, <1>2, <1>6 DEF Match, Venue
    <2> HIDE DEF d, c
    <2>2. c.lo.order # 0
      BY <1>0, <2>1 DEF ShortInv, Pristine
    <2>3. /\ c.venue.matched \in Nat /\ c.lo.seen \in Nat /\ c.venue.due \in Nat
          /\ c.venue.held["rest"] \in Nat /\ c.reg.expected["rest"] \in Nat
          /\ AllOwed(c.pending, "rest") \in Nat
      BY <1>0, Numbers, HedgeAssumption
    <2> DEFINE n == IF c.lo.open THEN c.venue.matched - c.lo.seen ELSE 0
               m == IF d.lo.open THEN d.venue.matched - d.lo.seen ELSE 0
    <2>4. n \in Int /\ m \in Int /\ m <= n + 1
      BY <2>1, <2>3
    <2>5. Backed(c, n)
      BY <1>0 DEF ShortInv
    <2> HIDE DEF n, m
    <2>6. d.reg.expected["rest"] + AllOwed(d.pending, "rest") + m
              <= d.venue.held["rest"] + d.venue.due
      <3>1. c.reg.expected["rest"] + AllOwed(c.pending, "rest") + n
                <= c.venue.held["rest"] + c.venue.due
        BY <2>5 DEF Backed
      <3> QED BY <1>3, <2>1, <2>3, <2>4, <3>1
    <2>7. Backed(d, m)
      BY <1>3, <2>1, <2>5, <2>6 DEF Backed, Hedged
    <2>8. d.lo.open => Counts(d, d.lo.seen) /\ d.lo.seen <= d.venue.matched
      BY <1>0, <1>3, <2>1, <2>3 DEF ShortInv, Counts
    <2>9. ShortInv(d)
      BY <2>1, <2>2, <2>7, <2>8 DEF ShortInv, m
    <2> QED BY <2>9 DEF d
  <1>7. CASE Deliver
    <2>1. /\ c.venue.due > 0 /\ d.lo = c.lo
          /\ d.venue.due = c.venue.due - 1
          /\ d.venue.held["rest"] = c.venue.held["rest"] + 1
          /\ d.venue.matched = c.venue.matched
      BY <1>1, <1>2, <1>7 DEF Deliver, Venue, Legs
    <2> HIDE DEF d, c
    <2>2. c.venue.due \in Nat /\ c.venue.held["rest"] \in Nat
      BY <1>0, Numbers
    <2>3. c.lo.order # 0
      BY <1>0, <2>1 DEF ShortInv, Pristine
    <2>4. d.venue.held["rest"] + d.venue.due = c.venue.held["rest"] + c.venue.due
      BY <2>1, <2>2
    <2>5. ShortInv(d)
      BY <1>0, <1>3, <2>1, <2>3, <2>4 DEF ShortInv, Backed, Counts, Hedged
    <2> QED BY <2>5 DEF d
  <1> QED BY <1>4, <1>5, <1>6, <1>7

-----------------------------------------------------------------------------
(* The two kinds of scene together.                                        *)

\* The inductive invariant of the second kind of scene.
ShortSafe == TypeInv /\ (Short(scene) /\ MaxOrders <= 1 => ShortInv(Books))

LEMMA ShortInit == Init => ShortSafe
  <1> SUFFICES ASSUME Init PROVE ShortInv(Books)
    BY TypeInit DEF ShortSafe
  <1>1. Pristine(Books)
    BY DEF Init, Books, NoPairs, NoOrder, Pristine, Legs
  <1>2. AllOwed(Books.pending, "hedge") = 0 /\ AllOwed(Books.pending, "rest") = 0
    BY <1>1, OwedNone DEF AllOwed, Pristine
  <1>3. Backed(Books, 0)
    BY <1>1, <1>2 DEF Backed, Hedged, Pristine
  <1> QED BY <1>1, <1>3 DEF ShortInv, Pristine

LEMMA ShortStep == ShortSafe /\ [Next]_vars => ShortSafe'
  <1> SUFFICES ASSUME ShortSafe, [Next]_vars PROVE ShortSafe'
    OBVIOUS
  <1>1. TypeInv /\ TypeInv' /\ scene' = scene
    BY SceneStays, TypeStep DEF ShortSafe
  <1>2. SUFFICES ASSUME Short(scene), MaxOrders <= 1 PROVE ShortInv(Books)'
    BY <1>1 DEF ShortSafe
  <1>3. ShortInv(Books)
    BY <1>2 DEF ShortSafe
  <1>4. CASE Decline \/ HedgeFill
    BY <1>1, <1>2, <1>3, <1>4, ShortChain
  <1>5. ~HedgeRaised
    <2> SUFFICES ASSUME HedgeRaised PROVE FALSE
      OBVIOUS
    <2>1. PICK bad \in Suffered({"raise", "reverify", "cancel"}) : "raise" \in bad /\ Pay(bad)
      BY DEF HedgeRaised
    <2>2. bad \subseteq scene \cap {"raise", "reverify", "cancel"}
      BY <1>1, <2>1, PayType DEF TypeInv
    <2> QED BY <1>2, <2>1, <2>2 DEF Short
  <1>6. ~Phantom
    <2> SUFFICES ASSUME Phantom PROVE FALSE
      OBVIOUS
    <2>1. PICK bad \in Suffered({"phantom"}) : bad # {} /\ Pay(bad)
      BY DEF Phantom
    <2>2. bad \subseteq scene \cap {"phantom"}
      BY <1>1, <2>1, PayType DEF TypeInv
    <2> QED BY <1>2, <2>1, <2>2 DEF Short
  <1>7. CASE SweepRow \/ ReconcileRead \/ ApplyReconcile \/ Crash
    BY <1>1, <1>3, <1>7, ShortNets
  <1>8. CASE \E p : ConfirmRead(p) \/ ApplyConfirm(p) \/ Backstop(p) \/ Deadline(p)
    BY <1>1, <1>2, <1>3, <1>8, ShortReads
  <1>9. CASE Place \/ Release \/ Match \/ Deliver
    BY <1>1, <1>2, <1>3, <1>9, ShortVenue
  <1>10. CASE UNCHANGED vars
    BY <1>3, <1>10 DEF vars, Books
  <1> QED BY <1>4, <1>5, <1>6, <1>7, <1>8, <1>9, <1>10 DEF Next, Chain, Confirm, Decided

LEMMA ShortInvariant == Spec => []ShortSafe
  BY ShortInit, ShortStep, PTL DEF Spec

\* What the second invariant says of the books.
LEMMA ShortSays ==
    ASSUME TypeInv, ShortInv(Books)
    PROVE  BookedIsHeld /\ RestIsHedged /\ CountedIsExpected
  <1>0. Kind(Books)
    BY DEF TypeInv
  <1>1. /\ Books.venue = venue /\ Books.lo = lo /\ Books.reg = reg
    BY DEF Books
  <1>2. ExpectedShares(Books, "hedge") =
            Books.reg.expected["hedge"] + AllOwed(Books.pending, "hedge")
    BY <1>0, ExpectedType DEF AllOwed, Legs
  <1> DEFINE n == IF Books.lo.open THEN Books.venue.matched - Books.lo.seen ELSE 0
  <1>3. n \in Int /\ n >= 0
    BY <1>0, Numbers, HedgeAssumption DEF ShortInv
  <1>4. Backed(Books, n)
    BY DEF ShortInv
  <1> HIDE DEF n
  <1>5. reg.expected["rest"] <= venue.held["rest"] + venue.due
    BY <1>0, <1>1, <1>3, <1>4, Numbers DEF Backed
  <1>6. BookedIsHeld
    BY <1>1, <1>2, <1>4, <1>5 DEF BookedIsHeld, Backed
  <1>7. RestIsHedged
    BY <1>1, <1>4 DEF RestIsHedged, Backed
  <1>8. CountedIsExpected
    <2> SUFFICES ASSUME lo.open PROVE lo.hedged <= ExpectedShares(Books, "hedge")
      BY DEF CountedIsExpected
    <2>1. Books.lo.hedged = ExpectedShares(Books, "hedge")
      BY <1>1, <1>2 DEF ShortInv, Counts
    <2> QED BY <1>0, <1>1, <2>1, Numbers
  <1> QED BY <1>6, <1>7, <1>8

\* Every scene brings what may go wrong with the rest leg, or, with one order,
\* what may go wrong with its hedge.
OneSided == \A S \in Scenes : Full(S) \/ (Short(S) /\ MaxOrders <= 1)

LEMMA SafeSays ==
    ASSUME OneSided, FullSafe, ShortSafe
    PROVE  BookedIsHeld /\ RestIsHedged /\ CountedIsExpected
  <1>1. TypeInv /\ scene \in Scenes
    BY DEF FullSafe, TypeInv
  <1>2. FullInv(Books) \/ ShortInv(Books)
    BY <1>1 DEF OneSided, FullSafe, ShortSafe
  <1> QED BY <1>1, <1>2, FullSays, ShortSays

\* Both legs of what is booked are held, the rest leg delivered or due: however
\* many shares an order has, however often reads fail, deliveries are late or
\* never come, unwinds are thin, the process crashes, and, with one order,
\* hedges are short or their answers lost.
THEOREM BookedStaysHeld ==
    ASSUME OneSided
    PROVE  Spec => []BookedIsHeld
  <1>1. FullSafe /\ ShortSafe => BookedIsHeld
    BY SafeSays
  <1> QED BY <1>1, FullInvariant, ShortInvariant, PTL

\* No rest share is registered without its hedge.
THEOREM RestStaysHedged ==
    ASSUME OneSided
    PROVE  Spec => []RestIsHedged
  <1>1. FullSafe /\ ShortSafe => RestIsHedged
    BY SafeSays
  <1> QED BY <1>1, FullInvariant, ShortInvariant, PTL

\* What the open order counts as hedged is expected on the hedge leg, so a later
\* fill is never taken for hedged by shares that were sold again.
THEOREM CountStaysExpected ==
    ASSUME OneSided
    PROVE  Spec => []CountedIsExpected
  <1>1. FullSafe /\ ShortSafe => CountedIsExpected
    BY SafeSays
  <1> QED BY <1>1, FullInvariant, ShortInvariant, PTL
=============================================================================
