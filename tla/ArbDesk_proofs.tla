---------------------------- MODULE ArbDesk_proofs ----------------------------
(***************************************************************************)
(* The taker executor keeps what the hedge desk promises (HedgeDesk), for  *)
(* every set of legs, every size and every minimum order, as long as no    *)
(* fault of Faults happens; the maker's process and its watch of the trees *)
(* keep RuntimeKept; the sale of a naked fill keeps ExitKept; the ledger,  *)
(* the lifetime numbers and the paper maker's sheet keep CountersTell.     *)
(*                                                                         *)
(* The taker: there is a base, the size every leg was held at before the   *)
(* trade under way, and what a leg is held at is the base, what the trade  *)
(* is to leave, and what is still to be sold back (Position).  The check   *)
(* of the positions compares with the matched size alone, so a Kalshi leg  *)
(* that passes it shows that the base was nothing and the sales were       *)
(* complete; Polymarket's sales are complete by the absence of faults.     *)
(*                                                                         *)
(* The maker: the lock is the running maker's, and what rests is its own,  *)
(* a smoke test's, or of a venue still to be swept (MakerInv).  The watch: *)
(* the universe holds the nearest games of the trees, because a game with  *)
(* N games before it has N before it among those that have fewer than N    *)
(* (WatchInv, NearestSuffice).                                             *)
(*                                                                         *)
(* The exit sale: what is to be sold never exceeds what is held beyond the *)
(* legs kept on purpose, and what the sales lost is booked or on its way   *)
(* into the books (ExitInv).                                               *)
(*                                                                         *)
(* The counters: while no trade ended in a halt the base is what the rows  *)
(* of the trades that are over add up to (Tells); a restart reads back     *)
(* books that are right (LifeInv); the sheet is compared with the state    *)
(* that was saved and, until the next is saved, with that of the memory    *)
(* (LoopInv).                                                              *)
(***************************************************************************)
EXTENDS ArbDesk, SumTheorems, SequenceTheorems

\* The legs of both venues.
Legs == KalshiLegs \cup PolyLegs

\* The fills a trade has so far.
Got(f, s) == {f[l] : l \in {x \in Legs : f[x] > 0}} \cup {s}

\* The least of one more.
LEMMA LeastOfMore ==
    ASSUME NEW S \in SUBSET Nat, S # {}, NEW g \in Nat
    PROVE  LeastOf(S \cup {g}) = Taker!SmallerOf(LeastOf(S), g)
  <1> DEFINE T == S \cup {g}
             m == LeastOf(S)
             n == LeastOf(T)
  <1>1. m \in S /\ \A x \in S : m <= x
    BY LeastIsLeast
  <1>2. n \in T /\ \A x \in T : n <= x
    <2>1. T \in SUBSET Nat /\ T # {}
      OBVIOUS
    <2> HIDE DEF T
    <2> QED BY <2>1, LeastIsLeast
  <1>3. m \in Nat /\ n \in Nat /\ m \in T /\ g \in T
    BY <1>1, <1>2
  <1>4. n <= m /\ n <= g /\ (n = g \/ m <= n)
    BY <1>1, <1>2, <1>3
  <1> HIDE DEF m, n
  <1>5. n = Taker!SmallerOf(m, g)
    BY <1>3, <1>4 DEF Taker!SmallerOf
  <1> QED BY <1>5 DEF m, n

\* realized_min is a size between nothing and the planned one, and no fill
\* that is there is below it.
LEMMA RealizedFacts ==
    ASSUME NEW f \in [Legs -> Nat], NEW s \in Nat
    PROVE  /\ Got(f, s) \in SUBSET Nat /\ Got(f, s) # {}
           /\ LeastOf(Got(f, s)) \in Nat /\ LeastOf(Got(f, s)) <= s
           /\ \A l \in Legs : f[l] > 0 => LeastOf(Got(f, s)) <= f[l]
           /\ s > 0 => LeastOf(Got(f, s)) > 0
  <1>1. /\ Got(f, s) \in SUBSET Nat /\ s \in Got(f, s)
        /\ \A l \in Legs : f[l] > 0 => f[l] \in Got(f, s)
        /\ (s > 0 => \A x \in Got(f, s) : x > 0)
    BY DEF Got
  <1>2. LeastOf(Got(f, s)) \in Got(f, s) /\ \A x \in Got(f, s) : LeastOf(Got(f, s)) <= x
    BY <1>1, LeastIsLeast
  <1> QED BY <1>1, <1>2

\* The rows of the ledger, whatever losses they tell.
RowsOf(L) ==
    Seq([print : Prints, status : Taker!Statuses, matched : Nat, loss : L, unread : BOOLEAN])

\* Ledger.update rewrites the last row and no other.
LEMMA UpdateRow ==
    ASSUME NEW L, rows \in RowsOf(L), Len(rows) > 0,
           NEW status \in Taker!Statuses, NEW m \in Nat, NEW loss_, Taker!Update(status, m, loss_)
    PROVE  /\ rows' \in RowsOf(L \cup {loss_}) /\ Len(rows') = Len(rows)
           /\ rows'[Len(rows')].matched = m
           /\ \A i \in 1..(Len(rows) - 1) : rows'[i] = rows[i]
  <1> DEFINE n == Len(rows)
             R(X) == [print : Prints, status : Taker!Statuses, matched : Nat, loss : X,
                      unread : BOOLEAN]
             M == L \cup {loss_}
             r == [rows[n] EXCEPT !.status = status, !.matched = m, !.loss = loss_]
  <1>1. rows \in Seq(R(L))
    BY DEF RowsOf
  <1>2. n \in 1..Len(rows)
    <2> HIDE DEF R
    <2> QED BY <1>1, LenProperties
  <1>3. rows[n] \in R(L)
    <2> HIDE DEF R
    <2> QED BY <1>1, <1>2, ElementOfSeq
  <1>4. r \in R(M) /\ r.matched = m
    BY <1>3
  <1>5. rows \in Seq(R(M))
    <2>1. R(L) \subseteq R(M)
      OBVIOUS
    <2> HIDE DEF R
    <2> QED BY <1>1, <2>1, SeqMonotonic
  <1>6. rows' = [rows EXCEPT ![n] = r]
    BY DEF Taker!Update
  <1> HIDE DEF r, R, M
  <1>7. /\ rows' \in Seq(R(M)) /\ Len(rows') = Len(rows)
        /\ \A j \in 1..Len(rows) : rows'[j] = IF j = n THEN r ELSE rows[j]
    BY <1>2, <1>4, <1>5, <1>6, ExceptSeq
  <1>8. rows'[n] = r /\ \A i \in 1..(n - 1) : rows'[i] = rows[i]
    <2>1. \A i \in 1..(n - 1) : i \in 1..Len(rows) /\ i # n
      BY <1>2
    <2> QED BY <1>2, <1>7, <2>1
  <1> QED BY <1>4, <1>7, <1>8 DEF RowsOf, R, M
-----------------------------------------------------------------------------
(* The inductive invariant. *)

\* Nothing is bought yet.
Asked(b) == \A l \in Legs : held[l] = b /\ fills[l] = 0

\* What a leg is held at beyond b is its fill, and the legs with none are left
\* to fire.
Firing(b) ==
    /\ \A l \in Legs : held[l] = b + fills[l]
    /\ trade.left # <<>>
    /\ \A l \in Legs : fills[l] = 0 <=> \E i \in 1..Len(trade.left) : trade.left[i] = l

\* What is held beyond b and the m every leg is to end at is still to be sold;
\* a sale on Kalshi may have sold less.
Selling(b, m) ==
    /\ m \in Nat
    /\ \A l \in Legs : held[l] >= b + m + excess[l]
    /\ \A l \in PolyLegs : held[l] = b + m + excess[l]

\* Where the trade under way is, each leg is b, what was held before it, and
\* what the trade bought and has not sold back.
Position(b) ==
    /\ phase = "idle" /\ ~halted => \A l \in Legs : held[l] = b
    /\ phase = "asking" => Asked(b)
    /\ phase = "firing" => Firing(b)
    /\ phase = "failed" => Selling(b, 0)
    /\ phase = "matched" => Selling(b, LeastOf(Got(fills, trade.size)))
    /\ phase = "verifying" => Selling(b, rows[Len(rows)].matched)

\* The rows of the trades that are over: from its submission on, the last row is
\* that of the trade under way.
Over(p, r) == IF p \in {"idle", "asking"} THEN 1..Len(r) ELSE 1..(Len(r) - 1)

\* None of the rows of S ended in a halt.
Settled(r, S) == \A i \in S : r[i].status \in Taker!Closing /\ ~r[i].unread

\* What the rows of S say that every leg was left with.
LeftBy(r, S) == Total([i \in 1..Len(r) |-> r[i].matched], S)

\* While no trade ended in a halt, the base is what the trades that are over left,
\* and between two trades every leg is held at it.
Tells(b, p, r, h) ==
    Settled(r, Over(p, r)) =>
        IF p = "idle" THEN \A l \in Legs : h[l] = LeftBy(r, Over(p, r))
        ELSE b = LeftBy(r, Over(p, r))

Told(b) == Tells(b, phase, rows, held)

\* The trades there may be.
Trades == [print : Prints, size : Nat \ {0}, left : Seq(Legs)]

\* The legs still to fire are each there once.
Distinct(s) == \A i, j \in 1..Len(s) : s[i] = s[j] => i = j

\* The types, as far as the proof needs them.
TakerState ==
    /\ halted \in BOOLEAN
    /\ held \in [Legs -> Nat]
    /\ phase \in {"idle", "asking", "firing", "failed", "matched", "verifying"}
    /\ phase # "idle" => trade \in Trades
    /\ phase = "asking" => trade.left \in Taker!FiringOrders
    /\ phase = "firing" => Distinct(trade.left)
    /\ fills \in [Legs -> Nat]
    /\ excess \in [Legs -> Nat]
    /\ phase \in {"idle", "asking", "firing", "verifying"} => \A l \in Legs : excess[l] = 0
    /\ \E L : rows \in RowsOf(L)
    /\ phase \in {"firing", "failed", "matched", "verifying"} => Len(rows) > 0

\* The invariant.
TakerInv == TakerState /\ \E b \in Nat : Position(b) /\ Told(b)

\* A step is one of the desk, or none.
Mapped == [Taker!Desk!Next]_(Taker!Desk!vars)

\* Seen from the desk nothing happened: the position is as even as it was, or
\* a trade is under way before and after.
LEMMA DeskStutters ==
    ASSUME halted' = halted,
           \/ phase' = phase /\ held' = held
           \/ phase # "idle" /\ phase' # "idle"
    PROVE  Mapped
  BY DEF Mapped, Taker!Desk!vars, Taker!AllEven, Taker!TakerLegs

\* The first k rows of a ledger say what they said, whatever comes after them.
LEMMA SameRows ==
    ASSUME NEW L, NEW r \in RowsOf(L), NEW M, NEW s \in RowsOf(M), NEW k \in Nat,
           k <= Len(r), k <= Len(s), \A i \in 1..k : s[i] = r[i]
    PROVE  (Settled(s, 1..k) <=> Settled(r, 1..k)) /\ LeftBy(s, 1..k) = LeftBy(r, 1..k)
  <1> DEFINE g == [i \in 1..Len(r) |-> r[i].matched]
             h == [i \in 1..Len(s) |-> s[i].matched]
  <1>1. Len(r) \in Nat /\ Len(s) \in Nat
    BY LenProperties DEF RowsOf
  <1>2. \A i \in 1..k : h[i] = g[i]
    BY <1>1
  <1> DEFINE S == 1..k
  <1>3. IsFiniteSet(S) /\ \A i \in S : h[i] = g[i]
    <2>1. IsFiniteSet(1..k)
      BY FS_Interval
    <2> HIDE DEF g, h
    <2> QED BY <1>2, <2>1
  <1> HIDE DEF g, h, S
  <1>4. Total(h, S) = Total(g, S)
    BY <1>3, TotalSame
  <1> QED BY <1>4 DEF Settled, LeftBy, g, h, S

\* A ledger left what its last row says and what the rows before it left.
LEMMA LastRowCounts ==
    ASSUME NEW L, NEW r \in RowsOf(L), Len(r) > 0
    PROVE  LeftBy(r, 1..Len(r)) = r[Len(r)].matched + LeftBy(r, 1..(Len(r) - 1))
  <1> DEFINE g == [i \in 1..Len(r) |-> r[i].matched]
             n == Len(r)
             R == [print : Prints, status : Taker!Statuses, matched : Nat, loss : L,
                   unread : BOOLEAN]
  <1>1. n \in Nat \ {0} /\ r \in Seq(R)
    BY LenProperties DEF RowsOf
  <1>2. \A i \in 1..n : g[i] \in Int
    <2>1. \A i \in 1..n : r[i] \in R
      <3> HIDE DEF R
      <3> QED BY <1>1, ElementOfSeq
    <2> QED BY <2>1
  <1>3. n \in 1..n /\ g[n] = r[n].matched /\ (1..n) \ {n} = 1..(n - 1)
    BY <1>1
  <1> DEFINE S == 1..n
  <1>5. IsFiniteSet(S) /\ n \in S /\ \A i \in S : g[i] \in Int
    BY <1>1, <1>2, <1>3, FS_Interval
  <1> HIDE DEF g, n, S
  <1>4. Total(g, S) = g[n] + Total(g, S \ {n})
    BY <1>5, TotalWithout
  <1> QED BY <1>3, <1>4 DEF LeftBy, g, n, S

\* A trade is over, and every leg is held at the base and what its row left.
LEMMA OverTells ==
    ASSUME NEW b \in Nat, NEW L, NEW r \in RowsOf(L), NEW M, NEW s \in RowsOf(M), NEW h, NEW p,
           p \notin {"idle", "asking"}, Tells(b, p, r, h), Len(r) > 0, Len(s) = Len(r),
           \A i \in 1..(Len(r) - 1) : s[i] = r[i],
           NEW g, \A l \in Legs : g[l] = b + s[Len(s)].matched,
           NEW c
    PROVE  Tells(c, "idle", s, g)
  <1> DEFINE n == Len(r)
             m == s[Len(s)].matched
  <1>1. n \in Nat \ {0}
    BY LenProperties DEF RowsOf
  <1>2. SUFFICES ASSUME Settled(s, 1..n)
                 PROVE  b + m = LeftBy(s, 1..n)
    BY DEF Tells, Over
  <1>3. Settled(s, 1..(n - 1))
    BY <1>1, <1>2 DEF Settled
  <1>4. Settled(r, 1..(n - 1)) /\ LeftBy(s, 1..(n - 1)) = LeftBy(r, 1..(n - 1))
    BY <1>1, <1>3, SameRows
  <1>5. b = LeftBy(r, 1..(n - 1))
    BY <1>4 DEF Tells, Over
  <1>6. LeftBy(s, 1..n) = m + LeftBy(s, 1..(n - 1))
    BY LastRowCounts
  <1>7. m \in Nat
    <2> DEFINE R == [print : Prints, status : Taker!Statuses, matched : Nat, loss : M,
                     unread : BOOLEAN]
    <2>1. s \in Seq(R) /\ Len(s) \in 1..Len(s)
      BY <1>1 DEF RowsOf
    <2>2. s[Len(s)] \in R
      <3> HIDE DEF R
      <3> QED BY <2>1, ElementOfSeq
    <2> QED BY <2>2
  <1> HIDE DEF m, n
  <1> QED BY <1>4, <1>5, <1>6, <1>7

\* An order of firing names every leg once.
LEMMA FiringOrderFacts ==
    ASSUME NEW o \in Taker!FiringOrders
    PROVE  /\ o \in Seq(Legs) /\ o # <<>> /\ Distinct(o)
           /\ \A l \in Legs : \E i \in 1..Len(o) : o[i] = l
  <1> DEFINE n == Cardinality(Legs)
  <1>1. IsFiniteSet(Legs) /\ n \in Nat /\ n # 0
    BY TakerAssumption, FS_Union, FS_CardinalityType, FS_EmptySet DEF Legs
  <1>2. o \in [1..n -> Legs] /\ \A i, j \in 1..n : o[i] = o[j] => i = j
    <2>1. o \in [1..n -> Legs] /\ \A i, j \in DOMAIN o : o[i] = o[j] => i = j
      <3>1. Taker!TakerLegs = Legs
        BY DEF Taker!TakerLegs, Legs
      <3> HIDE DEF Legs
      <3>2. Taker!Cardinality(Legs) = n
        BY DEF Taker!Cardinality, Cardinality
      <3> HIDE DEF n
      <3> QED BY <3>1, <3>2 DEF Taker!FiringOrders
    <2> HIDE DEF n
    <2> QED BY <2>1
  <1>3. IsFiniteSet(1..n) /\ Cardinality(1..n) = n
    BY <1>1, FS_Interval
  <1>4. o \in Injection(1..n, Legs)
    BY <1>2 DEF Injection, IsInjective
  <1>5. o \in Surjection(1..n, Legs)
    BY <1>1, <1>3, <1>4, FS_Injection
  <1>6. \A l \in Legs : \E i \in 1..n : o[i] = l
    BY <1>5 DEF Surjection
  <1>7. o \in Seq(Legs)
    BY <1>1, <1>2, SeqDef
  <1>8. Len(o) = n
    <2>1. DOMAIN o = 1..n /\ DOMAIN o = 1..Len(o) /\ Len(o) \in Nat
      BY <1>2, <1>7, LenProperties
    <2> HIDE DEF n
    <2> QED BY <1>1, <2>1
  <1>9. o # <<>>
    BY <1>1, <1>7, <1>8
  <1> QED BY <1>2, <1>6, <1>7, <1>8, <1>9 DEF Distinct
-----------------------------------------------------------------------------
\* The guardrails agree on an even position, and nothing is bought yet.
LEMMA AgreedStep ==
    ASSUME TakerInv, NEW p \in Prints, NEW n \in 1..MaxSize,
           NEW o \in Taker!FiringOrders, Taker!Agreed(p, n, o)
    PROVE  TakerInv' /\ Mapped
  <1>1. PICK b \in Nat : Position(b) /\ Told(b)
    BY DEF TakerInv
  <1>2. /\ phase = "idle" /\ ~halted /\ phase' = "asking" /\ halted' = halted
        /\ trade' = [print |-> p, size |-> n, left |-> o]
        /\ fills' = [l \in Legs |-> 0] /\ held' = held /\ excess' = excess /\ rows' = rows
    BY DEF Taker!Agreed, Taker!NoFills, Taker!TakerLegs, Legs
  <1>3. \A l \in Legs : held[l] = b
    BY <1>1, <1>2 DEF Position
  <1>4. trade' \in Trades /\ trade'.left \in Taker!FiringOrders'
    <2>1. o \in Seq(Legs) /\ n \in Nat \ {0}
      BY FiringOrderFacts, TakerAssumption
    <2>2. Taker!FiringOrders' = Taker!FiringOrders
      BY DEF Taker!FiringOrders, Taker!TakerLegs
    <2> QED BY <1>2, <2>1, <2>2 DEF Trades
  <1>5. TakerState'
    BY <1>2, <1>4 DEF TakerInv, TakerState
  <1>6. Position(b)'
    BY <1>2, <1>3 DEF Position, Asked
  <1>7. Taker!Desk!Begin
    BY <1>2, <1>3 DEF Taker!Desk!Begin, Taker!AllEven, Taker!TakerLegs, Legs
  <1>8. Told(b)'
    <2>1. Settled(rows, 1..Len(rows)) => \A l \in Legs : held[l] = LeftBy(rows, 1..Len(rows))
      BY <1>1, <1>2 DEF Told, Tells, Over
    <2>2. \E l \in Legs : TRUE
      BY TakerAssumption DEF Legs
    <2>3. Settled(rows, 1..Len(rows)) => b = LeftBy(rows, 1..Len(rows))
      BY <1>3, <2>1, <2>2
    <2> QED BY <1>2, <2>3 DEF Told, Tells, Over
  <1> QED BY <1>5, <1>6, <1>7, <1>8 DEF TakerInv, Mapped, Taker!Desk!Next

\* The submit row is on disk before any leg fires.
LEMMA SubmitStep ==
    ASSUME TakerInv, Taker!Submit
    PROVE  TakerInv' /\ Mapped
  <1>1. PICK b \in Nat : Position(b) /\ Told(b)
    BY DEF TakerInv
  <1>2. /\ phase = "asking" /\ phase' = "firing" /\ halted' = halted
        /\ trade' = trade /\ fills' = fills /\ held' = held /\ excess' = excess
        /\ rows' = Append(rows, Taker!Row(trade.print))
    BY DEF Taker!Submit
  <1>3. trade \in Trades /\ trade.left \in Taker!FiringOrders
    BY <1>2 DEF TakerInv, TakerState
  <1>4. /\ \E L, M : rows \in RowsOf(L) /\ rows' \in RowsOf(M)
        /\ Len(rows') > 0 /\ Len(rows') = Len(rows) + 1 /\ Len(rows) \in Nat
        /\ \A i \in 1..Len(rows) : rows'[i] = rows[i]
    <2>1. PICK L : rows \in RowsOf(L)
      BY DEF TakerInv, TakerState
    <2> DEFINE R(X) == [print : Prints, status : Taker!Statuses, matched : Nat, loss : X,
                        unread : BOOLEAN]
               M == L \cup {0}
               r == Taker!Row(trade.print)
    <2>2. rows \in Seq(R(M))
      <3>1. R(L) \subseteq R(M) /\ rows \in Seq(R(L))
        BY <2>1 DEF RowsOf
      <3> HIDE DEF R
      <3> QED BY <3>1, SeqMonotonic
    <2>3. r \in R(M)
      <3>1. trade.print \in Prints
        BY <1>3 DEF Trades
      <3>2. "submitted" \in Taker!Statuses /\ 0 \in Nat /\ FALSE \in BOOLEAN /\ 0 \in M
        BY DEF Taker!Statuses
      <3> HIDE DEF M
      <3> QED BY <3>1, <3>2 DEF Taker!Row
    <2> HIDE DEF R, r
    <2>4. rows' \in Seq(R(M)) /\ Len(rows') = Len(rows) + 1 /\ Len(rows) \in Nat
      BY <1>2, <2>2, <2>3, AppendProperties, LenProperties DEF r
    <2>5. rows' \in RowsOf(M) /\ Len(rows') > 0
      BY <2>4 DEF R, RowsOf
    <2>6. \A i \in 1..Len(rows) : rows'[i] = rows[i]
      <3>1. r \in R(M)
        BY <2>3
      <3> QED BY <1>2, <2>2, <3>1, AppendProperties DEF r
    <2> QED BY <2>1, <2>4, <2>5, <2>6
  <1>5. /\ trade.left # <<>> /\ Distinct(trade.left)
        /\ \A l \in Legs : \E i \in 1..Len(trade.left) : trade.left[i] = l
    BY <1>3, FiringOrderFacts
  <1>6. TakerState'
    BY <1>2, <1>3, <1>4, <1>5 DEF TakerInv, TakerState, Distinct
  <1>7. Position(b)'
    <2>1. \A l \in Legs : held[l] = b /\ fills[l] = 0
      BY <1>1, <1>2 DEF Position, Asked
    <2> QED BY <1>2, <1>5, <2>1 DEF Position, Firing
  <1>8. Told(b)'
    <2> DEFINE n == Len(rows)
    <2>1. Settled(rows, 1..n) => b = LeftBy(rows, 1..n)
      BY <1>1, <1>2 DEF Told, Tells, Over
    <2>2. 1..(Len(rows') - 1) = 1..n
      BY <1>4
    <2>3. /\ Settled(rows', 1..n) <=> Settled(rows, 1..n)
          /\ LeftBy(rows', 1..n) = LeftBy(rows, 1..n)
      BY <1>4, SameRows
    <2> QED BY <1>2, <2>1, <2>2, <2>3 DEF Told, Tells, Over
  <1> QED BY <1>2, <1>6, <1>7, <1>8, DeskStutters DEF TakerInv
-----------------------------------------------------------------------------
(* The orders. *)

\* What the leg being fired is, and what is left when it is done.
LEMMA NextLeg ==
    ASSUME TakerInv, phase = "firing"
    PROVE  LET s == trade.left IN
           /\ s \in Seq(Legs) /\ s # <<>> /\ Distinct(s)
           /\ Head(s) \in Legs /\ fills[Head(s)] = 0
           /\ Tail(s) \in Seq(Legs) /\ Distinct(Tail(s)) /\ Len(Tail(s)) = Len(s) - 1
           /\ Len(s) \in Nat \ {0}
           /\ \A l \in Legs : (l # Head(s) /\ fills[l] = 0)
                <=> \E i \in 1..Len(Tail(s)) : Tail(s)[i] = l
  <1> DEFINE s == trade.left
  <1>1. PICK b \in Nat : Firing(b)
    BY DEF TakerInv, Position
  <1>2. s \in Seq(Legs) /\ s # <<>> /\ Distinct(s)
    BY <1>1 DEF TakerInv, TakerState, Trades, Firing
  <1>3. \A l \in Legs : fills[l] = 0 <=> \E i \in 1..Len(s) : s[i] = l
    BY <1>1 DEF Firing
  <1> HIDE DEF s
  <1>4. Len(s) \in Nat \ {0} /\ Head(s) = s[1] /\ s[1] \in Legs
    <2>1. Len(s) \in Nat \ {0}
      BY <1>2, EmptySeq
    <2> QED BY <1>2, <2>1, ElementOfSeq
  <1>5. /\ Tail(s) \in Seq(Legs) /\ Len(Tail(s)) = Len(s) - 1
        /\ \A i \in 1..Len(Tail(s)) : Tail(s)[i] = s[i + 1]
    BY <1>2, HeadTailProperties
  <1>6. Distinct(Tail(s))
    <2> SUFFICES ASSUME NEW i \in 1..Len(Tail(s)), NEW j \in 1..Len(Tail(s)),
                        Tail(s)[i] = Tail(s)[j]
                 PROVE  i = j
      BY DEF Distinct
    <2>1. i + 1 \in 1..Len(s) /\ j + 1 \in 1..Len(s) /\ s[i + 1] = s[j + 1]
      BY <1>4, <1>5
    <2>2. i + 1 = j + 1
      BY <1>2, <2>1 DEF Distinct
    <2> QED BY <1>4, <1>5, <2>2
  <1>7. ASSUME NEW l \in Legs
        PROVE  (l # Head(s) /\ fills[l] = 0) <=> \E i \in 1..Len(Tail(s)) : Tail(s)[i] = l
    <2>1. ASSUME NEW i \in 1..Len(Tail(s)), Tail(s)[i] = l
          PROVE  l # Head(s) /\ fills[l] = 0
      <3>1. i + 1 \in 1..Len(s) /\ i + 1 # 1 /\ 1 \in 1..Len(s) /\ s[i + 1] = l
        BY <1>4, <1>5, <2>1
      <3>2. s[i + 1] # s[1]
        BY <1>2, <3>1 DEF Distinct
      <3> QED BY <1>3, <1>4, <3>1, <3>2
    <2>2. ASSUME l # Head(s), fills[l] = 0
          PROVE  \E i \in 1..Len(Tail(s)) : Tail(s)[i] = l
      <3>1. PICK j \in 1..Len(s) : s[j] = l
        BY <1>3, <2>2
      <3>2. j # 1 /\ j - 1 \in 1..Len(Tail(s))
        BY <1>4, <1>5, <2>2, <3>1
      <3>3. Tail(s)[j - 1] = s[(j - 1) + 1] /\ (j - 1) + 1 = j
        BY <1>5, <3>2
      <3> QED BY <3>1, <3>2, <3>3
    <2> QED BY <2>1, <2>2
  <1>8. fills[Head(s)] = 0
    BY <1>3, <1>4
  <1> QED BY <1>2, <1>4, <1>5, <1>6, <1>7, <1>8 DEF s

\* The fill g of the leg being fired is added to it and to what is held of it.
LEMMA LegFilled ==
    ASSUME TakerInv, phase = "firing", NEW b \in Nat, Firing(b), NEW g \in Nat,
           fills' = [fills EXCEPT ![Head(trade.left)] = g],
           held' = [held EXCEPT ![Head(trade.left)] = @ + g]
    PROVE  /\ fills' \in [Legs -> Nat] /\ held' \in [Legs -> Nat]
           /\ \A l \in Legs : held'[l] = b + fills'[l]
  <1>1. Head(trade.left) \in Legs /\ fills[Head(trade.left)] = 0
    BY NextLeg
  <1>2. fills \in [Legs -> Nat] /\ held \in [Legs -> Nat]
    BY DEF TakerInv, TakerState
  <1>3. \A l \in Legs : held[l] = b + fills[l]
    BY DEF Firing
  <1> QED BY <1>1, <1>2, <1>3

\* A leg filled and legs remain.
LEMMA FilledStep ==
    ASSUME TakerInv, phase = "firing", NEW g \in Nat \ {0},
           fills' = [fills EXCEPT ![Head(trade.left)] = g],
           held' = [held EXCEPT ![Head(trade.left)] = @ + g],
           trade' = [trade EXCEPT !.left = Tail(@)], Len(trade.left) > 1,
           phase' = "firing", UNCHANGED <<excess, rows, halted>>
    PROVE  TakerInv' /\ Mapped
  <1> DEFINE s == trade.left
             h == Head(s)
  <1>1. PICK b \in Nat : Firing(b) /\ Told(b)
    BY DEF TakerInv, Position
  <1>2. /\ fills' \in [Legs -> Nat] /\ held' \in [Legs -> Nat]
        /\ \A l \in Legs : held'[l] = b + fills'[l]
    BY <1>1, LegFilled
  <1>3. trade' \in Trades /\ trade'.left = Tail(s) /\ Tail(s) # <<>> /\ Distinct(Tail(s))
    <2>1. trade \in Trades
      BY DEF TakerInv, TakerState
    <2>2. Tail(s) \in Seq(Legs) /\ Distinct(Tail(s)) /\ Len(Tail(s)) = Len(s) - 1 /\ Len(s) \in Nat
      BY NextLeg
    <2>3. Tail(s) # <<>>
      <3>1. Len(s) > 1
        OBVIOUS
      <3> HIDE DEF s
      <3>2. Len(Tail(s)) # 0
        BY <2>2, <3>1, SMTT(30)
      <3> QED BY <2>2, <3>2, EmptySeq
    <2> QED BY <2>1, <2>2, <2>3 DEF Trades
  <1>4. \A l \in Legs : fills'[l] = 0 <=> \E i \in 1..Len(Tail(s)) : Tail(s)[i] = l
    <2>1. \A l \in Legs : (l # h /\ fills[l] = 0) <=> \E i \in 1..Len(Tail(s)) : Tail(s)[i] = l
      BY NextLeg
    <2>2. fills \in [Legs -> Nat] /\ h \in Legs
      BY NextLeg DEF TakerInv, TakerState
    <2>3. \A l \in Legs : fills'[l] = IF l = h THEN g ELSE fills[l]
      BY <2>2
    <2> HIDE DEF s, h
    <2> QED BY <2>1, <2>3
  <1>5. TakerState'
    BY <1>2, <1>3 DEF TakerInv, TakerState, Distinct
  <1>6. Position(b)'
    BY <1>2, <1>3, <1>4 DEF Position, Firing
  <1>7. Told(b)'
    BY <1>1 DEF Told, Tells, Over
  <1> QED BY <1>5, <1>6, <1>7, DeskStutters DEF TakerInv

\* The last leg filled: what exceeds the smallest fill is to be sold back.
LEMMA LastFilledStep ==
    ASSUME TakerInv, phase = "firing", NEW g \in Nat \ {0},
           fills' = [fills EXCEPT ![Head(trade.left)] = g],
           held' = [held EXCEPT ![Head(trade.left)] = @ + g],
           trade' = [trade EXCEPT !.left = Tail(@)], ~(Len(trade.left) > 1),
           phase' = "matched", UNCHANGED <<rows, halted>>,
           excess' = [x \in Taker!TakerLegs |->
                        fills'[x] - Taker!SmallerOf(Taker!Realized, g)]
    PROVE  TakerInv' /\ Mapped
  <1> DEFINE s == trade.left
             h == Head(s)
             G == Got(fills, trade.size)
             H == Got(fills', trade'.size)
             m == LeastOf(H)
  <1>1. PICK b \in Nat : Firing(b) /\ Told(b)
    BY DEF TakerInv, Position
  <1>2. /\ fills' \in [Legs -> Nat] /\ held' \in [Legs -> Nat]
        /\ \A l \in Legs : held'[l] = b + fills'[l]
    BY <1>1, LegFilled
  <1>3. /\ trade \in Trades /\ trade' \in Trades /\ trade'.size = trade.size
        /\ trade.size \in Nat \ {0}
    <2>1. trade \in Trades
      BY DEF TakerInv, TakerState
    <2>2. Tail(s) \in Seq(Legs)
      BY NextLeg
    <2> QED BY <2>1, <2>2 DEF Trades
  <1>4. fills \in [Legs -> Nat] /\ h \in Legs /\ fills[h] = 0
        /\ \A l \in Legs : fills'[l] = IF l = h THEN g ELSE fills[l]
    BY NextLeg DEF TakerInv, TakerState
  <1>5. \A l \in Legs : fills'[l] > 0
    <2>1. /\ Len(Tail(s)) = Len(s) - 1 /\ Len(s) \in Nat \ {0}
          /\ \A l \in Legs : (l # h /\ fills[l] = 0)
                <=> \E i \in 1..Len(Tail(s)) : Tail(s)[i] = l
      BY NextLeg
    <2>2. ~(Len(s) > 1)
      OBVIOUS
    <2> HIDE DEF s, h
    <2>3. Len(Tail(s)) = 0
      BY <2>1, <2>2
    <2>4. ASSUME NEW i \in 1..Len(Tail(s)) PROVE FALSE
      <3>1. i \in 1..0
        BY <2>3
      <3> QED BY <3>1
    <2>5. \A l \in Legs : l # h => fills[l] # 0
      BY <2>1, <2>4
    <2> QED BY <1>4, <2>5
  <1>6. H = G \cup {g}
    <2> HIDE DEF h
    <2> QED BY <1>3, <1>4 DEF Got
  <1>7. m = Taker!SmallerOf(Taker!Realized, g)
    <2>1. Taker!Realized = LeastOf(G)
      BY DEF Taker!Realized, Taker!TakerLegs, LeastOf, Got, Legs
    <2>2. G \in SUBSET Nat /\ G # {}
      BY <1>3, <1>4, RealizedFacts
    <2> HIDE DEF G, H
    <2> QED BY <1>6, <2>1, <2>2, LeastOfMore
  <1>8. m \in Nat /\ \A l \in Legs : m <= fills'[l]
    <2> HIDE DEF h
    <2> QED BY <1>2, <1>3, <1>5, RealizedFacts
  <1> HIDE DEF m, s, h, G, H
  <1>9. excess' \in [Legs -> Nat] /\ \A l \in Legs : excess'[l] = fills'[l] - m
    <2>1. excess' = [x \in Legs |-> fills'[x] - m]
      BY <1>7 DEF Taker!TakerLegs, Legs
    <2> QED BY <1>2, <1>8, <2>1
  <1>10. /\ \A l \in Legs : held'[l] >= b + m + excess'[l]
         /\ \A l \in PolyLegs : held'[l] = b + m + excess'[l]
    <2>1. \A l \in Legs : held'[l] = b + m + excess'[l]
      BY <1>2, <1>8, <1>9
    <2>2. \A l \in Legs : held'[l] \in Nat
      BY <1>2
    <2>3. \A l \in Legs : held'[l] >= held'[l]
      BY <2>2
    <2>4. \A l \in PolyLegs : l \in Legs
      BY DEF Legs
    <2> QED BY <2>1, <2>3, <2>4
  <1>11. TakerState'
    BY <1>2, <1>3, <1>9 DEF TakerInv, TakerState
  <1>12. Position(b)'
    BY <1>8, <1>10 DEF Position, Selling, m, H
  <1>13. Told(b)'
    BY <1>1 DEF Told, Tells, Over
  <1> QED BY <1>11, <1>12, <1>13, DeskStutters DEF TakerInv

\* A leg did not fill after others had: all of them are to be sold back.
LEMMA FailedStep ==
    ASSUME TakerInv, phase = "firing", held' = held, phase' = "failed",
           excess' = fills, UNCHANGED <<fills, trade, rows, halted>>
    PROVE  TakerInv' /\ Mapped
  <1>1. PICK b \in Nat : Firing(b) /\ Told(b)
    BY DEF TakerInv, Position
  <1>2. Selling(b, 0)'
    BY <1>1 DEF Selling, Firing, Legs, TakerInv, TakerState
  <1>3. TakerState'
    BY DEF TakerInv, TakerState
  <1>4. Position(b)'
    BY <1>2 DEF Position
  <1>5. Told(b)'
    BY <1>1 DEF Told, Tells, Over
  <1> QED BY <1>3, <1>4, <1>5, DeskStutters DEF TakerInv

\* The first leg did not fill: nothing was bought and the trade is over.
LEMMA NothingFilledStep ==
    ASSUME TakerInv, phase = "firing", held' = held, phase' = "idle",
           \A l \in Legs : fills[l] = 0,
           NEW status \in Taker!Statuses, Taker!Update(status, 0, 0),
           UNCHANGED <<fills, excess, halted>>
    PROVE  TakerInv' /\ Mapped
  <1>1. PICK b \in Nat : Firing(b) /\ Told(b)
    BY DEF TakerInv, Position
  <1>2. \A l \in Legs : held[l] = b
    BY <1>1 DEF Firing, TakerInv, TakerState
  <1>3. /\ \E L, M : rows \in RowsOf(L) /\ rows' \in RowsOf(M)
        /\ Len(rows) > 0 /\ Len(rows') = Len(rows) /\ rows'[Len(rows')].matched = 0
        /\ \A i \in 1..(Len(rows) - 1) : rows'[i] = rows[i]
    <2>1. PICK L : rows \in RowsOf(L)
      BY DEF TakerInv, TakerState
    <2>2. Len(rows) > 0
      BY DEF TakerInv, TakerState
    <2>3. 0 \in Nat
      OBVIOUS
    <2> QED BY <2>1, <2>2, <2>3, UpdateRow
  <1>4. TakerState'
    BY <1>3 DEF TakerInv, TakerState
  <1>5. Position(b)'
    BY <1>2 DEF Position
  <1>6. Taker!Desk!Finish
    BY <1>2 DEF Taker!Desk!Finish, Taker!AllEven, Taker!TakerLegs, Legs
  <1>7. Told(b)'
    <2>1. Tells(b, "firing", rows, held)
      BY <1>1 DEF Told
    <2>2. \A l \in Legs : held[l] = b + rows'[Len(rows')].matched
      BY <1>2, <1>3
    <2>3. Tells(b, "idle", rows', held)
      BY <1>3, <2>1, <2>2, OverTells
    <2> QED BY <2>3 DEF Told
  <1> QED BY <1>4, <1>5, <1>6, <1>7 DEF TakerInv, Mapped, Taker!Desk!Next

\* An order answers, or the call for it raises.
LEMMA FireStep ==
    ASSUME TakerInv, Faults = {}, Taker!Fire
    PROVE  TakerInv' /\ Mapped
  <1> DEFINE s == trade.left
             h == Head(s)
  <1>1. phase = "firing"
    BY DEF Taker!Fire
  <1>2. trade \in Trades /\ fills \in [Legs -> Nat] /\ held \in [Legs -> Nat] /\ h \in Legs
    BY <1>1, NextLeg DEF TakerInv, TakerState
  <1>3. PICK g \in Nat, wrong \in {0, 1} : Taker!Answered(h, g, g, wrong)
    <2>1. Taker!Realized \in Nat
      <3>1. Taker!Realized = LeastOf(Got(fills, trade.size))
        BY DEF Taker!Realized, Taker!TakerLegs, LeastOf, Got, Legs
      <3> QED BY <1>2, <3>1, RealizedFacts DEF Trades
    <2>2. Taker!MayFill(h, Taker!LegSize(h)) \subseteq Nat
      BY <2>1, TakerAssumption DEF Taker!MayFill, Taker!LegSize, Taker!LargerOf
    <2>3. \/ \E g \in Taker!MayFill(h, Taker!LegSize(h)) : Taker!Answered(h, g, g, 0)
          \/ Taker!Answered(h, 0, 0, 1)
      BY DEF Taker!Fire
    <2> QED BY <2>2, <2>3
  <1>4. held' = [held EXCEPT ![h] = @ + g]
    BY <1>3 DEF Taker!Answered
  <1>5. g = 0 => held' = held
    BY <1>2, <1>4
  <1>6. CASE g > 0
    <2>1. /\ fills' = [fills EXCEPT ![h] = g] /\ trade' = [trade EXCEPT !.left = Tail(@)]
          /\ UNCHANGED <<rows, halted>>
          /\ IF Len(trade.left) > 1
             THEN phase' = "firing" /\ UNCHANGED excess
             ELSE /\ phase' = "matched"
                  /\ excess' = [x \in Taker!TakerLegs |->
                                  fills'[x] - Taker!SmallerOf(Taker!Realized, g)]
      BY <1>3, <1>6 DEF Taker!Answered
    <2>2. g \in Nat \ {0}
      BY <1>6
    <2>3. CASE Len(trade.left) > 1
      BY <1>1, <1>4, <2>1, <2>2, <2>3, FilledStep
    <2>4. CASE ~(Len(trade.left) > 1)
      BY <1>1, <1>4, <2>1, <2>2, <2>4, LastFilledStep
    <2> QED BY <2>3, <2>4
  <1>7. CASE g = 0 /\ Taker!Prior # {}
    BY <1>1, <1>3, <1>5, <1>7, FailedStep DEF Taker!Answered
  <1>8. CASE g = 0 /\ Taker!Prior = {}
    <2>1. \A l \in Legs : fills[l] = 0
      BY <1>2, <1>8 DEF Taker!Prior, Taker!TakerLegs, Legs
    <2>2. \E status \in Taker!Statuses : Taker!Update(status, 0, 0)
      BY <1>3, <1>8 DEF Taker!Answered, Taker!Statuses, Taker!Closing
    <2> QED BY <1>1, <1>3, <1>5, <1>8, <2>1, <2>2, NothingFilledStep DEF Taker!Answered
  <1> QED BY <1>6, <1>7, <1>8
-----------------------------------------------------------------------------
(* The sales, the ledger and the check of the positions. *)

\* Any other change of the last row leaves a ledger.
LEMMA RewrittenRow ==
    ASSUME TakerInv, Len(rows) > 0,
           \/ rows' = [rows EXCEPT ![Len(rows)].unread = TRUE]
           \/ rows' = [rows EXCEPT ![Len(rows)].status = "unhedged_halt"]
    PROVE  /\ \E L : rows' \in RowsOf(L)
           /\ ~Settled(rows', 1..Len(rows'))
  <1>1. PICK L : rows \in RowsOf(L)
    BY DEF TakerInv, TakerState
  <1> DEFINE n == Len(rows)
             R == [print : Prints, status : Taker!Statuses, matched : Nat, loss : L,
                   unread : BOOLEAN]
  <1>2. rows \in Seq(R)
    BY <1>1 DEF RowsOf
  <1>3. n \in 1..Len(rows)
    <2> HIDE DEF R
    <2> QED BY <1>2, LenProperties
  <1>4. rows[n] \in R
    <2> HIDE DEF R
    <2> QED BY <1>2, <1>3, ElementOfSeq
  <1>5. PICK r \in R : /\ rows' = [rows EXCEPT ![n] = r]
                       /\ r.unread \/ r.status \notin Taker!Closing
    <2>1. CASE rows' = [rows EXCEPT ![n].unread = TRUE]
      <3>1. /\ [rows[n] EXCEPT !.unread = TRUE] \in R
            /\ [rows[n] EXCEPT !.unread = TRUE].unread
        BY <1>4
      <3> QED BY <2>1, <3>1
    <2>2. CASE rows' = [rows EXCEPT ![n].status = "unhedged_halt"]
      <3>1. /\ [rows[n] EXCEPT !.status = "unhedged_halt"] \in R
            /\ [rows[n] EXCEPT !.status = "unhedged_halt"].status \notin Taker!Closing
        BY <1>4 DEF Taker!Statuses, Taker!Closing
      <3> QED BY <2>2, <3>1
    <2> QED BY <2>1, <2>2
  <1>6. rows' \in Seq(R) /\ Len(rows') = n /\ rows'[n] = r
    <2> HIDE DEF R
    <2> QED BY <1>2, <1>3, <1>5, ExceptSeq
  <1>7. ~Settled(rows', 1..Len(rows'))
    BY <1>3, <1>5, <1>6 DEF Settled
  <1> QED BY <1>6, <1>7 DEF RowsOf

\* The person says no.
LEMMA DeclinedStep ==
    ASSUME TakerInv, Taker!Declined
    PROVE  TakerInv' /\ Mapped
  <1>1. PICK b \in Nat : Position(b) /\ Told(b)
    BY DEF TakerInv
  <1>2. /\ phase = "asking" /\ phase' = "idle" /\ halted' = halted
        /\ fills' = fills /\ held' = held /\ excess' = excess /\ rows' = rows
    BY DEF Taker!Declined
  <1>3. \A l \in Legs : held[l] = b
    BY <1>1, <1>2 DEF Position, Asked
  <1>4. TakerState'
    BY <1>2 DEF TakerInv, TakerState
  <1>5. Position(b)'
    BY <1>2, <1>3 DEF Position
  <1>6. Taker!Desk!Finish
    BY <1>2, <1>3 DEF Taker!Desk!Finish, Taker!AllEven, Taker!TakerLegs, Legs
  <1>7. Told(b)'
    BY <1>1, <1>2, <1>3 DEF Told, Tells, Over
  <1> QED BY <1>4, <1>5, <1>6, <1>7 DEF TakerInv, Mapped, Taker!Desk!Next

\* A leg is sold back: all of it on Polymarket, on Kalshi perhaps less.
LEMMA UnwindStep ==
    ASSUME TakerInv, Faults = {}, NEW l \in Legs, Taker!Unwind(l)
    PROVE  TakerInv' /\ Mapped
  <1>1. PICK b \in Nat : Position(b) /\ Told(b)
    BY DEF TakerInv
  <1>2. /\ phase \in {"failed", "matched"} /\ phase' = phase /\ halted' = halted
        /\ trade' = trade /\ fills' = fills /\ rows' = rows
        /\ excess' = [excess EXCEPT ![l] = 0]
    BY DEF Taker!Unwind
  <1>3. PICK s \in Taker!MaySell(l, excess[l]) : held' = [held EXCEPT ![l] = @ - s]
    BY Zenon DEF Taker!Unwind
  <1>4. held \in [Legs -> Nat] /\ excess \in [Legs -> Nat]
    BY DEF TakerInv, TakerState
  <1>5. s \in 0..excess[l] /\ (l \in PolyLegs => s = excess[l])
    BY <1>3, <1>4, TakerAssumption DEF Taker!MaySell, Legs
  <1>6. ASSUME NEW m, Selling(b, m)
        PROVE  held' \in [Legs -> Nat] /\ Selling(b, m)'
    <2>1. m \in Nat /\ held[l] >= b + m + excess[l]
      BY <1>6 DEF Selling
    <2>2. held[l] - s \in Nat /\ held[l] - s >= b + m
      BY <1>4, <1>5, <2>1
    <2>3. held' \in [Legs -> Nat]
      BY <1>3, <1>4, <2>2
    <2>4. \A k \in Legs : /\ held'[k] = IF k = l THEN held[l] - s ELSE held[k]
                          /\ excess'[k] = IF k = l THEN 0 ELSE excess[k]
      BY <1>2, <1>3, <1>4
    <2>5. \A k \in Legs : held'[k] >= b + m + excess'[k]
      BY <1>6, <2>1, <2>2, <2>4 DEF Selling
    <2>6. ASSUME NEW k \in PolyLegs PROVE held'[k] = b + m + excess'[k]
      <3>1. k \in Legs /\ held[k] = b + m + excess[k]
        BY <1>6 DEF Selling, Legs
      <3> QED BY <1>4, <1>5, <2>1, <2>4, <3>1
    <2> QED BY <2>1, <2>3, <2>5, <2>6 DEF Selling
  <1>7. \E m : Selling(b, m)
    BY <1>1, <1>2 DEF Position
  <1>8. TakerState'
    <2>1. held' \in [Legs -> Nat]
      BY <1>6, <1>7
    <2> QED BY <1>2, <1>4, <2>1 DEF TakerInv, TakerState
  <1>9. Position(b)'
    <2>1. CASE phase = "failed"
      BY <1>1, <1>2, <1>6, <2>1 DEF Position
    <2>2. CASE phase = "matched"
      BY <1>1, <1>2, <1>6, <2>2 DEF Position
    <2> QED BY <1>2, <2>1, <2>2
  <1>10. Told(b)'
    BY <1>1, <1>2 DEF Told, Tells, Over
  <1> QED BY <1>2, <1>8, <1>9, <1>10, DeskStutters DEF TakerInv

\* The row says what the trade was reduced to.
LEMMA CloseStep ==
    ASSUME TakerInv, Taker!Close
    PROVE  TakerInv' /\ Mapped
  <1>1. PICK b \in Nat : Position(b) /\ Told(b)
    BY DEF TakerInv
  <1>2. /\ phase \in {"failed", "matched"} /\ phase' = "verifying" /\ halted' = halted
        /\ held' = held /\ trade' = trade /\ fills' = fills /\ excess' = excess
        /\ excess = [k \in Legs |-> 0]
    BY DEF Taker!Close, Taker!NoFills, Taker!TakerLegs, Legs
  <1>3. PICK m \in Nat :
           /\ Selling(b, m)
           /\ \E x : \E status \in Taker!Statuses : Taker!Update(status, m, x)
    <2>1. CASE phase = "matched"
      <3>1. Taker!Matched = LeastOf(Got(fills, trade.size))
        BY DEF Taker!Matched, Taker!Realized, Taker!TakerLegs, LeastOf, Got, Legs
      <3>2. Selling(b, Taker!Matched) /\ Taker!Matched \in Nat
        BY <1>1, <2>1, <3>1 DEF Position, Selling
      <3>3. \E x : \E status \in Taker!Statuses : Taker!Update(status, Taker!Matched, x)
        BY <2>1 DEF Taker!Close, Taker!Statuses, Taker!Closing
      <3> QED BY <3>2, <3>3
    <2>2. CASE phase = "failed"
      <3>1. Selling(b, 0)
        BY <1>1, <2>2 DEF Position
      <3>2. \E x : \E status \in Taker!Statuses : Taker!Update(status, 0, x)
        BY <2>2 DEF Taker!Close, Taker!Statuses, Taker!Closing
      <3> QED BY <3>1, <3>2
    <2> QED BY <1>2, <2>1, <2>2
  <1>10. PICK x : \E status \in Taker!Statuses : Taker!Update(status, m, x)
    BY <1>3
  <1>4. PICK status \in Taker!Statuses : Taker!Update(status, m, x)
    BY <1>10
  <1>5. PICK L : rows \in RowsOf(L)
    BY DEF TakerInv, TakerState
  <1>6. /\ rows' \in RowsOf(L \cup {x}) /\ Len(rows') = Len(rows) /\ Len(rows) > 0
        /\ rows'[Len(rows')].matched = m
        /\ \A i \in 1..(Len(rows) - 1) : rows'[i] = rows[i]
    <2>1. Len(rows) > 0
      BY <1>2 DEF TakerInv, TakerState
    <2> QED BY <1>4, <1>5, <2>1, UpdateRow
  <1>7. TakerState'
    BY <1>2, <1>6 DEF TakerInv, TakerState
  <1>8. Selling(b, m)'
    BY <1>2, <1>3 DEF Selling
  <1>9. Position(b)'
    <2>1. Selling(b, rows[Len(rows)].matched)'
      BY <1>6, <1>8 DEF Selling
    <2> QED BY <1>2, <2>1 DEF Position
  <1>11. Told(b)'
    <2> DEFINE k == Len(rows) - 1
    <2>1. k \in Nat /\ k <= Len(rows) /\ k <= Len(rows')
      BY <1>5, <1>6, LenProperties DEF RowsOf
    <2>2. /\ Settled(rows', 1..k) <=> Settled(rows, 1..k)
          /\ LeftBy(rows', 1..k) = LeftBy(rows, 1..k)
      BY <1>5, <1>6, <2>1, SameRows
    <2>3. Settled(rows, 1..k) => b = LeftBy(rows, 1..k)
      BY <1>1, <1>2 DEF Told, Tells, Over
    <2> QED BY <1>2, <1>6, <2>2, <2>3 DEF Told, Tells, Over
  <1> QED BY <1>2, <1>7, <1>9, <1>11, DeskStutters DEF TakerInv

\* The positions cannot be read: a trade under way ends in a halt.
LEMMA UnreadableStep ==
    ASSUME TakerInv, Taker!Unreadable
    PROVE  TakerInv' /\ Mapped
  <1>1. /\ phase = "verifying" /\ phase' = "idle" /\ halted' = TRUE
        /\ rows' = [rows EXCEPT ![Len(rows)].unread = TRUE]
        /\ fills' = [k \in Legs |-> 0] /\ held' = held /\ excess' = excess
    BY DEF Taker!Unreadable, Taker!NoFills, Taker!TakerLegs, Legs
  <1>2. (\E L : rows' \in RowsOf(L)) /\ ~Settled(rows', 1..Len(rows'))
    <2>1. Len(rows) > 0
      BY <1>1 DEF TakerInv, TakerState
    <2> QED BY <1>1, <2>1, RewrittenRow
  <1>3. TakerState'
    BY <1>1, <1>2 DEF TakerInv, TakerState
  <1>4. Position(0)'
    BY <1>1 DEF Position
  <1>5. Taker!Desk!Halt
    BY <1>1 DEF Taker!Desk!Halt
  <1>8. Told(0)'
    BY <1>1, <1>2 DEF Told, Tells, Over
  <1> QED BY <1>3, <1>4, <1>5, <1>8 DEF TakerInv, Mapped, Taker!Desk!Next

\* No Kalshi leg is held beyond the matched size, so every leg is even.
LEMMA SquaredStep ==
    ASSUME TakerInv, Taker!Squared
    PROVE  TakerInv' /\ Mapped
  <1> DEFINE m == rows[Len(rows)].matched
  <1>1. PICK b \in Nat : Position(b) /\ Told(b)
    BY DEF TakerInv
  <1>2. /\ phase = "verifying" /\ phase' = "idle" /\ halted' = halted
        /\ fills' = [k \in Legs |-> 0] /\ held' = held /\ excess' = excess /\ rows' = rows
        /\ \A l \in KalshiLegs : Taker!LargerOf(0, held[l] - m) = 0
    BY DEF Taker!Squared, Taker!NoFills, Taker!TakerLegs, Legs, Taker!NakedOf, Taker!Expected
  <1>3. Selling(b, m)
    BY <1>1, <1>2 DEF Position
  <1>4. /\ held \in [Legs -> Nat] /\ excess \in [Legs -> Nat]
        /\ \A l \in Legs : excess[l] = 0
    BY <1>2 DEF TakerInv, TakerState
  <1> HIDE DEF m
  <1>5. m \in Nat
    BY <1>3 DEF Selling
  <1>6. ASSUME NEW l \in Legs PROVE held[l] = b + m
    <2>1. CASE l \in KalshiLegs
      <3>1. held[l] <= m
        BY <1>2, <1>4, <1>5, <2>1 DEF Taker!LargerOf
      <3>2. held[l] >= b + m + 0
        BY <1>3, <1>4 DEF Selling
      <3> QED BY <1>4, <1>5, <3>1, <3>2
    <2>2. CASE l \in PolyLegs
      <3>1. held[l] = b + m + 0
        BY <1>3, <1>4, <2>2 DEF Selling
      <3> QED BY <1>5, <3>1
    <2> QED BY <2>1, <2>2 DEF Legs
  <1>7. TakerState'
    BY <1>2 DEF TakerInv, TakerState
  <1>8. PICK c \in Nat : c = b + m
    BY <1>5
  <1>9. Position(c)'
    BY <1>2, <1>6, <1>8 DEF Position
  <1>10. Taker!Desk!Finish
    BY <1>2, <1>6 DEF Taker!Desk!Finish, Taker!AllEven, Taker!TakerLegs, Legs
  <1>11. Told(c)'
    <2>1. Tells(b, "verifying", rows, held)
      BY <1>1, <1>2 DEF Told
    <2>2. (\E L : rows \in RowsOf(L)) /\ Len(rows) > 0
      BY <1>2 DEF TakerInv, TakerState
    <2>3. \A l \in Legs : held[l] = b + rows[Len(rows)].matched
      BY <1>6 DEF m
    <2>4. Tells(c, "idle", rows, held)
      BY <2>1, <2>2, <2>3, OverTells
    <2> QED BY <1>2, <2>4 DEF Told
  <1> QED BY <1>7, <1>9, <1>10, <1>11 DEF TakerInv, Mapped, Taker!Desk!Next

\* Naked legs are sold once more, and the STOP file is set whatever comes of it.
LEMMA SecondUnwindStep ==
    ASSUME TakerInv, Taker!SecondUnwind
    PROVE  TakerInv' /\ Mapped
  <1>1. /\ phase = "verifying" /\ phase' = "idle" /\ halted' = TRUE
        /\ rows' = [rows EXCEPT ![Len(rows)].status = "unhedged_halt"]
        /\ fills' = [k \in Legs |-> 0] /\ excess' = excess
    BY DEF Taker!SecondUnwind, Taker!NoFills, Taker!TakerLegs, Legs
  <1>2. (\E L : rows' \in RowsOf(L)) /\ ~Settled(rows', 1..Len(rows'))
    <2>1. Len(rows) > 0
      BY <1>1 DEF TakerInv, TakerState
    <2> QED BY <1>1, <2>1, RewrittenRow
  <1>3. rows[Len(rows)].matched \in Nat /\ held \in [Legs -> Nat]
    BY <1>1 DEF TakerInv, TakerState, Position, Selling
  <1>4. held' \in [Legs -> Nat]
    <2>1. PICK s \in [KalshiLegs -> 0..(2 * MaxSize)] :
             /\ \A l \in KalshiLegs : s[l] <= Taker!NakedOf(l)
             /\ held' = [l \in Legs |-> IF l \in KalshiLegs THEN held[l] - s[l] ELSE held[l]]
      BY Zenon DEF Taker!SecondUnwind, Taker!TakerLegs, Legs
    <2>2. ASSUME NEW l \in KalshiLegs PROVE held[l] - s[l] \in Nat
      <3>1. s[l] \in Nat /\ s[l] <= Taker!NakedOf(l) /\ held[l] \in Nat
        <4>1. s[l] \in 0..(2 * MaxSize) /\ 2 * MaxSize \in Nat
          BY TakerAssumption
        <4> QED BY <1>3, <2>1, <4>1 DEF Legs
      <3>2. Taker!NakedOf(l) = Taker!LargerOf(0, held[l] - rows[Len(rows)].matched)
        BY DEF Taker!NakedOf, Taker!Expected
      <3>3. Taker!NakedOf(l) <= held[l]
        BY <1>3, <3>1, <3>2 DEF Taker!LargerOf
      <3>4. Taker!NakedOf(l) \in Nat
        BY <1>3, <3>1, <3>2 DEF Taker!LargerOf
      <3> QED BY <3>1, <3>3, <3>4
    <2> QED BY <1>3, <2>1, <2>2
  <1>5. TakerState'
    BY <1>1, <1>2, <1>4 DEF TakerInv, TakerState
  <1>6. Position(0)'
    BY <1>1 DEF Position
  <1>7. Taker!Desk!Halt
    BY <1>1 DEF Taker!Desk!Halt
  <1>8. Told(0)'
    BY <1>1, <1>2 DEF Told, Tells, Over
  <1> QED BY <1>5, <1>6, <1>7, <1>8 DEF TakerInv, Mapped, Taker!Desk!Next
-----------------------------------------------------------------------------
(* Persons, processes, and the whole. *)

\* The STOP file appears, or nothing the position is made of changes.
LEMMA KeptStep ==
    ASSUME TakerInv, UNCHANGED <<held, phase, trade, fills, excess, rows>>,
           halted' = halted \/ halted' = TRUE
    PROVE  TakerInv' /\ Mapped
  <1>1. PICK b \in Nat : Position(b) /\ Told(b)
    BY DEF TakerInv
  <1>2. TakerState'
    BY DEF TakerInv, TakerState
  <1>3. Position(b)'
    BY <1>1 DEF Position, Asked, Firing, Selling
  <1>6. Told(b)'
    BY <1>1 DEF Told
  <1>4. CASE halted' = halted
    BY <1>2, <1>3, <1>4, <1>6, DeskStutters DEF TakerInv
  <1>5. CASE halted' = TRUE
    <2>1. Taker!Desk!Stop
      BY <1>5 DEF Taker!Desk!Stop, Taker!AllEven, Taker!TakerLegs
    <2> QED BY <1>2, <1>3, <1>6, <2>1 DEF TakerInv, Mapped, Taker!Desk!Next
  <1> QED BY <1>4, <1>5

\* Between two trades a process may end and another take over.
LEMMA RestartStep ==
    ASSUME TakerInv, Faults = {}, Taker!Restart
    PROVE  TakerInv' /\ Mapped
  <1>1. PICK b \in Nat : Position(b) /\ Told(b)
    BY DEF TakerInv
  <1>2. /\ phase = "idle" /\ phase' = "idle" /\ halted' = halted /\ held' = held /\ rows' = rows
        /\ fills' = [k \in Legs |-> 0] /\ excess' = [k \in Legs |-> 0]
    BY DEF Taker!Restart, Taker!NoFills, Taker!TakerLegs, Legs
  <1>3. TakerState'
    BY <1>2 DEF TakerInv, TakerState
  <1>4. Position(b)'
    BY <1>1, <1>2 DEF Position
  <1>5. Told(b)'
    BY <1>1, <1>2 DEF Told
  <1> QED BY <1>2, <1>3, <1>4, <1>5, DeskStutters DEF TakerInv

\* A person closes what is uneven while the STOP file is there.
LEMMA FlattenStep ==
    ASSUME TakerInv, Taker!PersonFlattens
    PROVE  TakerInv' /\ Mapped
  <1>1. /\ phase = "idle" /\ halted /\ ~Taker!AllEven /\ held' = [k \in Legs |-> 0]
        /\ halted' = halted /\ phase' = phase /\ trade' = trade /\ fills' = fills
        /\ excess' = excess /\ rows' = rows
    BY DEF Taker!PersonFlattens, Taker!NoFills, Taker!TakerLegs, Legs
  <1>6. Told(0)'
    <2>1. PICK b \in Nat : Told(b)
      BY DEF TakerInv
    <2>2. Settled(rows, 1..Len(rows)) => \A l \in Legs : held[l] = LeftBy(rows, 1..Len(rows))
      BY <1>1, <2>1 DEF Told, Tells, Over
    <2>3. ~Settled(rows, 1..Len(rows))
      BY <1>1, <2>2 DEF Taker!AllEven, Taker!TakerLegs, Legs
    <2> QED BY <1>1, <2>3 DEF Told, Tells, Over
  <1>2. TakerState'
    BY <1>1 DEF TakerInv, TakerState
  <1>3. Position(0)'
    BY <1>1 DEF Position
  <1>4. Taker!AllEven'
    BY <1>1 DEF Taker!AllEven, Taker!TakerLegs, Legs
  <1>5. Taker!Desk!Flatten
    BY <1>1, <1>4 DEF Taker!Desk!Flatten
  <1> QED BY <1>2, <1>3, <1>5, <1>6 DEF TakerInv, Mapped, Taker!Desk!Next

\* The STOP file is lifted on an even position only: what every leg is held at
\* is the position the next trade begins on.
LEMMA LiftStep ==
    ASSUME TakerInv, Taker!PersonLifts
    PROVE  TakerInv' /\ Mapped
  <1>1. /\ phase = "idle" /\ halted /\ Taker!AllEven /\ halted' = FALSE
        /\ held' = held /\ phase' = phase /\ trade' = trade /\ fills' = fills
        /\ excess' = excess /\ rows' = rows
    BY DEF Taker!PersonLifts
  <1>2. TakerState'
    BY <1>1 DEF TakerInv, TakerState
  <1>3. \E b \in Nat : \A l \in Legs : held[l] = b
    <2>1. PICK k \in Legs : TRUE
      BY TakerAssumption DEF Legs
    <2>2. held[k] \in Nat /\ \A l \in Legs : held[l] = held[k]
      BY <1>1, <2>1 DEF TakerInv, TakerState, Taker!AllEven, Taker!TakerLegs, Legs
    <2> QED BY <2>2
  <1>4. PICK b \in Nat : Position(b)'
    BY <1>1, <1>3 DEF Position
  <1>7. Told(b)'
    <2>1. PICK c \in Nat : Told(c)
      BY DEF TakerInv
    <2> QED BY <1>1, <2>1 DEF Told, Tells, Over
  <1>5. Taker!AllEven'
    BY <1>1 DEF Taker!AllEven, Taker!TakerLegs
  <1>6. Taker!Desk!Lift
    BY <1>1, <1>5 DEF Taker!Desk!Lift
  <1> QED BY <1>2, <1>4, <1>6, <1>7 DEF TakerInv, Mapped, Taker!Desk!Next

\* Every step of the taker keeps the invariant and is a step of the desk.
LEMMA TakerSteps ==
    ASSUME TakerInv, Faults = {}, Taker!Next
    PROVE  TakerInv' /\ Mapped
  <1>1. CASE Taker!FetchFails
    BY <1>1, KeptStep DEF Taker!FetchFails
  <1>2. ASSUME NEW p \in Prints, Taker!Refused(p)
        PROVE  TakerInv' /\ Mapped
    BY <1>2, KeptStep DEF Taker!Refused
  <1>3. ASSUME NEW p \in Prints, NEW n \in 1..MaxSize, NEW o \in Taker!FiringOrders,
               Taker!Agreed(p, n, o)
        PROVE  TakerInv' /\ Mapped
    BY <1>3, AgreedStep
  <1>4. CASE Taker!Declined
    BY <1>4, DeclinedStep
  <1>5. CASE Taker!Submit
    BY <1>5, SubmitStep
  <1>6. CASE Taker!Fire
    BY <1>6, FireStep
  <1>7. ASSUME NEW l \in Taker!TakerLegs, Taker!Unwind(l)
        PROVE  TakerInv' /\ Mapped
    BY <1>7, UnwindStep DEF Taker!TakerLegs, Legs
  <1>8. CASE Taker!Close
    BY <1>8, CloseStep
  <1>9. CASE Taker!Unreadable
    BY <1>9, UnreadableStep
  <1>10. CASE Taker!Squared
    BY <1>10, SquaredStep
  <1>11. CASE Taker!SecondUnwind
    BY <1>11, SecondUnwindStep
  <1>12. CASE Taker!Later
    BY <1>12, KeptStep DEF Taker!Later
  <1>13. CASE Taker!Restart
    BY <1>13, RestartStep
  <1>14. CASE Taker!PersonStops
    BY <1>14, KeptStep DEF Taker!PersonStops
  <1>15. CASE Taker!PersonFlattens
    BY <1>15, FlattenStep
  <1>16. CASE Taker!PersonLifts
    BY <1>16, LiftStep
  <1> QED
    BY <1>1, <1>2, <1>3, <1>4, <1>5, <1>6, <1>7, <1>8, <1>9, <1>10, <1>11, <1>12, <1>13,
       <1>14, <1>15, <1>16, Zenon DEF Taker!Next

\* A step of another part leaves the taker alone.
LEMMA TakerAtRest ==
    ASSUME TakerInv, UNCHANGED takerVars
    PROVE  TakerInv' /\ Mapped
  BY KeptStep DEF takerVars

\* The account is even and no trade is under way.
LEMMA TakerStarts ==
    ASSUME Init
    PROVE  TakerInv /\ Taker!Desk!Init
  <1>1. /\ halted = FALSE /\ held = [k \in Legs |-> 0] /\ phase = "idle"
        /\ fills = [k \in Legs |-> 0] /\ excess = [k \in Legs |-> 0] /\ rows = <<>>
    BY DEF Init, Taker!Init, Taker!NoFills, Taker!TakerLegs, Legs
  <1>2. rows \in RowsOf({})
    BY <1>1, EmptySeq DEF RowsOf
  <1>3. TakerState
    BY <1>1, <1>2 DEF TakerState
  <1>4. Position(0)
    BY <1>1 DEF Position
  <1>5. Taker!Desk!Init
    BY <1>1 DEF Taker!Desk!Init, Taker!AllEven, Taker!TakerLegs, Legs
  <1>6. Told(0)
    <2>1. 1..Len(rows) = {}
      BY <1>1, EmptySeq
    <2>2. LeftBy(rows, {}) = 0
      BY FS_EmptySet, TotalGives DEF LeftBy
    <2> QED BY <1>1, <2>1, <2>2 DEF Told, Tells, Over
  <1> QED BY <1>3, <1>4, <1>5, <1>6 DEF TakerInv

\* A step of the whole is one of the taker or leaves the taker alone.
LEMMA TakerStep ==
    ASSUME Faults = {}, TakerInv, [Next]_vars
    PROVE  TakerInv' /\ Mapped
  <1>1. CASE Taker!Next
    BY <1>1, TakerSteps
  <1>2. CASE UNCHANGED takerVars
    BY <1>2, TakerAtRest
  <1>3. Taker!Next \/ UNCHANGED takerVars
    BY Zenon DEF Next, Only, vars
  <1> QED BY <1>1, <1>2, <1>3

\* What the invariant says of the ledger between two trades is the property.
LEMMA TakerTells == TakerInv => Taker!LedgerTells
  <1> SUFFICES ASSUME TakerInv, phase = "idle",
                      \A i \in DOMAIN rows : rows[i].status \in Taker!Closing /\ ~rows[i].unread,
                      NEW l \in Legs
               PROVE  held[l] = Taker!MapThenSumSet(LAMBDA i : rows[i].matched, DOMAIN rows)
    BY DEF Taker!LedgerTells, Taker!TakerLegs, Legs
  <1> DEFINE S == DOMAIN rows
             g == [i \in 1..Len(rows) |-> rows[i].matched]
             Takes(it) ==
                it = [s \in SUBSET S |->
                        IF s = {} THEN 0
                        ELSE LET x == CHOOSE x \in s : TRUE
                             IN  rows[x].matched + it[s \ {x}]]
  <1>1. S = 1..Len(rows)
    BY LenProperties DEF TakerInv, TakerState, RowsOf
  <1>2. Settled(rows, S)
    BY DEF Settled
  <1>3. held[l] = Total(g, S)
    BY <1>1, <1>2 DEF TakerInv, Told, Tells, Over, LeftBy
  <1>4. ASSUME NEW it PROVE Sums(it, g, S) <=> Takes(it)
    <2>1. \A s \in SUBSET S : s # {} => Pick(s) \in s /\ g[Pick(s)] = rows[Pick(s)].matched
      BY <1>1 DEF Pick
    <2> QED BY <2>1 DEF Sums, Pick
  <1> HIDE DEF g, S
  <1>5. Total(g, S) = Taker!MapThenSumSet(LAMBDA i : rows[i].matched, S)
    BY <1>4 DEF Taker!MapThenSumSet, Taker!MapThenFoldSet, Total
  <1> QED BY <1>3, <1>5 DEF S

\* With no fault among Faults, every trade of the taker ends with its legs even or
\* with the STOP file set, and none begins on an uneven position (engine.py:
\* _do_live, _fail_unwind, _finalize_filled, _verify_positions): the taker is an
\* implementation of the hedge desk.  The faults are those under which TLC shows
\* that it is not (README, 5).
THEOREM TakerKeepsThePromise ==
    ASSUME Faults = {}
    PROVE  Spec => TakerImplements
  <1>1. Init => TakerInv /\ Taker!Desk!Init
    BY TakerStarts
  <1>2. TakerInv /\ [Next]_vars => TakerInv' /\ Mapped
    BY TakerStep
  <1> QED
    BY <1>1, <1>2, PTL DEF Spec, TakerImplements, Taker!Implements, Taker!Desk!Spec, Mapped

\* Nor, with no fault, is a leg ever naked without the STOP file (engine.py, the
\* docstring: lines 17-19).
THEOREM NakedMeansHalted ==
    ASSUME Faults = {}
    PROVE  Spec => []Taker!NakedIsHalted
  <1>1. Init => TakerInv
    BY TakerStarts
  <1>2. TakerInv /\ [Next]_vars => TakerInv'
    BY TakerStep
  <1>3. TakerInv => Taker!NakedIsHalted
    BY DEF TakerInv, TakerState, Position, Taker!NakedIsHalted, Taker!AllEven,
           Taker!TakerLegs, Legs
  <1> QED BY <1>1, <1>2, <1>3, PTL DEF Spec
-----------------------------------------------------------------------------
(* The maker's process (MakerProcess).                                     *)

\* The lock is the running maker's.
LockInv ==
    /\ proc \in [Makers -> {"off", "starting", "loop", "stopping"}]
    /\ build \in [Makers -> {"none", "shadow", "live"}]
    /\ todo \in [Makers -> SUBSET Maker!MakerVenues]
    /\ unswept \in [Makers -> SUBSET Maker!MakerVenues]
    /\ rest \subseteq Maker!MakerOrders
    /\ \A p \in Makers : proc[p] # "off" => holder = p
    /\ \A p \in Makers : proc[p] = "off" => build[p] = "none" /\ todo[p] = {}

\* An order a maker with clients finds as it starts is of a venue still to be
\* swept, unless it is a smoke test's or the sweep left it; in its loop it finds
\* its own besides.
Accounted(p, o) == o.owner = Smoke \/ o.at \in unswept[p]
SweepInv ==
    \A p \in Makers : build[p] # "none" =>
        /\ proc[p] = "starting" => \A o \in rest : Accounted(p, o) \/ o.at \in todo[p]
        /\ proc[p] = "loop" => \A o \in rest : Accounted(p, o) \/ (o.owner = p /\ build[p] = "live")

MakerInv == LockInv /\ SweepInv

\* Orders that leave are nobody's stray.
LEMMA FewerRest ==
    ASSUME MakerInv, rest' \subseteq rest, UNCHANGED <<holder, proc, build, todo, unswept>>
    PROVE  MakerInv'
  BY DEF MakerInv, LockInv, SweepInv, Accounted

\* An order keeps its venue when it loses its owner.
LEMMA Disowned ==
    ASSUME NEW S, S \subseteq rest, MakerInv, NEW p \in Makers
    PROVE  Maker!Disown(S, p) \subseteq Maker!MakerOrders
  <1>1. \A o \in S : o \in Maker!MakerOrders
    BY DEF MakerInv, LockInv
  <1> QED BY <1>1 DEF Maker!Disown, Maker!MakerOrders, Maker!Owners, Maker!Order

\* A maker takes the lock.
LEMMA StartStep ==
    ASSUME MakerInv, NEW p \in Makers, Maker!Start(p)
    PROVE  MakerInv'
  <1>1. /\ proc[p] = "off" /\ holder = NoOwner /\ holder' = p
        /\ proc' = [proc EXCEPT ![p] = "starting"]
        /\ UNCHANGED <<build, todo, unswept, rest>>
    BY DEF Maker!Start
  <1>2. \A q \in Makers : proc[q] = "off"
    BY <1>1, MakerAssumption DEF MakerInv, LockInv
  <1>3. \A q \in Makers : proc'[q] = IF q = p THEN "starting" ELSE "off"
    BY <1>1, <1>2 DEF MakerInv, LockInv
  <1>4. LockInv'
    BY <1>1, <1>3 DEF MakerInv, LockInv
  <1>5. \A q \in Makers : build'[q] = "none"
    BY <1>1, <1>2 DEF MakerInv, LockInv
  <1> QED BY <1>4, <1>5 DEF MakerInv, SweepInv

\* It learns what it is, and what it has to sweep.
LEMMA EvaluateStep ==
    ASSUME MakerInv, NEW p \in Makers, Maker!Evaluate(p)
    PROVE  MakerInv'
  <1>1. PICK kind \in {"none", "shadow", "live"} :
           /\ proc[p] = "starting" /\ build[p] = "none"
           /\ build' = [build EXCEPT ![p] = kind]
           /\ todo' = [todo EXCEPT ![p] = Maker!Sweeps(kind)]
           /\ proc' = IF Maker!Sweeps(kind) = {} THEN [proc EXCEPT ![p] = "loop"] ELSE proc
           /\ UNCHANGED <<holder, unswept, rest>>
    BY DEF Maker!Evaluate
  <1>2. Maker!Sweeps(kind) = {} <=> kind = "none"
    BY DEF Maker!Sweeps, Maker!MakerVenues
  <1>3. /\ \A q \in Makers : proc'[q] = IF q = p /\ kind = "none" THEN "loop" ELSE proc[q]
        /\ \A q \in Makers : build'[q] = IF q = p THEN kind ELSE build[q]
        /\ \A q \in Makers : todo'[q] = IF q = p THEN Maker!Sweeps(kind) ELSE todo[q]
    BY <1>1, <1>2 DEF MakerInv, LockInv
  <1>4. LockInv'
    <2>1. Maker!Sweeps(kind) \subseteq Maker!MakerVenues
      BY DEF Maker!Sweeps
    <2>2. todo' \in [Makers -> SUBSET Maker!MakerVenues]
      BY <1>1, <2>1 DEF MakerInv, LockInv
    <2>3. proc' \in [Makers -> {"off", "starting", "loop", "stopping"}]
      BY <1>1 DEF MakerInv, LockInv
    <2>4. build' \in [Makers -> {"none", "shadow", "live"}]
      BY <1>1 DEF MakerInv, LockInv
    <2> QED BY <1>1, <1>3, <2>2, <2>3, <2>4 DEF MakerInv, LockInv
  <1>5. \A o \in rest : o.at \in Maker!MakerVenues
    BY DEF MakerInv, LockInv, Maker!MakerOrders
  <1>6. SweepInv'
    <2>1. \A q \in Makers : q # p => proc[q] = "off"
      BY <1>1 DEF MakerInv, LockInv
    <2>2. kind # "none" => todo'[p] = Maker!MakerVenues /\ proc'[p] = "starting"
      BY <1>1, <1>3 DEF Maker!Sweeps
    <2> QED BY <1>1, <1>3, <1>5, <2>1, <2>2 DEF SweepInv, Accounted
  <1> QED BY <1>4, <1>6 DEF MakerInv

\* It sweeps a venue.
LEMMA SweepStep ==
    ASSUME MakerInv, NEW p \in Makers, Maker!SweepStray(p)
    PROVE  MakerInv'
  <1>1. PICK v \in Maker!MakerVenues :
           /\ proc[p] = "starting" /\ v \in todo[p]
           /\ rest' \subseteq rest
           /\ todo' = [todo EXCEPT ![p] = @ \ {v}]
           /\ unswept' = [unswept EXCEPT ![p] =
                             IF \E o \in rest' : o.at = v THEN @ \cup {v} ELSE @]
           /\ proc' = [proc EXCEPT ![p] = IF todo[p] = {v} THEN "loop" ELSE @]
           /\ UNCHANGED <<holder, build>>
    <2>1. todo[p] # {} /\ todo[p] \subseteq {"poly", "kalshi"}
      BY DEF Maker!SweepStray, MakerInv, LockInv, Maker!MakerVenues
    <2>2. PICK v \in {"poly", "kalshi"} : v = IF "poly" \in todo[p] THEN "poly" ELSE "kalshi"
      OBVIOUS
    <2>3. v \in todo[p]
      BY <2>1, <2>2
    <2>4. /\ proc[p] = "starting" /\ Maker!CancelledAt(v, Maker!At(v))
          /\ todo' = [todo EXCEPT ![p] = @ \ {v}]
          /\ unswept' = [unswept EXCEPT ![p] =
                             IF \E o \in rest' : o.at = v THEN @ \cup {v} ELSE @]
          /\ proc' = [proc EXCEPT ![p] = IF todo[p] = {v} THEN "loop" ELSE @]
          /\ UNCHANGED <<holder, build>>
      BY <2>2 DEF Maker!SweepStray
    <2>5. rest' \subseteq rest
      BY <2>4 DEF Maker!CancelledAt, Maker!At
    <2> QED BY <2>3, <2>4, <2>5 DEF Maker!MakerVenues
  <1>2. /\ \A q \in Makers : proc'[q] = IF q = p /\ todo[p] = {v} THEN "loop" ELSE proc[q]
        /\ \A q \in Makers : todo'[q] = IF q = p THEN todo[p] \ {v} ELSE todo[q]
        /\ \A q \in Makers : q # p => unswept'[q] = unswept[q]
        /\ unswept'[p] = IF \E o \in rest' : o.at = v THEN unswept[p] \cup {v} ELSE unswept[p]
    BY <1>1 DEF MakerInv, LockInv
  <1>3. LockInv'
    <2>1. todo' \in [Makers -> SUBSET Maker!MakerVenues]
      BY <1>1 DEF MakerInv, LockInv
    <2>2. unswept' \in [Makers -> SUBSET Maker!MakerVenues]
      BY <1>1 DEF MakerInv, LockInv
    <2>3. proc' \in [Makers -> {"off", "starting", "loop", "stopping"}]
      BY <1>1 DEF MakerInv, LockInv
    <2> QED BY <1>1, <1>2, <2>1, <2>2, <2>3 DEF MakerInv, LockInv
  <1>4. SweepInv'
    <2>1. \A q \in Makers : q # p => proc[q] = "off"
      BY <1>1 DEF MakerInv, LockInv
    <2>2. ASSUME build[p] # "none"
          PROVE  \A o \in rest' : Accounted(p, o)' \/ o.at \in todo[p] \ {v}
      BY <1>1, <1>2, <2>2 DEF MakerInv, SweepInv, Accounted
    <2>3. todo[p] = {v} => todo[p] \ {v} = {}
      OBVIOUS
    <2> QED BY <1>1, <1>2, <2>1, <2>2, <2>3 DEF SweepInv, Accounted
  <1> QED BY <1>3, <1>4 DEF MakerInv

\* It places an order.
LEMMA PlaceStep ==
    ASSUME MakerInv, NEW p \in Makers, NEW v \in Maker!MakerVenues, Maker!Place(p, v)
    PROVE  MakerInv'
  <1>1. /\ proc[p] = "loop" /\ build[p] = "live" /\ rest' = rest \cup {Maker!Order(p, v)}
        /\ UNCHANGED <<holder, proc, build, todo, unswept>>
    BY DEF Maker!Place
  <1>2. /\ Maker!Order(p, v) \in Maker!MakerOrders
        /\ Maker!Order(p, v).owner = p
    BY DEF Maker!Order, Maker!MakerOrders, Maker!Owners
  <1>3. \A q \in Makers : q # p => proc[q] = "off"
    BY <1>1 DEF MakerInv, LockInv
  <1> QED BY <1>1, <1>2, <1>3 DEF MakerInv, LockInv, SweepInv, Accounted

\* It ends, in order or not.
LEMMA OverStep ==
    ASSUME MakerInv, NEW p \in Makers, proc[p] # "off", Maker!Over(p),
           rest' \subseteq Maker!MakerOrders
    PROVE  MakerInv'
  <1>1. \A q \in Makers : q # p => proc[q] = "off"
    BY DEF MakerInv, LockInv
  <1>2. /\ \A q \in Makers : proc'[q] = IF q = p THEN "off" ELSE proc[q]
        /\ \A q \in Makers : build'[q] = IF q = p THEN "none" ELSE build[q]
        /\ \A q \in Makers : todo'[q] = IF q = p THEN {} ELSE todo[q]
    BY DEF MakerInv, LockInv, Maker!Over
  <1>3. \A q \in Makers : proc'[q] = "off" /\ build'[q] = "none" /\ todo'[q] = {}
    BY <1>1, <1>2 DEF MakerInv, LockInv
  <1>4. /\ todo' \in [Makers -> SUBSET Maker!MakerVenues]
        /\ unswept' \in [Makers -> SUBSET Maker!MakerVenues]
        /\ proc' \in [Makers -> {"off", "starting", "loop", "stopping"}]
        /\ build' \in [Makers -> {"none", "shadow", "live"}]
    BY DEF MakerInv, LockInv, Maker!Over
  <1> QED BY <1>3, <1>4 DEF MakerInv, LockInv, SweepInv

\* The smoke test moves: it adds only orders of its own.
LEMMA SmokeStep ==
    ASSUME MakerInv, Maker!SmokeStart \/ Maker!SmokeSweep \/ Maker!SmokePlace
                     \/ Maker!SmokeCancel \/ Maker!SmokeDies
    PROVE  MakerInv'
  <1>1. UNCHANGED <<holder, proc, build, todo, unswept>>
    BY DEF Maker!SmokeStart, Maker!SmokeSweep, Maker!SmokePlace, Maker!SmokeCancel, Maker!SmokeDies
  <1>2. CASE rest' \subseteq rest
    BY <1>1, <1>2, FewerRest
  <1>3. CASE \E v \in Maker!MakerVenues : rest' = rest \cup {Maker!Order(Smoke, v)}
    <2>1. PICK v \in Maker!MakerVenues : rest' = rest \cup {Maker!Order(Smoke, v)}
      BY <1>3
    <2>2. /\ Maker!Order(Smoke, v) \in Maker!MakerOrders
          /\ Maker!Order(Smoke, v).owner = Smoke
      BY DEF Maker!Order, Maker!MakerOrders, Maker!Owners
    <2> QED BY <1>1, <2>1, <2>2 DEF MakerInv, LockInv, SweepInv, Accounted
  <1>4. \/ rest' \subseteq rest
        \/ \E v \in Maker!MakerVenues : rest' = rest \cup {Maker!Order(Smoke, v)}
    <2>1. CASE Maker!SmokeCancel
      BY <2>1 DEF Maker!SmokeCancel, Maker!At
    <2>2. CASE Maker!SmokePlace
      BY <2>2 DEF Maker!SmokePlace
    <2>3. CASE Maker!SmokeStart \/ Maker!SmokeSweep \/ Maker!SmokeDies
      BY <2>3 DEF Maker!SmokeStart, Maker!SmokeSweep, Maker!SmokeDies
    <2> QED BY <2>1, <2>2, <2>3
  <1> QED BY <1>2, <1>3, <1>4

\* Every step of the processes, and of the other parts, keeps the invariant.
LEMMA MakerSteps ==
    ASSUME MakerInv, Maker!Next \/ UNCHANGED makerVars
    PROVE  MakerInv'
  <1>1. CASE UNCHANGED makerVars
    BY <1>1, FewerRest DEF makerVars
  <1>2. ASSUME NEW p \in Makers, Maker!EnforceArmState(p) PROVE MakerInv'
    BY <1>2, FewerRest DEF Maker!EnforceArmState
  <1>3. ASSUME NEW p \in Makers, Maker!EndLoop(p) PROVE MakerInv'
    <2>1. /\ proc[p] = "loop" /\ proc' = [proc EXCEPT ![p] = "stopping"]
          /\ UNCHANGED <<holder, build, todo, unswept, rest>>
      BY <1>3 DEF Maker!EndLoop
    <2>2. \A q \in Makers : proc'[q] = IF q = p THEN "stopping" ELSE proc[q]
      BY <2>1 DEF MakerInv, LockInv
    <2>3. LockInv'
      BY <2>1, <2>2 DEF MakerInv, LockInv
    <2> QED BY <2>1, <2>2, <2>3 DEF MakerInv, SweepInv, Accounted
  <1>4. ASSUME NEW p \in Makers, Maker!ShutDown(p) PROVE MakerInv'
    <2>1. PICK S \in SUBSET rest : rest' = Maker!Disown(S, p)
      BY <1>4 DEF Maker!ShutDown, Maker!At
    <2> QED BY <1>4, <2>1, Disowned, OverStep DEF Maker!ShutDown
  <1>5. ASSUME NEW p \in Makers, Maker!Kill(p) PROVE MakerInv'
    BY <1>5, Disowned, OverStep DEF Maker!Kill
  <1>6. ASSUME NEW p \in Makers, Maker!Step(p) PROVE MakerInv'
    BY <1>2, <1>3, <1>4, <1>5, <1>6, StartStep, EvaluateStep, SweepStep, PlaceStep DEF Maker!Step
  <1>7. CASE Maker!Configure \/ \E o \in rest : Maker!Leaves(o)
    BY <1>7, FewerRest DEF Maker!Configure, Maker!Leaves
  <1> QED BY <1>1, <1>6, <1>7, SmokeStep DEF Maker!Next

\* No process runs.
LEMMA MakerStarts ==
    ASSUME Maker!Init
    PROVE  MakerInv
  BY DEF Maker!Init, MakerInv, LockInv, SweepInv

\* The invariant is what is wanted.
LEMMA MakerKept ==
    ASSUME MakerInv
    PROVE  Maker!ProcessKept
  BY DEF MakerInv, LockInv, SweepInv, Accounted, Maker!ProcessKept, Maker!OneMaker, Maker!NoStrays
-----------------------------------------------------------------------------
(* The watch of the match trees (UniverseWatch).                           *)

\* The games of S before the time k, of one sport or of any.
Before(S, k) == {x \in S : x.kick < k}

\* A version of every sport's tree, which lists games of that sport.
Trees == {t \in [Watch!Sports -> [at : Nat, games : SUBSET Fixtures]] :
            \A s \in Watch!Sports : \A g \in t[s].games : g.sport = s}

\* The trees held are trees of the games, no older than what was committed; what
\* the start has loaded is what is on disk until its times are taken.
TreeInv ==
    /\ file \in Trees /\ trees \in Trees
    /\ mtimes \in [Watch!Sports -> Nat] /\ statted \in [Watch!Sports -> Nat]
    /\ watch = "loaded" => \A s \in Watch!Sports \ unread : trees[s].at >= file[s].at
    /\ watch = "statted" => \A s \in Watch!Sports : statted[s] <= file[s].at
    /\ watch = "off" => resting = {}
    /\ Watch!Fresh

\* The inductive invariant of the watch.
WatchInv == TreeInv /\ Watch!FeedsFollow /\ Watch!NearestFirst

\* The watch counts as the library does.
LEMMA SameCount ==
    ASSUME NEW S
    PROVE  Watch!Cardinality(S) = Cardinality(S)
  BY DEF Watch!Cardinality, Cardinality

\* Who has N before it has N before it among those who have fewer than N.
LEMMA NearestSuffice ==
    ASSUME NEW S \in SUBSET Fixtures, NEW N \in Nat, NEW k \in Nat,
           Cardinality(Before(S, k)) >= N
    PROVE  Cardinality(Before({g \in S : Cardinality(Before(S, g.kick)) < N}, k)) >= N
  <1> DEFINE T == {g \in S : Cardinality(Before(S, g.kick)) < N}
             D == Before(S, k)
             L == Before(T, k)
  <1>1. IsFiniteSet(S) /\ \A g \in S : g.kick \in Nat
    BY MakerAssumption, FS_Subset
  <1>2. IsFiniteSet(L) /\ Cardinality(L) \in Nat /\ Cardinality(D) \in Nat
    <2>1. L \subseteq S /\ D \subseteq S
      BY DEF Before
    <2> HIDE DEF L, D
    <2> QED BY <1>1, <2>1, FS_Subset, FS_CardinalityType
  <1> SUFFICES ASSUME Cardinality(L) < N PROVE FALSE
    BY <1>2
  <1>3. D # L
    BY <1>2
  <1>4. PICK h \in D : h \notin T
    BY <1>3 DEF Before
  <1> DEFINE Late == {g.kick : g \in D \ T}
  <1>5. Late \in SUBSET Nat /\ Late # {}
    BY <1>1, <1>4 DEF Before
  <1>6. LeastOf(Late) \in Late /\ \A x \in Late : LeastOf(Late) <= x
    <2> HIDE DEF Late
    <2> QED BY <1>5, LeastIsLeast
  <1>7. PICK g \in D \ T : g.kick = LeastOf(Late)
    <2> DEFINE least == LeastOf(Late)
    <2>1. least \in Late
      BY <1>6
    <2> HIDE DEF least
    <2>2. PICK g \in D \ T : g.kick = least
      BY <2>1
    <2> QED BY <2>2 DEF least
  <1>8. \A x \in D \ T : g.kick <= x.kick
    <2>1. \A x \in D \ T : x.kick \in Late
      OBVIOUS
    <2> HIDE DEF Late
    <2> QED BY <1>6, <1>7, <2>1
  <1>9. Before(S, g.kick) \subseteq L
    <2> SUFFICES ASSUME NEW x \in S, x.kick < g.kick PROVE x \in T /\ x.kick < k
      BY DEF Before
    <2>1. g \in S /\ g.kick < k /\ g.kick \in Nat /\ x.kick \in Nat
      BY <1>1, <1>7 DEF Before
    <2>2. x.kick < k
      BY <2>1
    <2>3. x \in D
      BY <2>2 DEF Before
    <2> HIDE DEF T, D
    <2> QED BY <1>8, <2>1, <2>2, <2>3
  <1>10. Cardinality(Before(S, g.kick)) <= Cardinality(L)
    <2> HIDE DEF L
    <2> QED BY <1>2, <1>9, FS_Subset
  <1>11. Cardinality(Before(S, g.kick)) \in Nat
    <2> HIDE DEF L
    <2> QED BY <1>2, <1>9, FS_Subset, FS_CardinalityType
  <1>12. Cardinality(Before(S, g.kick)) < N
    <2> HIDE DEF L
    <2> QED BY <1>2, <1>10, <1>11
  <1>13. g \in S /\ g \notin T
    BY <1>7 DEF Before
  <1> QED BY <1>12, <1>13

\* Of a set of games the nearest leave out only games with enough nearer ones of
\* their sport, or of all, among them.
LEMMA NearestLeaves ==
    ASSUME NEW S \in SUBSET Fixtures, NEW h \in S, h \notin Watch!Nearest(S)
    PROVE  LET nearer == {g \in Watch!Nearest(S) : g.kick < h.kick}
           IN  \/ Watch!Cardinality({g \in nearer : g.sport = h.sport}) >= PerSport
               \/ Watch!Cardinality(nearer) >= MaxGames
  <1> DEFINE OfSport(s) == {g \in S : g.sport = s}
             First == {g \in S : Cardinality(Before(OfSport(g.sport), g.kick)) < PerSport}
             Near == {g \in First : Cardinality(Before(First, g.kick)) < MaxGames}
  <1>1. Watch!Nearest(S) = Near
    <2>1. \A g : {x \in S : x.sport = g.sport /\ x.kick < g.kick} = Before(OfSport(g.sport), g.kick)
      BY DEF Before
    <2>2. First = {g \in S : Watch!Cardinality({x \in S : x.sport = g.sport /\ x.kick < g.kick})
                               < PerSport}
      BY <2>1, SameCount
    <2>3. \A g : {x \in First : x.kick < g.kick} = Before(First, g.kick)
      BY DEF Before
    <2>4. Near = {g \in First : Watch!Cardinality({x \in First : x.kick < g.kick}) < MaxGames}
      BY <2>3, SameCount
    <2> HIDE DEF Near
    <2> QED BY <2>2, <2>4 DEF Watch!Nearest
  <1>2. Near \subseteq First /\ First \subseteq S /\ h.kick \in Nat
    BY MakerAssumption
  <1>3. \A k : {g \in Near : g.kick < k} = Before(Near, k)
    BY DEF Before
  <1> SUFFICES \/ Cardinality({g \in Before(Near, h.kick) : g.sport = h.sport}) >= PerSport
               \/ Cardinality(Before(Near, h.kick)) >= MaxGames
    BY <1>1, <1>3, SameCount
  <1>4. \A k \in Nat : Cardinality(Before(First, k)) >= MaxGames
                          => Cardinality(Before(Near, k)) >= MaxGames
    <2> HIDE DEF First
    <2> QED BY <1>2, NearestSuffice, MakerAssumption
  <1>5. CASE h \in First
    <2>1. h \notin Near
      BY <1>1
    <2>2. ~(Cardinality(Before(First, h.kick)) < MaxGames)
      <3> HIDE DEF First
      <3> QED BY <1>5, <2>1
    <2>3. Cardinality(Before(First, h.kick)) \in Nat
      <3>1. IsFiniteSet(Before(First, h.kick))
        BY FS_Subset, MakerAssumption DEF Before
      <3> QED BY <3>1, FS_CardinalityType
    <2>4. Cardinality(Before(First, h.kick)) >= MaxGames
      <3> HIDE DEF First
      <3> QED BY <2>2, <2>3, MakerAssumption
    <2> HIDE DEF Near, First
    <2> QED BY <1>2, <1>4, <2>4
  <1>6. CASE h \notin First
    <2> DEFINE Of == OfSport(h.sport)
               Enough == {g \in Of : Cardinality(Before(Of, g.kick)) < PerSport}
               E == Before(Enough, h.kick)
    <2>1. Cardinality(Before(Of, h.kick)) >= PerSport
      <3>1. Cardinality(Before(Of, h.kick)) \in Nat
        <4>1. IsFiniteSet(Before(Of, h.kick))
          BY FS_Subset, MakerAssumption DEF Before
        <4> QED BY <4>1, FS_CardinalityType
      <3>2. ~(Cardinality(Before(Of, h.kick)) < PerSport)
        BY <1>6
      <3> HIDE DEF Of
      <3> QED BY <3>1, <3>2, MakerAssumption
    <2>2. Cardinality(E) >= PerSport
      <3>1. Of \in SUBSET Fixtures
        OBVIOUS
      <3> HIDE DEF Of
      <3> QED BY <1>2, <2>1, <3>1, NearestSuffice, MakerAssumption
    <2>3. E \subseteq First /\ \A g \in E : g.sport = h.sport /\ g.kick < h.kick
      BY DEF Before
    <2>4. CASE E \subseteq Near
      <3> DEFINE M == {g \in Before(Near, h.kick) : g.sport = h.sport}
      <3>1. E \subseteq M
        BY <2>3, <2>4 DEF Before
      <3>2. IsFiniteSet(M)
        BY FS_Subset, MakerAssumption DEF Before
      <3>3. Cardinality(E) <= Cardinality(M) /\ Cardinality(E) \in Nat /\ Cardinality(M) \in Nat
        <4> HIDE DEF M, E
        <4> QED BY <3>1, <3>2, FS_Subset, FS_CardinalityType
      <3> HIDE DEF M, E
      <3>4. Cardinality(M) >= PerSport
        BY <2>2, <3>3, MakerAssumption
      <3> QED BY <3>4 DEF M
    <2>5. CASE ~(E \subseteq Near)
      <3>1. PICK g \in E : g \notin Near
        BY <2>5
      <3>2. g \in First /\ g.kick < h.kick /\ g.kick \in Nat
        BY <1>2, <2>3, <3>1, MakerAssumption
      <3>3. Cardinality(Before(First, g.kick)) \in Nat
        <4>1. IsFiniteSet(Before(First, g.kick))
          BY FS_Subset, MakerAssumption DEF Before
        <4> QED BY <4>1, FS_CardinalityType
      <3>4. Cardinality(Before(First, g.kick)) >= MaxGames
        <4>1. ~(Cardinality(Before(First, g.kick)) < MaxGames)
          <5> HIDE DEF First
          <5> QED BY <3>1, <3>2
        <4> HIDE DEF First
        <4> QED BY <3>3, <4>1, MakerAssumption
      <3>5. Cardinality(Before(Near, g.kick)) >= MaxGames
        <4> HIDE DEF First, Near
        <4> QED BY <1>4, <3>2, <3>4
      <3>6. Before(Near, g.kick) \subseteq Before(Near, h.kick)
        <4>1. \A x \in Near : x.kick \in Nat
          BY MakerAssumption
        <4> HIDE DEF Near
        <4> QED BY <1>2, <3>2, <4>1 DEF Before
      <3>7. IsFiniteSet(Before(Near, h.kick))
        BY FS_Subset, MakerAssumption DEF Before
      <3>8. /\ Cardinality(Before(Near, g.kick)) <= Cardinality(Before(Near, h.kick))
            /\ Cardinality(Before(Near, g.kick)) \in Nat
            /\ Cardinality(Before(Near, h.kick)) \in Nat
        <4> HIDE DEF Near
        <4> QED BY <3>6, <3>7, FS_Subset, FS_CardinalityType
      <3> HIDE DEF Near
      <3> QED BY <3>5, <3>8, MakerAssumption
    <2> QED BY <2>4, <2>5
  <1> QED BY <1>5, <1>6

\* What a load of the trees finds: files as they are, but those it could not read.
LEMMA TreesLoaded ==
    ASSUME WatchInv, NEW had \in Trees, NEW t, t = Watch!LoadTrees(had)
    PROVE  t \in Trees /\ \A s \in Watch!Sports \ Watch!NotRead : t[s] = file[s]
  <1>1. file \in Trees
    BY DEF WatchInv, TreeInv
  <1>2. t = [s \in Watch!Sports |-> IF s \in locked /\ file[s].at # 0 THEN had[s] ELSE file[s]]
    BY DEF Watch!LoadTrees
  <1>3. \A s \in Watch!Sports : t[s] = had[s] \/ t[s] = file[s]
    BY <1>2
  <1>4. t \in [Watch!Sports -> [at : Nat, games : SUBSET Fixtures]]
    BY <1>1, <1>2 DEF Trees
  <1>5. t \in Trees
    BY <1>1, <1>3, <1>4 DEF Trees
  <1> QED BY <1>2, <1>5 DEF Watch!NotRead

\* A universe built of trees holds only games of theirs, the nearest.
LEMMA UniverseBuilt ==
    ASSUME NEW t \in Trees, NEW u, u = Watch!BuildUniverse(t)
    PROVE  /\ u \subseteq UNION {t[s].games : s \in Watch!Sports}
           /\ \A s \in Watch!Sports : \A h \in t[s].games \ (u \cup ended) :
                 LET nearer == {g \in u : g.kick < h.kick}
                 IN  \/ Watch!Cardinality({g \in nearer : g.sport = s}) >= PerSport
                     \/ Watch!Cardinality(nearer) >= MaxGames
  <1> DEFINE Listed == (UNION {t[s].games : s \in Watch!Sports}) \ ended
             nearer(h) == {g \in u : g.kick < h.kick}
  <1>1. Listed \in SUBSET Fixtures
    BY DEF Trees
  <1>2. u = Watch!Nearest(Listed)
    BY DEF Watch!BuildUniverse
  <1>3. u \subseteq Listed
    <2> HIDE DEF Listed
    <2> QED BY <1>2 DEF Watch!Nearest
  <1>4. ASSUME NEW h \in Listed, h \notin u
        PROVE  \/ Watch!Cardinality({g \in nearer(h) : g.sport = h.sport}) >= PerSport
               \/ Watch!Cardinality(nearer(h)) >= MaxGames
    <2> HIDE DEF Listed
    <2> QED BY <1>1, <1>2, <1>4, NearestLeaves
  <1>5. \A s \in Watch!Sports : \A h \in t[s].games \ (u \cup ended) :
           h \in Listed /\ h \notin u /\ h.sport = s
    <2> SUFFICES ASSUME NEW s \in Watch!Sports, NEW h \in t[s].games \ (u \cup ended)
                 PROVE  h \in Listed /\ h.sport = s
      OBVIOUS
    <2>1. h \in UNION {t[q].games : q \in Watch!Sports}
      OBVIOUS
    <2> QED BY <2>1 DEF Trees
  <1>6. u \subseteq UNION {t[s].games : s \in Watch!Sports}
    BY <1>3
  <1> HIDE DEF Listed, nearer
  <1>7. \A s \in Watch!Sports : \A h \in t[s].games \ (u \cup ended) :
           \/ Watch!Cardinality({g \in nearer(h) : g.sport = s}) >= PerSport
           \/ Watch!Cardinality(nearer(h)) >= MaxGames
    BY <1>4, <1>5
  <1> QED BY <1>6, <1>7 DEF nearer

\* A builder replaces the file of a sport.
LEMMA WriteStep ==
    ASSUME "between" \notin TreeSlips, WatchInv, NEW s \in Watch!Sports, Watch!WriteTree(s)
    PROVE  WatchInv'
  <1>1. watch # "loaded"
    BY DEF Watch!WriteTree
  <1>2. PICK G \in SUBSET Watch!GamesOf(s) :
           file' = [file EXCEPT ![s] = [at |-> @.at + 1, games |-> G]]
    BY DEF Watch!WriteTree
  <1>3. UNCHANGED <<watch, mtimes, statted, trees, universe, subscribed, resting, ended, unread>>
    BY DEF Watch!WriteTree
  <1>4. TreeInv /\ Watch!FeedsFollow /\ Watch!NearestFirst
    BY DEF WatchInv
  <1>5. file \in [Watch!Sports -> [at : Nat, games : SUBSET Fixtures]]
    BY <1>4 DEF TreeInv, Trees
  <1> DEFINE row == [at |-> file[s].at + 1, games |-> G]
  <1>6. row \in [at : Nat, games : SUBSET Fixtures] /\ \A g \in row.games : g.sport = s
    BY <1>5 DEF Watch!GamesOf
  <1>7. file' = [file EXCEPT ![s] = row]
    BY <1>2
  <1>8. row.at = file[s].at + 1
    OBVIOUS
  <1> HIDE DEF row
  <1>9. /\ file' \in [Watch!Sports -> [at : Nat, games : SUBSET Fixtures]]
        /\ \A q \in Watch!Sports : file'[q] = IF q = s THEN row ELSE file[q]
    BY <1>5, <1>6, <1>7
  <1>10. file' \in Trees
    BY <1>4, <1>6, <1>9 DEF TreeInv, Trees
  <1>11. watch = "statted" => \A q \in Watch!Sports : statted[q] <= file'[q].at
    <2> SUFFICES ASSUME watch = "statted", NEW q \in Watch!Sports PROVE statted[q] <= file'[q].at
      OBVIOUS
    <2>1. statted[q] <= file[q].at
      BY <1>4 DEF TreeInv
    <2>2. CASE q # s
      BY <1>9, <2>1, <2>2
    <2>3. CASE q = s
      BY <1>4, <1>5, <1>8, <1>9, <2>1, <2>3 DEF TreeInv
    <2> QED BY <2>2, <2>3
  <1>12. TreeInv'
    BY <1>1, <1>3, <1>4, <1>10, <1>11 DEF TreeInv, Watch!Fresh
  <1> QED BY <1>3, <1>4, <1>12 DEF WatchInv, Watch!FeedsFollow, Watch!NearestFirst

\* The trees are loaded and the universe built of them is adopted.
LEMMA AdoptStep ==
    ASSUME WatchInv, NEW had \in Trees, trees' = Watch!LoadTrees(had), unread' = Watch!NotRead,
           universe' = Watch!BuildUniverse(trees'), subscribed' = universe',
           resting' \subseteq universe', UNCHANGED <<file, ended>>,
           \/ watch' = "loaded" /\ UNCHANGED <<mtimes, statted>>
           \/ /\ watch = "statted" /\ watch' = "looping"
              /\ mtimes' = statted /\ statted' = Watch!Unknown
    PROVE  WatchInv'
  <1>1. TreeInv /\ watch' # "off"
    BY DEF WatchInv
  <1>2. PICK t \in Trees : /\ t = trees' /\ t = Watch!LoadTrees(had)
                          /\ \A s \in Watch!Sports \ Watch!NotRead : t[s] = file[s]
    BY TreesLoaded
  <1>3. PICK u : u = universe' /\ u = Watch!BuildUniverse(t)
    BY <1>2
  <1>4. /\ u \subseteq UNION {t[s].games : s \in Watch!Sports}
        /\ \A s \in Watch!Sports : \A h \in t[s].games \ (u \cup ended) :
              LET nearer == {g \in u : g.kick < h.kick}
              IN  \/ Watch!Cardinality({g \in nearer : g.sport = s}) >= PerSport
                  \/ Watch!Cardinality(nearer) >= MaxGames
    BY <1>3, UniverseBuilt
  <1>5. Watch!NearestFirst'
    BY <1>2, <1>3, <1>4 DEF Watch!NearestFirst
  <1>6. Watch!FeedsFollow'
    BY <1>2, <1>3, <1>4 DEF Watch!FeedsFollow
  <1>7. \A s \in Watch!Sports : file[s].at \in Nat
    BY <1>1 DEF TreeInv, Trees
  <1>8. statted' \in [Watch!Sports -> Nat] /\ mtimes' \in [Watch!Sports -> Nat]
    BY <1>1 DEF TreeInv, Watch!Unknown
  <1>9. watch' = "loaded" => \A s \in Watch!Sports \ unread' : trees'[s].at >= file'[s].at
    BY <1>2, <1>7
  <1>10. watch' = "looping" => \A s \in Watch!Sports \ unread' : trees'[s].at >= mtimes'[s]
    <2> SUFFICES ASSUME watch' = "looping", NEW s \in Watch!Sports \ unread'
                 PROVE  trees'[s].at >= mtimes'[s]
      OBVIOUS
    <2>1. watch = "statted" /\ mtimes' = statted
      OBVIOUS
    <2>2. statted[s] <= file[s].at /\ statted[s] \in Nat
      BY <1>1, <2>1 DEF TreeInv
    <2> QED BY <1>2, <1>7, <2>1, <2>2
  <1>11. watch' # "statted"
    OBVIOUS
  <1>12. TreeInv'
    BY <1>1, <1>2, <1>8, <1>9, <1>10, <1>11 DEF TreeInv, Watch!Fresh
  <1> QED BY <1>5, <1>6, <1>12 DEF WatchInv

\* Nothing is held.
LEMMA HeldNothing ==
    [s \in Watch!Sports |-> Watch!NoTree] \in Trees
  BY DEF Trees, Watch!NoTree

\* Every step of the watch, and of the other parts, keeps the invariant.
LEMMA WatchSteps ==
    ASSUME "between" \notin TreeSlips, WatchInv, Watch!Next \/ UNCHANGED watchVars
    PROVE  WatchInv'
  <1>0. TreeInv /\ Watch!FeedsFollow /\ Watch!NearestFirst
    BY DEF WatchInv
  <1>1. CASE UNCHANGED <<file, watch, mtimes, statted, trees, universe, subscribed, resting, ended,
                         unread>>
    BY <1>0, <1>1 DEF WatchInv, TreeInv, Watch!Fresh, Watch!FeedsFollow, Watch!NearestFirst
  <1>2. ASSUME NEW s \in Watch!Sports, Watch!WriteTree(s) \/ Watch!Lock(s) PROVE WatchInv'
    <2>1. CASE Watch!Lock(s)
      BY <1>1, <2>1 DEF Watch!Lock
    <2> QED BY <1>2, <2>1, WriteStep
  <1>3. CASE Watch!Start
    <2>1. resting = {}
      BY <1>0, <1>3 DEF Watch!Start, TreeInv
    <2> QED BY <1>3, <2>1, HeldNothing, AdoptStep DEF Watch!Start
  <1>4. CASE Watch!Commit
    <2>1. /\ watch = "loaded" /\ watch' = "looping" /\ mtimes' = [s \in Watch!Sports |-> file[s].at]
          /\ UNCHANGED <<file, statted, trees, universe, subscribed, resting, ended, unread>>
      BY <1>4 DEF Watch!Commit, Watch!Times
    <2>2. mtimes' \in [Watch!Sports -> Nat]
      BY <1>0, <2>1 DEF TreeInv, Trees
    <2>3. TreeInv'
      BY <1>0, <2>1, <2>2 DEF TreeInv, Watch!Fresh
    <2> QED BY <1>0, <2>1, <2>3 DEF WatchInv, Watch!FeedsFollow, Watch!NearestFirst
  <1>5. CASE Watch!Changed
    <2>1. /\ watch = "looping" /\ watch' = "statted"
          /\ statted' = [s \in Watch!Sports |-> file[s].at]
          /\ UNCHANGED <<file, mtimes, trees, universe, subscribed, resting, ended, unread>>
      BY <1>5 DEF Watch!Changed, Watch!Times
    <2>2. /\ statted' \in [Watch!Sports -> Nat]
          /\ \A s \in Watch!Sports : statted'[s] <= file[s].at
      BY <1>0, <2>1 DEF TreeInv, Trees
    <2>3. TreeInv'
      BY <1>0, <2>1, <2>2 DEF TreeInv, Watch!Fresh
    <2> QED BY <1>0, <2>1, <2>3 DEF WatchInv, Watch!FeedsFollow, Watch!NearestFirst
  <1>6. ASSUME watch = "statted", watch' = "looping", statted' = Watch!Unknown,
               UNCHANGED <<file, mtimes, trees, universe, subscribed, resting, ended, unread>>
        PROVE  WatchInv'
    <2>1. statted' \in [Watch!Sports -> Nat]
      BY <1>6 DEF Watch!Unknown
    <2>2. TreeInv'
      BY <1>0, <1>6, <2>1 DEF TreeInv, Watch!Fresh
    <2> QED BY <1>0, <1>6, <2>2 DEF WatchInv, Watch!FeedsFollow, Watch!NearestFirst
  <1>7. CASE Watch!ReloadFails
    BY <1>6, <1>7 DEF Watch!ReloadFails
  <1>8. CASE Watch!Reload
    <2>1. PICK t, u : /\ t = Watch!LoadTrees(trees) /\ u = Watch!BuildUniverse(t)
                      /\ watch = "statted" /\ watch' = "looping" /\ statted' = Watch!Unknown
                      /\ UNCHANGED <<file, ended>>
                      /\ IF Watch!Refuses(u)
                         THEN UNCHANGED <<mtimes, trees, universe, subscribed, resting, unread>>
                         ELSE /\ mtimes' = statted /\ trees' = t /\ unread' = Watch!NotRead
                              /\ Watch!SetUniverse(u) /\ subscribed' = u
      BY <1>8 DEF Watch!Reload
    <2>2. CASE Watch!Refuses(u)
      BY <1>6, <2>1, <2>2
    <2>3. CASE ~Watch!Refuses(u)
      <3>1. universe' = u /\ resting' = resting \cap u
        BY <2>1, <2>3 DEF Watch!SetUniverse
      <3>2. trees \in Trees
        BY <1>0 DEF TreeInv
      <3> QED BY <2>1, <2>3, <3>1, <3>2, AdoptStep
    <2> QED BY <2>2, <2>3
  <1>9. ASSUME NEW g \in Fixtures, Watch!Quote(g) \/ Watch!Ends(g) PROVE WatchInv'
    <2>1. /\ UNCHANGED <<file, watch, mtimes, statted, trees, universe, subscribed, unread>>
          /\ resting' \subseteq resting \cup universe /\ ended \subseteq ended'
      BY <1>9 DEF Watch!Quote, Watch!Ends
    <2>4. watch = "off" => resting' = {}
      BY <1>0, <1>9 DEF Watch!Quote, Watch!Ends, TreeInv
    <2>2. TreeInv' /\ Watch!FeedsFollow'
      BY <1>0, <2>1, <2>4 DEF TreeInv, Watch!Fresh, Watch!FeedsFollow
    <2>3. Watch!NearestFirst'
      BY <1>0, <2>1 DEF Watch!NearestFirst
    <2> QED BY <2>2, <2>3 DEF WatchInv
  <1>10. CASE Watch!Exit
    <2>1. /\ watch' = "off" /\ mtimes' = Watch!Unknown /\ statted' = Watch!Unknown
          /\ trees' = [s \in Watch!Sports |-> Watch!NoTree] /\ UNCHANGED file
          /\ universe' = {} /\ subscribed' = {} /\ resting' = {}
      BY <1>10 DEF Watch!Exit
    <2>2. Watch!Unknown \in [Watch!Sports -> Nat]
      BY DEF Watch!Unknown
    <2>3. TreeInv'
      BY <1>0, <2>1, <2>2, HeldNothing DEF TreeInv, Watch!Fresh
    <2>4. \A s \in Watch!Sports : trees'[s].games = {}
      BY <2>1 DEF Watch!NoTree
    <2> QED BY <2>1, <2>3, <2>4 DEF WatchInv, Watch!FeedsFollow, Watch!NearestFirst
  <1> QED BY <1>1, <1>2, <1>3, <1>4, <1>5, <1>7, <1>8, <1>9, <1>10 DEF Watch!Next, watchVars

\* No process has begun.
LEMMA WatchStarts ==
    ASSUME Watch!Init
    PROVE  WatchInv
  <1>1. /\ file = [s \in Watch!Sports |-> Watch!NoTree] /\ trees = file
        /\ watch = "off" /\ mtimes = Watch!Unknown /\ statted = Watch!Unknown
        /\ universe = {} /\ subscribed = {} /\ resting = {}
    BY DEF Watch!Init
  <1>2. Watch!Unknown \in [Watch!Sports -> Nat]
    BY DEF Watch!Unknown
  <1>3. TreeInv
    BY <1>1, <1>2, HeldNothing DEF TreeInv, Watch!Fresh
  <1>4. \A s \in Watch!Sports : trees[s].games = {}
    BY <1>1 DEF Watch!NoTree
  <1> QED BY <1>1, <1>3, <1>4 DEF WatchInv, Watch!FeedsFollow, Watch!NearestFirst

\* One maker at a time, nothing but its own orders resting under it where its
\* sweep succeeded, and the nearest games of the trees it committed quoted and
\* heard, whatever the number of processes, games and files, as long as no tree is
\* replaced between the load at the start and the reading of the files' times
\* (singleton.py, __main__.py, universe.py; README, 5 has what happens otherwise).
THEOREM RuntimeKeptAlways ==
    ASSUME "between" \notin TreeSlips
    PROVE  Spec => []RuntimeKept
  <1> DEFINE Inv == MakerInv /\ WatchInv
  <1>1. Init => Inv
    BY MakerStarts, WatchStarts DEF Init
  <1>2. Inv /\ [Next]_vars => Inv'
    <2>1. [Next]_vars => /\ Maker!Next \/ UNCHANGED makerVars
                         /\ Watch!Next \/ UNCHANGED watchVars
      BY Zenon DEF Next, Only, vars
    <2> QED BY <2>1, MakerSteps, WatchSteps
  <1>3. Inv => RuntimeKept
    BY MakerKept DEF RuntimeKept, WatchInv, TreeInv, Watch!WatchKept
  <1> HIDE DEF Inv
  <1> QED BY <1>1, <1>2, <1>3, PTL DEF Spec
-----------------------------------------------------------------------------
(* The sale of a fill that could not be hedged (ExitSale).                 *)

\* No read was blind or stale and no order filled under the sale: what the bot
\* reads is what it holds.
Clean == odd \cap {"blind", "stale", "late"} = {}

\* The loops of a verified sale.
Sales == [toSell : Nat, prev : Int, left : Nat \cup {Exit!Unread},
          was : Int, tries : Int, cost : Int]

ExitTypes ==
    /\ site \in {"kalshi", "polymarket"} /\ have \in Int /\ kept \in Nat /\ unseen \in Nat
    /\ chain \in {"idle", "pull", "sell", "read", "book"} /\ naked \in Nat /\ round \in {1, 2}
    /\ sale \in Sales
    /\ carried \in Int /\ booked \in Int /\ loss \in Int
    /\ marked \in BOOLEAN /\ stopped \in BOOLEAN
    /\ odd \subseteq {"lost", "stale", "blind", "late"}

\* What is held beyond the legs kept on purpose.
Spare == have - kept

\* It covers what is to be sold, was read as it is, and between the chains it is
\* what was not seen yet and too little to sell.
HoldInv ==
    /\ Spare >= 0 /\ (chain # "idle" => unseen = 0)
    /\ chain = "idle" => unseen <= Spare /\ (stopped \/ Spare - unseen < Exit!MinTradable)
    /\ chain = "pull" => naked <= Spare /\ (round = 1 => Spare - naked < Exit!MinTradable)
    /\ chain = "sell" => sale.toSell <= Spare
    /\ chain = "book" => sale.left = Spare
    /\ round = 2 => chain # "idle" /\ (chain = "pull" => naked = Spare)

\* What the sales lost is booked, or on its way into the books; the second sale
\* has lost no more than what it sold was bought for.
CostInv ==
    /\ booked + carried + sale.cost >= loss
    /\ ~marked => booked + carried + sale.cost = loss
    /\ chain = "idle" => carried = 0 /\ sale.cost = 0
    /\ chain = "pull" => sale.cost = 0
    /\ round = 1 => carried = 0
    /\ round = 2 => sale.cost <= EntryPrice * (naked - Spare)

\* The inductive invariant of the sale.
ExitInv ==
    /\ ExitTypes
    /\ Clean => HoldInv
    /\ odd = {} => CostInv

\* An order to sell x asks for no more than x.
LEMMA SellableFacts ==
    ASSUME NEW x \in Nat
    PROVE  Exit!Sellable(x) \in Nat /\ Exit!Sellable(x) <= x
  <1>1. /\ (x \div Contract) * Contract \in Nat
        /\ (x \div Contract) * Contract <= x
    BY ExitAssumption
  <1> QED BY <1>1 DEF Exit!Sellable

\* What a sale is asked for and gets.
LEMMA TakenFacts ==
    ASSUME NEW n \in Nat, NEW got \in Exit!Taken(n)
    PROVE  got \in Nat /\ got <= n
  <1>1. n \div 2 \in Nat /\ n \div 2 <= n
    OBVIOUS
  <1>2. Exit!Sellable(n \div 2) \in Nat /\ Exit!Sellable(n \div 2) <= n
    <2> DEFINE half == n \div 2
    <2> HIDE DEF half
    <2>1. Exit!Sellable(half) \in Nat /\ Exit!Sellable(half) <= half
      BY <1>1, SellableFacts DEF half
    <2> QED BY <1>1, <2>1 DEF half
  <1>3. got \in {0, n, Exit!Sellable(n \div 2)}
    BY DEF Exit!Taken
  <1> QED BY <1>2, <1>3

\* The naked part of a position read.
LEMMA LeftFacts ==
    ASSUME ExitTypes, NEW r \in Int
    PROVE  /\ Exit!Left(r) \in Nat
           /\ r >= kept => Exit!Left(r) = r - kept
  <1> DEFINE a == Exit!Abs(r) - kept
             m == Exit!Max({0, a})
  <1>1. a \in Int /\ (r >= kept => a = r - kept /\ a >= 0)
    BY DEF Exit!Abs, ExitTypes
  <1> HIDE DEF a
  <1>2. m = CHOOSE x \in {0, a} : \A y \in {0, a} : x >= y
    BY DEF Exit!Max
  <1>3. \E x \in {0, a} : \A y \in {0, a} : x >= y
    BY <1>1
  <1> HIDE DEF m
  <1>4. m \in {0, a} /\ \A y \in {0, a} : m >= y
    BY <1>2, <1>3
  <1>5. Exit!Left(r) = m
    BY DEF Exit!Left, m, a
  <1> QED BY <1>1, <1>4, <1>5

\* Before a sale its loop has sold nothing.
LEMMA NoSaleFacts == Exit!NoSale \in Sales /\ Exit!NoSale.cost = 0
  BY DEF Sales, Exit!NoSale, Exit!Unread

\* What a sale writes into the loop.
LEMMA SaleTried ==
    ASSUME NEW s \in Sales, NEW n \in Int, NEW c \in Int
    PROVE  LET u == [s EXCEPT !.was = n, !.tries = @ + 1, !.cost = c]
           IN  u \in Sales /\ u.cost = c /\ u.toSell = s.toSell
  <1>1. [s EXCEPT !.was = n] \in Sales
    BY DEF Sales
  <1>2. \A u \in Sales : [u EXCEPT !.tries = @ + 1] \in Sales
    BY DEF Sales
  <1>3. \A u \in Sales : [u EXCEPT !.cost = c] \in Sales
    BY DEF Sales
  <1>4. [s EXCEPT !.was = n, !.tries = @ + 1, !.cost = c]
            = [[[s EXCEPT !.was = n] EXCEPT !.tries = @ + 1] EXCEPT !.cost = c]
    OBVIOUS
  <1>5. [s EXCEPT !.was = n, !.tries = @ + 1, !.cost = c].cost = c
    BY DEF Sales
  <1>6. [s EXCEPT !.was = n, !.tries = @ + 1, !.cost = c].toSell = s.toSell
    BY DEF Sales
  <1> QED BY <1>1, <1>2, <1>3, <1>4, <1>5, <1>6

\* What a read of the position writes into it.
LEMMA SaleRead ==
    ASSUME NEW s \in Sales, NEW l \in Nat \cup {Exit!Unread}
    PROVE  LET u == [s EXCEPT !.left = l]
           IN  u \in Sales /\ u.cost = s.cost /\ u.left = l
  <1>1. [s EXCEPT !.left = l] \in Sales
    BY DEF Sales
  <1>2. [s EXCEPT !.left = l].cost = s.cost
    BY DEF Sales
  <1>3. [s EXCEPT !.left = l].left = l
    BY DEF Sales
  <1> QED BY <1>1, <1>2, <1>3

\* And what the next sale is to sell.
LEMMA SaleAgain ==
    ASSUME NEW s \in Sales, NEW l \in Nat, NEW a \in Nat
    PROVE  [s EXCEPT !.left = l, !.prev = l, !.toSell = a] \in Sales
  <1>1. [s EXCEPT !.left = l] \in Sales
    BY DEF Sales
  <1>2. \A v \in Sales : [v EXCEPT !.prev = l] \in Sales
    BY l \in Int DEF Sales
  <1>3. \A v \in Sales : [v EXCEPT !.toSell = a] \in Sales
    BY DEF Sales
  <1>4. [s EXCEPT !.left = l, !.prev = l, !.toSell = a]
            = [[[s EXCEPT !.left = l] EXCEPT !.prev = l] EXCEPT !.toSell = a]
    OBVIOUS
  <1> QED BY <1>1, <1>2, <1>3, <1>4

\* The resting order fills.
LEMMA FillStep ==
    ASSUME ExitInv, NEW n \in FillSizes, Exit!RestFills(n)
    PROVE  ExitInv'
  <1>1. /\ have' = have + n /\ unseen' = unseen + n /\ n \in Nat
        /\ odd' = IF chain = "idle" THEN odd ELSE odd \cup {"late"}
        /\ UNCHANGED <<site, kept, chain, naked, round, sale, carried, booked, marked, stopped,
                       loss>>
    BY ExitAssumption DEF Exit!RestFills
  <1>2. ExitTypes'
    BY <1>1 DEF ExitInv, ExitTypes
  <1>3. Clean' => Clean /\ chain = "idle"
    BY <1>1 DEF Clean
  <1>4. Exit!MinTradable' = Exit!MinTradable /\ Exit!MinTradable \in Nat
    BY <1>1, ExitAssumption DEF Exit!MinTradable
  <1>5. Clean' => HoldInv'
    BY <1>1, <1>3, <1>4 DEF ExitInv, ExitTypes, HoldInv, Spare
  <1>6. odd' = {} => odd = {} /\ chain = "idle" /\ Clean
    BY <1>1 DEF Clean
  <1>7. odd' = {} => round = 1
    BY <1>6 DEF ExitInv, ExitTypes, HoldInv
  <1>8. odd' = {} => CostInv'
    BY <1>1, <1>6, <1>7 DEF ExitInv, ExitTypes, CostInv
  <1> QED BY <1>2, <1>5, <1>8 DEF ExitInv

\* The fill is detected, and dust is booked.
LEMMA DetectStep ==
    ASSUME ExitInv, Exit!Detect \/ Exit!BookDust
    PROVE  ExitInv'
  <1>1. PICK leg \in Nat :
           /\ UNCHANGED <<site, have, round, sale, carried, booked, stopped, loss, odd>>
           /\ kept' = kept + leg /\ (marked => marked') /\ marked' \in BOOLEAN
           /\ \/ /\ chain = "idle" /\ leg <= unseen /\ naked' = unseen - leg /\ unseen' = 0
                 /\ ~stopped /\ chain' = IF leg < unseen THEN "pull" ELSE "idle"
              \/ /\ chain = "pull" /\ round = 1 /\ leg = naked /\ naked' = 0 /\ unseen' = unseen
                 /\ chain' = "idle"
    <2>1. CASE Exit!Detect
      <3>1. PICK some \in {0, Exit!Sellable(unseen), unseen} :
               /\ kept' = kept + some /\ naked' = unseen - some
               /\ chain' = IF some < unseen THEN "pull" ELSE "idle"
        BY <2>1 DEF Exit!Detect
      <3>2. unseen \in Nat /\ marked \in BOOLEAN
        BY DEF ExitInv, ExitTypes
      <3>3. some \in Nat /\ some <= unseen
        BY <3>1, <3>2, SellableFacts
      <3> QED BY <2>1, <3>1, <3>2, <3>3 DEF Exit!Detect
    <2>2. CASE Exit!BookDust
      <3>1. naked \in Nat
        BY DEF ExitInv, ExitTypes
      <3> QED BY <2>2, <3>1 DEF Exit!BookDust
    <2> QED BY <2>1, <2>2
  <1>2. ExitTypes'
    BY <1>1 DEF ExitInv, ExitTypes
  <1>3. Exit!MinTradable' = Exit!MinTradable /\ Exit!MinTradable \in Nat
    BY <1>1, ExitAssumption DEF Exit!MinTradable
  <1>4. Clean => round = 1 \/ chain = "idle"
    BY <1>1
  <1>5. Clean' => HoldInv'
    <2>1. /\ Spare \in Int /\ Spare' = Spare - leg /\ unseen \in Nat /\ naked \in Nat
          /\ round \in {1, 2}
      BY <1>1 DEF ExitInv, ExitTypes, Spare
    <2>2. Clean' => Clean /\ HoldInv
      BY <1>1 DEF Clean, ExitInv
    <2>3. CASE /\ chain = "idle" /\ leg <= unseen /\ naked' = unseen - leg /\ unseen' = 0
               /\ ~stopped /\ chain' = IF leg < unseen THEN "pull" ELSE "idle"
      BY <1>1, <1>3, <2>1, <2>2, <2>3 DEF HoldInv
    <2>4. CASE /\ chain = "pull" /\ round = 1 /\ leg = naked /\ naked' = 0 /\ unseen' = unseen
               /\ chain' = "idle"
      BY <1>1, <1>3, <2>1, <2>2, <2>4 DEF HoldInv
    <2> QED BY <1>1, <2>3, <2>4
  <1>6. odd = {} => HoldInv /\ CostInv
    BY DEF ExitInv, Clean
  <1>7. odd = {} => round = 1
    BY <1>1, <1>6 DEF HoldInv, ExitInv, ExitTypes
  <1>8. odd' = {} => CostInv'
    BY <1>1, <1>6, <1>7 DEF ExitInv, ExitTypes, CostInv
  <1> QED BY <1>2, <1>5, <1>8 DEF ExitInv

\* Our own orders leave the book, and the sale is made up.
LEMMA PullStep ==
    ASSUME ExitInv, Exit!PullOwnBookSide
    PROVE  ExitInv'
  <1>1. /\ chain = "pull" /\ chain' = "sell"
        /\ sale' = [Exit!NoSale EXCEPT !.toSell = Exit!Sellable(naked)]
        /\ UNCHANGED <<site, have, kept, unseen, naked, round, carried, booked, marked, stopped,
                       loss, odd>>
    BY DEF Exit!PullOwnBookSide
  <1>2. Exit!Sellable(naked) \in Nat /\ Exit!Sellable(naked) <= naked
    BY SellableFacts DEF ExitInv, ExitTypes
  <1>3. sale' \in Sales /\ sale'.toSell <= naked /\ sale'.cost = 0
    BY <1>1, <1>2 DEF Exit!NoSale, Sales, Exit!Unread
  <1>4. ExitTypes'
    BY <1>1, <1>3 DEF ExitInv, ExitTypes
  <1>5. Exit!MinTradable' = Exit!MinTradable
    BY <1>1 DEF Exit!MinTradable
  <1>6. Clean' => HoldInv'
    <2>1. sale'.toSell \in Nat /\ naked \in Nat
      BY <1>3, <1>4 DEF ExitTypes, Sales, ExitInv
    <2> QED BY <1>1, <1>3, <1>5, <2>1 DEF ExitInv, ExitTypes, HoldInv, Spare, Clean
  <1>7. odd = {} => HoldInv /\ CostInv
    BY DEF ExitInv, Clean
  <1>8. odd' = {} => CostInv'
    <2>1. odd = {} /\ round = 2 => naked = Spare /\ EntryPrice * (naked - Spare) = 0
      BY <1>1, <1>7, ExitAssumption DEF HoldInv, ExitInv, ExitTypes, Spare
    <2>2. Spare' = Spare
      BY <1>1 DEF Spare
    <2> QED BY <1>1, <1>3, <1>7, <2>1, <2>2 DEF ExitInv, ExitTypes, CostInv
  <1> QED BY <1>4, <1>6, <1>8 DEF ExitInv

\* The sale gets what the book gives, for a price, and hears of it or not.
LEMMA SellStep ==
    ASSUME ExitInv, Exit!Sell
    PROVE  ExitInv'
  <1>1. PICK got \in Exit!Taken(sale.toSell), px \in Bids, answered \in BOOLEAN :
           /\ chain = "sell" /\ chain' = "read"
           /\ have' = have - got /\ loss' = loss + (EntryPrice - px) * got
           /\ odd' = IF answered THEN odd ELSE odd \cup {"lost"}
           /\ sale' = [sale EXCEPT !.was = have, !.tries = @ + 1,
                                   !.cost = IF answered THEN @ + (EntryPrice - px) * got ELSE @]
           /\ UNCHANGED <<site, kept, unseen, naked, round, carried, booked, marked, stopped>>
    BY DEF Exit!Sell
  <1>2. got \in Nat /\ got <= sale.toSell /\ sale.toSell \in Nat /\ sale.cost \in Int
    BY TakenFacts DEF ExitInv, ExitTypes, Sales
  <1> DEFINE paid == (EntryPrice - px) * got
             cost == IF answered THEN sale.cost + paid ELSE sale.cost
  <1>3. paid \in Int /\ paid <= EntryPrice * got /\ EntryPrice * got \in Nat
    <2>1. px \in Nat /\ EntryPrice \in Nat
      BY ExitAssumption
    <2>2. paid = EntryPrice * got - px * got /\ px * got \in Nat /\ EntryPrice * got \in Nat
      BY <1>2, <2>1
    <2> QED BY <2>2
  <1>4. /\ loss' = loss + paid /\ cost \in Int
        /\ sale' = [sale EXCEPT !.was = have, !.tries = @ + 1, !.cost = cost]
    BY <1>1, <1>2, <1>3
  <1>5. cost = IF answered THEN sale.cost + paid ELSE sale.cost
    OBVIOUS
  <1> HIDE DEF paid, cost
  <1>6. sale' \in Sales /\ sale'.cost = cost /\ sale'.toSell = sale.toSell
    <2>1. sale \in Sales /\ have \in Int
      BY DEF ExitInv, ExitTypes
    <2> QED BY <1>4, <2>1, SaleTried, ZenonT(40)
  <1>7. ExitTypes'
    BY <1>1, <1>2, <1>3, <1>4, <1>6 DEF ExitInv, ExitTypes
  <1>8. Exit!MinTradable' = Exit!MinTradable
    BY <1>1 DEF Exit!MinTradable
  <1>9. Spare' = Spare - got /\ Spare \in Int /\ naked \in Nat
    BY <1>1, <1>2 DEF ExitInv, ExitTypes, Spare
  <1>10. Clean' => Clean
    BY <1>1 DEF Clean
  <1>11. Clean' => HoldInv'
    BY <1>1, <1>2, <1>8, <1>9, <1>10 DEF ExitInv, HoldInv
  <1>12. odd' = {} => odd = {} /\ answered
    BY <1>1
  <1>13. odd = {} => HoldInv /\ CostInv
    BY DEF ExitInv, Clean
  <1>14. ASSUME odd' = {}, round = 2 PROVE cost <= EntryPrice * (naked - Spare')
    <2> DEFINE gone == naked - Spare
    <2>1. sale.cost <= EntryPrice * gone /\ cost = sale.cost + paid
      BY <1>5, <1>12, <1>13, <1>14 DEF CostInv
    <2>2. naked - Spare' = gone + got /\ gone \in Int
      BY <1>2, <1>9
    <2> HIDE DEF gone
    <2>3. /\ EntryPrice * (gone + got) = EntryPrice * gone + EntryPrice * got
          /\ EntryPrice * gone \in Int
      BY <1>2, <2>2, ExitAssumption
    <2> QED BY <1>2, <1>3, <2>1, <2>2, <2>3
  <1>15. odd' = {} => CostInv'
    BY <1>1, <1>2, <1>3, <1>4, <1>5, <1>6, <1>12, <1>13, <1>14 DEF ExitInv, ExitTypes, CostInv
  <1> QED BY <1>7, <1>11, <1>15 DEF ExitInv

\* The position is read, and what is left is sold again or accounted for.
LEMMA ReadStep ==
    ASSUME ExitInv, Exit!ReadBack
    PROVE  ExitInv'
  <1>1. PICK r \in Exit!Reads :
           /\ chain = "read" /\ odd' = odd \cup r[2]
           /\ \/ /\ r[1] # Exit!Unread /\ chain' = "sell"
                 /\ sale' = [sale EXCEPT !.left = r[1], !.prev = r[1],
                                         !.toSell = Exit!Sellable(r[1])]
              \/ sale' = [sale EXCEPT !.left = r[1]] /\ chain' = "book"
           /\ UNCHANGED <<site, have, kept, unseen, naked, round, carried, booked, marked,
                          stopped, loss>>
    BY DEF Exit!ReadBack, Exit!Again
  <1>2. /\ have \in Int /\ kept \in Nat /\ sale \in Sales /\ sale.was \in Int
        /\ odd \subseteq {"lost", "stale", "blind", "late"}
    BY DEF ExitInv, ExitTypes, Sales
  <1>3. /\ Exit!Left(have) \in Nat /\ Exit!Left(sale.was) \in Nat
        /\ have >= kept => Exit!Left(have) = have - kept
    BY <1>2, LeftFacts DEF ExitInv
  <1> DEFINE left == r[1]
  <1>4. \/ r = <<Exit!Left(have), {}>>
        \/ r = <<Exit!Left(sale.was), {"stale"}>>
        \/ r = <<Exit!Unread, {"blind"}>>
    BY DEF Exit!Reads
  <1>5. /\ left \in Nat \cup {Exit!Unread} /\ r[2] \subseteq {"stale", "blind"}
        /\ left = Exit!Left(have) \/ r[2] \cap {"stale", "blind"} # {}
    BY <1>3, <1>4
  <1>6. Clean' => Clean /\ left = Spare
    <2>1. Clean' => Clean /\ left = Exit!Left(have)
      BY <1>1, <1>5 DEF Clean
    <2>2. Clean => have >= kept
      BY <1>2 DEF ExitInv, HoldInv, Spare
    <2> QED BY <1>3, <2>1, <2>2 DEF Spare
  <1>7. left \in Nat => Exit!Sellable(left) \in Nat /\ Exit!Sellable(left) <= left
    BY SellableFacts
  <1>8. /\ \/ /\ left \in Nat /\ chain' = "sell"
              /\ sale' = [sale EXCEPT !.left = left, !.prev = left, !.toSell = Exit!Sellable(left)]
           \/ sale' = [sale EXCEPT !.left = left] /\ chain' = "book"
    BY <1>1, <1>5
  <1> HIDE DEF left
  <1>9. /\ sale' \in Sales /\ sale'.cost = sale.cost
        /\ chain' = "sell" => sale'.toSell = Exit!Sellable(left) /\ left \in Nat
        /\ chain' = "book" => sale'.left = left
        /\ chain' \in {"sell", "book"}
    <2>1. left \in Nat \cup {Exit!Unread}
      BY <1>5 DEF left
    <2>2. CASE /\ left \in Nat /\ chain' = "sell"
               /\ sale' = [sale EXCEPT !.left = left, !.prev = left, !.toSell = Exit!Sellable(left)]
      <3>1. Exit!Sellable(left) \in Nat
        BY <1>7, <2>2
      <3>2. sale' \in Sales
        BY <1>2, <2>2, <3>1, SaleAgain
      <3>3. sale'.cost = sale.cost
        BY <1>2, <2>2 DEF Sales
      <3>4. sale'.toSell = Exit!Sellable(left)
        BY <1>2, <2>2 DEF Sales
      <3> QED BY <2>2, <3>2, <3>3, <3>4
    <2>3. CASE sale' = [sale EXCEPT !.left = left] /\ chain' = "book"
      BY <1>2, <2>1, <2>3, SaleRead
    <2> QED BY <1>8, <2>2, <2>3
  <1>10. odd' \subseteq {"lost", "stale", "blind", "late"}
    BY <1>1, <1>2, <1>5
  <1>11. ExitTypes'
    BY <1>1, <1>9, <1>10 DEF ExitInv, ExitTypes
  <1>12. Exit!MinTradable' = Exit!MinTradable /\ Spare' = Spare
    BY <1>1 DEF Exit!MinTradable, Spare
  <1>13. Clean' => HoldInv'
    BY <1>1, <1>6, <1>7, <1>9, <1>12 DEF ExitInv, HoldInv
  <1>14. odd' = {} => odd = {}
    BY <1>1
  <1>15. odd' = {} => CostInv'
    BY <1>1, <1>9, <1>12, <1>14 DEF ExitInv, CostInv
  <1> QED BY <1>11, <1>13, <1>15 DEF ExitInv

\* A sale that left the position flat is booked.
LEMMA BookStep ==
    ASSUME ExitInv, Exit!BookSale
    PROVE  ExitInv'
  <1>1. /\ chain = "book" /\ sale.left # Exit!Unread /\ Exit!Flat(sale.left)
        /\ booked' = booked + (carried + sale.cost)
        /\ chain' = "idle" /\ naked' = 0 /\ round' = 1 /\ carried' = 0 /\ sale' = Exit!NoSale
        /\ UNCHANGED <<site, have, kept, unseen, marked, stopped, loss, odd>>
    BY DEF Exit!BookSale, Exit!ProvenFlat, Exit!Cost
  <1>2. sale' \in Sales /\ sale'.cost = 0
    BY <1>1, NoSaleFacts
  <1>3. sale.cost \in Int
    BY DEF ExitInv, ExitTypes, Sales
  <1>4. ExitTypes'
    BY <1>1, <1>2, <1>3 DEF ExitInv, ExitTypes
  <1>5. /\ Exit!MinTradable' = Exit!MinTradable /\ Spare' = Spare /\ Clean' = Clean
    BY <1>1 DEF Exit!MinTradable, Spare, Clean
  <1>6. Clean => Spare < Exit!MinTradable /\ Spare >= 0 /\ unseen = 0
    <2>1. Clean => sale.left = Spare /\ Spare >= 0 /\ unseen = 0
      BY <1>1 DEF ExitInv, HoldInv
    <2>2. Spare \in Int
      BY DEF ExitInv, ExitTypes, Spare
    <2>3. Exit!Flat(Spare) => Spare < Exit!MinTradable
      BY <2>2, ExitAssumption DEF Exit!Flat, Exit!MinTradable
    <2> QED BY <1>1, <2>1, <2>3
  <1>7. Clean' => HoldInv'
    <2>1. Spare \in Int /\ (Clean => Spare - unseen < Exit!MinTradable)
      <3>1. Spare \in Int /\ Exit!MinTradable \in Nat
        BY ExitAssumption DEF ExitInv, ExitTypes, Spare, Exit!MinTradable
      <3> QED BY <1>6, <3>1
    <2> QED BY <1>1, <1>5, <1>6, <2>1 DEF HoldInv
  <1>8. odd = {} => CostInv
    BY DEF ExitInv
  <1>9. odd' = {} => CostInv'
    BY <1>1, <1>2, <1>3, <1>8 DEF ExitInv, ExitTypes, CostInv
  <1> QED BY <1>4, <1>7, <1>9 DEF ExitInv

\* What a sale left is sold once more.
LEMMA FlattenAgain ==
    ASSUME ExitInv, Exit!AutoFlatten
    PROVE  ExitInv'
  <1>1. /\ chain = "book" /\ round = 1 /\ round' = 2 /\ chain' = "pull"
        /\ naked' = (IF sale.left = Exit!Unread THEN naked ELSE sale.left)
        /\ carried' = sale.cost /\ sale' = Exit!NoSale
        /\ UNCHANGED <<site, have, kept, unseen, booked, marked, stopped, loss, odd>>
    BY DEF Exit!AutoFlatten, Exit!StillNaked
  <1>2. sale' \in Sales /\ sale'.cost = 0
    BY <1>1, NoSaleFacts
  <1>3. sale.cost \in Int /\ naked' \in Nat
    BY <1>1 DEF ExitInv, ExitTypes, Sales
  <1>4. ExitTypes'
    BY <1>1, <1>2, <1>3 DEF ExitInv, ExitTypes
  <1>5. Exit!MinTradable' = Exit!MinTradable /\ Spare' = Spare /\ Clean' = Clean
    BY <1>1 DEF Exit!MinTradable, Spare, Clean
  <1>6. Clean => Spare \in Nat /\ naked' = Spare /\ unseen = 0
    <2>1. Clean => sale.left = Spare /\ Spare >= 0 /\ unseen = 0
      BY <1>1 DEF ExitInv, HoldInv
    <2>2. Spare \in Int
      BY DEF ExitInv, ExitTypes, Spare
    <2> QED BY <1>1, <2>1, <2>2 DEF Exit!Unread
  <1>7. Clean' => HoldInv'
    BY <1>1, <1>5, <1>6 DEF HoldInv
  <1>8. odd = {} => CostInv /\ Clean
    BY DEF ExitInv, Clean
  <1>9. odd' = {} => CostInv'
    <2>1. odd = {} => EntryPrice * (naked' - Spare) = 0
      BY <1>6, <1>8, ExitAssumption
    <2> QED BY <1>1, <1>2, <1>3, <1>5, <1>8, <2>1 DEF ExitInv, ExitTypes, CostInv
  <1> QED BY <1>4, <1>7, <1>9 DEF ExitInv

\* What is held on purpose, or is too little, explains the position.
LEMMA OrphanFacts ==
    ASSUME ExitTypes, Exit!Orphaned, have >= kept
    PROVE  stopped' \in BOOLEAN /\ (~stopped' => Spare < Exit!MinTradable)
  <1>1. stopped' = ~(kept > 0 /\ Exit!Explained)
    BY DEF Exit!Orphaned
  <1>2. ~stopped' => Spare <= Tolerance
    <2>1. ~stopped' => Exit!Explained
      BY <1>1, Zenon
    <2>2. Exit!Explained => Spare <= Tolerance
      BY ExitAssumption DEF Exit!Explained, Exit!Abs, ExitTypes, Spare
    <2> QED BY <2>1, <2>2
  <1>3. Spare \in Int
    BY DEF ExitTypes, Spare
  <1> QED BY <1>1, <1>2, <1>3, ExitAssumption DEF Exit!MinTradable

\* The worst case is booked and a human is called.
LEMMA OrphanStep ==
    ASSUME ExitInv, Exit!Orphan
    PROVE  ExitInv'
  <1>1. /\ chain = "book" /\ marked' = TRUE /\ Exit!Orphaned
        /\ booked' = booked + (IF round = 2 THEN EntryPrice * naked + carried
                               ELSE EntryPrice * Exit!StillNaked + sale.cost)
        /\ chain' = "idle" /\ naked' = 0 /\ round' = 1 /\ carried' = 0 /\ sale' = Exit!NoSale
        /\ UNCHANGED <<site, have, kept, unseen, loss, odd>>
    BY DEF Exit!Orphan
  <1>2. sale' \in Sales /\ sale'.cost = 0
    BY <1>1, NoSaleFacts
  <1>3. sale.cost \in Int /\ Exit!StillNaked \in Nat /\ naked \in Nat /\ Spare \in Int
    BY DEF ExitInv, ExitTypes, Sales, Exit!StillNaked, Spare
  <1> DEFINE worst == EntryPrice * Exit!StillNaked
             all == EntryPrice * naked
  <1>4. worst \in Nat /\ all \in Nat
    BY <1>3, ExitAssumption
  <1>5. booked' = booked + (IF round = 2 THEN all + carried ELSE worst + sale.cost)
    BY <1>1
  <1>6. odd = {} => CostInv /\ Clean /\ HoldInv
    BY DEF ExitInv, Clean
  <1>7. odd = {} /\ round = 2 => sale.cost <= all
    <2>1. ASSUME Spare >= 0 PROVE EntryPrice * (naked - Spare) <= EntryPrice * naked
      <3>1. EntryPrice * (naked - Spare) = EntryPrice * naked - EntryPrice * Spare
        BY <1>3, ExitAssumption
      <3>2. Spare \in Nat /\ EntryPrice * Spare \in Nat /\ EntryPrice * naked \in Nat
        BY <1>3, <2>1, ExitAssumption
      <3> QED BY <3>1, <3>2
    <2>2. EntryPrice * (naked - Spare) \in Int
      BY <1>3, ExitAssumption
    <2> QED BY <1>3, <1>4, <1>6, <2>1, <2>2 DEF CostInv, HoldInv
  <1> HIDE DEF worst, all
  <1>8. stopped' \in BOOLEAN
    BY <1>1 DEF Exit!Orphaned
  <1>9. ExitTypes'
    BY <1>1, <1>2, <1>3, <1>4, <1>5, <1>8 DEF ExitInv, ExitTypes
  <1>10. Exit!MinTradable' = Exit!MinTradable /\ Spare' = Spare /\ Clean' = Clean
    BY <1>1 DEF Exit!MinTradable, Spare, Clean
  <1>11. Clean => Spare >= 0 /\ unseen = 0
    BY <1>1 DEF ExitInv, HoldInv
  <1>12. Clean => stopped' \/ Spare - unseen < Exit!MinTradable
    <2>1. Clean => have >= kept
      BY <1>11 DEF Spare, ExitInv, ExitTypes
    <2> QED BY <1>1, <1>3, <1>11, <2>1, OrphanFacts DEF ExitInv
  <1>13. Clean' => HoldInv'
    BY <1>1, <1>10, <1>11, <1>12 DEF HoldInv
  <1>14. odd' = {} => CostInv'
    <2>1. /\ booked \in Int /\ carried \in Int /\ loss \in Int /\ round \in {1, 2}
          /\ booked' \in Int
      BY <1>9 DEF ExitInv, ExitTypes
    <2>2. odd = {} => booked' >= loss
      BY <1>3, <1>4, <1>5, <1>6, <1>7, <2>1 DEF CostInv
    <2> QED BY <1>1, <1>2, <2>1, <2>2 DEF CostInv
  <1> QED BY <1>9, <1>13, <1>14 DEF ExitInv

\* An exit comes back as a fill.
LEMMA SweepExitStep ==
    ASSUME ExitInv, Exit!SweepExit
    PROVE  ExitInv'
  <1>1. /\ chain = "idle" /\ (stopped' = stopped \/ stopped' = TRUE)
        /\ UNCHANGED <<site, have, kept, unseen, chain, naked, round, sale, carried, booked,
                       marked, loss, odd>>
    BY DEF Exit!SweepExit, Exit!Orphaned
  <1>2. ExitTypes'
    BY <1>1 DEF ExitInv, ExitTypes
  <1>3. Exit!MinTradable' = Exit!MinTradable /\ Spare' = Spare /\ Clean' = Clean
    BY <1>1 DEF Exit!MinTradable, Spare, Clean
  <1>4. Clean' => HoldInv'
    BY <1>1, <1>3 DEF ExitInv, HoldInv
  <1>5. odd' = {} => CostInv'
    BY <1>1, <1>3 DEF ExitInv, CostInv
  <1> QED BY <1>2, <1>4, <1>5 DEF ExitInv

\* Every step of a sale keeps the invariant.
LEMMA ExitSteps ==
    ASSUME ExitInv, Exit!Next \/ UNCHANGED exitVars
    PROVE  ExitInv'
  <1>1. CASE UNCHANGED exitVars
    <2>1. /\ Exit!MinTradable' = Exit!MinTradable /\ Spare' = Spare /\ Clean' = Clean
          /\ UNCHANGED <<site, have, kept, unseen, chain, naked, round, sale, carried, booked,
                         marked, stopped, loss, odd>>
      BY <1>1 DEF exitVars, Exit!MinTradable, Spare, Clean
    <2> QED BY <2>1 DEF ExitInv, ExitTypes, HoldInv, CostInv
  <1>2. CASE Exit!Next
    BY <1>2, FillStep, DetectStep, PullStep, SellStep, ReadStep, BookStep, FlattenAgain,
       OrphanStep, SweepExitStep DEF Exit!Next
  <1> QED BY <1>1, <1>2

\* Nothing is held before the first fill.
LEMMA ExitStarts ==
    ASSUME Exit!Init
    PROVE  ExitInv
  <1>1. /\ site \in {"kalshi", "polymarket"} /\ have = 0 /\ kept = 0 /\ unseen = 0
        /\ chain = "idle" /\ naked = 0 /\ round = 1 /\ sale = Exit!NoSale /\ carried = 0
        /\ booked = 0 /\ marked = FALSE /\ stopped = FALSE /\ loss = 0 /\ odd = {}
    BY DEF Exit!Init
  <1>2. sale \in Sales /\ sale.cost = 0
    BY <1>1, NoSaleFacts
  <1>3. Spare = 0 /\ Exit!MinTradable \in Nat /\ 0 < Exit!MinTradable
    BY <1>1, ExitAssumption DEF Spare, Exit!MinTradable
  <1>4. ExitTypes
    <2>1. marked \in BOOLEAN /\ stopped \in BOOLEAN
      BY <1>1, Zenon
    <2> QED BY <1>1, <1>2, <2>1 DEF ExitTypes
  <1>5. HoldInv
    BY <1>1, <1>3 DEF HoldInv
  <1>6. CostInv
    BY <1>1, <1>2 DEF CostInv
  <1> QED BY <1>4, <1>5, <1>6 DEF ExitInv

\* A naked fill is sold without touching what is held on purpose, or the bot
\* stops, and what the sales lost is in the books, for every venue, size, tolerance
\* and price, whatever the sales get and whichever of their answers is lost; what
\* a blind or a stale read, or a fill under the sale, does to it is left open
\* (_unwind_and_record, _auto_flatten_orphan, _book_dust).
THEOREM ExitKeptAlways == Spec => []ExitKept
  <1>1. Init => ExitInv
    BY ExitStarts DEF Init
  <1>2. ExitInv /\ [Next]_vars => ExitInv'
    <2>1. [Next]_vars => Exit!Next \/ UNCHANGED exitVars
      BY Zenon DEF Next, Only, vars
    <2> QED BY <2>1, ExitSteps
  <1>3. ExitInv => ExitKept
    <2>1. ASSUME ExitInv PROVE Exit!KeptLegsStay
      BY <2>1 DEF ExitInv, ExitTypes, HoldInv, Spare, Clean, Exit!KeptLegsStay
    <2>2. ASSUME ExitInv PROVE Exit!SoldOrStopped
      BY <2>2, ExitAssumption DEF ExitInv, ExitTypes, HoldInv, Spare, Clean, Exit!SoldOrStopped,
         Exit!MinTradable
    <2>3. ASSUME ExitInv PROVE Exit!LossBooked
      BY <2>3 DEF ExitInv, ExitTypes, CostInv, Exit!LossBooked
    <2> QED BY <2>1, <2>2, <2>3 DEF ExitKept, Exit!ExitKept
  <1> QED BY <1>1, <1>2, <1>3, PTL DEF Spec
-----------------------------------------------------------------------------
(* The lifetime counters. *)

\* The counters, with the history of what they count.
Counters ==
    [day : Int, pnl : Int, untracked : Int, exits : Int, hedged : Int,
     applied : SUBSET Corrections, times : [Corrections -> Int],
     logged : SUBSET Corrections, ladder : Int, sampled : Int]

\* They are right: each correction once, the parts add up, and what is explained
\* has been applied.
Right(b) ==
    /\ b \in Counters
    /\ Life!CountedOnce(b) /\ Life!HedgedIsRest(b)
    /\ b.logged \subseteq b.applied

\* What is on disk is right, and all that memory has unless a write was skipped;
\* the starts counted on a day are some of those that took place on it.
LifeInv ==
    /\ Right(life)
    /\ tuning # Life!Lost => Right(tuning)
    /\ Life!Running /\ written => Life!Money(tuning) = Life!Money(life)
    /\ asked \subseteq Corrections
    /\ today \in Nat /\ begun \in Nat /\ starts \in [day : Int, n : Nat]
    /\ starts.day <= today
    /\ starts.day = today => starts.n <= begun

\* Another day, another ladder or a sample leave the money as it was.
LEMMA AnotherDay ==
    ASSUME NEW b, Right(b), NEW n \in Int
    PROVE  Right([b EXCEPT !.day = n]) /\ Life!Money([b EXCEPT !.day = n]) = Life!Money(b)
  BY DEF Right, Counters, Life!CountedOnce, Life!HedgedIsRest, Life!Money

LEMMA AnotherLadder ==
    ASSUME NEW b, Right(b), NEW n \in Int
    PROVE  Right([b EXCEPT !.ladder = n]) /\ Life!Money([b EXCEPT !.ladder = n]) = Life!Money(b)
  BY DEF Right, Counters, Life!CountedOnce, Life!HedgedIsRest, Life!Money

LEMMA AnotherSample ==
    ASSUME NEW b, Right(b), NEW n \in Int
    PROVE  /\ Right([b EXCEPT !.sampled = n])
           /\ Life!Money([b EXCEPT !.sampled = n]) = Life!Money(b)
  BY DEF Right, Counters, Life!CountedOnce, Life!HedgedIsRest, Life!Money

\* So does midnight.
LEMMA RolledSame ==
    ASSUME NEW b, Right(b), today \in Nat
    PROVE  Right(Life!Rolled(b)) /\ Life!Money(Life!Rolled(b)) = Life!Money(b)
  <1> DEFINE c == [b EXCEPT !.day = today]
             d == [c EXCEPT !.ladder = 0]
  <1>1. Right(c) /\ Life!Money(c) = Life!Money(b)
    BY AnotherDay
  <1>2. Right(d) /\ Life!Money(d) = Life!Money(c)
    <2> HIDE DEF c
    <2> QED BY <1>1, AnotherLadder
  <1>3. [b EXCEPT !.day = today, !.ladder = 0] = d
    BY DEF Right, Counters
  <1> HIDE DEF d
  <1> QED BY <1>1, <1>2, <1>3 DEF Life!Rolled

\* And a write.
LEMMA SavedSame ==
    ASSUME NEW b, Right(b)
    PROVE  Right(Life!Saved(b)) /\ Life!Money(Life!Saved(b)) = Life!Money(b)
  <1>1. 0 \in Int
    OBVIOUS
  <1> QED BY <1>1, AnotherDay DEF Life!Saved, Life!NoDay

\* An event adds to the money and to one of its parts.
LEMMA PaidRight ==
    ASSUME NEW b, Right(b)
    PROVE  /\ Right([b EXCEPT !.pnl = @ - 1, !.exits = @ - 1])
           /\ Right([b EXCEPT !.pnl = @ + 1, !.hedged = @ + 1])
           /\ Right([b EXCEPT !.pnl = @ + 1, !.untracked = @ + 1])
  <1>1. b \in Counters
    BY DEF Right
  <1>2. /\ b.pnl - 1 \in Int /\ b.pnl + 1 \in Int /\ b.exits - 1 \in Int
        /\ b.hedged + 1 \in Int /\ b.untracked + 1 \in Int
        /\ b.pnl - b.untracked - b.exits = b.hedged
        /\ b.pnl \in Int /\ b.exits \in Int /\ b.untracked \in Int /\ b.hedged \in Int
    BY DEF Right, Counters, Life!HedgedIsRest
  <1>3. /\ \A k \in Corrections : b.times[k] = IF k \in b.applied THEN 1 ELSE 0
        /\ b.logged \subseteq b.applied
    BY DEF Right, Life!CountedOnce
  <1>4. ASSUME NEW p \in Int, NEW x \in Int, p - b.untracked - x = b.hedged
        PROVE  Right([b EXCEPT !.pnl = p, !.exits = x])
    BY <1>1, <1>3, <1>4 DEF Right, Counters, Life!CountedOnce, Life!HedgedIsRest
  <1>5. ASSUME NEW p \in Int, NEW h \in Int, p - b.untracked - b.exits = h
        PROVE  Right([b EXCEPT !.pnl = p, !.hedged = h])
    BY <1>1, <1>3, <1>5 DEF Right, Counters, Life!CountedOnce, Life!HedgedIsRest
  <1>6. ASSUME NEW p \in Int, NEW u \in Int, p - u - b.exits = b.hedged
        PROVE  Right([b EXCEPT !.pnl = p, !.untracked = u])
    BY <1>1, <1>3, <1>6 DEF Right, Counters, Life!CountedOnce, Life!HedgedIsRest
  <1>7. /\ (b.pnl - 1) - b.untracked - (b.exits - 1) = b.hedged
        /\ (b.pnl + 1) - b.untracked - b.exits = b.hedged + 1
        /\ (b.pnl + 1) - (b.untracked + 1) - b.exits = b.hedged
    BY <1>2
  <1> QED BY <1>2, <1>4, <1>5, <1>6, <1>7

\* The start counts every correction ordered that is not yet among the applied
\* ones; when it has nothing to explain it has changed nothing.
LEMMA RestatedRight ==
    ASSUME NEW b, Right(b), asked \subseteq Corrections
    PROVE  /\ Right(Life!Restated(b))
           /\ Life!Restated(b).logged = b.logged => Life!Money(Life!Restated(b)) = Life!Money(b)
  <1> DEFINE T == Life!ToApply(b)
             p == b.pnl - Life!Cardinality(T)
             x == b.exits - Life!Cardinality(T)
             t == [k \in Corrections |-> b.times[k] + (IF k \in T THEN 1 ELSE 0)]
             a == b.applied \cup T
             g == b.logged \cup T \cup (asked \cap b.applied)
             r == [b EXCEPT !.pnl = p, !.exits = x, !.times = t, !.applied = a, !.logged = g]
  <1>1. Life!Restated(b) = r
    BY DEF Life!Restated, Right, Counters
  <1>2. T \subseteq Corrections /\ T \cap b.applied = {} /\ T = asked \ (b.applied \cup Implausible)
    BY DEF Life!ToApply
  <1>3. Life!Cardinality(T) \in Nat /\ (T = {} => Life!Cardinality(T) = 0)
    <2>1. Life!Cardinality(T) = Cardinality(T)
      BY DEF Life!Cardinality, Cardinality
    <2>2. IsFiniteSet(T)
      BY <1>2, CountAssumption, FS_Subset
    <2> QED BY <2>1, <2>2, FS_CardinalityType, FS_EmptySet
  <1>4. /\ b \in Counters /\ b.pnl \in Int /\ b.exits \in Int /\ b.untracked \in Int
        /\ b.hedged \in Int /\ b.times \in [Corrections -> Int]
        /\ b.applied \subseteq Corrections /\ b.logged \subseteq b.applied
        /\ b.pnl - b.untracked - b.exits = b.hedged
        /\ \A k \in Corrections : b.times[k] = IF k \in b.applied THEN 1 ELSE 0
    BY DEF Right, Counters, Life!CountedOnce, Life!HedgedIsRest
  <1>5. /\ p \in Int /\ x \in Int /\ t \in [Corrections -> Int]
        /\ a \in SUBSET Corrections /\ g \in SUBSET Corrections
    <2> HIDE DEF T
    <2> QED BY <1>2, <1>3, <1>4
  <1>6. r \in Counters
    <2> HIDE DEF p, x, t, a, g
    <2> QED BY <1>4, <1>5, Zenon DEF Counters
  <1>7. /\ r.pnl = p /\ r.exits = x /\ r.times = t /\ r.applied = a /\ r.logged = g
        /\ r.untracked = b.untracked /\ r.hedged = b.hedged
    <2> HIDE DEF p, x, t, a, g
    <2> QED BY <1>4 DEF Counters
  <1>8. \A k \in Corrections : t[k] = IF k \in a THEN 1 ELSE 0
    <2> HIDE DEF T
    <2> QED BY <1>2, <1>4
  <1>9. p - b.untracked - x = b.hedged
    <2> HIDE DEF T
    <2> QED BY <1>3, <1>4
  <1>10. g \subseteq a
    <2> HIDE DEF T
    <2> QED BY <1>4
  <1>11. g = b.logged => T = {}
    <2> HIDE DEF T
    <2> QED BY <1>2, <1>4
  <1>12. T = {} => p = b.pnl /\ x = b.exits /\ a = b.applied
    <2> HIDE DEF T
    <2> QED BY <1>3, <1>4
  <1> HIDE DEF p, x, t, a, g, r, T
  <1>13. Right(r)
    BY <1>6, <1>7, <1>8, <1>9, <1>10 DEF Right, Life!CountedOnce, Life!HedgedIsRest
  <1>14. r.logged = b.logged => Life!Money(r) = Life!Money(b)
    BY <1>7, <1>11, <1>12 DEF Life!Money
  <1> QED BY <1>1, <1>13, <1>14
-----------------------------------------------------------------------------
\* A write takes place or is skipped.
LEMMA PersistStep ==
    ASSUME LifeInv, NEW b, Right(b), Life!Persist(b)
    PROVE  /\ tuning' # Life!Lost => Right(tuning')
           /\ written' => Life!Money(tuning') = Life!Money(b)
  <1>1. CASE tuning' = Life!Saved(b)
    BY <1>1, SavedSame
  <1>2. CASE UNCHANGED tuning /\ written' = FALSE
    BY <1>2 DEF LifeInv
  <1> QED BY <1>1, <1>2 DEF Life!Persist

\* An event is counted in memory and written.
LEMMA BookedStep ==
    ASSUME LifeInv, NEW b, Right(b), Life!Booked(b)
    PROVE  LifeInv'
  <1>1. /\ life' = b /\ Life!Persist(b)
        /\ UNCHANGED <<today, asked, starts, begun>>
    BY DEF Life!Booked
  <1>2. /\ tuning' # Life!Lost => Right(tuning')
        /\ written' => Life!Money(tuning') = Life!Money(b)
    BY <1>1, PersistStep
  <1>3. Right(life)' /\ (tuning # Life!Lost => Right(tuning))'
    BY <1>1, <1>2 DEF Right, Counters, Life!CountedOnce, Life!HedgedIsRest, Life!Lost, Life!Zero,
                      Life!NoDay
  <1>4. (written => Life!Money(tuning) = Life!Money(life))'
    BY <1>1, <1>2 DEF Life!Money
  <1> QED BY <1>1, <1>3, <1>4 DEF LifeInv

\* The process starts: what it reads back is right, or all begins at zero.
LEMMA LifeStartStep ==
    ASSUME LifeInv, Life!Start
    PROVE  LifeInv'
  <1> DEFINE b == Life!Restated(Life!Loaded)
  <1>1. Right(Life!Zero)
    BY DEF Right, Counters, Life!Zero, Life!NoDay, Life!CountedOnce, Life!HedgedIsRest
  <1>2. Right(Life!Loaded)
    BY <1>1 DEF LifeInv, Life!Loaded
  <1>3. /\ Right(b)
        /\ b.logged = Life!Loaded.logged => Life!Money(b) = Life!Money(Life!Loaded)
    BY <1>2, RestatedRight DEF LifeInv
  <1>4. /\ life' = b /\ begun' = begun + 1 /\ UNCHANGED <<today, asked>>
        /\ IF b.logged # Life!Loaded.logged THEN Life!Persist(b)
           ELSE UNCHANGED tuning /\ written' = (tuning # Life!Lost)
    BY DEF Life!Start
  <1> HIDE DEF b
  <1>5. /\ tuning' # Life!Lost => Right(tuning')
        /\ written' => Life!Money(tuning') = Life!Money(b)
    <2>1. CASE b.logged # Life!Loaded.logged
      BY <1>3, <1>4, <2>1, PersistStep
    <2>2. CASE b.logged = Life!Loaded.logged
      <3>1. tuning' = tuning /\ written' = (tuning # Life!Lost)
        BY <1>4, <2>2
      <3>2. written' => Life!Loaded = tuning
        BY <3>1 DEF Life!Loaded
      <3> QED BY <1>3, <2>2, <3>1, <3>2 DEF LifeInv
    <2> QED BY <2>1, <2>2
  <1>6. /\ begun' \in Nat /\ starts' \in [day : Int, n : Nat] /\ starts'.day <= today
        /\ starts'.day = today => starts'.n <= begun'
    <2> DEFINE n == IF starts.day = today THEN starts.n ELSE 0
    <2>1. starts' \in {[day |-> today, n |-> n + 1], starts}
      BY DEF Life!Start
    <2>2. n \in Nat /\ n <= begun
      BY DEF LifeInv
    <2> HIDE DEF n
    <2> QED BY <1>4, <2>1, <2>2 DEF LifeInv
  <1>7. Right(life)' /\ (tuning # Life!Lost => Right(tuning))'
    BY <1>3, <1>4, <1>5 DEF Right, Counters, Life!CountedOnce, Life!HedgedIsRest, Life!Lost,
                            Life!Zero, Life!NoDay
  <1>8. (written => Life!Money(tuning) = Life!Money(life))'
    BY <1>4, <1>5 DEF Life!Money
  <1> QED BY <1>4, <1>6, <1>7, <1>8 DEF LifeInv

\* Every step of the counters keeps the invariant.
LEMMA LifeSteps ==
    ASSUME LifeInv, Life!Next
    PROVE  LifeInv'
  <1>1. CASE Life!Start
    BY <1>1, LifeStartStep
  <1>2. Right(life) /\ today \in Nat
    BY DEF LifeInv
  <1>3. Right(Life!Down)
    BY DEF Right, Counters, Life!Down, Life!Zero, Life!NoDay, Life!CountedOnce, Life!HedgedIsRest
  <1>4. Life!Down.day = Life!Down.day' /\ Life!Lost' = Life!Lost
    BY DEF Life!Down, Life!Zero, Life!NoDay, Life!Lost
  <1>5. ASSUME UNCHANGED <<today, asked, starts, begun>>, NEW b, Right(b), life' = b,
               tuning' # Life!Lost => Right(tuning'),
               Life!Running' /\ written' => Life!Money(tuning') = Life!Money(b)
        PROVE  LifeInv'
    <2>1. Right(life)' /\ (tuning # Life!Lost => Right(tuning))'
      BY <1>4, <1>5 DEF Right, Counters, Life!CountedOnce, Life!HedgedIsRest
    <2>2. (Life!Running /\ written => Life!Money(tuning) = Life!Money(life))'
      BY <1>5 DEF Life!Money
    <2> QED BY <1>5, <2>1, <2>2 DEF LifeInv
  <1>6. CASE Life!Crash
    <2>1. life' = Life!Down /\ tuning' = tuning /\ UNCHANGED <<today, asked, starts, begun>>
      BY <1>6 DEF Life!Crash
    <2>2. ~Life!Running'
      BY <2>1 DEF Life!Running, Life!Down, Life!Zero
    <2> QED BY <1>3, <1>5, <2>1, <2>2 DEF LifeInv
  <1>7. CASE Life!ShutDown
    <2>1. /\ life' = Life!Down /\ Life!Persist(life) /\ UNCHANGED <<today, asked, starts, begun>>
      BY <1>7 DEF Life!ShutDown
    <2>2. ~Life!Running'
      BY <2>1 DEF Life!Running, Life!Down, Life!Zero
    <2> QED BY <1>2, <1>3, <1>5, <2>1, <2>2, PersistStep
  <1>8. CASE Life!Sample
    <2> DEFINE r == Life!Rolled(life)
               c == [r EXCEPT !.ladder = @ + 1]
               d == [c EXCEPT !.sampled = today]
    <2>1. Right(r) /\ Life!Money(r) = Life!Money(life)
      BY <1>2, RolledSame
    <2> HIDE DEF r
    <2>2. r.ladder + 1 \in Int /\ today \in Int
      BY <1>2, <2>1 DEF Right, Counters
    <2>3. Right(c) /\ Life!Money(c) = Life!Money(r)
      BY <2>1, <2>2, AnotherLadder
    <2> HIDE DEF c
    <2>4. Right(d) /\ Life!Money(d) = Life!Money(c)
      BY <2>2, <2>3, AnotherSample
    <2>5. [r EXCEPT !.ladder = @ + 1, !.sampled = today] = d
      BY <2>1 DEF c, Right, Counters
    <2>6. /\ life' = d /\ Life!Running /\ tuning' = tuning /\ written' = written
          /\ UNCHANGED <<today, asked, starts, begun>>
      BY <1>8, <2>5 DEF Life!Sample, r
    <2> HIDE DEF d
    <2> QED BY <1>5, <2>1, <2>3, <2>4, <2>6 DEF LifeInv
  <1>9. CASE Life!Heartbeat
    BY <1>2, <1>5, <1>9, PersistStep DEF Life!Heartbeat
  <1>10. /\ Right(Life!Rolled(life)) /\ Life!Money(Life!Rolled(life)) = Life!Money(life)
    BY <1>2, RolledSame
  <1>11. CASE Life!Exit
    BY <1>10, <1>11, PaidRight, BookedStep DEF Life!Exit
  <1>12. CASE Life!Settled
    BY <1>10, <1>12, PaidRight, BookedStep DEF Life!Settled
  <1>13. CASE Life!OffTheBooks
    BY <1>10, <1>13, PaidRight, BookedStep DEF Life!OffTheBooks
  <1>14. CASE Life!RefuseRow
    <2>1. /\ life' = Life!Rolled(life) /\ Life!Running /\ tuning' = tuning /\ written' = written
          /\ UNCHANGED <<today, asked, starts, begun>>
      BY <1>14 DEF Life!RefuseRow
    <2> QED BY <1>5, <1>10, <2>1 DEF LifeInv
  <1>15. ASSUME NEW k \in Corrections, Life!Ask(k)
         PROVE  LifeInv'
    <2>1. asked' = asked \cup {k} /\ UNCHANGED <<today, life, tuning, starts, begun, written>>
      BY <1>15 DEF Life!Ask
    <2> QED BY <2>1 DEF LifeInv, Right, Life!CountedOnce, Life!HedgedIsRest, Life!Running,
                        Life!Money, Counters, Life!Lost, Life!Down, Life!Zero, Life!NoDay
  <1>16. CASE Life!Damage
    <2>1. /\ ~Life!Running /\ tuning' = Life!Lost /\ life' = life
          /\ UNCHANGED <<today, asked, starts, begun>>
      BY <1>16 DEF Life!Damage
    <2>2. ~Life!Running'
      BY <2>1 DEF Life!Running, Life!Down, Life!Zero
    <2> QED BY <1>2, <1>5, <2>1, <2>2
  <1>17. CASE Life!Midnight
    <2>1. today' = today + 1 /\ begun' = 0 /\ UNCHANGED <<life, tuning, asked, starts, written>>
      BY <1>17 DEF Life!Midnight
    <2>2. /\ today' \in Nat /\ begun' \in Nat /\ starts'.day <= today' /\ starts'.day # today'
      BY <2>1 DEF LifeInv
    <2> QED BY <2>1, <2>2 DEF LifeInv, Right, Life!CountedOnce, Life!HedgedIsRest, Life!Running,
                              Life!Money, Counters, Life!Lost, Life!Down, Life!Zero, Life!NoDay
  <1> QED
    BY <1>1, <1>6, <1>7, <1>8, <1>9, <1>11, <1>12, <1>13, <1>14, <1>15, <1>16, <1>17, Zenon
    DEF Life!Next

\* No process runs, and the file is right whatever an older build applied.
LEMMA LifeStarts ==
    ASSUME Life!Init
    PROVE  LifeInv
  <1>1. PICK K \in SUBSET (Corrections \ Implausible) :
           tuning = [Life!Zero EXCEPT !.applied = K, !.pnl = 0 - Life!Cardinality(K),
                        !.exits = 0 - Life!Cardinality(K),
                        !.times = [k \in Corrections |-> IF k \in K THEN 1 ELSE 0]]
    BY DEF Life!Init
  <1>2. PICK n \in Nat : n = Life!Cardinality(K)
    <2>1. IsFiniteSet(K)
      BY CountAssumption, FS_Subset
    <2>2. Life!Cardinality(K) = Cardinality(K)
      BY DEF Life!Cardinality, Cardinality
    <2> QED BY <2>1, <2>2, FS_CardinalityType
  <1>3. tuning = [day |-> 0, pnl |-> 0 - n, untracked |-> 0, exits |-> 0 - n, hedged |-> 0,
                  applied |-> K, times |-> [k \in Corrections |-> IF k \in K THEN 1 ELSE 0],
                  logged |-> {}, ladder |-> 0, sampled |-> 0]
    BY <1>1, <1>2 DEF Life!Zero, Life!NoDay
  <1>4. tuning \in Counters
    <2>1. 0 - n \in Int
      BY <1>2
    <2> QED BY <1>3, <2>1 DEF Counters
  <1>5. Right(tuning)
    BY <1>2, <1>3, <1>4 DEF Right, Life!CountedOnce, Life!HedgedIsRest
  <1>6. Right(Life!Down)
    BY DEF Right, Counters, Life!Down, Life!Zero, Life!NoDay, Life!CountedOnce, Life!HedgedIsRest
  <1>7. /\ today = 1 /\ life = Life!Down /\ asked = {} /\ starts = [day |-> 0, n |-> 0]
        /\ begun = 0
    BY DEF Life!Init
  <1>8. ~Life!Running
    BY <1>7 DEF Life!Running
  <1> QED BY <1>5, <1>6, <1>7, <1>8 DEF LifeInv
-----------------------------------------------------------------------------
(* The paper maker. *)

\* A paper maker's state, its quotes accounted for.
Papers ==
    [day : Int, no : Int, quotes : SUBSET Markets, made : Int, fills : Int, expired : Int,
     requotes : Int, drifts : SUBSET (Markets \X Int)]

Sheets == [made : Int, fills : Int, expired : Int, drifts : Int]

Kept(p) == p \in Papers /\ IsFiniteSet(p.drifts) /\ Loop!Balanced(p)

\* Every drift that waits is within the last of DRIFT_CYCLES.
Due(p) == \A d \in p.drifts : p.no - d[2] < DriftLast

\* p has counted on from q, and waits for no more drifts than it had and filled.
Further(p, q) ==
    /\ p.made >= q.made /\ p.fills >= q.fills /\ p.expired >= q.expired
    /\ Cardinality(p.drifts) <= Cardinality(q.drifts) + (p.fills - q.fills)

\* The sheet has no row that p does not count, or all that p counts.
NoneTooMany(s, p) == s.made <= p.made /\ s.fills <= p.fills /\ s.expired <= p.expired
NoneMissing(s, p) ==
    /\ s.made >= p.made /\ s.fills >= p.fills /\ s.expired >= p.expired
    /\ s.drifts + Cardinality(p.drifts) >= p.fills

LoopInv ==
    /\ cycle \in {"idle", "begun", "deciding", "papering", "observed", "sheeted"}
    /\ dayNow \in {1, 2} /\ saved.day <= dayNow /\ eligible \subseteq Markets
    /\ Loop!OneAttempt
    /\ Kept(paper) /\ Kept(saved) /\ sheet \in Sheets
    /\ lossy \in BOOLEAN /\ doubled \in BOOLEAN
    /\ IF cycle \in {"observed", "sheeted"}
       THEN paper.day = dayNow /\ Further(paper, Loop!Today(saved))
       ELSE paper = Loop!FreshPaper(0)
    /\ ~lossy => NoneMissing(sheet, Loop!Today(saved))
    /\ ~doubled /\ cycle # "sheeted" => NoneTooMany(sheet, Loop!Today(saved))
    /\ cycle = "observed" => Due(paper)
    /\ cycle = "sheeted" => /\ ~lossy => NoneMissing(sheet, paper) /\ Due(paper)
                            /\ ~doubled => NoneTooMany(sheet, paper)
    /\ Loop!DriftsDue

LEMMA SameSize == \A S : Loop!Cardinality(S) = Cardinality(S)
  BY DEF Loop!Cardinality, Cardinality

\* Markets apart from one another count apart.
LEMMA Apart ==
    ASSUME NEW S \in SUBSET Markets, NEW T \in SUBSET Markets, S \cap T = {}
    PROVE  /\ Cardinality(S \cup T) = Cardinality(S) + Cardinality(T)
           /\ Cardinality(S) \in Nat /\ Cardinality(T) \in Nat
           /\ IsFiniteSet(S) /\ IsFiniteSet(T)
  <1> DEFINE I == S \cap T
  <1>1. IsFiniteSet(S) /\ IsFiniteSet(T)
    BY CountAssumption, FS_Subset
  <1>2. Cardinality(S) \in Nat /\ Cardinality(T) \in Nat /\ Cardinality(I) = 0
    BY <1>1, FS_CardinalityType, FS_EmptySet
  <1>3. Cardinality(S \cup T) = Cardinality(S) + Cardinality(T) - Cardinality(I)
    BY <1>1, FS_Union
  <1> HIDE DEF I
  <1> QED BY <1>1, <1>2, <1>3

\* A set of markets is what is cut out of it and the rest.
LEMMA Split ==
    ASSUME NEW S \in SUBSET Markets, NEW T
    PROVE  /\ Cardinality(S) = Cardinality(S \cap T) + Cardinality(S \ T)
           /\ Cardinality(S \cap T) \in Nat /\ Cardinality(S \ T) \in Nat
           /\ IsFiniteSet(S) /\ Cardinality(S) \in Nat
  <1> DEFINE A == S \cap T
             B == S \ T
  <1>1. /\ A \in SUBSET Markets /\ B \in SUBSET Markets /\ A \cap B = {} /\ A \cup B = S
        /\ S \cap {} = {}
    OBVIOUS
  <1> HIDE DEF A, B
  <1>2. Cardinality(S) = Cardinality(A) + Cardinality(B)
    BY <1>1, Apart
  <1>3. Cardinality(A) \in Nat /\ Cardinality(B) \in Nat
    BY <1>1, Apart
  <1>4. IsFiniteSet(S) /\ Cardinality(S) \in Nat
    BY CountAssumption, FS_Subset, FS_CardinalityType
  <1> QED BY <1>2, <1>3, <1>4 DEF A, B

\* The paper maker's look at the books of K.
LEMMA LookedFacts ==
    ASSUME NEW p, Kept(p), NEW K \in SUBSET Markets, NEW view
    PROVE  LET r == Loop!Looked(p, K, view)
           IN  Kept(r) /\ r.day = p.day /\ r.no = p.no /\ Further(r, p)
  <1> DEFINE old == p.quotes \cap K
             new == {m \in K \ p.quotes : view[m] \in {"same", "better"}}
             again == {m \in old : view[m] = "better"}
             hit == {m \in old : view[m] = "through"}
             dull == {m \in old : view[m] = "unviable"}
             left == Loop!Left(old, view)
             out == p.quotes \ K
             quotes == left \cup new \cup out
             drifts == p.drifts \cup {<<m, p.no>> : m \in hit}
             made == p.made + Cardinality(new) + Cardinality(again)
             requotes == p.requotes + Cardinality(again)
             traded == p.fills + Cardinality(hit)
             expired == p.expired + Cardinality(dull)
             r == [p EXCEPT !.quotes = quotes, !.made = made, !.requotes = requotes,
                            !.fills = traded, !.expired = expired, !.drifts = drifts]
  <1>1. Loop!Looked(p, K, view) = r
    BY SameSize DEF Loop!Looked
  <1>2. /\ p \in Papers /\ p.quotes \subseteq Markets /\ p.drifts \subseteq Markets \X Int
        /\ p.made \in Int /\ p.fills \in Int /\ p.expired \in Int /\ p.requotes \in Int
        /\ p.no \in Int /\ IsFiniteSet(p.drifts)
        /\ p.made = Cardinality(p.quotes) + p.fills + p.expired + p.requotes
    BY SameSize DEF Kept, Papers, Loop!Balanced
  <1>3. /\ old \subseteq Markets /\ new \subseteq Markets /\ again \subseteq Markets
        /\ hit \subseteq Markets /\ dull \subseteq Markets /\ left \subseteq Markets
        /\ out \subseteq Markets
    BY <1>2 DEF Loop!Left
  <1>4. /\ left \cap new = {} /\ (left \cup new) \cap out = {}
        /\ hit \cap dull = {} /\ left = old \ (hit \cup dull)
        /\ hit \cup dull = old \cap (hit \cup dull)
        /\ old = p.quotes \cap K /\ out = p.quotes \ K
        /\ left \cup new \in SUBSET Markets /\ hit \cup dull \in SUBSET Markets
    BY <1>2 DEF Loop!Left
  <1> HIDE DEF old, new, again, hit, dull, left, out
  <1>5. /\ Cardinality(new) \in Nat /\ Cardinality(again) \in Nat /\ Cardinality(hit) \in Nat
        /\ Cardinality(dull) \in Nat /\ Cardinality(left) \in Nat /\ Cardinality(out) \in Nat
        /\ Cardinality(quotes) = Cardinality(left) + Cardinality(new) + Cardinality(out)
    <2>1. /\ Cardinality(new) \in Nat /\ Cardinality(again) \in Nat /\ Cardinality(hit) \in Nat
          /\ Cardinality(dull) \in Nat /\ Cardinality(left) \in Nat /\ Cardinality(out) \in Nat
      BY <1>3, Split
    <2>2. Cardinality(left \cup new) = Cardinality(left) + Cardinality(new)
      BY <1>3, <1>4, Apart
    <2>3. Cardinality((left \cup new) \cup out) = Cardinality(left \cup new) + Cardinality(out)
      BY <1>3, <1>4, Apart
    <2> QED BY <2>1, <2>2, <2>3
  <1>6. Cardinality(p.quotes) = Cardinality(old) + Cardinality(out)
    BY <1>2, <1>4, Split
  <1>7. Cardinality(old) = Cardinality(hit) + Cardinality(dull) + Cardinality(left)
    <2>1. Cardinality(old) = Cardinality(hit \cup dull) + Cardinality(left)
      BY <1>3, <1>4, Split
    <2>2. Cardinality(hit \cup dull) = Cardinality(hit) + Cardinality(dull)
      BY <1>3, <1>4, Apart
    <2> QED BY <2>1, <2>2
  <1>8. /\ IsFiniteSet(drifts) /\ drifts \subseteq Markets \X Int
        /\ Cardinality(drifts) <= Cardinality(p.drifts) + Cardinality(hit)
        /\ Cardinality(drifts) \in Nat /\ Cardinality(p.drifts) \in Nat
    <2> DEFINE N == {<<m, p.no>> : m \in hit}
    <2>1. IsFiniteSet(hit)
      BY <1>3, Split
    <2>2. IsFiniteSet(N) /\ Cardinality(N) <= Cardinality(hit)
      <3> DEFINE f == [m \in hit |-> <<m, p.no>>]
      <3>1. f \in Surjection(hit, N)
        BY DEF Surjection
      <3> HIDE DEF N, f
      <3> QED BY <2>1, <3>1, FS_Surjection
    <2>3. N \subseteq Markets \X Int
      BY <1>2, <1>3
    <2> HIDE DEF N
    <2>4. IsFiniteSet(p.drifts \cup N) /\ IsFiniteSet(p.drifts \cap N)
      BY <1>2, <2>2, FS_Union, FS_Subset
    <2>5. Cardinality(p.drifts \cup N)
            = Cardinality(p.drifts) + Cardinality(N) - Cardinality(p.drifts \cap N)
      BY <1>2, <2>2, FS_Union
    <2>6. /\ Cardinality(p.drifts \cap N) \in Nat /\ Cardinality(p.drifts \cup N) \in Nat
          /\ Cardinality(p.drifts) \in Nat /\ Cardinality(N) \in Nat
      BY <1>2, <2>2, <2>4, FS_CardinalityType
    <2>7. Cardinality(p.drifts \cup N) <= Cardinality(p.drifts) + Cardinality(hit)
      BY <1>5, <2>2, <2>5, <2>6
    <2>8. drifts = p.drifts \cup N
      BY DEF N
    <2> QED BY <1>2, <2>3, <2>4, <2>6, <2>7, <2>8
  <1>9. /\ quotes \in SUBSET Markets /\ made \in Int /\ requotes \in Int /\ traded \in Int
        /\ expired \in Int /\ made >= p.made /\ traded >= p.fills /\ expired >= p.expired
        /\ made = Cardinality(quotes) + traded + expired + requotes
        /\ traded - p.fills = Cardinality(hit)
    BY <1>2, <1>3, <1>5, <1>6, <1>7
  <1> HIDE DEF quotes, drifts, made, requotes, traded, expired
  <1>10. r \in Papers
    BY <1>2, <1>8, <1>9, Zenon DEF Papers
  <1>11. /\ r.quotes = quotes /\ r.made = made /\ r.requotes = requotes /\ r.fills = traded
         /\ r.expired = expired /\ r.drifts = drifts /\ r.day = p.day /\ r.no = p.no
    BY <1>2 DEF Papers
  <1> HIDE DEF r
  <1>12. Kept(r)
    BY <1>8, <1>9, <1>10, <1>11, SameSize DEF Kept, Loop!Balanced
  <1>13. Further(r, p)
    BY <1>8, <1>9, <1>11 DEF Further
  <1> QED BY <1>1, <1>11, <1>12, <1>13

\* The quotes of the markets that are gone expire.
LEMMA ExpiredFacts ==
    ASSUME NEW p, Kept(p)
    PROVE  LET r == Loop!Expired(p)
           IN  Kept(r) /\ r.day = p.day /\ r.no = p.no /\ Further(r, p)
  <1> DEFINE seen == p.quotes \cap eligible
             more == p.expired + Cardinality(p.quotes \ eligible)
             r == [p EXCEPT !.expired = more, !.quotes = seen]
  <1>1. Loop!Expired(p) = r
    BY SameSize DEF Loop!Expired
  <1>2. /\ p \in Papers /\ p.quotes \subseteq Markets
        /\ p.made \in Int /\ p.fills \in Int /\ p.expired \in Int /\ p.requotes \in Int
        /\ IsFiniteSet(p.drifts) /\ Cardinality(p.drifts) \in Nat
        /\ p.made = Cardinality(p.quotes) + p.fills + p.expired + p.requotes
    BY SameSize, FS_CardinalityType DEF Kept, Papers, Loop!Balanced
  <1>3. /\ Cardinality(p.quotes) = Cardinality(seen) + Cardinality(p.quotes \ eligible)
        /\ Cardinality(p.quotes \ eligible) \in Nat /\ Cardinality(seen) \in Nat
    BY <1>2, Split
  <1>4. /\ more \in Int /\ more >= p.expired /\ seen \in SUBSET Markets
        /\ p.made = Cardinality(seen) + p.fills + more + p.requotes
    BY <1>2, <1>3
  <1> HIDE DEF seen, more
  <1>5. r \in Papers
    BY <1>2, <1>4 DEF Papers
  <1>6. /\ r.quotes = seen /\ r.made = p.made /\ r.requotes = p.requotes /\ r.fills = p.fills
        /\ r.expired = more /\ r.drifts = p.drifts /\ r.day = p.day /\ r.no = p.no
    BY <1>2 DEF Papers
  <1> HIDE DEF r
  <1>7. Kept(r)
    BY <1>2, <1>4, <1>5, <1>6, SameSize DEF Kept, Loop!Balanced
  <1>8. Further(r, p)
    BY <1>2, <1>4, <1>6 DEF Further
  <1> QED BY <1>1, <1>6, <1>7, <1>8

\* The fills old enough leave, and those that stay are due.
LEMMA DriftedFacts ==
    ASSUME NEW p, Kept(p)
    PROVE  LET r == Loop!Drifted(p)
           IN  Kept(r) /\ r.day = p.day /\ Further(r, p) /\ Due(r)
  <1> DEFINE some == {d \in p.drifts : p.no - d[2] < DriftLast}
             r == [p EXCEPT !.drifts = some]
  <1>1. Loop!Drifted(p) = r
    BY DEF Loop!Drifted
  <1>2. /\ p \in Papers /\ p.drifts \subseteq Markets \X Int
        /\ p.made \in Int /\ p.fills \in Int /\ p.expired \in Int
        /\ IsFiniteSet(p.drifts) /\ Loop!Balanced(p)
    BY DEF Kept, Papers
  <1>3. /\ IsFiniteSet(some) /\ Cardinality(some) <= Cardinality(p.drifts)
        /\ Cardinality(some) \in Nat /\ Cardinality(p.drifts) \in Nat
        /\ some \in SUBSET (Markets \X Int)
        /\ \A d \in some : p.no - d[2] < DriftLast
    BY <1>2, FS_Subset, FS_CardinalityType
  <1> HIDE DEF some
  <1>4. r \in Papers
    BY <1>2, <1>3 DEF Papers
  <1>5. /\ r.quotes = p.quotes /\ r.made = p.made /\ r.requotes = p.requotes
        /\ r.fills = p.fills /\ r.expired = p.expired /\ r.drifts = some
        /\ r.day = p.day /\ r.no = p.no
    BY <1>2 DEF Papers
  <1> HIDE DEF r
  <1>6. Kept(r)
    BY <1>2, <1>3, <1>4, <1>5 DEF Kept, Loop!Balanced
  <1>7. Further(r, p) /\ Due(r)
    BY <1>2, <1>3, <1>5 DEF Further, Due
  <1> QED BY <1>1, <1>5, <1>6, <1>7

\* To count on is to count on from before.
LEMMA FurtherStill ==
    ASSUME NEW p, Kept(p), NEW q, Kept(q), NEW r, Kept(r), Further(r, q), Further(q, p)
    PROVE  Further(r, p)
  <1>1. /\ Cardinality(p.drifts) \in Nat /\ Cardinality(q.drifts) \in Nat
        /\ Cardinality(r.drifts) \in Nat
    BY FS_CardinalityType DEF Kept
  <1>2. /\ p.made \in Int /\ p.fills \in Int /\ p.expired \in Int
        /\ q.made \in Int /\ q.fills \in Int /\ q.expired \in Int
        /\ r.made \in Int /\ r.fills \in Int /\ r.expired \in Int
    BY DEF Kept, Papers
  <1> QED BY <1>1, <1>2 DEF Further

\* A fresh state counts nothing, and today's is fresh or the one that was saved.
LEMMA FreshKept ==
    ASSUME NEW d \in Int
    PROVE  Kept(Loop!FreshPaper(d))
  <1>1. Cardinality({}) = 0 /\ IsFiniteSet({})
    BY FS_EmptySet
  <1> QED BY <1>1, SameSize DEF Kept, Papers, Loop!FreshPaper, Loop!Balanced

LEMMA TodayKept ==
    ASSUME LoopInv
    PROVE  Kept(Loop!Today(saved)) /\ Loop!Today(saved).day = dayNow
  <1>1. dayNow \in Int /\ Kept(saved)
    BY DEF LoopInv
  <1> QED BY <1>1, FreshKept DEF Loop!Today, Loop!FreshPaper
-----------------------------------------------------------------------------
\* The books are observed: the state loaded is today's, and counts on.
LEMMA ObserveStep ==
    ASSUME LoopInv, Loop!Observe
    PROVE  LoopInv'
  <1> DEFINE t == Loop!Today(saved)
             p == [t EXCEPT !.no = @ + 1]
  <1>1. /\ cycle = "papering" /\ saved' = saved /\ sheet' = sheet /\ dayNow' = dayNow
        /\ doubled' = doubled /\ eligible' = eligible /\ attempted' = attempted
        /\ inplay' = inplay
    BY DEF Loop!Observe
  <1>2. Kept(t) /\ t.day = dayNow
    BY TodayKept
  <1>3. t' = t
    BY <1>1 DEF Loop!Today, Loop!FreshPaper
  <1> HIDE DEF t
  <1>4. Kept(p) /\ p.day = dayNow /\ Further(p, t)
    <2>1. /\ p \in Papers /\ p.quotes = t.quotes /\ p.made = t.made /\ p.fills = t.fills
          /\ p.expired = t.expired /\ p.requotes = t.requotes /\ p.drifts = t.drifts
          /\ p.day = t.day
      BY <1>2 DEF Kept, Papers
    <2>2. Cardinality(t.drifts) \in Nat /\ t.made \in Int /\ t.fills \in Int /\ t.expired \in Int
      BY <1>2, FS_CardinalityType DEF Kept, Papers
    <2> HIDE DEF p
    <2> QED BY <1>2, <2>1, <2>2 DEF Kept, Further, Loop!Balanced
  <1>5. /\ Kept(paper') /\ paper'.day = dayNow /\ Further(paper', t)
        /\ \/ cycle' = "observed" /\ Due(paper') /\ lossy' = lossy
           \/ cycle' = "sheeted" /\ lossy' = TRUE
    <2>1. PICK view \in [eligible -> Loop!Views] :
             \/ /\ paper' = Loop!Drifted(Loop!Expired(Loop!Looked(p, eligible, view)))
                /\ cycle' = "observed" /\ UNCHANGED lossy
             \/ /\ cycle' = "sheeted" /\ lossy' = TRUE
                /\ \E K \in SUBSET eligible : paper' = Loop!Looked(p, K, view)
      BY Zenon DEF Loop!Observe, t
    <2> HIDE DEF p
    <2>2. \A K \in SUBSET eligible : K \in SUBSET Markets
      BY DEF LoopInv
    <2>3. \A K \in SUBSET eligible :
             LET r == Loop!Looked(p, K, view)
             IN  Kept(r) /\ r.day = p.day /\ Further(r, t)
      BY <1>2, <1>4, <2>2, LookedFacts, FurtherStill
    <2> DEFINE a == Loop!Looked(p, eligible, view)
               b == Loop!Expired(a)
               c == Loop!Drifted(b)
    <2>4. Kept(a) /\ a.day = p.day /\ Further(a, t)
      BY <2>3
    <2> HIDE DEF a
    <2>5. Kept(b) /\ b.day = p.day /\ Further(b, t)
      BY <1>2, <2>4, ExpiredFacts, FurtherStill
    <2> HIDE DEF b
    <2>6. Kept(c) /\ c.day = p.day /\ Further(c, t) /\ Due(c)
      BY <1>2, <2>5, DriftedFacts, FurtherStill
    <2> HIDE DEF c
    <2>7. CASE paper' = c /\ cycle' = "observed" /\ UNCHANGED lossy
      BY <1>4, <2>6, <2>7
    <2>8. CASE /\ cycle' = "sheeted" /\ lossy' = TRUE
               /\ \E K \in SUBSET eligible : paper' = Loop!Looked(p, K, view)
      BY <1>4, <2>3, <2>8
    <2> QED BY <2>1, <2>7, <2>8 DEF a, b, c
  <1>6. (Kept(paper) /\ Kept(saved) /\ Loop!OneAttempt)'
    BY <1>1, <1>5, SameSize DEF LoopInv, Kept, Loop!Balanced, Loop!OneAttempt
  <1>7. (paper.day = dayNow /\ Further(paper, Loop!Today(saved)))'
    BY <1>1, <1>3, <1>5 DEF t, Further
  <1>8. /\ (~lossy => NoneMissing(sheet, Loop!Today(saved)))'
        /\ ~doubled => NoneTooMany(sheet', t)
    BY <1>1, <1>3, <1>5 DEF t, LoopInv, NoneMissing, NoneTooMany
  <1>9. cycle' = "observed" => Due(paper)'
    BY <1>5 DEF Due
  <1>10. cycle' = "sheeted" /\ ~doubled => NoneTooMany(sheet', paper')
    <2>1. /\ t.made \in Int /\ t.fills \in Int /\ t.expired \in Int
          /\ paper'.made \in Int /\ paper'.fills \in Int /\ paper'.expired \in Int
          /\ sheet.made \in Int /\ sheet.fills \in Int /\ sheet.expired \in Int
      BY <1>2, <1>5 DEF Kept, Papers, LoopInv, Sheets
    <2> QED BY <1>1, <1>5, <1>8, <2>1 DEF Further, NoneTooMany
  <1>11. Loop!DriftsDue'
    BY <1>1, <1>5 DEF LoopInv, Loop!DriftsDue
  <1> QED
    BY <1>1, <1>3, <1>5, <1>6, <1>7, <1>8, <1>9, <1>10, <1>11
    DEF LoopInv, t, NoneTooMany, NoneMissing, Due

\* The rows of the cycle are on the sheet, or none of them is.
LEMMA AppendStep ==
    ASSUME LoopInv, Loop!AppendCsv
    PROVE  LoopInv'
  <1> DEFINE t == Loop!Today(saved)
             n == Cardinality(t.drifts)
             m == Cardinality(paper.drifts)
  <1>1. /\ cycle = "observed" /\ cycle' = "sheeted" /\ paper' = paper /\ saved' = saved
        /\ dayNow' = dayNow /\ doubled' = doubled /\ eligible' = eligible
        /\ attempted' = attempted /\ inplay' = inplay
    BY DEF Loop!AppendCsv
  <1>2. Kept(t) /\ Kept(paper) /\ Further(paper, t) /\ Due(paper) /\ paper.day = dayNow
    BY <1>1, TodayKept DEF LoopInv
  <1>3. t' = t
    BY <1>1 DEF Loop!Today, Loop!FreshPaper
  <1>4. /\ ~lossy => NoneMissing(sheet, t)
        /\ ~doubled => NoneTooMany(sheet, t)
        /\ sheet \in Sheets
    BY <1>1 DEF LoopInv
  <1>5. \/ /\ sheet' = [k \in DOMAIN sheet |-> sheet[k] + Loop!Gained(paper)[k]]
           /\ lossy' = lossy
        \/ lossy' = TRUE /\ sheet' = sheet
    BY DEF Loop!AppendCsv
  <1>6. Loop!Gained(paper) =
          [made |-> paper.made - t.made, fills |-> paper.fills - t.fills,
           expired |-> paper.expired - t.expired, drifts |-> paper.fills - t.fills + n - m]
    BY SameSize DEF Loop!Gained
  <1> HIDE DEF t
  <1>7. /\ t.made \in Int /\ t.fills \in Int /\ t.expired \in Int
        /\ paper.made \in Int /\ paper.fills \in Int /\ paper.expired \in Int
        /\ sheet.made \in Int /\ sheet.fills \in Int /\ sheet.expired \in Int
        /\ sheet.drifts \in Int /\ n \in Nat /\ m \in Nat
    BY <1>2, <1>4, FS_CardinalityType DEF Kept, Papers, Sheets
  <1>8. /\ paper.made >= t.made /\ paper.fills >= t.fills /\ paper.expired >= t.expired
        /\ m <= n + (paper.fills - t.fills)
    BY <1>2 DEF Further
  <1> HIDE DEF n, m
  <1>9. /\ sheet' \in Sheets
        /\ ~lossy' => NoneMissing(sheet', t) /\ NoneMissing(sheet', paper)
        /\ ~doubled => NoneTooMany(sheet', paper)
    <2>1. CASE lossy' = TRUE /\ sheet' = sheet
      BY <1>4, <1>7, <1>8, <2>1 DEF NoneTooMany
    <2>2. CASE /\ sheet' = [k \in DOMAIN sheet |-> sheet[k] + Loop!Gained(paper)[k]]
               /\ lossy' = lossy
      <3>1. DOMAIN sheet = {"made", "fills", "expired", "drifts"}
        BY <1>4 DEF Sheets
      <3>2. sheet' = [made |-> sheet.made + (paper.made - t.made),
                      fills |-> sheet.fills + (paper.fills - t.fills),
                      expired |-> sheet.expired + (paper.expired - t.expired),
                      drifts |-> sheet.drifts + (paper.fills - t.fills + n - m)]
        BY <1>6, <2>2, <3>1
      <3>3. sheet' \in Sheets
        BY <1>7, <3>2 DEF Sheets
      <3>4. ~doubled => NoneTooMany(sheet', paper)
        BY <1>4, <1>7, <3>2 DEF NoneTooMany
      <3>5. ~lossy => NoneMissing(sheet', t)
        BY <1>4, <1>7, <1>8, <3>2 DEF NoneMissing, n
      <3>6. ~lossy => NoneMissing(sheet', paper)
        BY <1>4, <1>7, <3>2 DEF NoneMissing, n, m
      <3> QED BY <2>2, <3>3, <3>4, <3>5, <3>6
    <2> QED BY <1>5, <2>1, <2>2
  <1>10. (Kept(paper) /\ Kept(saved) /\ Loop!OneAttempt)'
    BY <1>1, SameSize DEF LoopInv, Kept, Loop!Balanced, Loop!OneAttempt
  <1>11. (paper.day = dayNow /\ Further(paper, Loop!Today(saved)))'
    BY <1>1, <1>2, <1>3 DEF t, Further
  <1>12. (~lossy => NoneMissing(sheet, Loop!Today(saved)))'
    BY <1>3, <1>9 DEF t, NoneMissing
  <1>13. (/\ ~lossy => NoneMissing(sheet, paper) /\ Due(paper)
          /\ ~doubled => NoneTooMany(sheet, paper))'
    BY <1>1, <1>2, <1>9 DEF NoneMissing, NoneTooMany, Due
  <1>14. Loop!DriftsDue' /\ lossy' \in BOOLEAN
    BY <1>1, <1>5 DEF LoopInv, Loop!DriftsDue
  <1> QED
    BY <1>1, <1>9, <1>10, <1>11, <1>12, <1>13, <1>14 DEF LoopInv, Sheets

\* The state of the cycle replaces the file.
LEMMA SaveStep ==
    ASSUME LoopInv, Loop!SaveState
    PROVE  LoopInv'
  <1>1. /\ cycle = "sheeted" /\ cycle' = "idle" /\ saved' = paper
        /\ paper' = Loop!FreshPaper(0) /\ dayNow' = dayNow /\ doubled' = doubled
        /\ eligible' = eligible /\ attempted' = attempted /\ inplay' = inplay
        /\ sheet' = sheet /\ lossy' = lossy
    BY DEF Loop!SaveState
  <1>2. /\ Kept(paper) /\ paper.day = dayNow
        /\ ~lossy => NoneMissing(sheet, paper) /\ Due(paper)
        /\ ~doubled => NoneTooMany(sheet, paper)
    BY <1>1 DEF LoopInv
  <1>3. Loop!Today(saved)' = paper
    BY <1>1, <1>2 DEF Loop!Today
  <1>4. (Kept(saved) /\ Loop!OneAttempt)'
    BY <1>1, <1>2, SameSize DEF LoopInv, Kept, Loop!Balanced, Loop!OneAttempt
  <1>5. Kept(paper)'
    <2>1. Kept(Loop!FreshPaper(0))
      BY FreshKept
    <2> QED BY <1>1, <2>1 DEF Kept, Loop!Balanced
  <1>6. /\ (~lossy => NoneMissing(sheet, Loop!Today(saved)))'
        /\ (~doubled => NoneTooMany(sheet, Loop!Today(saved)))'
    BY <1>1, <1>2, <1>3 DEF NoneMissing, NoneTooMany
  <1>7. Loop!DriftsDue'
    BY <1>1, <1>2 DEF Loop!DriftsDue, Due
  <1>8. saved'.day <= dayNow' /\ paper' = Loop!FreshPaper(0)'
    BY <1>1, <1>2 DEF LoopInv, Loop!FreshPaper
  <1> QED
    BY <1>1, <1>4, <1>5, <1>6, <1>7, <1>8 DEF LoopInv, Sheets

\* What changes neither the paper maker's state nor its file nor the sheet.
LEMMA PriceCycleStep ==
    ASSUME LoopInv, UNCHANGED <<dayNow, paper, saved, sheet, lossy, doubled>>,
           cycle' = cycle
             \/ /\ cycle \notin {"observed", "sheeted"}
                /\ cycle' \in {"idle", "begun", "deciding", "papering"},
           eligible' \subseteq Markets, Loop!OneAttempt'
    PROVE  LoopInv'
  <1>1. Loop!Today(saved)' = Loop!Today(saved) /\ Loop!FreshPaper(0)' = Loop!FreshPaper(0)
    BY DEF Loop!Today, Loop!FreshPaper
  <1>2. (Kept(paper) /\ Kept(saved))'
    BY SameSize DEF LoopInv, Kept, Loop!Balanced
  <1>3. Loop!DriftsDue'
    BY DEF LoopInv, Loop!DriftsDue
  <1>4. cycle' \in {"observed", "sheeted"} => cycle' = cycle
    OBVIOUS
  <1> QED
    BY <1>1, <1>2, <1>3, <1>4
    DEF LoopInv, Further, NoneMissing, NoneTooMany, Due, Sheets

\* The process is killed: what the memory held is gone, and the rows of a state that
\* was not saved will be written again.
LEMMA DiesStep ==
    ASSUME LoopInv, Loop!CycleDies
    PROVE  LoopInv'
  <1>1. /\ cycle' = "idle" /\ doubled' = (doubled \/ cycle = "sheeted")
        /\ paper' = Loop!FreshPaper(0) /\ dayNow' = dayNow /\ saved' = saved
        /\ eligible' = eligible /\ attempted' = attempted /\ inplay' = inplay
        /\ sheet' = sheet /\ lossy' = lossy
    BY DEF Loop!CycleDies
  <1>2. Loop!Today(saved)' = Loop!Today(saved) /\ Loop!FreshPaper(0)' = Loop!FreshPaper(0)
    BY <1>1 DEF Loop!Today, Loop!FreshPaper
  <1>3. (Kept(paper) /\ Kept(saved) /\ Loop!OneAttempt)'
    <2>1. Kept(Loop!FreshPaper(0))
      BY FreshKept
    <2> QED BY <1>1, <2>1, SameSize DEF LoopInv, Kept, Loop!Balanced, Loop!OneAttempt
  <1>4. /\ (~lossy => NoneMissing(sheet, Loop!Today(saved)))'
        /\ (~doubled => NoneTooMany(sheet, Loop!Today(saved)))'
    BY <1>1, <1>2 DEF LoopInv, NoneMissing, NoneTooMany
  <1>5. Loop!DriftsDue' /\ doubled' \in BOOLEAN
    BY <1>1 DEF LoopInv, Loop!DriftsDue
  <1> QED BY <1>1, <1>2, <1>3, <1>4, <1>5 DEF LoopInv, Sheets

\* The day ends: its state is yesterday's, and the sheet of the new day is empty.
LEMMA NextDayStep ==
    ASSUME LoopInv, Loop!NextDay
    PROVE  LoopInv'
  <1>1. /\ cycle = "idle" /\ cycle' = cycle /\ dayNow = 1 /\ dayNow' = 2
        /\ sheet' = Loop!EmptySheet /\ lossy' = FALSE /\ doubled' = FALSE
        /\ paper' = paper /\ saved' = saved /\ eligible' = eligible /\ attempted' = attempted
        /\ inplay' = inplay
    BY DEF Loop!NextDay
  <1>2. Kept(saved) /\ saved.day \in Int /\ saved.day <= 1
    BY <1>1 DEF LoopInv, Kept, Papers
  <1>3. Loop!Today(saved)' = Loop!FreshPaper(2)
    BY <1>1, <1>2 DEF Loop!Today, Loop!FreshPaper
  <1>4. Cardinality({}) = 0
    BY FS_EmptySet
  <1>5. /\ (NoneMissing(sheet, Loop!Today(saved)))'
        /\ (NoneTooMany(sheet, Loop!Today(saved)))'
    BY <1>1, <1>3, <1>4
    DEF NoneMissing, NoneTooMany, Loop!EmptySheet, Loop!FreshPaper
  <1>6. (Kept(paper) /\ Kept(saved) /\ Loop!OneAttempt)'
    BY <1>1, SameSize DEF LoopInv, Kept, Loop!Balanced, Loop!OneAttempt
  <1>7. Loop!DriftsDue' /\ sheet' \in Sheets /\ saved'.day <= dayNow'
    BY <1>1, <1>2 DEF Loop!DriftsDue, Loop!EmptySheet, Sheets
  <1>8. Loop!FreshPaper(0)' = Loop!FreshPaper(0)
    BY DEF Loop!FreshPaper
  <1> QED BY <1>1, <1>5, <1>6, <1>7, <1>8 DEF LoopInv, Sheets

\* The best of the arbitrages is given to the executor, or not.
LEMMA DecideStep ==
    ASSUME LoopInv, Loop!Decide
    PROVE  LoopInv'
  <1>1. /\ cycle = "deciding" /\ cycle' = cycle /\ inplay' = inplay /\ eligible' = eligible
        /\ UNCHANGED <<dayNow, paper, saved, sheet, lossy, doubled>>
    BY DEF Loop!Decide
  <1> DEFINE g == Head(offers)
  <1>2. PICK v \in Loop!Verdict(g) :
           attempted' = IF v = "live" THEN attempted \cup {g} ELSE attempted
    BY DEF Loop!Decide
  <1>3. CASE v = "live"
    <2>1. g \notin inplay /\ attempted = {}
      BY <1>2, <1>3 DEF Loop!Verdict, Loop!MayTry
    <2>2. attempted' = {g}
      BY <1>2, <1>3, <2>1
    <2>3. Cardinality({g}) = 1
      BY FS_Singleton
    <2> HIDE DEF g
    <2>4. Loop!OneAttempt'
      BY <1>1, <2>1, <2>2, <2>3, SameSize DEF Loop!OneAttempt
    <2> QED BY <1>1, <2>4, PriceCycleStep DEF LoopInv
  <1>4. CASE v # "live"
    <2>1. Loop!OneAttempt'
      BY <1>1, <1>2, <1>4 DEF Loop!OneAttempt, LoopInv, Loop!Cardinality, Cardinality
    <2> QED BY <1>1, <2>1, PriceCycleStep DEF LoopInv
  <1> QED BY <1>3, <1>4

\* Every step of the loop keeps the invariant.
LEMMA LoopSteps ==
    ASSUME LoopInv, Loop!Next
    PROVE  LoopInv'
  <1>1. CASE Loop!Begin
    <2>1. /\ cycle = "idle" /\ cycle' = "begun" /\ attempted' = {} /\ eligible' = {}
          /\ UNCHANGED <<dayNow, paper, saved, sheet, lossy, doubled>>
      BY <1>1 DEF Loop!Begin
    <2>2. Loop!OneAttempt'
      BY <2>1, SameSize, FS_EmptySet DEF Loop!OneAttempt
    <2> QED BY <2>1, <2>2, PriceCycleStep
  <1>2. ASSUME UNCHANGED <<attempted, inplay>> PROVE Loop!OneAttempt'
    BY <1>2, SameSize DEF LoopInv, Loop!OneAttempt
  <1>3. CASE Loop!Price
    <2>1. /\ cycle = "begun" /\ cycle' = "deciding" /\ eligible' \subseteq Markets
          /\ UNCHANGED <<attempted, inplay, dayNow, paper, saved, sheet, lossy, doubled>>
      BY <1>3 DEF Loop!Price
    <2> QED BY <1>2, <2>1, PriceCycleStep
  <1>4. CASE Loop!Decide
    BY <1>4, DecideStep
  <1>5. CASE Loop!Record \/ Loop!CycleRaises
    <2>1. /\ cycle = "deciding" /\ cycle' \in {"papering", "idle"} /\ eligible' = eligible
          /\ UNCHANGED <<attempted, inplay, dayNow, paper, saved, sheet, lossy, doubled>>
      BY <1>5 DEF Loop!Record, Loop!CycleRaises
    <2>2. eligible' \subseteq Markets
      BY <2>1 DEF LoopInv
    <2> QED BY <1>2, <2>1, <2>2, PriceCycleStep
  <1>6. ASSUME NEW m \in Markets, Loop!KickOff(m)
        PROVE  LoopInv'
    <2>1. /\ cycle' = cycle /\ eligible' = eligible
          /\ UNCHANGED <<attempted, inplay, dayNow, paper, saved, sheet, lossy, doubled>>
      BY <1>6 DEF Loop!KickOff
    <2>2. eligible' \subseteq Markets
      BY <2>1 DEF LoopInv
    <2> QED BY <1>2, <2>1, <2>2, PriceCycleStep
  <1> QED
    BY <1>1, <1>3, <1>4, <1>5, <1>6, ObserveStep, AppendStep, SaveStep, DiesStep, NextDayStep,
       Zenon DEF Loop!Next

\* Nothing is observed, written or tried yet.
LEMMA LoopStarts ==
    ASSUME Loop!Init
    PROVE  LoopInv
  <1>1. /\ dayNow = 1 /\ cycle = "idle" /\ eligible = {} /\ attempted = {}
        /\ paper = Loop!FreshPaper(0) /\ saved = Loop!FreshPaper(0) /\ sheet = Loop!EmptySheet
        /\ lossy = FALSE /\ doubled = FALSE
    BY DEF Loop!Init
  <1>2. Kept(Loop!FreshPaper(0))
    BY FreshKept
  <1>3. Loop!OneAttempt
    BY <1>1, SameSize, FS_EmptySet DEF Loop!OneAttempt
  <1>4. Loop!Today(saved) = Loop!FreshPaper(1)
    BY <1>1 DEF Loop!Today, Loop!FreshPaper
  <1>5. Cardinality({}) = 0
    BY FS_EmptySet
  <1>6. NoneMissing(sheet, Loop!Today(saved)) /\ NoneTooMany(sheet, Loop!Today(saved))
    BY <1>1, <1>4, <1>5 DEF NoneMissing, NoneTooMany, Loop!EmptySheet, Loop!FreshPaper
  <1>7. Loop!DriftsDue /\ sheet \in Sheets /\ saved.day <= dayNow
    BY <1>1 DEF Loop!DriftsDue, Loop!EmptySheet, Sheets, Loop!FreshPaper
  <1> QED BY <1>1, <1>2, <1>3, <1>6, <1>7 DEF LoopInv

\* What the invariant says between two cycles is the property.
LEMMA LoopTells == LoopInv => Loop!LoopKept
  <1>1. ASSUME LoopInv PROVE Loop!SheetTells
    <2> SUFFICES ASSUME cycle = "idle", saved.day = dayNow
                 PROVE  /\ ~doubled => NoneTooMany(sheet, saved)
                        /\ ~lossy => NoneMissing(sheet, saved)
      BY SameSize DEF Loop!SheetTells, NoneTooMany, NoneMissing
    <2>1. Loop!Today(saved) = saved
      BY DEF Loop!Today
    <2> QED BY <1>1, <2>1 DEF LoopInv
  <1> QED BY <1>1 DEF LoopInv, Kept, Loop!LoopKept
-----------------------------------------------------------------------------
\* The lifetime counters and the paper maker count what happened.
RecordsInv == LifeInv /\ LoopInv

\* A step of another part leaves them as they are.
LEMMA RecordsKept ==
    ASSUME RecordsInv, [Next]_vars
    PROVE  RecordsInv'
  <1>1. Life!Next \/ UNCHANGED lifeVars
    BY Zenon DEF Next, Only, vars
  <1>2. Loop!Next \/ UNCHANGED loopVars
    BY Zenon DEF Next, Only, vars
  <1>7. LifeInv /\ LoopInv
    BY DEF RecordsInv
  <1>3. ASSUME UNCHANGED lifeVars PROVE LifeInv'
    <2>1. /\ life' = life /\ tuning' = tuning /\ written' = written
          /\ UNCHANGED <<today, asked, starts, begun>>
      BY <1>3 DEF lifeVars
    <2>2. Life!Lost' = Life!Lost /\ Life!Running' = Life!Running
      BY <2>1 DEF Life!Lost, Life!Running, Life!Down, Life!Zero, Life!NoDay
    <2>3. (Right(life) /\ (tuning # Life!Lost => Right(tuning)))'
      BY <1>7, <2>1, <2>2
      DEF LifeInv, Right, Counters, Life!CountedOnce, Life!HedgedIsRest
    <2>4. (Life!Running /\ written => Life!Money(tuning) = Life!Money(life))'
      BY <1>7, <2>1, <2>2 DEF LifeInv, Life!Money
    <2> QED BY <1>7, <2>1, <2>3, <2>4 DEF LifeInv
  <1>4. LifeInv'
    BY <1>1, <1>3, <1>7, LifeSteps
  <1>5. ASSUME UNCHANGED loopVars PROVE LoopInv'
    <2>1. /\ cycle' = cycle /\ eligible' = eligible
          /\ UNCHANGED <<attempted, inplay, dayNow, paper, saved, sheet, lossy, doubled>>
      BY <1>5 DEF loopVars
    <2>2. eligible' \subseteq Markets /\ Loop!OneAttempt'
      BY <1>7, <2>1, SameSize DEF LoopInv, Loop!OneAttempt
    <2> QED BY <1>7, <2>1, <2>2, PriceCycleStep
  <1>6. LoopInv'
    BY <1>2, <1>5, <1>7, LoopSteps
  <1> QED BY <1>4, <1>6 DEF RecordsInv

\* They have counted nothing yet, or what an older build left.
LEMMA RecordsStart == Init => RecordsInv
  <1>1. Init => Life!Init /\ Loop!Init
    BY Zenon DEF Init
  <1> QED BY <1>1, LifeStarts, LoopStarts DEF RecordsInv

\* What the invariant says is what is promised of both.
LEMMA RecordsSay == RecordsInv => Life!LifeKept /\ Loop!LoopKept
  <1>1. LifeInv => Life!LifeKept
    BY DEF LifeInv, Right, Life!LifeKept
  <1> QED BY <1>1, LoopTells DEF RecordsInv

\* Whatever crashes, damaged files, skipped writes and errors there are: every
\* correction of the lifetime numbers counts exactly once and the file is behind
\* only by a skipped write (state.py); the sheet of the paper maker tells what its
\* counters count, unless rows of it were lost or a state of it was
\* (papermaker.py).
THEOREM RecordsTell == Spec => [](Life!LifeKept /\ Loop!LoopKept)
  <1>1. Init => RecordsInv
    BY RecordsStart
  <1> QED BY <1>1, RecordsKept, RecordsSay, PTL DEF Spec

\* With no fault among Faults the taker's ledger does so too: while no trade ended
\* in a halt, its rows add up to what every leg is held at (executor/engine.py,
\* ledger.py).
THEOREM CountersTellAlways ==
    ASSUME Faults = {}
    PROVE  Spec => []CountersTell
  <1>1. Init => TakerInv /\ RecordsInv
    BY TakerStarts, RecordsStart
  <1>2. TakerInv /\ [Next]_vars => TakerInv'
    BY TakerStep
  <1>3. RecordsInv /\ [Next]_vars => RecordsInv'
    BY RecordsKept
  <1>4. TakerInv /\ RecordsInv => CountersTell
    BY TakerTells, RecordsSay DEF CountersTell
  <1> QED BY <1>1, <1>2, <1>3, <1>4, PTL DEF Spec
=============================================================================
