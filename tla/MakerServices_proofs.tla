------------------------- MODULE MakerServices_proofs -------------------------
(***************************************************************************)
(* What the services around the maker's order book keep for every number   *)
(* of pairs, tickers, threads and texts.                                   *)
(*                                                                         *)
(* The settlement pass (Settlement): a settled market is counted once.     *)
(* The invariant SettleInv says, beside the types, where every row of a    *)
(* settled market stands (still to be taken by the pass, told, or of a     *)
(* pair not yet taken up) and what each crash in mid-pass may have added.  *)
(*                                                                         *)
(* The alert queue (AlertQueue): it loses only its oldest texts.  The      *)
(* invariant AlertInv says where each text is, whose place each thread is  *)
(* owed, and that what waits is newer than what its thread lost or sent.   *)
(***************************************************************************)
EXTENDS MakerServices, FiniteSetTheorems, SequenceTheorems, WellFoundedInduction, TLAPS

\* A set of naturals that has a member has a least one.
LEMMA HasLeast ==
    ASSUME NEW S \in SUBSET Nat, S # {}
    PROVE  \E n \in S : \A x \in S : n <= x
  <1> DEFINE Below == {ss \in Nat \X Nat : ss[1] < ss[2]}
  <1>1. IsWellFoundedOn(Below, Nat)
    BY NatLessThanWellFounded DEF OpToRel
  <1> HIDE DEF Below
  <1>2. PICK n \in S : \A x \in S : ~ (<<x, n>> \in Below)
    BY <1>1, WFMin
  <1>3. ASSUME NEW x \in S PROVE n <= x
    <2>1. x \in Nat /\ n \in Nat /\ <<x, n>> \in Nat \X Nat
      OBVIOUS
    <2>2. x < n => <<x, n>> \in Below
      BY <2>1 DEF Below
    <2> QED BY <1>2, <2>1, <2>2
  <1> QED BY <1>3
-----------------------------------------------------------------------------
(* Settlement: the invariant.                                              *)

\* The market is settled; a row is counted for life, or waits for a human.
Final(p) == market[p].stage \in {"paid", "redeemed"}
Told(r) == lifetime[r] > 0 \/ r \in refused

\* What the venue shows of a market.
Markets == [stage : {"quoted", "held", "paid", "redeemed"}, kinds : SUBSET Settle!RowKinds,
            odd : SUBSET Settle!RowKinds]

\* What is held is in the cost basis, on disk as in memory, and only what is settled
\* is a key.
MarketInv ==
    /\ market \in [Settle!Pairs -> Markets]
    /\ \A p \in Settle!Pairs : market[p].odd \subseteq market[p].kinds
    /\ \A p \in Settle!Pairs : ~Final(p) => market[p].kinds = {}
    /\ legs \in [mem : SUBSET Settle!Pairs, disk : SUBSET Settle!Pairs] /\ legs.mem = legs.disk
    /\ keys \subseteq Settle!Pairs /\ \A p \in keys : Final(p)
    /\ \A p \in Settle!Pairs : market[p].stage = "held" => p \in legs.disk
    /\ \A p \in legs.disk : market[p].stage # "quoted"
    /\ refused \subseteq Settle!Rows /\ expected \subseteq Settle!Pairs

\* The rows of a key are told or still to be taken by the pass.
PassInv ==
    /\ pass \in [at : {"idle", "record", "restate"}, rows : SUBSET Settle!Rows,
                 pairs : SUBSET Settle!Pairs, emitted : SUBSET Settle!Pairs]
    /\ pass.at = "idle" => pass = Settle!Idle
    /\ pass.at # "record" => pass.rows = {}
    /\ \A r \in pass.rows : r[1] \in legs.disk /\ Final(r[1])
    /\ pass.pairs \subseteq pass.emitted /\ pass.emitted \subseteq keys
    /\ \A r \in Settle!Rows :
          (r[1] \in keys \/ \E o \in pass.rows : o[1] = r[1]) /\ r[2] \in market[r[1]].kinds
              => r \in pass.rows \/ Told(r)

\* Its pair may yet be paid out: every counting of the row so far was torn.
Ahead(r) ==
    \/ r \in pass.rows
    \/ /\ r[1] \in legs.disk \/ market[r[1]].stage = "quoted"
       /\ r[1] \notin keys \/ (pass.at # "restate" /\ r[1] \notin pass.emitted)

\* A row is counted once, and once more for every pass of its pair that was torn.
CountInv ==
    /\ lifetime \in [Settle!Rows -> Nat] /\ torn \in [Settle!Pairs -> Nat]
    /\ crashes \in Nat /\ crashes <= MaxCrashes /\ \A p \in Settle!Pairs : torn[p] <= crashes
    /\ \A r \in Settle!Rows : /\ lifetime[r] <= 1 + torn[r[1]]
                              /\ Ahead(r) => lifetime[r] <= torn[r[1]]

\* A restatement not yet written down belongs to the pass under way.
RestateInv ==
    /\ rail \in [pnl : [Settle!Pairs -> Nat], done : SUBSET Settle!Pairs,
                 doneDisk : SUBSET Settle!Pairs]
    /\ rail.doneDisk \subseteq rail.done
    /\ \A p \in rail.done \ rail.doneDisk : pass.at = "restate" /\ p \in keys /\ p \in legs.disk
    /\ \A p \in Settle!Pairs : /\ rail.pnl[p] <= 1 + torn[p]
                               /\ p \notin rail.done => rail.pnl[p] <= torn[p]

\* The rows of a settled pair that left the cost basis are told.
GoneInv ==
    \A r \in Settle!Rows :
        Final(r[1]) /\ r[1] \notin legs.disk /\ r[2] \in market[r[1]].kinds => Told(r)

\* The inductive invariant of the settlement.
SettleInv == MarketInv /\ PassInv /\ CountInv /\ RestateInv /\ GoneInv

\* A row names its pair.
LEMMA RowFacts ==
    /\ \A r \in Settle!Rows : r[1] \in Settle!Pairs /\ r[2] \in Settle!RowKinds
    /\ \A p \in Settle!Pairs, k \in Settle!RowKinds :
          <<p, k>> \in Settle!Rows /\ <<p, k>>[1] = p /\ <<p, k>>[2] = k
    /\ MarketInv => \A p \in Settle!Pairs : \A r :
          r \in Settle!Found(p) <=> r \in Settle!Rows /\ r[1] = p /\ r[2] \in market[p].kinds
  <1>1. /\ \A r \in Settle!Rows : r[1] \in Settle!Pairs /\ r[2] \in Settle!RowKinds
        /\ \A p \in Settle!Pairs, k \in Settle!RowKinds :
              <<p, k>> \in Settle!Rows /\ <<p, k>>[1] = p /\ <<p, k>>[2] = k
    BY DEF Settle!Rows
  <1>2. ASSUME MarketInv, NEW p \in Settle!Pairs, NEW r
        PROVE  r \in Settle!Found(p) <=> r \in Settle!Rows /\ r[1] = p /\ r[2] \in market[p].kinds
    <2>1. market[p].kinds \subseteq Settle!RowKinds
      BY <1>2 DEF MarketInv, Markets
    <2> QED BY <2>1 DEF Settle!Found, Settle!Rows
  <1> QED BY <1>1, <1>2

\* NextRow is a row of the pass, NextPair one of its pairs.
LEMMA NextFacts ==
    ASSUME SettleInv
    PROVE  /\ pass.rows # {} => Settle!NextRow \in pass.rows
           /\ pass.pairs # {} => Settle!NextPair \in pass.pairs
  <1>1. pass.rows \subseteq Settle!Rows /\ pass.pairs \subseteq Settle!Pairs
    BY DEF SettleInv, PassInv
  <1>2. Settle!Pairs \in SUBSET Nat
    BY ServicesAssumption DEF Settle!Pairs
  <1>3. ASSUME pass.rows # {} PROVE Settle!NextRow \in pass.rows
    <2> DEFINE P == {r[1] : r \in pass.rows}
    <2>1. P \in SUBSET Nat /\ P # {}
      <3>1. \A r \in pass.rows : r[1] \in Nat
        BY <1>1, <1>2, RowFacts
      <3> QED BY <1>3, <3>1
    <2>2. PICK n \in P : \A x \in P : n <= x
      <3> HIDE DEF P
      <3> QED BY <2>1, HasLeast
    <2>3. PICK r \in pass.rows : r[1] = n
      OBVIOUS
    <2>4. \A o \in pass.rows : r[1] <= o[1]
      BY <2>2, <2>3
    <2> QED BY <2>3, <2>4 DEF Settle!NextRow
  <1>4. ASSUME pass.pairs # {} PROVE Settle!NextPair \in pass.pairs
    <2>1. PICK n \in pass.pairs : \A x \in pass.pairs : n <= x
      BY <1>1, <1>2, <1>4, HasLeast
    <2> QED BY <2>1 DEF Settle!NextPair, Settle!Min
  <1> QED BY <1>3, <1>4

\* A market settles, or its Polymarket leg leaves the wallet.
LEMMA SettlesStep ==
    ASSUME SettleInv, Settle!Settles
    PROVE  SettleInv'
  <1>1. PICK p \in Settle!Pairs, kinds \in {{"pair"}, Settle!RowKinds} : \E odd \in SUBSET kinds :
           /\ market[p].stage = "held"
           /\ market' = [market EXCEPT ![p] = [stage |-> "paid", kinds |-> kinds, odd |-> odd]]
    BY Zenon DEF Settle!Settles
  <1>2. PICK odd \in SUBSET kinds :
           market' = [market EXCEPT ![p] = [stage |-> "paid", kinds |-> kinds, odd |-> odd]]
    BY <1>1
  <1>3. UNCHANGED <<legs, keys, rail, today, lifetime, refused, expected, pass, crashes, torn>>
    BY DEF Settle!Settles
  <1>4. kinds \subseteq Settle!RowKinds
    BY DEF Settle!RowKinds
  <1>5. \A q \in Settle!Pairs :
           market'[q] = IF q = p THEN [stage |-> "paid", kinds |-> kinds, odd |-> odd]
                        ELSE market[q]
    BY <1>2 DEF SettleInv, MarketInv
  <1>6. market' \in [Settle!Pairs -> Markets]
    <2>1. [stage |-> "paid", kinds |-> kinds, odd |-> odd] \in Markets
      BY <1>4 DEF Markets
    <2> QED BY <1>2, <2>1 DEF SettleInv, MarketInv
  <1>7. MarketInv'
    <2>1. \A q \in Settle!Pairs :
             /\ market'[q].stage = IF q = p THEN "paid" ELSE market[q].stage
             /\ market'[q].kinds = IF q = p THEN kinds ELSE market[q].kinds
             /\ market'[q].odd = IF q = p THEN odd ELSE market[q].odd
      BY <1>5
    <2>2. \A q \in Settle!Pairs : market'[q].odd \subseteq market'[q].kinds
      BY <2>1 DEF SettleInv, MarketInv
    <2>3. \A q \in Settle!Pairs : ~Final(q)' => market'[q].kinds = {}
      BY <2>1 DEF SettleInv, MarketInv, Final
    <2>4. \A q \in keys' : Final(q)'
      BY <1>3, <2>1 DEF SettleInv, MarketInv, Final
    <2>5. /\ \A q \in Settle!Pairs : market'[q].stage = "held" => q \in legs'.disk
          /\ \A q \in legs'.disk : market'[q].stage # "quoted"
      BY <1>3, <2>1 DEF SettleInv, MarketInv
    <2> QED BY <1>3, <1>6, <2>2, <2>3, <2>4, <2>5 DEF SettleInv, MarketInv
  <1>8. p \notin keys /\ \A r \in pass.rows : r[1] # p
    BY <1>1 DEF SettleInv, MarketInv, PassInv, Final
  <1>9. PassInv'
    BY <1>3, <1>5, <1>8, RowFacts DEF SettleInv, PassInv, Final, Told
  <1>10. CountInv'
    BY <1>1, <1>3, <1>5, RowFacts DEF SettleInv, MarketInv, CountInv, Ahead
  <1>11. GoneInv'
    BY <1>1, <1>3, <1>5, RowFacts DEF SettleInv, MarketInv, GoneInv, Final, Told
  <1> QED BY <1>3, <1>7, <1>9, <1>10, <1>11 DEF SettleInv, RestateInv

\* The Polymarket leg of a settled market is redeemed.
LEMMA RedeemsStep ==
    ASSUME SettleInv, Settle!Redeems
    PROVE  SettleInv'
  <1>1. PICK p \in Settle!Pairs : /\ market[p].stage = "paid"
                                  /\ market' = [market EXCEPT ![p].stage = "redeemed"]
    BY DEF Settle!Redeems
  <1>2. UNCHANGED <<legs, keys, rail, today, lifetime, refused, expected, pass, crashes, torn>>
    BY DEF Settle!Redeems
  <1>3. market[p] \in Markets
    BY DEF SettleInv, MarketInv
  <1>4. \A q \in Settle!Pairs : /\ market'[q].stage = IF q = p THEN "redeemed" ELSE market[q].stage
                                /\ market'[q].kinds = market[q].kinds
                                /\ market'[q].odd = market[q].odd
    BY <1>1, <1>3 DEF SettleInv, MarketInv, Markets
  <1>5. market' \in [Settle!Pairs -> Markets]
    BY <1>1, <1>3 DEF SettleInv, MarketInv, Markets
  <1>6. MarketInv'
    BY <1>1, <1>2, <1>4, <1>5 DEF SettleInv, MarketInv, Final
  <1>7. PassInv'
    BY <1>2, <1>4, RowFacts DEF SettleInv, PassInv, Final, Told, MarketInv
  <1>8. CountInv'
    BY <1>1, <1>2, <1>4, RowFacts DEF SettleInv, MarketInv, CountInv, Ahead
  <1>9. GoneInv'
    BY <1>1, <1>2, <1>4, RowFacts DEF SettleInv, MarketInv, GoneInv, Final, Told
  <1> QED BY <1>2, <1>6, <1>7, <1>8, <1>9 DEF SettleInv, RestateInv

\* A hedged fill is booked.
LEMMA BookStep ==
    ASSUME SettleInv, Settle!Book
    PROVE  SettleInv'
  <1>1. PICK p \in Settle!Pairs :
           /\ Settle!Quiet /\ market[p].stage = "quoted"
           /\ market' = [market EXCEPT ![p].stage = "held"]
           /\ legs' = [mem |-> legs.mem \cup {p}, disk |-> legs.mem \cup {p}]
           /\ expected' = expected \cup {p}
    BY Zenon DEF Settle!Book
  <1>2. UNCHANGED <<keys, rail, lifetime, refused, pass, crashes, torn>>
    BY DEF Settle!Book
  <1>3. market[p] \in Markets
    BY DEF SettleInv, MarketInv
  <1>4. \A q \in Settle!Pairs : /\ market'[q].stage = IF q = p THEN "held" ELSE market[q].stage
                                /\ market'[q].kinds = market[q].kinds
                                /\ market'[q].odd = market[q].odd
    BY <1>1, <1>3 DEF SettleInv, MarketInv, Markets
  <1>5. market' \in [Settle!Pairs -> Markets]
    BY <1>1, <1>3 DEF SettleInv, MarketInv, Markets
  <1>6. p \notin keys /\ pass.rows = {} /\ pass.at = "idle" /\ pass.emitted = {}
    BY <1>1 DEF SettleInv, MarketInv, Final, Settle!Quiet, Settle!Idle
  <1>7. MarketInv'
    BY <1>1, <1>2, <1>4, <1>5 DEF SettleInv, MarketInv, Final
  <1>8. PassInv'
    BY <1>1, <1>2, <1>4, <1>6, RowFacts DEF SettleInv, PassInv, Final, Told, MarketInv
  <1>9. CountInv'
    BY <1>1, <1>2, <1>4, <1>6, RowFacts DEF SettleInv, MarketInv, CountInv, Ahead
  <1>10. RestateInv'
    BY <1>1, <1>2 DEF SettleInv, MarketInv, RestateInv
  <1>11. GoneInv'
    BY <1>1, <1>2, <1>4, RowFacts DEF SettleInv, MarketInv, GoneInv, Final, Told
  <1> QED BY <1>7, <1>8, <1>9, <1>10, <1>11 DEF SettleInv

\* A pass takes up the settled pairs that are no keys.
LEMMA BeginStep ==
    ASSUME SettleInv, Settle!BeginPass
    PROVE  SettleInv'
  <1>1. /\ Settle!Quiet
        /\ pass' = [at |-> "record", rows |-> UNION {Settle!Found(p) : p \in Settle!Due},
                    pairs |-> {}, emitted |-> {}]
        /\ UNCHANGED <<market, legs, keys, rail, today, lifetime, refused, expected, crashes, torn>>
    BY DEF Settle!BeginPass
  <1>2. MarketInv /\ pass.at = "idle" /\ pass.rows = {} /\ pass.emitted = {}
    BY <1>1 DEF SettleInv, Settle!Quiet, Settle!Idle
  <1>3. /\ Settle!Due \subseteq Settle!Pairs
        /\ \A p \in Settle!Due : p \in legs.disk /\ p \notin keys /\ Final(p)
    <2>1. ASSUME NEW p \in Settle!Due
          PROVE  p \in Settle!Pairs /\ p \in legs.disk /\ p \notin keys /\ Final(p)
      <3>1. p \in legs.mem /\ p \notin keys /\ Settle!Found(p) # {}
        BY DEF Settle!Due
      <3>2. p \in Settle!Pairs /\ p \in legs.disk
        BY <1>2, <3>1 DEF MarketInv
      <3>3. market[p].kinds # {}
        BY <3>1 DEF Settle!Found
      <3> QED BY <1>2, <3>1, <3>2, <3>3 DEF MarketInv
    <2> QED BY <2>1
  <1>4. \A r : r \in pass'.rows <=>
            r \in Settle!Rows /\ r[1] \in Settle!Due /\ r[2] \in market[r[1]].kinds
    <2>1. \A r : r \in pass'.rows <=> \E p \in Settle!Due : r \in Settle!Found(p)
      BY <1>1
    <2>2. \A p \in Settle!Due : \A r :
             r \in Settle!Found(p) <=> r \in Settle!Rows /\ r[1] = p /\ r[2] \in market[p].kinds
      BY <1>2, <1>3, RowFacts
    <2> QED BY <2>1, <2>2
  <1>5. MarketInv'
    BY <1>1, <1>2 DEF MarketInv, Final
  <1>6. PassInv'
    <2>1. /\ pass'.rows \subseteq Settle!Rows
          /\ \A r \in pass'.rows : r[1] \in legs.disk /\ Final(r[1])
      BY <1>3, <1>4
    <2>2. pass' \in [at : {"idle", "record", "restate"}, rows : SUBSET Settle!Rows,
                     pairs : SUBSET Settle!Pairs, emitted : SUBSET Settle!Pairs]
      BY <1>1, <2>1
    <2>3. ASSUME NEW r \in Settle!Rows, r[1] \in keys \/ \E o \in pass'.rows : o[1] = r[1],
                 r[2] \in market[r[1]].kinds
          PROVE  r \in pass'.rows \/ Told(r)
      <3>1. CASE r[1] \in keys
        BY <1>2, <2>3, <3>1 DEF SettleInv, PassInv
      <3>2. CASE \E o \in pass'.rows : o[1] = r[1]
        BY <1>4, <2>3, <3>2
      <3> QED BY <2>3, <3>1, <3>2
    <2>4. pass'.at = "record" /\ pass'.pairs = {} /\ pass'.emitted = {}
      BY <1>1
    <2> QED BY <1>1, <2>1, <2>2, <2>3, <2>4 DEF PassInv, Final, Told
  <1>7. CountInv'
    <2>1. ASSUME NEW r \in Settle!Rows, Ahead(r)' PROVE Ahead(r)
      <3>1. pass'.at = "record" /\ pass'.emitted = {}
        BY <1>1
      <3>2. CASE r \in pass'.rows
        BY <1>3, <1>4, <3>2 DEF Ahead
      <3>3. CASE r \notin pass'.rows
        BY <1>1, <1>2, <2>1, <3>1, <3>3 DEF Ahead
      <3> QED BY <3>2, <3>3
    <2> QED BY <1>1, <2>1 DEF SettleInv, CountInv
  <1>8. RestateInv'
    BY <1>1, <1>2 DEF SettleInv, RestateInv
  <1>9. GoneInv'
    BY <1>1 DEF SettleInv, GoneInv, Final, Told
  <1> QED BY <1>5, <1>6, <1>7, <1>8, <1>9 DEF SettleInv

-----------------------------------------------------------------------------
(* Settlement: the pass and the crash.                                     *)

\* A row is counted for life, or queued for a human; its pair is a key then.
LEMMA RecordStep ==
    ASSUME SettleInv, Settle!Record
    PROVE  SettleInv'
  <1>0. pass.rows # {}
    BY DEF Settle!Record
  <1>4. PICK r \in pass.rows : r = Settle!NextRow
    BY <1>0, NextFacts
  <1> DEFINE p == r[1]
  <1>1. /\ pass.at = "record" /\ keys' = keys \cup {p}
        /\ UNCHANGED <<market, legs, rail, today, expected, crashes, torn>>
    BY <1>4 DEF Settle!Record
  <1>2. \/ /\ refused' = refused \cup {r} /\ lifetime' = lifetime
           /\ pass' = [pass EXCEPT !.rows = @ \ {r}]
        \/ /\ lifetime' = [lifetime EXCEPT ![r] = @ + 1] /\ refused' = refused
           /\ pass' = [pass EXCEPT !.rows = @ \ {r}, !.emitted = @ \cup {p}]
    BY <1>4 DEF Settle!Record
  <1>3. MarketInv /\ PassInv /\ CountInv /\ RestateInv /\ GoneInv
    BY DEF SettleInv
  <1>5. r \in Settle!Rows /\ p \in Settle!Pairs /\ p \in legs.disk /\ Final(p)
    BY <1>3, <1>4, RowFacts DEF PassInv
  <1>6. /\ pass'.rows = pass.rows \ {r} /\ pass'.at = "record" /\ pass'.pairs = pass.pairs
        /\ pass'.emitted = pass.emitted \/ pass'.emitted = pass.emitted \cup {p}
        /\ pass' \in [at : {"idle", "record", "restate"}, rows : SUBSET Settle!Rows,
                      pairs : SUBSET Settle!Pairs, emitted : SUBSET Settle!Pairs]
    <2>1. pass \in [at : {"idle", "record", "restate"}, rows : SUBSET Settle!Rows,
                    pairs : SUBSET Settle!Pairs, emitted : SUBSET Settle!Pairs]
      BY <1>3 DEF PassInv
    <2> DEFINE left == pass.rows \ {r}
               out == pass.emitted \cup {p}
    <2>2. left \in SUBSET Settle!Rows /\ out \in SUBSET Settle!Pairs
      BY <1>5, <2>1
    <2>3. \/ pass' = [pass EXCEPT !.rows = left]
          \/ pass' = [pass EXCEPT !.rows = left, !.emitted = out]
      BY <1>2
    <2> HIDE DEF left, out
    <2>4. /\ pass'.rows = left /\ pass'.at = pass.at /\ pass'.pairs = pass.pairs
          /\ pass'.emitted = pass.emitted \/ pass'.emitted = out
          /\ pass' \in [at : {"idle", "record", "restate"}, rows : SUBSET Settle!Rows,
                        pairs : SUBSET Settle!Pairs, emitted : SUBSET Settle!Pairs]
      BY <2>1, <2>2, <2>3
    <2> QED BY <1>1, <2>4 DEF left, out
  <1>7. /\ \A o \in Settle!Rows : Told(o) => Told(o)'
        /\ Told(r)'
        /\ refused' \subseteq Settle!Rows /\ lifetime' \in [Settle!Rows -> Nat]
    BY <1>2, <1>3, <1>5 DEF Told, MarketInv, CountInv
  <1>8. MarketInv'
    BY <1>1, <1>3, <1>5, <1>7 DEF MarketInv, Final
  <1>9. PassInv'
    <2>1. pass'.pairs \subseteq pass'.emitted /\ pass'.emitted \subseteq keys'
      BY <1>1, <1>3, <1>6 DEF PassInv
    <2>2. \A o \in pass'.rows : o[1] \in legs'.disk /\ Final(o[1])'
      BY <1>1, <1>3, <1>6 DEF PassInv, Final
    <2>3. ASSUME NEW o \in Settle!Rows, o[1] \in keys' \/ \E q \in pass'.rows : q[1] = o[1],
                 o[2] \in market[o[1]].kinds
          PROVE  o \in pass'.rows \/ Told(o)'
      <3>1. o[1] \in keys \/ \E q \in pass.rows : q[1] = o[1]
        BY <1>1, <1>4, <1>6, <2>3
      <3>2. o \in pass.rows \/ Told(o)
        BY <1>3, <2>3, <3>1 DEF PassInv
      <3> QED BY <1>6, <1>7, <3>2
    <2> QED BY <1>1, <1>6, <2>1, <2>2, <2>3 DEF PassInv
  <1>10. CountInv'
    <2>1. lifetime[r] \in Nat /\ lifetime[r] <= torn[p] /\ torn[p] \in Nat
      BY <1>3, <1>4, <1>5 DEF CountInv, Ahead
    <2>2. ASSUME NEW o \in Settle!Rows, o # r
          PROVE  lifetime'[o] = lifetime[o] /\ (Ahead(o)' => Ahead(o))
      BY <1>1, <1>2, <1>3, <1>5, <1>6, <2>2 DEF Ahead, CountInv
    <2>3. lifetime'[r] <= 1 + torn[p]
      BY <1>2, <1>3, <1>5, <2>1 DEF CountInv
    <2>4. Ahead(r)' => lifetime'[r] <= torn[p]
      <3>1. CASE lifetime' = lifetime
        BY <2>1, <3>1
      <3>2. CASE pass' = [pass EXCEPT !.rows = @ \ {r}, !.emitted = @ \cup {p}]
        <4>1. p \in pass'.emitted /\ r \notin pass'.rows /\ p \in keys'
          BY <1>1, <1>3, <1>6, <3>2 DEF PassInv
        <4> QED BY <4>1 DEF Ahead
      <3> QED BY <1>2, <3>1, <3>2
    <2>5. \A o \in Settle!Rows : /\ lifetime'[o] <= 1 + torn[o[1]]
                                 /\ Ahead(o)' => lifetime'[o] <= torn[o[1]]
      <3>1. ASSUME NEW o \in Settle!Rows, o # r
            PROVE  /\ lifetime'[o] <= 1 + torn[o[1]]
                   /\ Ahead(o)' => lifetime'[o] <= torn[o[1]]
        BY <1>3, <2>2, <3>1 DEF CountInv
      <3> QED BY <2>3, <2>4, <3>1
    <2> QED BY <1>1, <1>3, <1>7, <2>5 DEF CountInv
  <1>11. RestateInv'
    BY <1>1, <1>3, <1>6 DEF RestateInv
  <1>12. GoneInv'
    BY <1>1, <1>3, <1>7 DEF GoneInv, Final
  <1> QED BY <1>8, <1>9, <1>10, <1>11, <1>12 DEF SettleInv

\* The last row was taken.
LEMMA RecordedStep ==
    ASSUME SettleInv, Settle!Recorded
    PROVE  SettleInv'
  <1>1. /\ pass.at = "record" /\ pass.rows = {}
        /\ pass' = IF pass.emitted = {} THEN Settle!Idle
                   ELSE [pass EXCEPT !.at = "restate", !.pairs = pass.emitted]
        /\ UNCHANGED <<market, legs, keys, rail, today, lifetime, refused, expected, crashes, torn>>
    BY DEF Settle!Recorded
  <1>2. MarketInv /\ PassInv /\ CountInv /\ RestateInv /\ GoneInv
    BY DEF SettleInv
  <1>3. /\ pass'.rows = {} /\ pass'.pairs \subseteq pass'.emitted /\ pass'.emitted = pass.emitted
        /\ pass'.at = "idle" => pass' = Settle!Idle
        /\ pass'.at = "idle" \/ pass'.at = "restate"
        /\ pass'.at = "idle" => pass.emitted = {}
        /\ pass' \in [at : {"idle", "record", "restate"}, rows : SUBSET Settle!Rows,
                      pairs : SUBSET Settle!Pairs, emitted : SUBSET Settle!Pairs]
    BY <1>1, <1>2 DEF PassInv, Settle!Idle
  <1>4. MarketInv'
    BY <1>1, <1>2 DEF MarketInv, Final
  <1>5. PassInv'
    BY <1>1, <1>2, <1>3 DEF PassInv, Final, Told
  <1>6. CountInv'
    <2>1. \A r \in Settle!Rows : Ahead(r)' => Ahead(r)
      BY <1>1, <1>2, <1>3 DEF Ahead
    <2> QED BY <1>1, <1>2, <2>1 DEF CountInv
  <1>7. RestateInv'
    BY <1>1, <1>2, <1>3 DEF RestateInv
  <1>8. GoneInv'
    BY <1>1, <1>2 DEF GoneInv, Final, Told
  <1> QED BY <1>4, <1>5, <1>6, <1>7, <1>8 DEF SettleInv

\* Today's pnl is restated, at most once for a pair of the cost basis.
LEMMA RestateStep ==
    ASSUME SettleInv, Settle!Restate
    PROVE  SettleInv'
  <1>0. pass.pairs # {}
    BY DEF Settle!Restate
  <1>3. PICK p \in pass.pairs : p = Settle!NextPair
    BY <1>0, NextFacts
  <1>1. /\ pass.at = "restate"
        /\ pass' = [pass EXCEPT !.pairs = @ \ {p}]
        /\ rail' = IF Settle!Restatable(p)
                   THEN [rail EXCEPT !.pnl[p] = @ + 1, !.done = @ \cup {p}] ELSE rail
        /\ UNCHANGED <<market, legs, keys, today, lifetime, refused, expected, crashes, torn>>
    BY <1>3 DEF Settle!Restate
  <1>2. MarketInv /\ PassInv /\ CountInv /\ RestateInv /\ GoneInv
    BY DEF SettleInv
  <1>4. p \in Settle!Pairs /\ p \in keys
    BY <1>2, <1>3 DEF PassInv, MarketInv
  <1>5. /\ pass'.at = "restate" /\ pass'.rows = pass.rows /\ pass'.emitted = pass.emitted
        /\ pass'.pairs = pass.pairs \ {p}
        /\ pass' \in [at : {"idle", "record", "restate"}, rows : SUBSET Settle!Rows,
                      pairs : SUBSET Settle!Pairs, emitted : SUBSET Settle!Pairs]
    BY <1>1, <1>2 DEF PassInv
  <1>6. MarketInv'
    BY <1>1, <1>2 DEF MarketInv, Final
  <1>7. PassInv'
    BY <1>1, <1>2, <1>5 DEF PassInv, Final, Told
  <1>8. CountInv'
    <2>1. \A r \in Settle!Rows : Ahead(r)' => Ahead(r)
      BY <1>1, <1>2, <1>5 DEF Ahead
    <2> QED BY <1>1, <1>2, <2>1 DEF CountInv
  <1>9. RestateInv'
    <2>1. CASE ~Settle!Restatable(p)
      BY <1>1, <1>2, <1>5, <2>1 DEF RestateInv
    <2>2. CASE Settle!Restatable(p)
      <3>1. p \in legs.disk /\ p \notin rail.done
        BY <1>2, <2>2 DEF Settle!Restatable, MarketInv
      <3>2. /\ rail'.done = rail.done \cup {p} /\ rail'.doneDisk = rail.doneDisk
            /\ rail'.pnl = [rail.pnl EXCEPT ![p] = @ + 1]
            /\ rail' \in [pnl : [Settle!Pairs -> Nat], done : SUBSET Settle!Pairs,
                          doneDisk : SUBSET Settle!Pairs]
        <4>1. /\ rail \in [pnl : [Settle!Pairs -> Nat], done : SUBSET Settle!Pairs,
                           doneDisk : SUBSET Settle!Pairs]
              /\ rail' = [rail EXCEPT !.pnl[p] = @ + 1, !.done = @ \cup {p}]
          BY <1>1, <1>2, <2>2 DEF RestateInv
        <4> DEFINE more == [rail.pnl EXCEPT ![p] = @ + 1]
                   done == rail.done \cup {p}
        <4>2. more \in [Settle!Pairs -> Nat] /\ done \in SUBSET Settle!Pairs
          BY <1>4, <4>1
        <4>3. rail' = [rail EXCEPT !.pnl = more, !.done = done]
          BY <4>1
        <4> HIDE DEF more, done
        <4>4. /\ rail'.done = done /\ rail'.doneDisk = rail.doneDisk /\ rail'.pnl = more
              /\ rail' \in [pnl : [Settle!Pairs -> Nat], done : SUBSET Settle!Pairs,
                            doneDisk : SUBSET Settle!Pairs]
          BY <4>1, <4>2, <4>3
        <4> QED BY <4>4 DEF more, done
      <3>3. rail.pnl \in [Settle!Pairs -> Nat] /\ torn \in [Settle!Pairs -> Nat]
            /\ rail.pnl[p] <= torn[p]
        BY <1>2, <1>4, <3>1 DEF RestateInv, CountInv
      <3>4. \A q \in Settle!Pairs : rail'.pnl[q] = IF q = p THEN rail.pnl[p] + 1 ELSE rail.pnl[q]
        BY <3>2, <3>3
      <3>5. \A q \in Settle!Pairs : /\ rail'.pnl[q] <= 1 + torn[q]
                                    /\ q \notin rail'.done => rail'.pnl[q] <= torn[q]
        <4>1. rail'.pnl[p] <= 1 + torn[p]
          BY <1>4, <3>3, <3>4
        <4> QED BY <1>2, <3>2, <3>4, <4>1 DEF RestateInv
      <3> QED BY <1>1, <1>2, <1>4, <1>5, <3>1, <3>2, <3>5 DEF RestateInv
    <2> QED BY <2>1, <2>2
  <1>10. GoneInv'
    BY <1>1, <1>2 DEF GoneInv, Final, Told
  <1> QED BY <1>6, <1>7, <1>8, <1>9, <1>10 DEF SettleInv

\* Every key leaves the cost basis: all its rows are told.
LEMMA PruneStep ==
    ASSUME SettleInv, Settle!Prune
    PROVE  SettleInv'
  <1>1. /\ pass.at = "restate" /\ pass.pairs = {}
        /\ legs' = [mem |-> legs.mem \ Settle!Pruned, disk |-> legs.mem \ Settle!Pruned]
        /\ expected' \subseteq expected
        /\ rail' = [rail EXCEPT !.doneDisk = rail.done] /\ pass' = Settle!Idle
        /\ UNCHANGED <<market, keys, today, lifetime, refused, crashes, torn>>
    BY DEF Settle!Prune
  <1>2. MarketInv /\ PassInv /\ CountInv /\ RestateInv /\ GoneInv
    BY DEF SettleInv
  <1>3. Settle!Pruned = legs.mem \cap keys
    BY DEF Settle!Pruned
  <1>4. legs'.mem = legs'.disk /\ legs'.disk = legs.disk \ keys /\ pass.rows = {}
    BY <1>1, <1>2, <1>3 DEF MarketInv, PassInv
  <1>5. MarketInv'
    <2>1. legs' \in [mem : SUBSET Settle!Pairs, disk : SUBSET Settle!Pairs]
      BY <1>1, <1>2 DEF MarketInv
    <2>2. \A q \in Settle!Pairs : market[q].stage = "held" => q \notin keys
      BY <1>2 DEF MarketInv, Final
    <2> QED BY <1>1, <1>2, <1>4, <2>1, <2>2 DEF MarketInv, Final
  <1>6. PassInv'
    BY <1>1, <1>2, <1>4 DEF PassInv, Final, Told, Settle!Idle
  <1>7. CountInv'
    <2>1. \A r \in Settle!Rows : Ahead(r)' => Ahead(r)
      <3>1. pass'.rows = {}
        BY <1>1 DEF Settle!Idle
      <3>2. \A r \in Settle!Rows : r[1] \in keys => market[r[1]].stage # "quoted"
        BY <1>2 DEF MarketInv, Final
      <3> QED BY <1>1, <1>4, <3>1, <3>2 DEF Ahead
    <2> QED BY <1>1, <1>2, <2>1 DEF CountInv
  <1>8. RestateInv'
    <2>1. /\ rail'.pnl = rail.pnl /\ rail'.done = rail.done /\ rail'.doneDisk = rail.done
          /\ rail' \in [pnl : [Settle!Pairs -> Nat], done : SUBSET Settle!Pairs,
                        doneDisk : SUBSET Settle!Pairs]
      BY <1>1, <1>2 DEF RestateInv
    <2> QED BY <1>1, <1>2, <2>1 DEF RestateInv
  <1>9. GoneInv'
    BY <1>1, <1>2, <1>4 DEF GoneInv, PassInv, Final, Told
  <1> QED BY <1>5, <1>6, <1>7, <1>8, <1>9 DEF SettleInv

\* A crash forgets the keys; a pass it cut short is counted for its pairs.
LEMMA SettleCrashStep ==
    ASSUME SettleInv, Settle!Crash
    PROVE  SettleInv'
  <1>1. /\ crashes < MaxCrashes /\ crashes' = crashes + 1
        /\ torn' = IF Settle!Quiet THEN torn
                   ELSE [p \in Settle!Pairs |->
                           torn[p] + IF p \in keys /\ p \in legs.disk THEN 1 ELSE 0]
        /\ legs' = [legs EXCEPT !.mem = legs.disk] /\ rail' = [rail EXCEPT !.done = rail.doneDisk]
        /\ keys' = {} /\ pass' = Settle!Idle
        /\ UNCHANGED <<market, today, lifetime, refused, expected>>
    BY DEF Settle!Crash
  <1>2. MarketInv /\ PassInv /\ CountInv /\ RestateInv /\ GoneInv
    BY DEF SettleInv
  <1>3. legs'.mem = legs.disk /\ legs'.disk = legs.disk /\ pass'.rows = {} /\ pass'.pairs = {}
        /\ pass'.emitted = {} /\ pass'.at = "idle"
    BY <1>1, <1>2 DEF MarketInv, Settle!Idle
  <1>4. /\ torn' \in [Settle!Pairs -> Nat]
        /\ \A p \in Settle!Pairs :
              torn'[p] = IF ~Settle!Quiet /\ p \in keys /\ p \in legs.disk
                         THEN torn[p] + 1 ELSE torn[p]
    BY <1>1, <1>2 DEF CountInv
  <1>5. MarketInv'
    <2>1. legs' \in [mem : SUBSET Settle!Pairs, disk : SUBSET Settle!Pairs]
      BY <1>1, <1>2 DEF MarketInv
    <2> QED BY <1>1, <1>2, <1>3, <2>1 DEF MarketInv, Final
  <1>6. PassInv'
    <2>1. pass' \in [at : {"idle", "record", "restate"}, rows : SUBSET Settle!Rows,
                     pairs : SUBSET Settle!Pairs, emitted : SUBSET Settle!Pairs]
      BY <1>1 DEF Settle!Idle
    <2> QED BY <1>1, <1>3, <2>1 DEF PassInv
  <1>7. CountInv'
    <2>1. crashes \in Nat /\ MaxCrashes \in Nat /\ torn \in [Settle!Pairs -> Nat]
          /\ lifetime \in [Settle!Rows -> Nat] /\ \A p \in Settle!Pairs : torn[p] <= crashes
      BY <1>2, ServicesAssumption DEF CountInv
    <2>2. \A p \in Settle!Pairs : torn'[p] <= crashes'
      BY <1>1, <1>4, <2>1
    <2>3. ASSUME NEW r \in Settle!Rows
          PROVE  /\ lifetime[r] <= 1 + torn'[r[1]]
                 /\ Ahead(r)' => lifetime[r] <= torn'[r[1]]
      <3>1. /\ r[1] \in Settle!Pairs /\ lifetime[r] \in Nat /\ torn[r[1]] \in Nat
            /\ lifetime[r] <= 1 + torn[r[1]]
        BY <1>2, <2>1, RowFacts DEF CountInv
      <3>2. CASE ~Settle!Quiet /\ r[1] \in keys /\ r[1] \in legs.disk
        BY <1>4, <3>1, <3>2
      <3>3. CASE ~(~Settle!Quiet /\ r[1] \in keys /\ r[1] \in legs.disk)
        <4>1. torn'[r[1]] = torn[r[1]]
          BY <1>4, <3>1, <3>3
        <4>2. Ahead(r)' => Ahead(r)
          <5>1. Settle!Quiet => pass.at = "idle" /\ pass.emitted = {}
            BY DEF Settle!Quiet, Settle!Idle
          <5>2. \A q \in keys : market[q].stage # "quoted"
            BY <1>2 DEF MarketInv, Final
          <5> QED BY <1>1, <1>3, <3>3, <5>1, <5>2 DEF Ahead
        <4> QED BY <1>2, <3>1, <4>1, <4>2 DEF CountInv
      <3> QED BY <3>2, <3>3
    <2>4. crashes' \in Nat /\ crashes' <= MaxCrashes
      BY <1>1, <2>1
    <2> QED BY <1>1, <1>4, <2>1, <2>2, <2>3, <2>4 DEF CountInv
  <1>8. RestateInv'
    <2>1. /\ rail'.pnl = rail.pnl /\ rail'.done = rail.doneDisk /\ rail'.doneDisk = rail.doneDisk
          /\ rail' \in [pnl : [Settle!Pairs -> Nat], done : SUBSET Settle!Pairs,
                        doneDisk : SUBSET Settle!Pairs]
      BY <1>1, <1>2 DEF RestateInv
    <2>2. ASSUME NEW p \in Settle!Pairs
          PROVE  /\ rail.pnl[p] <= 1 + torn'[p]
                 /\ p \notin rail.doneDisk => rail.pnl[p] <= torn'[p]
      <3>1. /\ rail.pnl[p] \in Nat /\ torn[p] \in Nat /\ rail.pnl[p] <= 1 + torn[p]
            /\ p \notin rail.done => rail.pnl[p] <= torn[p]
        BY <1>2 DEF RestateInv, CountInv
      <3>2. torn'[p] = torn[p] \/ torn'[p] = torn[p] + 1
        BY <1>4
      <3>3. ASSUME p \in rail.done, p \notin rail.doneDisk PROVE torn'[p] = torn[p] + 1
        <4>1. pass.at = "restate" /\ p \in keys /\ p \in legs.disk
          BY <1>2, <3>3 DEF RestateInv
        <4>2. ~Settle!Quiet
          BY <4>1 DEF Settle!Quiet, Settle!Idle
        <4> QED BY <1>4, <4>1, <4>2
      <3> QED BY <3>1, <3>2, <3>3
    <2> QED BY <2>1, <2>2 DEF RestateInv
  <1>9. GoneInv'
    BY <1>1, <1>2, <1>3 DEF GoneInv, Final, Told
  <1> QED BY <1>5, <1>6, <1>7, <1>8, <1>9 DEF SettleInv

\* Every step of the settlement, and of the other services, keeps the invariant.
LEMMA SettleSteps ==
    ASSUME SettleInv, Settle!Next \/ UNCHANGED settleVars
    PROVE  SettleInv'
  <1>1. CASE UNCHANGED settleVars
    BY <1>1 DEF settleVars, SettleInv, MarketInv, PassInv, CountInv, RestateInv, GoneInv, Final,
                Told, Ahead
  <1>2. CASE Settle!MarkSettled \/ Settle!RollDay \/ Settle!Release
    <2>1. /\ UNCHANGED <<market, legs, keys, rail, lifetime, refused, pass, crashes, torn>>
          /\ expected' \subseteq expected
      BY <1>2 DEF Settle!MarkSettled, Settle!RollDay, Settle!Release
    <2> QED BY <2>1 DEF SettleInv, MarketInv, PassInv, CountInv, RestateInv, GoneInv, Final,
                       Told, Ahead
  <1>3. CASE Settle!Pass
    BY <1>3, BeginStep, RecordStep, RecordedStep, RestateStep, PruneStep DEF Settle!Pass
  <1> QED BY <1>1, <1>2, <1>3, SettlesStep, RedeemsStep, BookStep, SettleCrashStep
          DEF Settle!Next

\* Nothing is booked yet.
LEMMA SettleStarts ==
    ASSUME Settle!Init
    PROVE  SettleInv
  <1>1. /\ market = [p \in Settle!Pairs |-> [stage |-> "quoted", kinds |-> {}, odd |-> {}]]
        /\ legs = [mem |-> {}, disk |-> {}] /\ keys = {}
        /\ rail = [pnl |-> Settle!None, done |-> {}, doneDisk |-> {}]
        /\ lifetime = [r \in Settle!Rows |-> 0] /\ refused = {} /\ expected = {}
        /\ pass = Settle!Idle /\ crashes = 0 /\ torn = Settle!None
    BY DEF Settle!Init
  <1>2. Settle!None = [p \in Settle!Pairs |-> 0]
    BY DEF Settle!None
  <1>3. MarketInv
    BY <1>1 DEF MarketInv, Markets, Final
  <1>4. PassInv
    BY <1>1 DEF PassInv, Settle!Idle
  <1>5. CountInv
    <2>1. \A r \in Settle!Rows : lifetime[r] = 0 /\ torn[r[1]] = 0
      BY <1>1, <1>2, RowFacts
    <2> QED BY <1>1, <1>2, <2>1, ServicesAssumption DEF CountInv
  <1>6. RestateInv
    <2>1. rail.pnl = Settle!None /\ rail.done = {} /\ rail.doneDisk = {}
          /\ \A p \in Settle!Pairs : rail.pnl[p] = 0 /\ torn[p] = 0
      BY <1>1, <1>2
    <2>2. Settle!None \in [Settle!Pairs -> Nat]
      BY <1>2
    <2> QED BY <1>1, <2>1, <2>2 DEF RestateInv
  <1>7. GoneInv
    BY <1>1, RowFacts DEF GoneInv, Final
  <1> QED BY <1>3, <1>4, <1>5, <1>6, <1>7 DEF SettleInv

\* The invariant is what is wanted.
LEMMA SettleKept ==
    ASSUME SettleInv
    PROVE  SettledOnce
  <1>1. MarketInv /\ PassInv /\ CountInv /\ RestateInv /\ GoneInv
    BY DEF SettleInv
  <1>2. Settle!BookedOnce
    BY <1>1, RowFacts DEF CountInv, RestateInv, Settle!BookedOnce
  <1>3. Settle!SettlementKept
    <2> SUFFICES ASSUME NEW p \in Settle!Pairs, market[p].stage # "quoted", p \notin legs.disk,
                        NEW r \in Settle!Found(p)
                 PROVE  lifetime[r] > 0 \/ r \in refused
      BY DEF Settle!SettlementKept
    <2>1. r \in Settle!Rows /\ r[1] = p /\ r[2] \in market[p].kinds
      BY <1>1, RowFacts
    <2>2. Final(p)
      BY <1>1 DEF MarketInv, Markets, Final
    <2> QED BY <1>1, <2>1, <2>2 DEF GoneInv, Told
  <1> QED BY <1>2, <1>3 DEF SettledOnce

\* No settled market leaves the cost basis on disk before each of its rows is
\* counted for life or queued for a human, and no row is counted twice and no
\* pair restated twice but by a crash that cut its pass short, whatever the
\* number of pairs and of crashes (reconcile, reconcile_settlements,
\* _restate_same_day).
THEOREM SettledOnceKept == Spec => []SettledOnce
  <1>1. Init => SettleInv
    BY SettleStarts DEF Init
  <1>2. SettleInv /\ [Next]_vars => SettleInv'
    <2>1. [Next]_vars => (Settle!Next \/ UNCHANGED settleVars)
      BY Zenon DEF Next, Only, vars
    <2> QED BY <2>1, SettleSteps
  <1>3. SettleInv => SettledOnce
    BY SettleKept
  <1> QED BY <1>1, <1>2, <1>3, PTL DEF Spec
-----------------------------------------------------------------------------
(* The alert queue: where a text is.                                       *)

\* What a queue q holds, no text twice, a thread's texts oldest first.
Holds(q, n) == \E i \in 1 .. Len(q) : q[i] = n
Distinct(q) == \A i, j \in 1 .. Len(q) : q[i] = q[j] => i = j
Ranked(q, by) == \A i, j \in 1 .. Len(q) : i < j /\ by[q[i]] = by[q[j]] => q[i] < q[j]

\* Taking the oldest text leaves the others, which are newer.
LEMMA QueuePopped ==
    ASSUME NEW S, NEW q \in Seq(S), q # <<>>, NEW by
    PROVE  /\ Tail(q) \in Seq(S) /\ Len(Tail(q)) = Len(q) - 1
           /\ Head(q) \in S /\ Holds(q, Head(q))
           /\ \A n : Holds(Tail(q), n) => Holds(q, n)
           /\ \A n : Holds(q, n) => n = Head(q) \/ Holds(Tail(q), n)
           /\ Distinct(q) => Distinct(Tail(q)) /\ ~Holds(Tail(q), Head(q))
           /\ Ranked(q, by) => /\ Ranked(Tail(q), by)
                               /\ \A n : Holds(Tail(q), n) /\ by[n] = by[Head(q)] => Head(q) < n
  <1> DEFINE rest == Tail(q)
             first == Head(q)
             len == Len(rest)
  <1>1. /\ first \in S /\ rest \in Seq(S) /\ len = Len(q) - 1
        /\ \A i \in 1 .. len : rest[i] = q[i + 1]
    BY HeadTailProperties
  <1>2. /\ Len(q) \in Nat \ {0} /\ first = q[1] /\ len \in Nat
    <2>1. Len(q) \in Nat \ {0}
      BY EmptySeq
    <2> QED BY <1>1, <2>1
  <1>3. /\ \A i \in 1 .. len : i + 1 \in 1 .. Len(q)
        /\ 1 \in 1 .. Len(q)
        /\ \A i \in 1 .. Len(q) : i = 1 \/ (i - 1 \in 1 .. len /\ rest[i - 1] = q[i])
    <2>1. ASSUME NEW i \in 1 .. Len(q), i # 1
          PROVE  i - 1 \in 1 .. len /\ rest[i - 1] = q[i]
      <3>1. i - 1 \in 1 .. len /\ (i - 1) + 1 = i
        BY <1>1, <1>2, <2>1
      <3> HIDE DEF rest, len
      <3>2. rest[i - 1] = q[(i - 1) + 1]
        BY <1>1, <3>1
      <3> QED BY <3>1, <3>2
    <2> QED BY <1>1, <1>2, <2>1
  <1> HIDE DEF rest, first, len
  <1>4. Holds(q, first)
    BY <1>2, <1>3 DEF Holds
  <1>5. \A n : Holds(rest, n) => Holds(q, n)
    BY <1>1, <1>3 DEF Holds, len
  <1>6. \A n : Holds(q, n) => n = first \/ Holds(rest, n)
    BY <1>1, <1>2, <1>3 DEF Holds, len
  <1>7. ASSUME Distinct(q) PROVE Distinct(rest) /\ ~Holds(rest, first)
    <2>1. \A i, j \in 1 .. len : rest[i] = rest[j] => i = j
      <3> SUFFICES ASSUME NEW i \in 1 .. len, NEW j \in 1 .. len, rest[i] = rest[j] PROVE i = j
        OBVIOUS
      <3>1. q[i + 1] = q[j + 1] /\ i + 1 \in 1 .. Len(q) /\ j + 1 \in 1 .. Len(q)
        BY <1>1, <1>3
      <3>2. i + 1 = j + 1
        BY <1>7, <3>1 DEF Distinct
      <3> QED BY <1>2, <3>2
    <2>2. \A i \in 1 .. len : rest[i] # first
      <3> SUFFICES ASSUME NEW i \in 1 .. len, rest[i] = first PROVE FALSE
        OBVIOUS
      <3>1. q[i + 1] = q[1] /\ i + 1 \in 1 .. Len(q) /\ 1 \in 1 .. Len(q)
        BY <1>1, <1>2, <1>3
      <3>2. i + 1 = 1
        BY <1>7, <3>1 DEF Distinct
      <3> QED BY <1>2, <3>2
    <2> QED BY <2>1, <2>2 DEF Distinct, Holds, len
  <1>8. ASSUME Ranked(q, by)
        PROVE  Ranked(rest, by) /\ \A n : Holds(rest, n) /\ by[n] = by[first] => first < n
    <2>1. ASSUME NEW i \in 1 .. len, NEW j \in 1 .. len, i < j, by[rest[i]] = by[rest[j]]
          PROVE  rest[i] < rest[j]
      <3>1. /\ rest[i] = q[i + 1] /\ rest[j] = q[j + 1] /\ i + 1 < j + 1
            /\ i + 1 \in 1 .. Len(q) /\ j + 1 \in 1 .. Len(q)
        BY <1>1, <1>2, <1>3, <2>1
      <3> QED BY <1>8, <2>1, <3>1 DEF Ranked
    <2>2. ASSUME NEW i \in 1 .. len, by[rest[i]] = by[first]
          PROVE  first < rest[i]
      <3>1. /\ rest[i] = q[i + 1] /\ first = q[1] /\ 1 < i + 1
            /\ i + 1 \in 1 .. Len(q) /\ 1 \in 1 .. Len(q)
        BY <1>1, <1>2, <1>3, <2>2
      <3> QED BY <1>8, <2>2, <3>1 DEF Ranked
    <2> QED BY <2>1, <2>2 DEF Ranked, Holds, len
  <1> QED BY <1>1, <1>4, <1>5, <1>6, <1>7, <1>8 DEF rest, first, len

\* A text put at the end.
LEMMA QueuePushed ==
    ASSUME NEW S, NEW q \in Seq(S), NEW m \in S, NEW by
    PROVE  /\ Append(q, m) \in Seq(S) /\ Len(Append(q, m)) = Len(q) + 1 /\ Len(q) \in Nat
           /\ \A n : Holds(Append(q, m), n) <=> Holds(q, n) \/ n = m
           /\ Distinct(q) /\ ~Holds(q, m) => Distinct(Append(q, m))
           /\ Ranked(q, by) /\ (\A n : Holds(q, n) /\ by[n] = by[m] => n < m)
                => Ranked(Append(q, m), by)
  <1> DEFINE more == Append(q, m)
             len == Len(q)
  <1>1. /\ more \in Seq(S) /\ Len(more) = len + 1 /\ len \in Nat
        /\ \A i \in 1 .. len : more[i] = q[i]
        /\ more[len + 1] = m
    BY AppendProperties
  <1>2. 1 .. Len(more) = (1 .. len) \cup {len + 1} /\ ~(len + 1 \in 1 .. len)
    BY <1>1
  <1> HIDE DEF more
  <1>3. \A n : Holds(more, n) <=> Holds(q, n) \/ n = m
    BY <1>1, <1>2 DEF Holds
  <1>4. ASSUME Distinct(q), ~Holds(q, m) PROVE Distinct(more)
    BY <1>1, <1>2, <1>4 DEF Distinct, Holds
  <1>5. ASSUME Ranked(q, by), \A n : Holds(q, n) /\ by[n] = by[m] => n < m
        PROVE  Ranked(more, by)
    <2> SUFFICES ASSUME NEW i \in 1 .. Len(more), NEW j \in 1 .. Len(more), i < j,
                        by[more[i]] = by[more[j]]
                 PROVE  more[i] < more[j]
      BY DEF Ranked
    <2>1. i \in 1 .. len
      BY <1>1, <1>2
    <2>2. CASE j \in 1 .. len
      BY <1>1, <1>5, <2>1, <2>2 DEF Ranked
    <2>3. CASE j = len + 1
      BY <1>1, <1>5, <2>1, <2>3 DEF Holds
    <2> QED BY <1>2, <2>2, <2>3
  <1> QED BY <1>1, <1>3, <1>4, <1>5 DEF more
-----------------------------------------------------------------------------
(* The alert queue: the invariant.                                         *)

Hands == [at : {"idle", "trim", "drop", "ensure", "put", "inline"},
          text : Alerts!Texts \cup {Alerts!NoText}]
Senders == [at : {"none", "get", "send", "exit"}, text : Alerts!Texts \cup {Alerts!NoText}]

QueueTypes ==
    /\ queue \in Seq(Alerts!Texts) /\ order \in Seq(Alerts!Texts)
    /\ stop \in BOOLEAN /\ closed \in BOOLEAN
    /\ sender \in Senders /\ hand \in [Alerts!Threads -> Hands]
    /\ fate \in [Alerts!Texts -> {"new", "held", "sent", "failed", "dropped"}]
    /\ author \in [Alerts!Texts -> Alerts!Threads]

\* Past the test for room, a thread is owed a place; a thread and the sender
\* hold a text while they work on one; the loop never meets a stopped queue.
Owed(t) == IF hand[t].at \in {"ensure", "put"} THEN 1 ELSE 0
StageInv ==
    /\ Len(queue) + Owed(Loop) + Owed(Other) <= MaxQueue + 1
    /\ \A t \in Alerts!Threads : hand[t].at = "idle" <=> hand[t].text = Alerts!NoText
    /\ sender.at = "send" <=> sender.text # Alerts!NoText
    /\ hand[Loop].at # "inline" /\ (stop => closed)

\* A held text is in the queue, in one hand or with the sender.
InHand(n) == \E t \in Alerts!Threads : hand[t].text = n
PlaceInv ==
    /\ \A n \in Alerts!Texts :
          fate[n] = "held" <=> Holds(queue, n) \/ InHand(n) \/ sender.text = n
    /\ \A n \in Alerts!Texts : /\ ~(Holds(queue, n) /\ InHand(n))
                               /\ ~(Holds(queue, n) /\ sender.text = n)
                               /\ ~(InHand(n) /\ sender.text = n)
    /\ hand[Loop].text # Alerts!NoText => hand[Loop].text # hand[Other].text
    /\ Distinct(queue)

\* Texts are numbered as they are handed over: a thread has its newest in hand.
HandInv ==
    /\ \A m, n \in Alerts!Texts : m < n /\ fate[m] = "new" => fate[n] = "new"
    /\ \A t \in Alerts!Threads : hand[t].text # Alerts!NoText =>
          /\ author[hand[t].text] = t
          /\ \A n \in Alerts!Texts : fate[n] # "new" /\ author[n] = t => n <= hand[t].text

\* What waits is newer than what its thread has lost, and the loop's than what
\* of the loop's was sent.
Passed(m) == fate[m] \in {"sent", "failed"}
Gone(m) == sender.text = m \/ fate[m] = "dropped" \/ (author[m] = Loop /\ Passed(m))
AgeInv ==
    /\ Ranked(queue, author)
    /\ \A i \in 1 .. Len(order) : Passed(order[i])
    /\ \A m, n \in Alerts!Texts :
          author[m] = author[n] /\ Holds(queue, n) /\ Gone(m) => m < n
    /\ \A m, n \in Alerts!Texts :
          author[m] = Loop /\ author[n] = Loop /\ Passed(m) /\ sender.text = n => m < n
    /\ \A i, j \in 1 .. Len(order) :
          i < j /\ author[order[i]] = Loop /\ author[order[j]] = Loop => order[i] < order[j]

\* The inductive invariant of the queue.
AlertInv == QueueTypes /\ StageInv /\ PlaceInv /\ HandInv /\ AgeInv

\* The next text is the oldest not handed over yet.
LEMMA NextTextIs ==
    ASSUME QueueTypes, Alerts!NextText # Alerts!NoText
    PROVE  /\ Alerts!NextText \in Alerts!Texts /\ fate[Alerts!NextText] = "new"
           /\ \A n \in Alerts!Texts : fate[n] = "new" => Alerts!NextText <= n
  <1> DEFINE New == {m \in Alerts!Texts : fate[m] = "new"}
  <1>0. Alerts!Texts \in SUBSET Nat /\ \A n \in Alerts!Texts : n >= 1
    BY ServicesAssumption DEF Alerts!Texts
  <1>1. New # {} /\ New \in SUBSET Nat
    BY <1>0 DEF Alerts!NextText
  <1>2. PICK m \in New : \A n \in New : m <= n
    <2> HIDE DEF New
    <2> QED BY <1>1, HasLeast
  <1>3. m \in Alerts!Texts /\ fate[m] = "new" /\ \A n \in 1 .. m - 1 : fate[n] # "new"
    <2>1. ASSUME NEW n \in 1 .. m - 1 PROVE fate[n] # "new"
      <3>1. n \in Alerts!Texts /\ n < m
        BY <1>0, <1>2, ServicesAssumption DEF Alerts!Texts
      <3> QED BY <1>0, <1>2, <3>1
    <2> QED BY <1>2, <2>1
  <1> DEFINE k == Alerts!NextText
  <1>4. k \in Alerts!Texts /\ fate[k] = "new" /\ \A n \in 1 .. k - 1 : fate[n] # "new"
    <2>1. k = CHOOSE mm \in Alerts!Texts :
                 fate[mm] = "new" /\ \A n \in 1 .. mm - 1 : fate[n] # "new"
      BY <1>3 DEF Alerts!NextText
    <2> HIDE DEF k
    <2> QED BY <1>3, <2>1
  <1>5. ASSUME NEW n \in Alerts!Texts, fate[n] = "new" PROVE k <= n
    <2>1. k \in Nat /\ n \in Nat /\ n >= 1
      BY <1>0, <1>4
    <2>2. n < k => n \in 1 .. k - 1
      BY <2>1
    <2> HIDE DEF k
    <2> QED BY <1>4, <1>5, <2>1, <2>2
  <1> QED BY <1>4, <1>5

\* What a hand holds after one field of it changed.
LEMMA HandMoves ==
    ASSUME QueueTypes, NEW t \in Alerts!Threads, NEW place,
           hand' = [hand EXCEPT ![t].at = place],
           place \in {"idle", "trim", "drop", "ensure", "put", "inline"}
    PROVE  /\ hand' \in [Alerts!Threads -> Hands]
           /\ \A u \in Alerts!Threads : /\ hand'[u].text = hand[u].text
                                        /\ hand'[u].at = IF u = t THEN place ELSE hand[u].at
  <1>1. hand[t] \in Hands
    BY DEF QueueTypes
  <1>2. hand \in [Alerts!Threads -> Hands]
    BY DEF QueueTypes
  <1>3. [hand[t] EXCEPT !.at = place] = [at |-> place, text |-> hand[t].text]
    BY <1>1 DEF Hands
  <1>4. hand' = [hand EXCEPT ![t] = [at |-> place, text |-> hand[t].text]]
    BY <1>3
  <1> QED BY <1>1, <1>2, <1>4 DEF Hands

\* What a hand holds after it took another text, or let go of one.
LEMMA HandTakes ==
    ASSUME QueueTypes, NEW t \in Alerts!Threads, NEW place, NEW m,
           hand' = [hand EXCEPT ![t] = Alerts!At(place, m)],
           place \in {"idle", "trim", "drop", "ensure", "put", "inline"},
           m \in Alerts!Texts \cup {Alerts!NoText}
    PROVE  /\ hand' \in [Alerts!Threads -> Hands]
           /\ \A u \in Alerts!Threads : /\ hand'[u].text = IF u = t THEN m ELSE hand[u].text
                                        /\ hand'[u].at = IF u = t THEN place ELSE hand[u].at
  <1>1. Alerts!At(place, m) \in Hands /\ Alerts!At(place, m).text = m
        /\ Alerts!At(place, m).at = place
    BY DEF Alerts!At, Hands
  <1> QED BY <1>1 DEF QueueTypes

\* Neither thread is the other, and no text is none.
LEMMA ThreadFacts ==
    /\ Loop \in Alerts!Threads /\ Other \in Alerts!Threads /\ Loop # Other
    /\ \A t \in Alerts!Threads : t = Loop \/ t = Other
    /\ Alerts!NoText = 0 /\ 0 \notin Alerts!Texts /\ Alerts!Texts \subseteq Nat
  BY ServicesAssumption DEF Alerts!Threads, Alerts!NoText, Alerts!Texts

\* A text is handed over.
LEMMA EnqueueStep ==
    ASSUME AlertInv, NEW t \in Alerts!Threads, Alerts!Enqueue(t)
    PROVE  AlertInv'
  <1>1. /\ hand[t].at = "idle" /\ Alerts!NextText # Alerts!NoText
        /\ t = Loop => ~closed
        /\ UNCHANGED <<queue, stop, sender, order, closed>>
    BY DEF Alerts!Enqueue, Alerts!Idle
  <1>2. QueueTypes /\ StageInv /\ PlaceInv /\ HandInv /\ AgeInv
    BY DEF AlertInv
  <1>3. PICK m \in Alerts!Texts :
           /\ m = Alerts!NextText /\ fate[m] = "new"
           /\ \A n \in Alerts!Texts : fate[n] = "new" => m <= n
    BY <1>1, <1>2, NextTextIs
  <1>4. PICK place \in {"inline", "trim"} :
           /\ place = (IF stop THEN "inline" ELSE "trim")
           /\ hand' = [hand EXCEPT ![t] = Alerts!At(place, m)]
           /\ fate' = [fate EXCEPT ![m] = "held"] /\ author' = [author EXCEPT ![m] = t]
    BY <1>3 DEF Alerts!Enqueue
  <1>5. /\ hand' \in [Alerts!Threads -> Hands]
        /\ \A u \in Alerts!Threads : /\ hand'[u].text = IF u = t THEN m ELSE hand[u].text
                                     /\ hand'[u].at = IF u = t THEN place ELSE hand[u].at
    BY <1>2, <1>4, HandTakes, ZenonT(40)
  <1>6. /\ \A n \in Alerts!Texts : fate'[n] = IF n = m THEN "held" ELSE fate[n]
        /\ \A n \in Alerts!Texts : author'[n] = IF n = m THEN t ELSE author[n]
    BY <1>2, <1>4 DEF QueueTypes
  <1>7. QueueTypes'
    BY <1>1, <1>2, <1>4, <1>5 DEF QueueTypes
  <1>8. ~Holds(queue, m) /\ ~InHand(m) /\ sender.text # m /\ hand[t].text = Alerts!NoText
    <2>1. fate[m] # "held"
      BY <1>3
    <2> QED BY <1>1, <1>2, <2>1 DEF PlaceInv, StageInv
  <1>9. StageInv'
    BY <1>1, <1>2, <1>4, <1>5, ThreadFacts DEF StageInv, Owed
  <1>10. \A n \in Alerts!Texts : InHand(n)' <=> InHand(n) \/ n = m
    BY <1>5, <1>8, ThreadFacts DEF InHand
  <1>11. PlaceInv'
    BY <1>1, <1>2, <1>5, <1>6, <1>8, <1>10, ThreadFacts DEF PlaceInv, InHand, Holds, Distinct
  <1>12. HandInv'
    <2>1. \A n \in Alerts!Texts : fate[n] # "new" => n < m
      BY <1>2, <1>3, ThreadFacts DEF HandInv
    <2>2. \A k, n \in Alerts!Texts : k < n /\ fate'[k] = "new" => fate'[n] = "new"
      BY <1>2, <1>3, <1>6, <2>1, ThreadFacts DEF HandInv
    <2>3. ASSUME NEW u \in Alerts!Threads, hand'[u].text # Alerts!NoText
          PROVE  /\ author'[hand'[u].text] = u
                 /\ \A n \in Alerts!Texts : fate'[n] # "new" /\ author'[n] = u => n <= hand'[u].text
      <3>1. CASE u = t
        BY <1>5, <1>6, <2>1, <3>1, ThreadFacts
      <3>2. CASE u # t
        <4>1. hand'[u].text = hand[u].text /\ hand[u].text # m /\ hand[u].text \in Alerts!Texts
          BY <1>2, <1>5, <1>8, <2>3, <3>2 DEF InHand, QueueTypes, Hands
        <4> QED BY <1>2, <1>6, <2>3, <3>2, <4>1 DEF HandInv
      <3> QED BY <3>1, <3>2
    <2> QED BY <2>2, <2>3 DEF HandInv
  <1>13. AgeInv'
    <2>1. \A i \in 1 .. Len(queue) : queue[i] \in Alerts!Texts /\ queue[i] # m
      BY <1>2, <1>8 DEF QueueTypes, Holds
    <2>2. \A i \in 1 .. Len(order) : order[i] \in Alerts!Texts /\ order[i] # m /\ Passed(order[i])
      BY <1>2, <1>3 DEF QueueTypes, AgeInv, Passed
    <2>3. Ranked(queue, author)'
      BY <1>1, <1>2, <1>6, <2>1 DEF AgeInv, Ranked
    <2>4. \A i \in 1 .. Len(order) : Passed(order[i])'
      BY <1>1, <1>6, <2>2 DEF Passed
    <2>5. \A k, n \in Alerts!Texts :
             author'[k] = author'[n] /\ Holds(queue, n) /\ Gone(k)' => k < n
      BY <1>1, <1>2, <1>6, <1>8 DEF AgeInv, Gone, Passed
    <2>6. \A k, n \in Alerts!Texts :
             author'[k] = Loop /\ author'[n] = Loop /\ Passed(k)' /\ sender.text = n => k < n
      BY <1>2, <1>6, <1>8 DEF AgeInv, Passed
    <2>7. \A i, j \in 1 .. Len(order) :
             i < j /\ author'[order[i]] = Loop /\ author'[order[j]] = Loop => order[i] < order[j]
      BY <1>2, <1>6, <2>2 DEF AgeInv
    <2> QED BY <1>1, <2>3, <2>4, <2>5, <2>6, <2>7 DEF AgeInv, Holds
  <1> QED BY <1>7, <1>9, <1>11, <1>12, <1>13 DEF AlertInv

\* A thread moves on with its text in hand, and may start the sender.
LEMMA MovesStep ==
    ASSUME AlertInv, NEW t \in Alerts!Threads, Alerts!Trim(t) \/ Alerts!EnsureThread(t)
                                               \/ (queue = <<>> /\ Alerts!Drop(t))
    PROVE  AlertInv'
  <1>1. /\ QueueTypes /\ StageInv /\ PlaceInv /\ HandInv /\ AgeInv
        /\ Len(queue) \in Nat /\ MaxQueue \in Nat \ {0}
    BY ServicesAssumption DEF AlertInv, QueueTypes
  <1>2. UNCHANGED <<queue, fate, order, author, closed>>
    BY DEF Alerts!Trim, Alerts!EnsureThread, Alerts!Drop
  <1>3. PICK place \in {"drop", "ensure", "put"} :
           /\ hand' = [hand EXCEPT ![t].at = place]
           /\ hand[t].at \in {"trim", "drop", "ensure"}
           /\ place = "ensure" => hand[t].at # "ensure" /\ Len(queue) < MaxQueue
           /\ place = "put" => hand[t].at = "ensure"
    <2>1. CASE Alerts!Trim(t)
      <3>1. /\ hand[t].at = "trim"
            /\ hand' = [hand EXCEPT ![t].at = IF Len(queue) >= MaxQueue THEN "drop" ELSE "ensure"]
        BY <2>1 DEF Alerts!Trim, Alerts!Full
      <3>2. CASE Len(queue) >= MaxQueue
        BY <3>1, <3>2
      <3>3. CASE ~(Len(queue) >= MaxQueue)
        BY <1>1, <3>1, <3>3
      <3> QED BY <3>2, <3>3
    <2>2. CASE Alerts!EnsureThread(t)
      BY <2>2 DEF Alerts!EnsureThread
    <2>3. CASE queue = <<>> /\ Alerts!Drop(t)
      BY <1>1, <2>3 DEF Alerts!Drop
    <2> QED BY <2>1, <2>2, <2>3
  <1>4. /\ sender' \in Senders /\ stop' \in BOOLEAN /\ sender'.text = sender.text
        /\ sender'.at = "send" <=> sender.at = "send"
        /\ stop' => stop
    <2>1. CASE UNCHANGED <<stop, sender>>
      BY <1>1, <2>1 DEF QueueTypes
    <2>2. CASE ~Alerts!Alive /\ stop' = FALSE /\ sender' = Alerts!At("get", Alerts!NoText)
      BY <1>1, <2>2, ThreadFacts DEF QueueTypes, Senders, StageInv, Alerts!Alive, Alerts!At
    <2> QED BY <2>1, <2>2 DEF Alerts!Trim, Alerts!EnsureThread, Alerts!Drop
  <1>5. /\ hand' \in [Alerts!Threads -> Hands]
        /\ \A u \in Alerts!Threads : /\ hand'[u].text = hand[u].text
                                     /\ hand'[u].at = IF u = t THEN place ELSE hand[u].at
    BY <1>1, <1>3, HandMoves
  <1>6. QueueTypes'
    BY <1>1, <1>2, <1>4, <1>5 DEF QueueTypes
  <1>7. StageInv'
    <2>1. Len(queue) + Owed(Loop)' + Owed(Other)' <= MaxQueue + 1
      <3>1. /\ Len(queue) + Owed(Loop) + Owed(Other) <= MaxQueue + 1
            /\ Owed(Loop) \in {0, 1} /\ Owed(Other) \in {0, 1}
        BY <1>1 DEF StageInv, Owed
      <3>2. /\ t = Loop => Owed(Other)' = Owed(Other)
            /\ t = Other => Owed(Loop)' = Owed(Loop)
            /\ \A u \in Alerts!Threads : u = t => Owed(u)' = IF place = "drop" THEN 0 ELSE 1
            /\ \A u \in Alerts!Threads : u = t /\ place = "put" => Owed(u) = 1
        BY <1>3, <1>5, ThreadFacts DEF Owed
      <3>3. ASSUME NEW o \in {0, 1}, NEW o1 \in {0, 1}, NEW w \in {0, 1},
                   Len(queue) + o + w <= MaxQueue + 1,
                   place = "ensure" => Len(queue) < MaxQueue, o1 = IF place = "drop" THEN 0 ELSE 1,
                   place = "put" => o = 1
            PROVE  Len(queue) + o1 + w <= MaxQueue + 1
        BY <1>1, <3>3
      <3>4. CASE t = Loop
        BY <1>1, <1>3, <3>1, <3>2, <3>3, <3>4, ThreadFacts
      <3>5. CASE t = Other
        BY <1>1, <1>3, <3>1, <3>2, <3>3, <3>5, ThreadFacts
      <3> QED BY <3>4, <3>5, ThreadFacts
    <2>2. \A u \in Alerts!Threads : hand'[u].at = "idle" <=> hand'[u].text = Alerts!NoText
      BY <1>1, <1>3, <1>5 DEF StageInv
    <2> QED BY <1>1, <1>2, <1>3, <1>4, <1>5, <2>1, <2>2, ThreadFacts DEF StageInv
  <1>8. \A n \in Alerts!Texts : InHand(n)' <=> InHand(n)
    BY <1>5 DEF InHand
  <1>9. PlaceInv'
    BY <1>1, <1>2, <1>4, <1>5, <1>8, ThreadFacts DEF PlaceInv, Holds, Distinct
  <1>10. HandInv'
    BY <1>1, <1>2, <1>5 DEF HandInv
  <1>11. AgeInv'
    BY <1>1, <1>2, <1>4 DEF AgeInv, Gone, Passed, Holds, Ranked
  <1> QED BY <1>6, <1>7, <1>9, <1>10, <1>11 DEF AlertInv

\* The oldest text makes room.
LEMMA DropStep ==
    ASSUME AlertInv, NEW t \in Alerts!Threads, queue # <<>>, Alerts!Drop(t)
    PROVE  AlertInv'
  <1>1. QueueTypes /\ StageInv /\ PlaceInv /\ HandInv /\ AgeInv
    BY DEF AlertInv
  <1>2. /\ hand[t].at = "drop" /\ queue' = Tail(queue)
        /\ hand' = [hand EXCEPT ![t].at = "trim"]
        /\ fate' = [fate EXCEPT ![Head(queue)] = "dropped"]
        /\ UNCHANGED <<stop, sender, order, author, closed>>
    BY DEF Alerts!Drop, Alerts!Trimmed
  <1>3. /\ hand' \in [Alerts!Threads -> Hands]
        /\ \A u \in Alerts!Threads : /\ hand'[u].text = hand[u].text
                                     /\ hand'[u].at = IF u = t THEN "trim" ELSE hand[u].at
    BY <1>1, <1>2, HandMoves
  <1>4. PICK m \in Alerts!Texts : m = Head(queue)
    BY <1>1, QueuePopped DEF QueueTypes
  <1>5. /\ queue' \in Seq(Alerts!Texts) /\ Len(queue') = Len(queue) - 1 /\ Holds(queue, m)
        /\ \A n : Holds(queue', n) => Holds(queue, n)
        /\ \A n : Holds(queue, n) => n = m \/ Holds(queue', n)
        /\ Distinct(queue') /\ ~Holds(queue', m)
        /\ Ranked(queue', author)
        /\ \A n : Holds(queue', n) /\ author[n] = author[m] => m < n
    <2>1. queue \in Seq(Alerts!Texts) /\ Distinct(queue) /\ Ranked(queue, author)
      BY <1>1 DEF QueueTypes, PlaceInv, AgeInv
    <2> QED BY <1>2, <1>4, <2>1, QueuePopped
  <1>6. /\ fate' \in [Alerts!Texts -> {"new", "held", "sent", "failed", "dropped"}]
        /\ \A n \in Alerts!Texts : fate'[n] = IF n = m THEN "dropped" ELSE fate[n]
    BY <1>1, <1>2, <1>4 DEF QueueTypes
  <1>7. QueueTypes'
    BY <1>1, <1>2, <1>3, <1>5, <1>6 DEF QueueTypes
  <1>8. fate[m] = "held" /\ ~InHand(m) /\ sender.text # m
    BY <1>1, <1>5 DEF PlaceInv
  <1>9. StageInv'
    <2>1. Len(queue) \in Nat /\ MaxQueue \in Nat
      BY <1>1, ServicesAssumption DEF QueueTypes
    <2>2. /\ Owed(Loop)' = Owed(Loop) /\ Owed(Other)' = Owed(Other)
          /\ Owed(Loop) \in {0, 1} /\ Owed(Other) \in {0, 1}
      BY <1>2, <1>3, ThreadFacts DEF Owed
    <2>3. Len(queue') + Owed(Loop)' + Owed(Other)' <= MaxQueue + 1
      BY <1>1, <1>5, <2>1, <2>2 DEF StageInv
    <2>4. \A u \in Alerts!Threads : hand'[u].at = "idle" <=> hand'[u].text = Alerts!NoText
      BY <1>1, <1>2, <1>3 DEF StageInv
    <2> QED BY <1>1, <1>2, <1>3, <2>3, <2>4, ThreadFacts DEF StageInv
  <1>10. \A n \in Alerts!Texts : InHand(n)' <=> InHand(n)
    BY <1>3 DEF InHand
  <1>11. PlaceInv'
    <2>1. \A n \in Alerts!Texts : /\ ~(Holds(queue, n) /\ InHand(n))
                                  /\ ~(Holds(queue, n) /\ sender.text = n)
                                  /\ ~(InHand(n) /\ sender.text = n)
                                  /\ fate[n] = "held"
                                     <=> Holds(queue, n) \/ InHand(n) \/ sender.text = n
      BY <1>1 DEF PlaceInv
    <2>2. \A n \in Alerts!Texts :
             fate'[n] = "held" <=> Holds(queue', n) \/ InHand(n)' \/ sender'.text = n
      BY <1>2, <1>5, <1>6, <1>8, <1>10, <2>1
    <2>3. hand'[Loop].text # Alerts!NoText => hand'[Loop].text # hand'[Other].text
      BY <1>1, <1>3, ThreadFacts DEF PlaceInv
    <2> QED BY <1>2, <1>5, <1>10, <2>1, <2>2, <2>3 DEF PlaceInv
  <1>12. HandInv'
    <2>1. \A n \in Alerts!Texts : fate'[n] = "new" <=> fate[n] = "new"
      BY <1>6, <1>8
    <2> QED BY <1>1, <1>2, <1>3, <2>1 DEF HandInv
  <1>13. AgeInv'
    <2>1. \A n \in Alerts!Texts : Passed(n)' <=> Passed(n)
      BY <1>6, <1>8 DEF Passed
    <2>2. \A i \in 1 .. Len(order) : order[i] \in Alerts!Texts
      BY <1>1 DEF QueueTypes
    <2>3. \A k, n \in Alerts!Texts :
             author[k] = author[n] /\ Holds(queue', n) /\ Gone(k)' => k < n
      BY <1>1, <1>2, <1>5, <1>6, <2>1 DEF AgeInv, Gone
    <2> QED BY <1>1, <1>2, <1>5, <2>1, <2>2, <2>3 DEF AgeInv
  <1> QED BY <1>7, <1>9, <1>11, <1>12, <1>13 DEF AlertInv

\* A thread queues its text, its newest.
LEMMA PutStep ==
    ASSUME AlertInv, NEW t \in Alerts!Threads, Alerts!Put(t)
    PROVE  AlertInv'
  <1>1. QueueTypes /\ StageInv /\ PlaceInv /\ HandInv /\ AgeInv
    BY DEF AlertInv
  <1>2. /\ hand[t].at = "put" /\ queue' = Append(queue, hand[t].text)
        /\ hand' = [hand EXCEPT ![t] = Alerts!At("idle", Alerts!NoText)]
        /\ UNCHANGED <<stop, sender, fate, order, author, closed>>
    BY DEF Alerts!Put, Alerts!Idle
  <1>3. PICK m \in Alerts!Texts : m = hand[t].text
    BY <1>1, <1>2 DEF QueueTypes, Hands, StageInv
  <1>4. /\ hand' \in [Alerts!Threads -> Hands]
        /\ \A u \in Alerts!Threads :
              /\ hand'[u].text = IF u = t THEN Alerts!NoText ELSE hand[u].text
              /\ hand'[u].at = IF u = t THEN "idle" ELSE hand[u].at
    BY <1>1, <1>2, HandTakes
  <1>5. InHand(m) /\ ~Holds(queue, m) /\ sender.text # m
    BY <1>1, <1>3 DEF PlaceInv, InHand
  <1>6. /\ author[m] = t
        /\ \A n \in Alerts!Texts : fate[n] # "new" /\ author[n] = t => n <= m
    BY <1>1, <1>3, ThreadFacts DEF HandInv
  <1>7. \A n : Holds(queue, n) => n \in Alerts!Texts /\ n # m /\ fate[n] = "held"
    <2>1. \A n : Holds(queue, n) => n \in Alerts!Texts
      BY <1>1 DEF QueueTypes, Holds
    <2> QED BY <1>1, <1>5, <2>1 DEF PlaceInv
  <1>8. ASSUME NEW n, Holds(queue, n), author[n] = author[m] PROVE n < m
    <2>1. n \in Alerts!Texts /\ n # m /\ n <= m
      BY <1>6, <1>7, <1>8
    <2> QED BY <2>1, ThreadFacts
  <1>9. /\ queue' \in Seq(Alerts!Texts) /\ Len(queue') = Len(queue) + 1 /\ Len(queue) \in Nat
        /\ \A n : Holds(queue', n) <=> Holds(queue, n) \/ n = m
        /\ Distinct(queue') /\ Ranked(queue', author)
    <2>1. queue \in Seq(Alerts!Texts) /\ Distinct(queue) /\ Ranked(queue, author)
      BY <1>1 DEF QueueTypes, PlaceInv, AgeInv
    <2>2. queue' = Append(queue, m)
      BY <1>2, <1>3
    <2> QED BY <1>5, <1>8, <2>1, <2>2, QueuePushed
  <1>10. QueueTypes'
    BY <1>1, <1>2, <1>4, <1>9 DEF QueueTypes
  <1>11. StageInv'
    <2>1. /\ Len(queue) + Owed(Loop) + Owed(Other) <= MaxQueue + 1 /\ MaxQueue \in Nat
          /\ Owed(Loop) \in {0, 1} /\ Owed(Other) \in {0, 1}
      BY <1>1, ServicesAssumption DEF StageInv, Owed
    <2>2. /\ t = Loop => Owed(Loop) = 1 /\ Owed(Loop)' = 0 /\ Owed(Other)' = Owed(Other)
          /\ t = Other => Owed(Other) = 1 /\ Owed(Other)' = 0 /\ Owed(Loop)' = Owed(Loop)
      BY <1>2, <1>4, ThreadFacts DEF Owed
    <2>3. Len(queue') + Owed(Loop)' + Owed(Other)' <= MaxQueue + 1
      BY <1>9, <2>1, <2>2, ThreadFacts
    <2>4. \A u \in Alerts!Threads : hand'[u].at = "idle" <=> hand'[u].text = Alerts!NoText
      BY <1>1, <1>4 DEF StageInv
    <2> QED BY <1>1, <1>2, <1>4, <2>3, <2>4, ThreadFacts DEF StageInv
  <1>12. \A n \in Alerts!Texts : InHand(n)' <=> InHand(n) /\ n # m
    BY <1>1, <1>3, <1>4, ThreadFacts DEF InHand, PlaceInv
  <1>13. PlaceInv'
    <2>1. \A n \in Alerts!Texts : /\ ~(Holds(queue, n) /\ InHand(n))
                                  /\ ~(Holds(queue, n) /\ sender.text = n)
                                  /\ ~(InHand(n) /\ sender.text = n)
                                  /\ fate[n] = "held"
                                     <=> Holds(queue, n) \/ InHand(n) \/ sender.text = n
      BY <1>1 DEF PlaceInv
    <2>2. \A n \in Alerts!Texts :
             /\ fate'[n] = "held" <=> Holds(queue', n) \/ InHand(n)' \/ sender'.text = n
             /\ ~(Holds(queue', n) /\ InHand(n)') /\ ~(Holds(queue', n) /\ sender'.text = n)
             /\ ~(InHand(n)' /\ sender'.text = n)
      BY <1>2, <1>5, <1>9, <1>12, <2>1
    <2>3. hand'[Loop].text # Alerts!NoText => hand'[Loop].text # hand'[Other].text
      BY <1>1, <1>4, ThreadFacts DEF PlaceInv
    <2> QED BY <1>9, <2>2, <2>3 DEF PlaceInv
  <1>14. HandInv'
    BY <1>1, <1>2, <1>4 DEF HandInv
  <1>15. AgeInv'
    <2>1. ASSUME NEW k \in Alerts!Texts, author[k] = t,
                 Gone(k)
          PROVE  k < m
      <3>1. fate[k] # "new" /\ k # m
        BY <1>1, <1>5, <2>1 DEF PlaceInv, Gone, Passed
      <3> QED BY <1>6, <2>1, <3>1, ThreadFacts
    <2>2. \A k, n \in Alerts!Texts :
             author[k] = author[n] /\ Holds(queue', n) /\ Gone(k) => k < n
      BY <1>1, <1>6, <1>9, <2>1 DEF AgeInv, Gone
    <2> QED BY <1>1, <1>2, <1>9, <2>2 DEF AgeInv, Gone, Passed
  <1> QED BY <1>10, <1>11, <1>13, <1>14, <1>15 DEF AlertInv

\* The sender takes the oldest text, or ends.
LEMMA GetStep ==
    ASSUME AlertInv, Alerts!Get
    PROVE  AlertInv'
  <1>1. QueueTypes /\ StageInv /\ PlaceInv /\ HandInv /\ AgeInv
    BY DEF AlertInv
  <1>2. /\ sender.at = "get" /\ sender.text = Alerts!NoText
        /\ UNCHANGED <<stop, hand, fate, order, author, closed>>
    BY <1>1 DEF Alerts!Get, StageInv
  <1>3. CASE queue = <<>>
    <2>1. UNCHANGED queue /\ sender' = Alerts!At("exit", Alerts!NoText)
      BY <1>3 DEF Alerts!Get
    <2>2. sender' \in Senders /\ sender'.text = sender.text /\ sender'.at # "send"
      BY <1>2, <2>1, ThreadFacts DEF Alerts!At, Senders
    <2>3. QueueTypes'
      BY <1>1, <1>2, <2>1, <2>2 DEF QueueTypes
    <2>4. StageInv'
      BY <1>1, <1>2, <2>1, <2>2 DEF StageInv, Owed
    <2>5. PlaceInv' /\ HandInv'
      BY <1>1, <1>2, <2>1, <2>2 DEF PlaceInv, HandInv, InHand, Holds, Distinct
    <2>6. AgeInv'
      BY <1>1, <1>2, <2>1, <2>2 DEF AgeInv, Gone, Passed, Ranked, Holds
    <2> QED BY <2>3, <2>4, <2>5, <2>6 DEF AlertInv
  <1>4. CASE queue # <<>>
    <2>1. queue' = Tail(queue) /\ sender' = Alerts!At("send", Head(queue))
      BY <1>4 DEF Alerts!Get
    <2>2. PICK m \in Alerts!Texts : m = Head(queue)
      BY <1>1, <1>4, QueuePopped DEF QueueTypes
    <2>3. /\ queue' \in Seq(Alerts!Texts) /\ Len(queue') = Len(queue) - 1 /\ Holds(queue, m)
          /\ \A n : Holds(queue', n) => Holds(queue, n)
          /\ \A n : Holds(queue, n) => n = m \/ Holds(queue', n)
          /\ Distinct(queue') /\ ~Holds(queue', m)
          /\ Ranked(queue', author)
          /\ \A n : Holds(queue', n) /\ author[n] = author[m] => m < n
      <3>1. queue \in Seq(Alerts!Texts) /\ Distinct(queue) /\ Ranked(queue, author)
        BY <1>1 DEF QueueTypes, PlaceInv, AgeInv
      <3> QED BY <1>4, <2>1, <2>2, <3>1, QueuePopped
    <2>4. sender' \in Senders /\ sender'.text = m /\ sender'.at = "send"
      BY <2>1, <2>2 DEF Alerts!At, Senders
    <2>5. QueueTypes'
      BY <1>1, <1>2, <2>3, <2>4 DEF QueueTypes
    <2>6. StageInv'
      <3>1. /\ Len(queue) \in Nat /\ MaxQueue \in Nat
            /\ Owed(Loop) \in {0, 1} /\ Owed(Other) \in {0, 1}
        BY <1>1, ServicesAssumption DEF QueueTypes, Owed
      <3>2. Owed(Loop)' = Owed(Loop) /\ Owed(Other)' = Owed(Other)
        BY <1>2 DEF Owed
      <3>3. Len(queue') + Owed(Loop)' + Owed(Other)' <= MaxQueue + 1
        BY <1>1, <2>3, <3>1, <3>2 DEF StageInv
      <3> QED BY <1>1, <1>2, <2>2, <2>4, <3>3, ThreadFacts DEF StageInv
    <2>7. \A n \in Alerts!Texts : InHand(n)' <=> InHand(n)
      BY <1>2 DEF InHand
    <2>8. PlaceInv'
      <3>1. \A n \in Alerts!Texts : /\ ~(Holds(queue, n) /\ InHand(n))
                                    /\ fate[n] = "held"
                                       <=> Holds(queue, n) \/ InHand(n) \/ sender.text = n
        BY <1>1 DEF PlaceInv
      <3>2. \A n \in Alerts!Texts :
               /\ fate'[n] = "held" <=> Holds(queue', n) \/ InHand(n)' \/ sender'.text = n
               /\ ~(Holds(queue', n) /\ InHand(n)') /\ ~(Holds(queue', n) /\ sender'.text = n)
               /\ ~(InHand(n)' /\ sender'.text = n)
        BY <1>2, <2>3, <2>4, <2>7, <3>1, ThreadFacts
      <3> QED BY <1>1, <1>2, <2>3, <3>2 DEF PlaceInv
    <2>9. HandInv'
      BY <1>1, <1>2 DEF HandInv
    <2>10. AgeInv'
      <3>1. \A k, n \in Alerts!Texts :
               author[k] = author[n] /\ Holds(queue', n) /\ Gone(k)' => k < n
        BY <1>1, <1>2, <2>3, <2>4 DEF AgeInv, Gone, Passed
      <3>2. \A k, n \in Alerts!Texts :
               author[k] = Loop /\ author[n] = Loop /\ Passed(k) /\ sender'.text = n => k < n
        <4> SUFFICES ASSUME NEW k \in Alerts!Texts, author[k] = Loop, author[m] = Loop, Passed(k)
                     PROVE  k < m
          BY <2>4
        <4>1. Gone(k) /\ Holds(queue, m)
          BY <2>3 DEF Gone
        <4> QED BY <1>1, <4>1 DEF AgeInv
      <3> QED BY <1>1, <1>2, <2>3, <3>1, <3>2 DEF AgeInv, Passed
    <2> QED BY <2>5, <2>6, <2>8, <2>9, <2>10 DEF AlertInv
  <1> QED BY <1>3, <1>4

\* A text with a thread, or with the sender, is sent or fails.
LEMMA DeliverStep ==
    ASSUME AlertInv, (\E t \in Alerts!Threads : Alerts!Inline(t)) \/ Alerts!Send
    PROVE  AlertInv'
  <1>1. QueueTypes /\ StageInv /\ PlaceInv /\ HandInv /\ AgeInv
    BY DEF AlertInv
  <1>2. PICK m \in Alerts!Texts :
           /\ Alerts!Delivered(m)
           /\ UNCHANGED <<queue, stop, author, closed>>
           /\ fate[m] = "held" /\ ~Holds(queue, m)
           /\ author[m] = Loop => sender.text = m
           /\ hand' \in [Alerts!Threads -> Hands] /\ sender' \in Senders
           /\ \A u \in Alerts!Threads :
                 /\ hand'[u].text = IF hand[u].text = m THEN Alerts!NoText ELSE hand[u].text
                 /\ IF hand[u].text = m THEN hand'[u].at = "idle" ELSE hand'[u].at = hand[u].at
           /\ sender'.text = IF sender.text = m THEN Alerts!NoText ELSE sender.text
           /\ sender'.at = IF sender.text = m THEN "get" ELSE sender.at
    <2>1. ASSUME NEW t \in Alerts!Threads, Alerts!Inline(t)
          PROVE  \E m \in Alerts!Texts :
           /\ Alerts!Delivered(m)
           /\ UNCHANGED <<queue, stop, author, closed>>
           /\ fate[m] = "held" /\ ~Holds(queue, m)
           /\ author[m] = Loop => sender.text = m
           /\ hand' \in [Alerts!Threads -> Hands] /\ sender' \in Senders
           /\ \A u \in Alerts!Threads :
                 /\ hand'[u].text = IF hand[u].text = m THEN Alerts!NoText ELSE hand[u].text
                 /\ IF hand[u].text = m THEN hand'[u].at = "idle" ELSE hand'[u].at = hand[u].at
           /\ sender'.text = IF sender.text = m THEN Alerts!NoText ELSE sender.text
           /\ sender'.at = IF sender.text = m THEN "get" ELSE sender.at
      <3>1. /\ hand[t].at = "inline" /\ Alerts!Delivered(hand[t].text)
            /\ hand' = [hand EXCEPT ![t] = Alerts!At("idle", Alerts!NoText)]
            /\ UNCHANGED <<queue, stop, sender, author, closed>>
        BY <2>1 DEF Alerts!Inline, Alerts!Idle
      <3>2. PICK m \in Alerts!Texts : m = hand[t].text
        BY <1>1, <3>1 DEF QueueTypes, Hands, StageInv
      <3>3. /\ hand' \in [Alerts!Threads -> Hands]
            /\ \A u \in Alerts!Threads :
                  /\ hand'[u].text = IF u = t THEN Alerts!NoText ELSE hand[u].text
                  /\ hand'[u].at = IF u = t THEN "idle" ELSE hand[u].at
        BY <1>1, <3>1, HandTakes
      <3>4. InHand(m) /\ fate[m] = "held" /\ ~Holds(queue, m) /\ sender.text # m
        BY <1>1, <3>2 DEF PlaceInv, InHand
      <3>5. \A u \in Alerts!Threads : hand[u].text = m <=> u = t
        BY <1>1, <3>2, ThreadFacts DEF PlaceInv
      <3>6. t # Loop /\ author[m] = t
        BY <1>1, <3>1, <3>2, ThreadFacts DEF StageInv, HandInv
      <3>7. sender \in Senders
        BY <1>1 DEF QueueTypes
      <3> QED BY <3>1, <3>2, <3>3, <3>4, <3>5, <3>6, <3>7
    <2>2. ASSUME Alerts!Send
          PROVE  \E m \in Alerts!Texts :
           /\ Alerts!Delivered(m)
           /\ UNCHANGED <<queue, stop, author, closed>>
           /\ fate[m] = "held" /\ ~Holds(queue, m)
           /\ author[m] = Loop => sender.text = m
           /\ hand' \in [Alerts!Threads -> Hands] /\ sender' \in Senders
           /\ \A u \in Alerts!Threads :
                 /\ hand'[u].text = IF hand[u].text = m THEN Alerts!NoText ELSE hand[u].text
                 /\ IF hand[u].text = m THEN hand'[u].at = "idle" ELSE hand'[u].at = hand[u].at
           /\ sender'.text = IF sender.text = m THEN Alerts!NoText ELSE sender.text
           /\ sender'.at = IF sender.text = m THEN "get" ELSE sender.at
      <3>1. /\ sender.at = "send" /\ Alerts!Delivered(sender.text)
            /\ sender' = Alerts!At("get", Alerts!NoText)
            /\ UNCHANGED <<queue, stop, hand, author, closed>>
        BY <2>2 DEF Alerts!Send
      <3>2. PICK m \in Alerts!Texts : m = sender.text
        BY <1>1, <3>1 DEF QueueTypes, Senders, StageInv
      <3>3. fate[m] = "held" /\ ~Holds(queue, m) /\ \A u \in Alerts!Threads : hand[u].text # m
        BY <1>1, <3>2 DEF PlaceInv, InHand
      <3>4. sender' \in Senders /\ sender'.text = Alerts!NoText /\ sender'.at = "get"
        BY <3>1 DEF Alerts!At, Senders
      <3>5. hand \in [Alerts!Threads -> Hands]
        BY <1>1 DEF QueueTypes
      <3> QED BY <3>1, <3>2, <3>3, <3>4, <3>5
    <2> QED BY <2>1, <2>2
  <1>3. PICK how \in {"sent", "failed"} : fate' = [fate EXCEPT ![m] = how]
    BY <1>2 DEF Alerts!Delivered
  <1>4. /\ fate' \in [Alerts!Texts -> {"new", "held", "sent", "failed", "dropped"}]
        /\ \A n \in Alerts!Texts : fate'[n] = IF n = m THEN how ELSE fate[n]
    BY <1>1, <1>3 DEF QueueTypes
  <1>5. /\ order' \in Seq(Alerts!Texts) /\ Len(order) \in Nat /\ Len(order') = Len(order) + 1
        /\ \A i \in 1 .. Len(order) : order'[i] = order[i]
        /\ order'[Len(order) + 1] = m
    <2>1. order' = Append(order, m) /\ order \in Seq(Alerts!Texts)
      BY <1>1, <1>2 DEF Alerts!Delivered, QueueTypes
    <2> QED BY <2>1, AppendProperties
  <1>6. QueueTypes'
    BY <1>1, <1>2, <1>4, <1>5 DEF QueueTypes
  <1>7. StageInv'
    <2>1. /\ Len(queue) + Owed(Loop) + Owed(Other) <= MaxQueue + 1
          /\ Len(queue) \in Nat /\ MaxQueue \in Nat
      BY <1>1, ServicesAssumption DEF StageInv, QueueTypes
    <2>0. Owed(Loop) \in {0, 1} /\ Owed(Other) \in {0, 1}
      BY DEF Owed
    <2>2. /\ Owed(Loop)' = Owed(Loop) \/ Owed(Loop)' = 0
          /\ Owed(Other)' = Owed(Other) \/ Owed(Other)' = 0
      BY <1>2, ThreadFacts DEF Owed
    <2>3. Len(queue') + Owed(Loop)' + Owed(Other)' <= MaxQueue + 1
      BY <1>2, <2>0, <2>1, <2>2
    <2>4. \A u \in Alerts!Threads : hand'[u].at = "idle" <=> hand'[u].text = Alerts!NoText
      BY <1>1, <1>2 DEF StageInv
    <2>5. sender'.at = "send" <=> sender'.text # Alerts!NoText
      BY <1>1, <1>2 DEF StageInv
    <2>6. hand'[Loop].at # "inline"
      BY <1>1, <1>2, ThreadFacts DEF StageInv
    <2> QED BY <1>1, <1>2, <2>3, <2>4, <2>5, <2>6 DEF StageInv
  <1>8. \A n \in Alerts!Texts : InHand(n)' <=> InHand(n) /\ n # m
    BY <1>2, ThreadFacts DEF InHand
  <1>9. \A n \in Alerts!Texts : sender'.text = n <=> sender.text = n /\ n # m
    BY <1>2, ThreadFacts
  <1>10. PlaceInv'
    <2>1. \A n \in Alerts!Texts : /\ ~(Holds(queue, n) /\ InHand(n))
                                  /\ ~(Holds(queue, n) /\ sender.text = n)
                                  /\ ~(InHand(n) /\ sender.text = n)
                                  /\ fate[n] = "held"
                                     <=> Holds(queue, n) \/ InHand(n) \/ sender.text = n
      BY <1>1 DEF PlaceInv
    <2>2. \A n \in Alerts!Texts :
             /\ fate'[n] = "held" <=> Holds(queue', n) \/ InHand(n)' \/ sender'.text = n
             /\ ~(Holds(queue', n) /\ InHand(n)') /\ ~(Holds(queue', n) /\ sender'.text = n)
             /\ ~(InHand(n)' /\ sender'.text = n)
      BY <1>2, <1>4, <1>8, <1>9, <2>1
    <2>3. hand'[Loop].text # Alerts!NoText => hand'[Loop].text # hand'[Other].text
      BY <1>1, <1>2, ThreadFacts DEF PlaceInv
    <2> QED BY <1>1, <1>2, <2>2, <2>3 DEF PlaceInv, Distinct
  <1>11. HandInv'
    <2>1. \A n \in Alerts!Texts : fate'[n] = "new" <=> fate[n] = "new"
      BY <1>2, <1>4
    <2> QED BY <1>1, <1>2, <2>1 DEF HandInv
  <1>12. AgeInv'
    <2>1. \A n \in Alerts!Texts : Passed(n)' <=> Passed(n) \/ n = m
      BY <1>2, <1>4 DEF Passed
    <2>2. \A i \in 1 .. Len(order) : order[i] \in Alerts!Texts /\ Passed(order[i])
      BY <1>1 DEF QueueTypes, AgeInv
    <2>3. 1 .. Len(order') = (1 .. Len(order)) \cup {Len(order) + 1}
      BY <1>5
    <2>4. (\A i \in 1 .. Len(order) : Passed(order[i]))'
      <3>1. \A i \in 1 .. Len(order') : order'[i] \in Alerts!Texts
                                      /\ (order'[i] = m \/ Passed(order'[i]))
        BY <1>5, <2>2, <2>3
      <3>2. \A n \in Alerts!Texts : n = m \/ Passed(n) => fate'[n] \in {"sent", "failed"}
        BY <2>1 DEF Passed
      <3> QED BY <3>1, <3>2 DEF Passed
    <2>5. \A k, n \in Alerts!Texts :
             author'[k] = author'[n] /\ Holds(queue', n) /\ Gone(k)' => k < n
      <3>1. \A k \in Alerts!Texts : Gone(k)' => Gone(k)
        BY <1>2, <1>4, <1>9, <2>1 DEF Gone
      <3> QED BY <1>1, <1>2, <3>1 DEF AgeInv
    <2>6. \A k, n \in Alerts!Texts :
             author'[k] = Loop /\ author'[n] = Loop /\ Passed(k)' /\ sender'.text = n => k < n
      BY <1>1, <1>2, <1>9, <2>1, ThreadFacts DEF AgeInv
    <2>7. ASSUME author[m] = Loop, NEW i \in 1 .. Len(order), author[order[i]] = Loop
          PROVE  order[i] < m
      BY <1>1, <1>2, <2>2, <2>7 DEF AgeInv
    <2>8. ASSUME NEW i \in 1 .. Len(order'), NEW j \in 1 .. Len(order'), i < j,
                 author'[order'[i]] = Loop, author'[order'[j]] = Loop
          PROVE  order'[i] < order'[j]
      <3>1. i \in 1 .. Len(order) /\ order'[i] = order[i]
        BY <1>5, <2>3, <2>8
      <3>2. CASE j \in 1 .. Len(order)
        BY <1>1, <1>2, <1>5, <2>8, <3>1, <3>2 DEF AgeInv
      <3>3. CASE j = Len(order) + 1
        BY <1>2, <1>5, <2>7, <2>8, <3>1, <3>3
      <3> QED BY <2>3, <3>2, <3>3
    <2> QED BY <1>1, <1>2, <2>4, <2>5, <2>6, <2>8 DEF AgeInv, Ranked
  <1> QED BY <1>6, <1>7, <1>10, <1>11, <1>12 DEF AlertInv

\* Every step of the queue, and of the other services, keeps the invariant.
LEMMA AlertSteps ==
    ASSUME AlertInv, Alerts!Next \/ UNCHANGED alertVars
    PROVE  AlertInv'
  <1>1. CASE UNCHANGED alertVars
    <2>1. UNCHANGED <<queue, stop, sender, hand, fate, order, author, closed>>
      BY <1>1 DEF alertVars
    <2>2. QueueTypes'
      BY <2>1 DEF AlertInv, QueueTypes
    <2>3. StageInv'
      BY <2>1 DEF AlertInv, StageInv, Owed
    <2>4. PlaceInv'
      BY <2>1 DEF AlertInv, PlaceInv, InHand, Holds, Distinct
    <2>5. HandInv' /\ AgeInv'
      BY <2>1 DEF AlertInv, HandInv, AgeInv, Passed, Gone, Holds, Ranked
    <2> QED BY <2>2, <2>3, <2>4, <2>5 DEF AlertInv
  <1>2. CASE Alerts!Close
    <2>1. /\ UNCHANGED <<queue, sender, hand, fate, order, author>>
          /\ closed' = TRUE /\ stop' = TRUE
      BY <1>2 DEF Alerts!Close
    <2>4. QueueTypes'
      BY <2>1 DEF AlertInv, QueueTypes
    <2>5. StageInv'
      BY <2>1 DEF AlertInv, StageInv, Owed
    <2>2. PlaceInv'
      BY <2>1 DEF AlertInv, PlaceInv, InHand, Holds, Distinct
    <2>3. HandInv' /\ AgeInv'
      BY <2>1 DEF AlertInv, HandInv, AgeInv, Passed, Gone, Holds, Ranked
    <2> QED BY <2>2, <2>3, <2>4, <2>5 DEF AlertInv
  <1>3. ASSUME NEW t \in Alerts!Threads, Alerts!Step(t) PROVE AlertInv'
    <2>1. CASE Alerts!Drop(t)
      BY <2>1, DropStep, MovesStep
    <2>2. CASE Alerts!Inline(t)
      BY <2>2, DeliverStep
    <2> QED BY <1>3, <2>1, <2>2, EnqueueStep, MovesStep, PutStep DEF Alerts!Step
  <1> QED BY <1>1, <1>2, <1>3, GetStep, DeliverStep DEF Alerts!Next

\* Nothing has been handed over.
LEMMA AlertStarts ==
    ASSUME Alerts!Init
    PROVE  AlertInv
  <1>1. /\ queue = <<>> /\ order = <<>> /\ stop = FALSE /\ closed = FALSE
        /\ sender = Alerts!At("none", Alerts!NoText)
        /\ hand = [t \in Alerts!Threads |-> Alerts!At("idle", Alerts!NoText)]
        /\ fate = [m \in Alerts!Texts |-> "new"] /\ author = [m \in Alerts!Texts |-> Loop]
    BY DEF Alerts!Init, Alerts!Idle
  <1>2. Len(queue) = 0 /\ Len(order) = 0
    BY <1>1
  <1>3. QueueTypes
    <2>1. Alerts!At("idle", Alerts!NoText) \in Hands /\ Alerts!At("none", Alerts!NoText) \in Senders
      BY DEF Senders, Hands, Alerts!At
    <2>2. queue \in Seq(Alerts!Texts) /\ order \in Seq(Alerts!Texts)
      BY <1>1
    <2>3. fate \in [Alerts!Texts -> {"new", "held", "sent", "failed", "dropped"}]
      BY <1>1
    <2> QED BY <1>1, <2>1, <2>2, <2>3, ThreadFacts DEF QueueTypes
  <1>4. /\ \A t \in Alerts!Threads : hand[t].at = "idle" /\ hand[t].text = Alerts!NoText
        /\ sender.at = "none" /\ sender.text = Alerts!NoText
    BY <1>1 DEF Alerts!At
  <1>5. StageInv
    BY <1>1, <1>2, <1>4, ThreadFacts, ServicesAssumption DEF StageInv, Owed
  <1>6. PlaceInv
    BY <1>1, <1>2, <1>4, ThreadFacts DEF PlaceInv, Holds, InHand, Distinct
  <1>7. HandInv
    BY <1>1, <1>4 DEF HandInv
  <1>8. AgeInv
    BY <1>1, <1>2, <1>4, ThreadFacts DEF AgeInv, Ranked, Holds, Passed, Gone
  <1> QED BY <1>3, <1>5, <1>6, <1>7, <1>8 DEF AlertInv

\* The queue counts as the library does.
LEMMA SameCount ==
    ASSUME NEW S
    PROVE  Alerts!Cardinality(S) = Cardinality(S)
  BY DEF Alerts!Cardinality, Cardinality

\* A text is at most once in the queue, in one hand or with the sender: the
\* places the model counts are none or one.
LEMMA PlacesCounted ==
    ASSUME AlertInv, NEW m \in Alerts!Texts
    PROVE  Alerts!Places(m) = IF fate[m] = "held" THEN 1 ELSE 0
  <1> DEFINE InQueue == {i \in DOMAIN queue : queue[i] = m}
             InHands == {t \in Alerts!Threads : hand[t].text = m}
  <1>1. QueueTypes /\ PlaceInv
    BY DEF AlertInv
  <1>2. DOMAIN queue = 1 .. Len(queue)
    BY <1>1 DEF QueueTypes
  <1>3. Cardinality(InQueue) = IF Holds(queue, m) THEN 1 ELSE 0
    <2>1. CASE Holds(queue, m)
      <3>1. PICK i \in 1 .. Len(queue) : queue[i] = m
        BY <2>1 DEF Holds
      <3>2. InQueue = {i}
        BY <1>1, <1>2, <3>1 DEF PlaceInv, Distinct
      <3> QED BY <2>1, <3>2, FS_Singleton
    <2>2. CASE ~Holds(queue, m)
      <3>1. InQueue = {}
        BY <1>2, <2>2 DEF Holds
      <3> QED BY <2>2, <3>1, FS_EmptySet
    <2> QED BY <2>1, <2>2
  <1>4. Cardinality(InHands) = IF InHand(m) THEN 1 ELSE 0
    <2>1. CASE InHand(m)
      <3>1. PICK t \in Alerts!Threads : hand[t].text = m
        BY <2>1 DEF InHand
      <3>2. InHands = {t}
        BY <1>1, <3>1, ThreadFacts DEF PlaceInv
      <3> QED BY <2>1, <3>2, FS_Singleton
    <2>2. CASE ~InHand(m)
      <3>1. InHands = {}
        BY <2>2 DEF InHand
      <3> QED BY <2>2, <3>1, FS_EmptySet
    <2> QED BY <2>1, <2>2
  <1>5. Alerts!Places(m) = Cardinality(InQueue) + Cardinality(InHands)
                           + (IF sender.text = m THEN 1 ELSE 0)
    BY SameCount, Zenon DEF Alerts!Places
  <1> HIDE DEF InQueue, InHands
  <1>6. CASE fate[m] = "held"
    BY <1>1, <1>3, <1>4, <1>5, <1>6 DEF PlaceInv
  <1>7. CASE fate[m] # "held"
    BY <1>1, <1>3, <1>4, <1>5, <1>7 DEF PlaceInv
  <1> QED BY <1>6, <1>7

\* The invariant is what is wanted.
LEMMA AlertKept ==
    ASSUME AlertInv
    PROVE  AlertsKept
  <1>1. QueueTypes /\ StageInv /\ PlaceInv /\ HandInv /\ AgeInv
    BY DEF AlertInv
  <1>2. Alerts!Bounded
    <2>1. Cardinality(Alerts!Threads) = 2
      <3>1. IsFiniteSet({Other}) /\ Cardinality({Other}) = 1
        BY FS_Singleton
      <3>2. Alerts!Threads = {Other} \cup {Loop} /\ Loop \notin {Other}
        BY ThreadFacts DEF Alerts!Threads
      <3> QED BY <3>1, <3>2, FS_AddElement
    <2>2. /\ Len(queue) + Owed(Loop) + Owed(Other) <= MaxQueue + 1
          /\ Len(queue) \in Nat /\ MaxQueue \in Nat
      BY <1>1, ServicesAssumption DEF StageInv, QueueTypes
    <2>0. Owed(Loop) \in {0, 1} /\ Owed(Other) \in {0, 1}
      BY DEF Owed
    <2>3. Len(queue) <= MaxQueue + 2 - 1
      BY <2>0, <2>2
    <2> QED BY <2>1, <2>3, SameCount DEF Alerts!Bounded
  <1>3. Alerts!OnePlace
    BY PlacesCounted DEF Alerts!OnePlace
  <1>4. Alerts!InOrder
    <2>1. DOMAIN order = 1 .. Len(order)
      BY <1>1 DEF QueueTypes
    <2> QED BY <1>1, <2>1 DEF Alerts!InOrder, AgeInv
  <1>5. Alerts!OldestDropped
    <2> SUFFICES ASSUME NEW m \in Alerts!Texts, NEW n \in Alerts!Texts, m < n, fate[n] = "dropped",
                        author[m] = author[n], fate[m] = "held", sender.text # m
                 PROVE  FALSE
      BY DEF Alerts!OldestDropped
    <2>1. m \in Nat /\ n \in Nat
      BY ThreadFacts
    <2>2. CASE Holds(queue, m)
      BY <1>1, <2>1, <2>2 DEF AgeInv, Gone
    <2>3. CASE InHand(m)
      <3>1. PICK t \in Alerts!Threads : hand[t].text = m
        BY <2>3 DEF InHand
      <3>2. author[m] = t /\ n <= m
        BY <1>1, <3>1, ThreadFacts DEF HandInv
      <3> QED BY <2>1, <3>2
    <2> QED BY <1>1, <2>2, <2>3 DEF PlaceInv
  <1> QED BY <1>2, <1>3, <1>4, <1>5 DEF AlertsKept, Alerts!AlertsKept

\* The alert queue holds at most one text more than its limit, every text
\* accepted is in exactly one place until it is sent or dropped, only a
\* thread's oldest waiting texts are dropped, and the loop's are sent in the
\* order it said them, whatever the limit and the number of texts (enqueue,
\* _ensure_thread, _run, close).
THEOREM AlertsKeptAlways == Spec => []AlertsKept
  <1>1. Init => AlertInv
    BY AlertStarts DEF Init
  <1>2. AlertInv /\ [Next]_vars => AlertInv'
    <2>1. [Next]_vars => (Alerts!Next \/ UNCHANGED alertVars)
      BY Zenon DEF Next, Only, vars
    <2> QED BY <2>1, AlertSteps
  <1>3. AlertInv => AlertsKept
    BY AlertKept
  <1> QED BY <1>1, <1>2, <1>3, PTL DEF Spec
=============================================================================
