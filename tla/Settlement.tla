------------------------------ MODULE Settlement ------------------------------
(***************************************************************************)
(* From a settled market to the money books: the settlement reconciler     *)
(* (settle.py), the pass of the executor that runs it                      *)
(* (pregame_exec.py, reconcile_settlements) and the lifetime counters      *)
(* (state.py, record).                                                     *)
(*                                                                         *)
(* A pass runs to its end on the loop thread, but it writes three files    *)
(* one after the other: the lifetime counters row by row, the daily caps   *)
(* pair by pair, and last the cost basis without the pairs it settled.  A  *)
(* crash may come between any two writes; what was settled is remembered   *)
(* in memory only.                                                         *)
(***************************************************************************)
EXTENDS Integers, FiniteSets, FiniteSetsExt

CONSTANTS
    MaxPairs,    \* bound: hedged pairs, one per market, in the order of booking
    MaxCrashes   \* bound: crashes

Pairs == 1 .. MaxPairs

\* A market yields a row for the pair and one for the unhedged excess.
RowKinds == {"pair", "excess"}
Rows == Pairs \X RowKinds
RowsOf(P) == P \X RowKinds

VARIABLES
    market,   \* the venues: stage of each market, its rows and the odd ones
    legs,     \* _market_legs: the cost basis, in memory and on disk
    keys,     \* _settled_keys
    rail,     \* what each pair restated of today's pnl, and its restated flag
    today,    \* pairs booked on the current day, pairs with a provisional mark
    lifetime, \* how often each row is counted for life (written as counted)
    refused,  \* the file of refused rows
    expected, \* pairs whose Polymarket leg is registered as held on purpose
    pass,     \* the pass under way: where it is, rows and pairs left
    crashes,  \* crashes so far
    torn      \* history: pairs whose pass a crash cut short

settleVars == <<market, legs, keys, rail, today, lifetime, refused, expected,
                pass, crashes, torn>>

Idle == [at |-> "idle", rows |-> {}, pairs |-> {}, emitted |-> {}]
None == [p \in Pairs |-> 0]
Quiet == pass = Idle

Init ==
    /\ market = [p \in Pairs |-> [stage |-> "quoted", kinds |-> {}, odd |-> {}]]
    /\ legs = [mem |-> {}, disk |-> {}]
    /\ keys = {}
    /\ rail = [pnl |-> None, done |-> {}, doneDisk |-> {}]
    /\ today = [booked |-> {}, marked |-> {}]
    /\ lifetime = [r \in Rows |-> 0]
    /\ refused = {} /\ expected = {}
    /\ pass = Idle
    /\ crashes = 0 /\ torn = None

-----------------------------------------------------------------------------
(* The venues.                                                             *)

\* A market settles; an even pair has one row, and the numbers of one row may
\* be implausible.  (One settled void or scalar is left to a human: it has no rows
\* and stays held here.)
Settles ==
    \E p \in Pairs : \E kinds \in {{"pair"}, RowKinds} : \E odd \in SUBSET kinds :
        /\ Cardinality(odd) <= 1
        /\ market[p].stage = "held"
        /\ market' = [market EXCEPT ![p] = [stage |-> "paid", kinds |-> kinds, odd |-> odd]]
    /\ UNCHANGED <<legs, keys, rail, today, lifetime, refused, expected, pass, crashes, torn>>

\* The Polymarket leg leaves the wallet some time after.
Redeems ==
    \E p \in Pairs :
        /\ market[p].stage = "paid"
        /\ market' = [market EXCEPT ![p].stage = "redeemed"]
        /\ UNCHANGED <<legs, keys, rail, today, lifetime, refused, expected, pass, crashes, torn>>

-----------------------------------------------------------------------------
(* The executor.                                                           *)

\* _note_pair_legs and _note_expected_legs of a hedged fill.
Book ==
    \E p \in Pairs : \E marked \in BOOLEAN :
        /\ Quiet /\ market[p].stage = "quoted"
        /\ \A q \in 1 .. p - 1 : market[q].stage # "quoted"
        /\ market' = [market EXCEPT ![p].stage = "held"]
        /\ legs' = [mem |-> legs.mem \cup {p}, disk |-> legs.mem \cup {p}]
        /\ today' = [booked |-> today.booked \cup {p},
                     marked |-> IF marked THEN today.marked \cup {p} ELSE today.marked]
        /\ expected' = expected \cup {p}
        /\ UNCHANGED <<keys, rail, lifetime, refused, pass, crashes, torn>>

\* settle_provisional_marks restates the leg itself.
MarkSettled ==
    \E p \in today.marked :
        /\ Quiet
        /\ today' = [today EXCEPT !.marked = @ \ {p}]
        /\ UNCHANGED <<market, legs, keys, rail, lifetime, refused, expected, pass, crashes, torn>>

RollDay ==
    /\ Quiet /\ today.booked # {}
    /\ today' = [today EXCEPT !.booked = {}]
    /\ UNCHANGED <<market, legs, keys, rail, lifetime, refused, expected, pass, crashes, torn>>

\* The rows _reconcile_pair finds for the pairs the settlements list answers.
Found(p) == {p} \X market[p].kinds

\* The pairs of the cost basis that the settlements list answers.
Due == {p \in legs.mem \ keys : market[p].stage # "held" /\ Found(p) # {}}

\* reconcile: one read of the settlements, then each pair not settled before.
\* A failed read is a pass that finds nothing.
BeginPass ==
    /\ Quiet /\ Due # {}
    /\ pass' = [at |-> "record", rows |-> UNION {Found(p) : p \in Due},
                pairs |-> {}, emitted |-> {}]
    /\ UNCHANGED <<market, legs, keys, rail, today, lifetime, refused, expected, crashes, torn>>

\* The rows and the pairs are taken in the order of the cost basis.
NextRow == CHOOSE r \in pass.rows : \A o \in pass.rows : r[1] <= o[1]
NextPair == Min(pass.pairs)

\* sane_settled, then record: the key is settled whatever becomes of the row;
\* a refused row is queued for a human, any other is counted and written.
Record ==
    /\ pass.at = "record" /\ pass.rows # {}
    /\ LET r == NextRow IN
        /\ keys' = keys \cup {r[1]}
        /\ IF r[2] \in market[r[1]].odd
           THEN /\ refused' = refused \cup {r}
                /\ pass' = [pass EXCEPT !.rows = @ \ {r}]
                /\ UNCHANGED lifetime
           ELSE /\ lifetime' = [lifetime EXCEPT ![r] = @ + 1]
                /\ pass' = [pass EXCEPT !.rows = @ \ {r}, !.emitted = @ \cup {r[1]}]
                /\ UNCHANGED refused
        /\ UNCHANGED <<market, legs, rail, today, expected, crashes, torn>>

\* Nothing emitted ends the pass: a refused pair keeps its cost basis.
Recorded ==
    /\ pass.at = "record" /\ pass.rows = {}
    /\ pass' = IF pass.emitted = {} THEN Idle
               ELSE [pass EXCEPT !.at = "restate", !.pairs = pass.emitted]
    /\ UNCHANGED <<market, legs, keys, rail, today, lifetime, refused, expected, crashes, torn>>

\* _restate_same_day: once per pair, on the day it was booked, and never
\* beside a provisional mark; the caps are written at once, the flag later.
Restatable(p) == p \in legs.mem /\ p \notin rail.done
                 /\ p \in today.booked /\ p \notin today.marked

Restate ==
    /\ pass.at = "restate" /\ pass.pairs # {}
    /\ LET p == NextPair IN
        /\ pass' = [pass EXCEPT !.pairs = @ \ {p}]
        /\ rail' = IF Restatable(p)
                   THEN [rail EXCEPT !.pnl[p] = @ + 1, !.done = @ \cup {p}]
                   ELSE rail
        /\ UNCHANGED <<market, legs, keys, today, lifetime, refused, expected, crashes, torn>>

ReadsFlat(p) == market[p].stage = "redeemed"

\* Mutant: what the venue settled is let go, seen by the reconciler or not.
PrunedUnseen == {p \in legs.mem : market[p].stage # "held"}
Pruned == legs.mem \cap keys

\* Every settled pair leaves the cost basis, refused ones too; its expected
\* leg only once the venue reads flat.
Prune ==
    /\ pass.at = "restate" /\ pass.pairs = {}
    /\ legs' = [mem |-> legs.mem \ Pruned, disk |-> legs.mem \ Pruned]
    /\ expected' = {p \in expected : ~(p \in Pruned /\ ReadsFlat(p))}
    /\ rail' = [rail EXCEPT !.doneDisk = rail.done]
    /\ pass' = Idle
    /\ UNCHANGED <<market, keys, today, lifetime, refused, crashes, torn>>

\* _release_settled_expected, on every position reconciliation.
Released == {p \in expected \cap keys : ReadsFlat(p)}
Release ==
    /\ Quiet /\ Released # {}
    /\ expected' = expected \ Released
    /\ UNCHANGED <<market, legs, keys, rail, today, lifetime, refused, pass, crashes, torn>>

\* The process dies and starts again from its files.
Crash ==
    /\ crashes < MaxCrashes
    /\ crashes' = crashes + 1
    /\ torn' = IF Quiet THEN torn
               ELSE [p \in Pairs |-> torn[p] + IF p \in keys /\ p \in legs.disk THEN 1 ELSE 0]
    /\ legs' = [legs EXCEPT !.mem = legs.disk]
    /\ rail' = [rail EXCEPT !.done = rail.doneDisk]
    /\ keys' = {} /\ pass' = Idle
    /\ UNCHANGED <<market, today, lifetime, refused, expected>>

Pass == BeginPass \/ Record \/ Recorded \/ Restate \/ Prune

Next == Settles \/ Redeems \/ Book \/ MarkSettled \/ RollDay \/ Pass \/ Release \/ Crash

Fairness == WF_settleVars(Pass) /\ WF_settleVars(Release)

Spec == Init /\ [][Next]_settleVars /\ Fairness

-----------------------------------------------------------------------------
TypeOK ==
    /\ \A p \in Pairs : /\ market[p].stage \in {"quoted", "held", "paid", "redeemed"}
                        /\ market[p].odd \subseteq market[p].kinds
    /\ legs \in [mem : SUBSET Pairs, disk : SUBSET Pairs] /\ keys \subseteq Pairs
    /\ refused \subseteq Rows /\ expected \subseteq Pairs
    /\ pass.at \in {"idle", "record", "restate"} /\ pass.rows \subseteq Rows
    /\ lifetime \in [Rows -> 0 .. 1 + MaxCrashes]

\* A settled market never leaves the cost basis on disk before each of its
\* rows is counted for life or queued for a human, whatever crash comes
\* between the writes of a pass (reconcile, record, reconcile_settlements).
SettlementKept ==
    \A p \in Pairs : market[p].stage # "quoted" /\ p \notin legs.disk =>
        \A r \in Found(p) : lifetime[r] > 0 \/ r \in refused

\* No row is counted twice, and no pair restated twice, but by a crash that
\* cut its pass short (reconcile, _restate_same_day).
BookedOnce ==
    \A p \in Pairs :
        /\ \A k \in RowKinds : lifetime[<<p, k>>] <= 1 + torn[p]
        /\ rail.pnl[p] <= 1 + torn[p]

\* A row refused waits for a human and for a pass with a repaired cost basis
\* (_queue_refused says so): its pair keeps its cost basis on disk.
RefusedRetriable ==
    Quiet => \A r \in refused : lifetime[r] = 0 => r[1] \in legs.disk

\* A redeemed leg of a settled market does not stay registered, across
\* restarts too (_release_settled_expected says so).
LegsReleased ==
    \A p \in Pairs : (market[p].stage = "redeemed" /\ Found(p) # {}) ~> p \notin expected
=============================================================================
