------------------------------ MODULE SumTheorems ------------------------------
(***************************************************************************)
(* Sums over finite sets, as MapThenSumSet of FiniteSetsExt takes them: in *)
(* the order CHOOSE happens to pick.  The library states no theorem about  *)
(* them; here is what the proofs need, by the least counterexample.        *)
(***************************************************************************)
EXTENDS Integers, FiniteSets, FiniteSetTheorems, WellFoundedInduction, TLAPS

\* The least of a set of numbers.
LeastOf(S) == CHOOSE n \in S : \A x \in S : n <= x

\* A set of naturals that has a member has a least one.
LEMMA LeastIsLeast ==
    ASSUME NEW S \in SUBSET Nat, S # {}
    PROVE  LeastOf(S) \in S /\ \A x \in S : LeastOf(S) <= x
  <1> DEFINE Below == {ss \in Nat \X Nat : ss[1] < ss[2]}
  <1>1. IsWellFoundedOn(Below, Nat)
    BY NatLessThanWellFounded DEF OpToRel
  <1> HIDE DEF Below
  <1>2. PICK n \in S : \A x \in S : ~ (<<x, n>> \in Below)
    BY <1>1, WFMin
  <1>3. ASSUME NEW x \in S PROVE n <= x
    <2>1. x \in Nat /\ n \in Nat /\ <<x, n>> \in Nat \X Nat
      OBVIOUS
    <2>2. x < n => <<x, n>> \in Below
      BY <2>1 DEF Below
    <2> QED BY <1>2, <2>1, <2>2
  <1> QED BY <1>3 DEF LeastOf

-----------------------------------------------------------------------------
\* The member a sum takes next.
Pick(s) == CHOOSE x \in s : TRUE

\* The function it holds the sums of g over the subsets of S.
Sums(it, g, S) ==
    it = [s \in SUBSET S |-> IF s = {} THEN 0 ELSE g[Pick(s)] + it[s \ {Pick(s)}]]

\* The sum of g over S.
Total(g, S) == (CHOOSE it : Sums(it, g, S))[S]

\* A set that is not empty, without its member picked next.
LEMMA PickOne ==
    ASSUME NEW s, IsFiniteSet(s), s # {}
    PROVE  /\ Pick(s) \in s /\ IsFiniteSet(s \ {Pick(s)})
           /\ Cardinality(s) \in Nat /\ Cardinality(s) > 0
           /\ Cardinality(s \ {Pick(s)}) = Cardinality(s) - 1
  <1>1. Pick(s) \in s
    BY DEF Pick
  <1>2. /\ IsFiniteSet(s \ {Pick(s)})
        /\ Cardinality(s \ {Pick(s)}) = Cardinality(s) - 1
    BY <1>1, FS_RemoveElement
  <1>3. Cardinality(s) \in Nat /\ Cardinality(s) # 0
    BY FS_CardinalityType, FS_EmptySet
  <1> QED BY <1>1, <1>2, <1>3

\* What such a function gives.
LEMMA SumsGive ==
    ASSUME NEW it, NEW g, NEW S, Sums(it, g, S), NEW s \in SUBSET S
    PROVE  it[s] = IF s = {} THEN 0 ELSE g[Pick(s)] + it[s \ {Pick(s)}]
  BY DEF Sums

\* Two of them agree where both are defined.
LEMMA SumsAgree ==
    ASSUME NEW g, NEW S, NEW T, NEW i, NEW j, Sums(i, g, S), Sums(j, g, T)
    PROVE  \A s \in SUBSET (S \cap T) : IsFiniteSet(s) => i[s] = j[s]
  <1> DEFINE Wrong == {s \in SUBSET (S \cap T) : IsFiniteSet(s) /\ i[s] # j[s]}
             Sizes == {Cardinality(s) : s \in Wrong}
  <1>1. SUFFICES ASSUME Wrong # {} PROVE FALSE
    OBVIOUS
  <1>2. Sizes \in SUBSET Nat /\ Sizes # {}
    BY <1>1, FS_CardinalityType
  <1>3. PICK s \in Wrong : \A t \in Wrong : Cardinality(s) <= Cardinality(t)
    <2>1. LeastOf(Sizes) \in Sizes /\ \A n \in Sizes : LeastOf(Sizes) <= n
      BY <1>2, LeastIsLeast
    <2>2. PICK s \in Wrong : Cardinality(s) = LeastOf(Sizes)
      BY <2>1
    <2> QED BY <2>1, <2>2
  <1> DEFINE t == s \ {Pick(s)}
  <1>4. s # {}
    BY <1>3, SumsGive
  <1>5. IsFiniteSet(t) /\ t \in SUBSET (S \cap T) /\ ~(Cardinality(s) <= Cardinality(t))
    BY <1>3, <1>4, PickOne
  <1>6. i[t] = j[t]
    BY <1>3, <1>5
  <1>7. i[s] = g[Pick(s)] + i[t] /\ j[s] = g[Pick(s)] + j[t]
    BY <1>3, <1>4, SumsGive
  <1> QED BY <1>3, <1>6, <1>7

\* There is one for every finite set.
LEMMA SumsExist ==
    ASSUME NEW g, NEW S, IsFiniteSet(S)
    PROVE  \E it : Sums(it, g, S)
  <1> DEFINE Wrong == {s \in SUBSET S : ~ \E it : Sums(it, g, s)}
             Sizes == {Cardinality(s) : s \in Wrong}
  <1>1. SUFFICES ASSUME Wrong # {} PROVE FALSE
    OBVIOUS
  <1>2. \A s \in SUBSET S : IsFiniteSet(s) /\ Cardinality(s) \in Nat
    BY FS_Subset, FS_CardinalityType
  <1>3. Sizes \in SUBSET Nat /\ Sizes # {}
    BY <1>1, <1>2
  <1>4. PICK R \in Wrong : \A t \in Wrong : Cardinality(R) <= Cardinality(t)
    <2>1. LeastOf(Sizes) \in Sizes /\ \A n \in Sizes : LeastOf(Sizes) <= n
      BY <1>3, LeastIsLeast
    <2>2. PICK s \in Wrong : Cardinality(s) = LeastOf(Sizes)
      BY <2>1
    <2> QED BY <2>1, <2>2
  <1> DEFINE it == [s \in SUBSET R |-> IF s = {} THEN 0
                                       ELSE g[Pick(s)] + Total(g, s \ {Pick(s)})]
  <1>5. ASSUME NEW s \in SUBSET R, s # {}
        PROVE  Sums(CHOOSE i : Sums(i, g, s \ {Pick(s)}), g, s \ {Pick(s)})
    <2> DEFINE t == s \ {Pick(s)}
    <2>1. s \in SUBSET S /\ IsFiniteSet(s) /\ Cardinality(s) <= Cardinality(R)
      BY <1>2, <1>4, FS_Subset
    <2>2. t \in SUBSET S /\ Cardinality(t) \in Nat /\ Cardinality(t) < Cardinality(s)
      BY <1>2, <1>5, <2>1, PickOne
    <2>3. t \notin Wrong
      BY <1>2, <1>4, <2>1, <2>2
    <2>4. \E i : Sums(i, g, t)
      BY <2>2, <2>3
    <2> HIDE DEF t
    <2>5. Sums(CHOOSE i : Sums(i, g, t), g, t)
      BY <2>4
    <2> QED BY <2>5 DEF t
  <1>6. ASSUME NEW s \in SUBSET R, s # {} PROVE it[s \ {Pick(s)}] = Total(g, s \ {Pick(s)})
    <2> DEFINE t == s \ {Pick(s)}
               i == CHOOSE i : Sums(i, g, t)
               u == t \ {Pick(t)}
               j == CHOOSE j : Sums(j, g, u)
    <2>1. Sums(i, g, t) /\ t \in SUBSET R
      BY <1>5, <1>6
    <2>2. i[t] = IF t = {} THEN 0 ELSE g[Pick(t)] + i[u]
      BY <2>1, SumsGive
    <2>3. t # {} => i[u] = j[u]
      <3>1. t # {} => Sums(j, g, u)
        BY <1>5, <2>1
      <3>2. IsFiniteSet(u) /\ u \in SUBSET (t \cap u)
        BY <1>2, <2>1
      <3> HIDE DEF i, j, u
      <3> QED BY <2>1, <3>1, <3>2, SumsAgree
    <2>4. it[t] = IF t = {} THEN 0 ELSE g[Pick(t)] + j[u]
      BY <2>1 DEF Total
    <2>5. Total(g, t) = i[t]
      BY DEF Total
    <2> QED BY <2>2, <2>3, <2>4, <2>5
  <1>7. Sums(it, g, R)
    BY <1>6 DEF Sums
  <1> HIDE DEF it
  <1> QED BY <1>4, <1>7

\* The sum of a set whose member picked next is taken out.
LEMMA TotalGives ==
    ASSUME NEW g, NEW S, IsFiniteSet(S)
    PROVE  Total(g, S) = IF S = {} THEN 0 ELSE g[Pick(S)] + Total(g, S \ {Pick(S)})
  <1> DEFINE T == S \ {Pick(S)}
             i == CHOOSE it : Sums(it, g, S)
             j == CHOOSE it : Sums(it, g, T)
  <1>1. IsFiniteSet(T) /\ T \in SUBSET S
    BY FS_Subset
  <1>2. Sums(i, g, S) /\ Sums(j, g, T)
    BY <1>1, SumsExist
  <1> HIDE DEF i, j
  <1>3. i[S] = IF S = {} THEN 0 ELSE g[Pick(S)] + i[T]
    BY <1>2, SumsGive
  <1>4. i[T] = j[T]
    BY <1>1, <1>2, SumsAgree
  <1> QED BY <1>3, <1>4 DEF Total, i, j

\* Whatever holds the sums gives the sum.
LEMMA SumsTotal ==
    ASSUME NEW g, NEW S, IsFiniteSet(S), NEW it, Sums(it, g, S)
    PROVE  it[S] = Total(g, S)
  <1> DEFINE j == CHOOSE i : Sums(i, g, S)
  <1>1. Sums(j, g, S)
    BY SumsExist
  <1> HIDE DEF j
  <1>2. it[S] = j[S]
    BY <1>1, SumsAgree
  <1> QED BY <1>2 DEF Total, j

\* A sum of integers is an integer, of naturals a natural.
LEMMA TotalType ==
    ASSUME NEW g, NEW S, IsFiniteSet(S), NEW N \in {Nat, Int}, \A x \in S : g[x] \in N
    PROVE  Total(g, S) \in N
  <1> DEFINE Wrong == {s \in SUBSET S : Total(g, s) \notin N}
             Sizes == {Cardinality(s) : s \in Wrong}
  <1>1. SUFFICES ASSUME Wrong # {} PROVE FALSE
    OBVIOUS
  <1>2. \A s \in SUBSET S : IsFiniteSet(s) /\ Cardinality(s) \in Nat
    BY FS_Subset, FS_CardinalityType
  <1>3. Sizes \in SUBSET Nat /\ Sizes # {}
    BY <1>1, <1>2
  <1>4. PICK R \in Wrong : \A t \in Wrong : Cardinality(R) <= Cardinality(t)
    <2>1. LeastOf(Sizes) \in Sizes /\ \A n \in Sizes : LeastOf(Sizes) <= n
      BY <1>3, LeastIsLeast
    <2>2. PICK s \in Wrong : Cardinality(s) = LeastOf(Sizes)
      BY <2>1
    <2> QED BY <2>1, <2>2
  <1> DEFINE T == R \ {Pick(R)}
  <1>5. Total(g, R) = IF R = {} THEN 0 ELSE g[Pick(R)] + Total(g, T)
    BY <1>2, <1>4, TotalGives
  <1>6. R # {} => T \in SUBSET S /\ ~(Cardinality(R) <= Cardinality(T)) /\ Pick(R) \in S
    BY <1>2, <1>4, PickOne
  <1>7. R # {} => Total(g, T) \in N /\ g[Pick(R)] \in N
    BY <1>4, <1>6
  <1>8. 0 \in N /\ \A a, b \in N : a + b \in N
    OBVIOUS
  <1> QED BY <1>4, <1>5, <1>7, <1>8

\* Any member may be taken out of a sum.
LEMMA TotalWithout ==
    ASSUME NEW g, NEW S, IsFiniteSet(S), \A x \in S : g[x] \in Int, NEW y \in S
    PROVE  Total(g, S) = g[y] + Total(g, S \ {y})
  <1> DEFINE Wrong == {s \in SUBSET S : \E x \in s : Total(g, s) # g[x] + Total(g, s \ {x})}
             Sizes == {Cardinality(s) : s \in Wrong}
  <1>1. SUFFICES ASSUME Wrong # {} PROVE FALSE
    OBVIOUS
  <1>2. \A s \in SUBSET S : IsFiniteSet(s) /\ Cardinality(s) \in Nat
    BY FS_Subset, FS_CardinalityType
  <1>3. Sizes \in SUBSET Nat /\ Sizes # {}
    BY <1>1, <1>2
  <1>4. PICK R \in Wrong : \A t \in Wrong : Cardinality(R) <= Cardinality(t)
    <2>1. LeastOf(Sizes) \in Sizes /\ \A n \in Sizes : LeastOf(Sizes) <= n
      BY <1>3, LeastIsLeast
    <2>2. PICK s \in Wrong : Cardinality(s) = LeastOf(Sizes)
      BY <2>1
    <2> QED BY <2>1, <2>2
  <1>5. PICK x \in R : Total(g, R) # g[x] + Total(g, R \ {x})
    BY <1>4
  <1> DEFINE c == Pick(R)
  <1>6. Total(g, R) = g[c] + Total(g, R \ {c}) /\ c \in R
    BY <1>2, <1>4, <1>5, TotalGives, PickOne
  <1>7. c # x
    BY <1>5, <1>6
  <1> HIDE DEF c
  <1>8. /\ R \ {c} \in SUBSET S /\ ~(Cardinality(R) <= Cardinality(R \ {c}))
        /\ R \ {x} \in SUBSET S /\ ~(Cardinality(R) <= Cardinality(R \ {x}))
    <2>1. /\ Cardinality(R \ {c}) = Cardinality(R) - 1
          /\ Cardinality(R \ {x}) = Cardinality(R) - 1
          /\ Cardinality(R) \in Nat
      BY <1>2, <1>4, <1>6, FS_RemoveElement
    <2> QED BY <1>4, <2>1
  <1>9. R \ {c} \notin Wrong /\ R \ {x} \notin Wrong
    BY <1>4, <1>8
  <1>10. /\ Total(g, R \ {c}) = g[x] + Total(g, (R \ {c}) \ {x})
         /\ Total(g, R \ {x}) = g[c] + Total(g, (R \ {x}) \ {c})
    BY <1>6, <1>7, <1>8, <1>9
  <1>11. (R \ {c}) \ {x} = (R \ {x}) \ {c}
    OBVIOUS
  <1>12. /\ Total(g, (R \ {x}) \ {c}) \in Int /\ g[x] \in Int /\ g[c] \in Int
    <2>1. (R \ {x}) \ {c} \in SUBSET S
      BY <1>4
    <2>2. IsFiniteSet((R \ {x}) \ {c}) /\ \A z \in (R \ {x}) \ {c} : g[z] \in Int
      BY <1>2, <2>1
    <2> HIDE DEF Wrong, Sizes
    <2> QED BY <1>4, <1>6, <2>2, TotalType DEF Wrong
  <1> DEFINE rest == Total(g, (R \ {x}) \ {c})
  <1>13. /\ Total(g, R) = g[c] + (g[x] + rest)
         /\ Total(g, R \ {x}) = g[c] + rest
    BY <1>6, <1>10, <1>11
  <1>14. rest \in Int
    BY <1>12
  <1> HIDE DEF rest
  <1>15. g[c] + (g[x] + rest) = g[x] + (g[c] + rest)
    BY <1>12, <1>14
  <1> QED BY <1>5, <1>13, <1>15

\* A sum of naturals is no less than the sum of a part of it.
LEMMA TotalWithin ==
    ASSUME NEW g, NEW S, IsFiniteSet(S), \A x \in S : g[x] \in Nat, NEW R \in SUBSET S
    PROVE  Total(g, R) <= Total(g, S)
  <1> DEFINE Wrong == {s \in SUBSET S : R \subseteq s /\ ~(Total(g, R) <= Total(g, s))}
             Sizes == {Cardinality(s) : s \in Wrong}
  <1>1. SUFFICES ASSUME Wrong # {} PROVE FALSE
    OBVIOUS
  <1>2. \A s \in SUBSET S : IsFiniteSet(s) /\ Cardinality(s) \in Nat
    BY FS_Subset, FS_CardinalityType
  <1>3. \A s \in SUBSET S : Total(g, s) \in Nat
    <2>1. Nat \in {Nat, Int}
      OBVIOUS
    <2> QED BY <1>2, <2>1, TotalType
  <1>4. Sizes \in SUBSET Nat /\ Sizes # {}
    BY <1>1, <1>2
  <1>5. PICK T \in Wrong : \A t \in Wrong : Cardinality(T) <= Cardinality(t)
    <2>1. LeastOf(Sizes) \in Sizes /\ \A n \in Sizes : LeastOf(Sizes) <= n
      BY <1>4, LeastIsLeast
    <2>2. PICK s \in Wrong : Cardinality(s) = LeastOf(Sizes)
      BY <2>1
    <2> QED BY <2>1, <2>2
  <1>6. T # R
    BY <1>3, <1>5
  <1>7. PICK y \in T : y \notin R
    BY <1>5, <1>6
  <1>8. /\ T \ {y} \in SUBSET S /\ R \subseteq T \ {y}
        /\ ~(Cardinality(T) <= Cardinality(T \ {y}))
    <2>1. Cardinality(T \ {y}) = Cardinality(T) - 1 /\ Cardinality(T) \in Nat
      BY <1>2, <1>5, <1>7, FS_RemoveElement
    <2> QED BY <1>5, <1>7, <2>1
  <1>9. Total(g, R) <= Total(g, T \ {y})
    BY <1>5, <1>8
  <1>10. Total(g, T) = g[y] + Total(g, T \ {y}) /\ g[y] \in Nat
    <2>1. IsFiniteSet(T) /\ \A x \in T : g[x] \in Int
      BY <1>2, <1>5
    <2> QED BY <1>5, <1>7, <2>1, TotalWithout
  <1>11. Total(g, R) \in Nat /\ Total(g, T \ {y}) \in Nat /\ ~(Total(g, R) <= Total(g, T))
    BY <1>3, <1>5, <1>8
  <1> QED BY <1>9, <1>10, <1>11

\* The sum depends on what g gives for the members alone.
LEMMA TotalSame ==
    ASSUME NEW g, NEW h, NEW S, IsFiniteSet(S), \A x \in S : g[x] = h[x]
    PROVE  Total(g, S) = Total(h, S)
  <1> DEFINE j == CHOOSE i : Sums(i, g, S)
  <1>1. Sums(j, g, S)
    BY SumsExist
  <1> HIDE DEF j
  <1>2. \A s \in SUBSET S : s # {} => g[Pick(s)] = h[Pick(s)]
    BY DEF Pick
  <1>3. Sums(j, h, S)
    BY <1>1, <1>2 DEF Sums
  <1>4. j[S] = Total(h, S) /\ j[S] = Total(g, S)
    BY <1>1, <1>3, SumsTotal
  <1> QED BY <1>4
=============================================================================
