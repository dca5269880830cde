------------------------- MODULE OffloopWorker_proofs -------------------------
(***************************************************************************)
(* The off-loop worker stays in its types and runs no submission twice,    *)
(* for any number of keys, threads, deadlines, hung calls and deaths.      *)
(*                                                                         *)
(* The invariant says where the number of a submission may be found.  A    *)
(* new number is put at the end of one queue; get moves it from a queue to *)
(* one thread; publish moves it from the thread to the mailbox; all other  *)
(* steps only lose places.  One lemma each, about queues, threads and      *)
(* results in general, says that a number is then still in one place.      *)
(***************************************************************************)
EXTENDS OffloopWorker, FiniteSetTheorems, SequenceTheorems, WellFoundedInduction, TLAPS

\* What may wait in a queue.
Items == Jobs \cup {Sentinel}

\* A thread past the queue carries a job.
Working == \A t \in Threads :
    threads[t].pc \in {"run", "hung", "done", "publish"} => threads[t].job \in Jobs

\* The numbers found in queues B, threads T and results R were given out, up to n.
\* Zero is no number: the sentinel, a thread without a job, and every job when
\* they are not numbered have it.
Given(B, T, R, n) ==
    /\ \A b \in Boxes : \A i \in 1..Len(B[b]) : B[b][i].id <= n
    /\ \A t \in Threads : T[t].job.id <= n
    /\ \A i \in 1..Len(R) : R[i].id <= n

\* A number is in one queue, at one index; in one thread; in one result.
OneQueue(B) ==
    \A b, c \in Boxes : \A i \in 1..Len(B[b]), j \in 1..Len(B[c]) :
        B[b][i].id = B[c][j].id /\ B[b][i].id # 0 => b = c /\ i = j
OneThread(T) ==
    \A t, u \in Threads : T[t].job.id = T[u].job.id /\ T[t].job.id # 0 => t = u
OneResult(R) ==
    \A i, j \in 1..Len(R) : R[i].id = R[j].id /\ R[i].id # 0 => i = j
\* Nor is it both in a queue and in a thread, or in either and in a result.
QueuedOrTaken(B, T) ==
    \A b \in Boxes, t \in Threads : \A i \in 1..Len(B[b]) :
        T[t].job.id # 0 => T[t].job.id # B[b][i].id
QueuedOrDone(B, R) ==
    \A b \in Boxes, j \in 1..Len(R) : \A i \in 1..Len(B[b]) :
        R[j].id # 0 => R[j].id # B[b][i].id
TakenOrDone(T, R) ==
    \A t \in Threads, j \in 1..Len(R) : R[j].id # 0 => R[j].id # T[t].job.id

\* Every number given out is found in one place at most.
Once(B, T, R, n) ==
    /\ Given(B, T, R, n)
    /\ OneQueue(B) /\ OneThread(T) /\ OneResult(R)
    /\ QueuedOrTaken(B, T) /\ QueuedOrDone(B, R) /\ TakenOrDone(T, R)

\* The inductive invariant.
WorkerInv == TypeOK /\ Working /\ Once(boxes, threads, results, serial)
-----------------------------------------------------------------------------
(* Where a number may go. *)

\* Numbers are naturals.
LEMMA Numbers ==
    /\ \A x \in Items : x.id \in Nat
    /\ Jobs \subseteq Items /\ Sentinel \in Items
    /\ \A x \in Jobs : x.id \in Nat /\ x.key \in Keys
    /\ Sentinel.id = 0 /\ NoJob.id = 0 /\ Absent.job.id = 0
    /\ \A x \in Thread : x.job.id \in Nat /\ x.box \in Boxes /\ x.age \in Nat
    /\ Absent \in Thread /\ \A x \in Items : x # Sentinel => x \in Jobs
  <1>1. Sentinel.id = 0 /\ NoJob.id = 0 /\ Absent.job.id = 0
    BY DEF Sentinel, NoJob, Absent
  <1>2. \A x \in Jobs : x.id \in Nat /\ x.key \in Keys
    BY DEF Jobs
  <1>3. \A x \in Thread : x.job \in Jobs \cup {NoJob} /\ x.box \in Boxes /\ x.age \in Nat
    BY DEF Thread
  <1>4. Absent \in Thread
    BY DEF Absent, Thread, Boxes
  <1> QED BY <1>1, <1>2, <1>3, <1>4 DEF Items

\* What the elements of typed queues, threads and results are.
LEMMA Elements ==
    ASSUME NEW B \in [Boxes -> Seq(Items)], NEW b \in Boxes
    PROVE  Len(B[b]) \in Nat /\ \A i \in 1..Len(B[b]) : B[b][i] \in Items
  <1>1. B[b] \in Seq(Items)
    OBVIOUS
  <1> QED BY <1>1, LenProperties, ElementOfSeq

\* Nothing new is found: queues are kept or emptied, threads keep or lose their
\* jobs, results are kept or taken.
LEMMA FewerPlaces ==
    ASSUME NEW B, NEW T, NEW R, NEW n, Once(B, T, R, n), n \in Nat,
           NEW C, \A b \in Boxes : C[b] = B[b] \/ C[b] = <<>>,
           NEW U, \A t \in Threads : U[t].job = T[t].job \/ U[t].job = NoJob,
           NEW S, S = R \/ S = <<>>
    PROVE  Once(C, U, S, n)
  <1>1. NoJob.id = 0
    BY Numbers
  <1>2. \A i : i \notin 1..Len(<<>>)
    BY EmptySeq
  <1>3. \A b \in Boxes : \A i \in 1..Len(C[b]) : i \in 1..Len(B[b]) /\ C[b][i] = B[b][i]
    BY <1>2
  <1>4. \A i \in 1..Len(S) : i \in 1..Len(R) /\ S[i] = R[i]
    BY <1>2
  <1>5. \A t \in Threads : U[t].job.id = T[t].job.id \/ U[t].job.id = 0
    BY <1>1
  <1>6. Given(C, U, S, n)
    BY <1>3, <1>4, <1>5 DEF Once, Given
  <1>7. OneQueue(C) /\ OneResult(S) /\ QueuedOrDone(C, S)
    <2>1. OneQueue(C)
      <3> SUFFICES ASSUME NEW b \in Boxes, NEW d \in Boxes, NEW i \in 1..Len(C[b]),
                          NEW j \in 1..Len(C[d]), C[b][i].id = C[d][j].id, C[b][i].id # 0
                   PROVE  b = d /\ i = j
        BY DEF OneQueue
      <3>1. /\ i \in 1..Len(B[b]) /\ j \in 1..Len(B[d])
            /\ B[b][i].id = B[d][j].id /\ B[b][i].id # 0
        BY <1>3
      <3> QED BY <3>1 DEF Once, OneQueue
    <2>2. OneResult(S)
      BY <1>4 DEF Once, OneResult
    <2>3. QueuedOrDone(C, S)
      BY <1>3, <1>4 DEF Once, QueuedOrDone
    <2> QED BY <2>1, <2>2, <2>3
  <1>8. OneThread(U)
    BY <1>5 DEF Once, OneThread
  <1>9. QueuedOrTaken(C, U)
    BY <1>3, <1>5 DEF Once, QueuedOrTaken
  <1>10. TakenOrDone(U, S)
    BY <1>4, <1>5 DEF Once, TakenOrDone
  <1> QED BY <1>6, <1>7, <1>8, <1>9, <1>10 DEF Once

\* A job of a new number, or the sentinel, is put at the end of a queue.
LEMMA PutPlace ==
    ASSUME NEW B \in [Boxes -> Seq(Items)], NEW T \in [Threads -> Thread], NEW R \in Seq(Jobs),
           NEW n \in Nat, Once(B, T, R, n), NEW c \in Boxes, NEW x \in Items,
           NEW m \in Nat, (x.id = 0 /\ m = n) \/ (x.id = n + 1 /\ m = n + 1)
    PROVE  Once([B EXCEPT ![c] = Append(@, x)], T, R, m)
  <1> DEFINE C == [B EXCEPT ![c] = Append(@, x)]
             k == Len(B[c]) + 1
  <1>1. /\ Len(B[c]) \in Nat /\ k = Len(C[c]) /\ C[c][k] = x
        /\ \A i \in 1..Len(B[c]) : C[c][i] = B[c][i]
    <2>1. B[c] \in Seq(Items) /\ C[c] = Append(B[c], x)
      OBVIOUS
    <2> QED BY <2>1, AppendProperties, LenProperties
  <1>2. \A b \in Boxes : b # c => C[b] = B[b]
    OBVIOUS
  <1>3. /\ \A b \in Boxes : Len(B[b]) \in Nat /\ \A i \in 1..Len(B[b]) : B[b][i].id \in Nat
        /\ \A t \in Threads : T[t].job.id \in Nat
        /\ \A i \in 1..Len(R) : R[i].id \in Nat
    <2>1. \A i \in 1..Len(R) : R[i] \in Jobs
      BY ElementOfSeq
    <2> QED BY <2>1, Elements, Numbers
  <1> HIDE DEF C, k
  <1>4. \A b \in Boxes : \A i \in 1..Len(C[b]) :
            \/ b = c /\ i = k /\ C[b][i] = x
            \/ i \in 1..Len(B[b]) /\ C[b][i] = B[b][i]
    <2> SUFFICES ASSUME NEW b \in Boxes, NEW i \in 1..Len(C[b])
                 PROVE  \/ b = c /\ i = k /\ C[b][i] = x
                        \/ i \in 1..Len(B[b]) /\ C[b][i] = B[b][i]
      OBVIOUS
    <2>1. CASE b = c
      <3>1. i = k \/ i \in 1..Len(B[c])
        BY <1>1, <2>1 DEF k
      <3> QED BY <1>1, <2>1, <3>1
    <2>2. CASE b # c
      BY <1>2, <2>2
    <2> QED BY <2>1, <2>2
  <1>5. /\ \A b \in Boxes : \A i \in 1..Len(B[b]) : x.id # 0 => B[b][i].id # x.id
        /\ \A t \in Threads : x.id # 0 => T[t].job.id # x.id
        /\ \A i \in 1..Len(R) : x.id # 0 => R[i].id # x.id
    BY <1>3 DEF Once, Given
  <1>6. Given(C, T, R, m)
    <2>1. \A b \in Boxes : \A i \in 1..Len(C[b]) : C[b][i].id <= m
      <3> SUFFICES ASSUME NEW b \in Boxes, NEW i \in 1..Len(C[b]) PROVE C[b][i].id <= m
        OBVIOUS
      <3>1. CASE C[b][i] = x
        BY <3>1
      <3>2. CASE i \in 1..Len(B[b]) /\ C[b][i] = B[b][i]
        <4>1. B[b][i].id \in Nat /\ B[b][i].id <= n
          BY <1>3, <3>2 DEF Once, Given
        <4> QED BY <3>2, <4>1
      <3> QED BY <1>4, <3>1, <3>2
    <2>2. \A t \in Threads : T[t].job.id <= m
      BY <1>3 DEF Once, Given
    <2>3. \A i \in 1..Len(R) : R[i].id <= m
      BY <1>3 DEF Once, Given
    <2> QED BY <2>1, <2>2, <2>3 DEF Given
  <1>7. OneQueue(C)
    <2> SUFFICES ASSUME NEW b \in Boxes, NEW d \in Boxes, NEW i \in 1..Len(C[b]),
                        NEW j \in 1..Len(C[d]), C[b][i].id = C[d][j].id, C[b][i].id # 0
                 PROVE  b = d /\ i = j
      BY DEF OneQueue
    <2>1. CASE C[b][i] = x /\ b = c /\ i = k
      <3>1. ~(j \in 1..Len(B[d]) /\ C[d][j] = B[d][j])
        BY <1>5, <2>1
      <3> QED BY <1>4, <2>1, <3>1
    <2>2. CASE i \in 1..Len(B[b]) /\ C[b][i] = B[b][i]
      <3>1. C[d][j] # x
        BY <1>5, <2>2
      <3>2. j \in 1..Len(B[d]) /\ C[d][j] = B[d][j]
        BY <1>4, <3>1
      <3> QED BY <2>2, <3>2 DEF Once, OneQueue
    <2> QED BY <1>4, <2>1, <2>2
  <1>8. QueuedOrTaken(C, T)
    <2> SUFFICES ASSUME NEW b \in Boxes, NEW t \in Threads, NEW i \in 1..Len(C[b]),
                        T[t].job.id # 0, T[t].job.id = C[b][i].id
                 PROVE  FALSE
      BY DEF QueuedOrTaken
    <2>1. C[b][i] # x
      BY <1>5
    <2>2. i \in 1..Len(B[b]) /\ C[b][i] = B[b][i]
      BY <1>4, <2>1
    <2> QED BY <2>2 DEF Once, QueuedOrTaken
  <1>9. QueuedOrDone(C, R)
    <2> SUFFICES ASSUME NEW b \in Boxes, NEW j \in 1..Len(R), NEW i \in 1..Len(C[b]),
                        R[j].id # 0, R[j].id = C[b][i].id
                 PROVE  FALSE
      BY DEF QueuedOrDone
    <2>1. C[b][i] # x
      BY <1>5
    <2>2. i \in 1..Len(B[b]) /\ C[b][i] = B[b][i]
      BY <1>4, <2>1
    <2> QED BY <2>2 DEF Once, QueuedOrDone
  <1> QED BY <1>6, <1>7, <1>8, <1>9 DEF Once, C

\* The first of a queue is handed to a thread, or thrown away.
LEMMA TakePlace ==
    ASSUME NEW B \in [Boxes -> Seq(Items)], NEW T \in [Threads -> Thread], NEW R \in Seq(Jobs),
           NEW n \in Nat, Once(B, T, R, n), NEW c \in Boxes, B[c] # <<>>,
           NEW u \in Threads, NEW U, U[u].job = Head(B[c]) \/ U[u].job = NoJob,
           \A t \in Threads : t # u => U[t] = T[t]
    PROVE  Once([B EXCEPT ![c] = Tail(@)], U, R, n)
  <1> DEFINE C == [B EXCEPT ![c] = Tail(@)]
             x == Head(B[c])
  <1>1. /\ Len(B[c]) \in Nat \ {0} /\ x = B[c][1] /\ Len(C[c]) = Len(B[c]) - 1
        /\ \A i \in 1..Len(C[c]) : C[c][i] = B[c][i + 1]
    <2>1. B[c] \in Seq(Items) /\ C[c] = Tail(B[c])
      OBVIOUS
    <2> QED BY <2>1, HeadTailProperties, EmptySeq
  <1>2. \A b \in Boxes : b # c => C[b] = B[b]
    OBVIOUS
  <1>3. NoJob.id = 0
    BY Numbers
  <1> HIDE DEF C, x
  <1>4. /\ 1 \in 1..Len(B[c])
        /\ \A i \in 1..Len(C[c]) : i + 1 \in 1..Len(B[c]) /\ C[c][i] = B[c][i + 1] /\ i + 1 # 1
    BY <1>1
  <1>5. U[u].job.id = x.id \/ U[u].job.id = 0
    BY <1>3 DEF x
  <1>6. \A b \in Boxes : \A i \in 1..Len(C[b]) :
            \E j \in 1..Len(B[b]) : C[b][i] = B[b][j] /\ ~(b = c /\ j = 1)
    BY <1>2, <1>4, ZenonT(40)
  <1>7. Given(C, U, R, n)
    <2>1. \A b \in Boxes : \A i \in 1..Len(C[b]) : C[b][i].id <= n
      BY <1>6 DEF Once, Given
    <2>2. \A t \in Threads : U[t].job.id <= n
      <3>1. x.id <= n
        BY <1>1, <1>4 DEF Once, Given
      <3> QED BY <1>5, <3>1 DEF Once, Given
    <2> QED BY <2>1, <2>2 DEF Once, Given
  <1>8. \A b \in Boxes : \A i \in 1..Len(C[b]) : x.id # 0 => C[b][i].id # x.id
    <2> SUFFICES ASSUME NEW b \in Boxes, NEW i \in 1..Len(C[b]), x.id # 0, C[b][i].id = x.id
                 PROVE  FALSE
      OBVIOUS
    <2>1. PICK j \in 1..Len(B[b]) : C[b][i] = B[b][j] /\ ~(b = c /\ j = 1)
      BY <1>6
    <2>2. B[b][j].id = B[c][1].id /\ B[b][j].id # 0 /\ 1 \in 1..Len(B[c])
      BY <1>1, <1>4, <2>1
    <2> QED BY <2>1, <2>2 DEF Once, OneQueue
  <1>9. /\ \A t \in Threads : x.id # 0 => T[t].job.id # x.id
        /\ \A i \in 1..Len(R) : x.id # 0 => R[i].id # x.id
    BY <1>1, <1>4 DEF Once, QueuedOrTaken, QueuedOrDone
  <1>10. OneQueue(C)
    <2> SUFFICES ASSUME NEW b \in Boxes, NEW d \in Boxes, NEW i \in 1..Len(C[b]),
                        NEW j \in 1..Len(C[d]), C[b][i].id = C[d][j].id, C[b][i].id # 0
                 PROVE  b = d /\ i = j
      BY DEF OneQueue
    <2> DEFINE at(e, p) == IF e = c THEN p + 1 ELSE p
    <2>1. /\ at(b, i) \in 1..Len(B[b]) /\ C[b][i] = B[b][at(b, i)]
          /\ at(d, j) \in 1..Len(B[d]) /\ C[d][j] = B[d][at(d, j)]
      BY <1>2, <1>4
    <2>2. b = d /\ at(b, i) = at(d, j)
      <3> HIDE DEF at
      <3> QED BY <2>1 DEF Once, OneQueue
    <2>3. i \in Int /\ j \in Int
      OBVIOUS
    <2> QED BY <2>2, <2>3
  <1>11. OneThread(U)
    BY <1>5, <1>9 DEF Once, OneThread
  <1>12. QueuedOrTaken(C, U)
    <2> SUFFICES ASSUME NEW b \in Boxes, NEW t \in Threads, NEW i \in 1..Len(C[b]),
                        U[t].job.id # 0
                 PROVE  U[t].job.id # C[b][i].id
      BY DEF QueuedOrTaken
    <2>1. CASE t = u
      BY <1>5, <1>8, <2>1
    <2>2. CASE t # u
      <3>1. PICK j \in 1..Len(B[b]) : C[b][i] = B[b][j]
        BY <1>6
      <3>2. U[t] = T[t]
        BY <2>2
      <3> QED BY <3>1, <3>2 DEF Once, QueuedOrTaken
    <2> QED BY <2>1, <2>2
  <1>13. QueuedOrDone(C, R)
    <2> SUFFICES ASSUME NEW b \in Boxes, NEW k \in 1..Len(R), NEW i \in 1..Len(C[b]),
                        R[k].id # 0
                 PROVE  R[k].id # C[b][i].id
      BY DEF QueuedOrDone
    <2>1. PICK j \in 1..Len(B[b]) : C[b][i] = B[b][j]
      BY <1>6
    <2> QED BY <2>1 DEF Once, QueuedOrDone
  <1>14. TakenOrDone(U, R)
    BY <1>5, <1>9 DEF Once, TakenOrDone
  <1> QED BY <1>7, <1>10, <1>11, <1>12, <1>13, <1>14 DEF Once, C

\* A thread's job becomes the last result, and the oldest may be dropped.
LEMMA PublishPlace ==
    ASSUME NEW B, NEW T \in [Threads -> Thread], NEW R \in Seq(Jobs),
           NEW n \in Nat, Once(B, T, R, n), NEW u \in Threads, T[u].job \in Jobs,
           NEW U, U[u].job = NoJob, \A t \in Threads : t # u => U[t] = T[t],
           NEW S, S = Append(R, T[u].job) \/ S = Tail(Append(R, T[u].job))
    PROVE  Once(B, U, S, n)
  <1> DEFINE x == T[u].job
             A == Append(R, x)
             k == Len(R) + 1
  <1>1. /\ A \in Seq(Jobs) /\ Len(R) \in Nat /\ Len(A) = k /\ A[k] = x
        /\ \A i \in 1..Len(R) : A[i] = R[i]
    BY AppendProperties, LenProperties
  <1>2. NoJob.id = 0
    BY Numbers
  <1> HIDE DEF x, A, k
  <1>3. \A i \in 1..Len(A) : (i = k /\ A[i] = x) \/ (i \in 1..Len(R) /\ A[i] = R[i])
    BY <1>1 DEF k
  <1>4. /\ \A b \in Boxes : \A i \in 1..Len(B[b]) : x.id # 0 => B[b][i].id # x.id
        /\ \A t \in Threads : x.id # 0 /\ t # u => T[t].job.id # x.id
        /\ \A i \in 1..Len(R) : x.id # 0 => R[i].id # x.id
        /\ x.id <= n
    BY DEF Once, Given, QueuedOrTaken, OneThread, TakenOrDone, x
  <1>5. U[u].job.id = 0
    BY <1>2
  <1>6. Once(B, U, A, n)
    <2>1. Given(B, U, A, n)
      BY <1>3, <1>4, <1>5 DEF Once, Given
    <2>2. OneThread(U)
      BY <1>5 DEF Once, OneThread
    <2>3. OneResult(A)
      BY <1>3, <1>4 DEF Once, OneResult
    <2>4. QueuedOrTaken(B, U)
      BY <1>5 DEF Once, QueuedOrTaken
    <2>5. QueuedOrDone(B, A)
      BY <1>3, <1>4 DEF Once, QueuedOrDone
    <2>6. TakenOrDone(U, A)
      BY <1>3, <1>4, <1>5 DEF Once, TakenOrDone
    <2> QED BY <2>1, <2>2, <2>3, <2>4, <2>5, <2>6 DEF Once
  <1>7. CASE S = A
    BY <1>6, <1>7
  <1>8. CASE S = Tail(A)
    <2>1. A # <<>>
      BY <1>1, EmptySeq DEF k
    <2>2. Len(S) = Len(A) - 1 /\ \A i \in 1..Len(S) : S[i] = A[i + 1]
      BY <1>1, <1>8, <2>1, HeadTailProperties
    <2>3. \A i \in 1..Len(S) : i + 1 \in 1..Len(A) /\ S[i] = A[i + 1] /\ i \in Int
      BY <1>1, <2>2 DEF k
    <2>4. Given(B, U, S, n)
      BY <1>6, <2>3 DEF Once, Given
    <2>5. OneResult(S)
      <3> SUFFICES ASSUME NEW i \in 1..Len(S), NEW j \in 1..Len(S), S[i].id = S[j].id, S[i].id # 0
                   PROVE  i = j
        BY DEF OneResult
      <3>1. /\ i + 1 \in 1..Len(A) /\ S[i] = A[i + 1]
            /\ j + 1 \in 1..Len(A) /\ S[j] = A[j + 1]
        BY <2>3
      <3>2. A[i + 1].id = A[j + 1].id /\ A[i + 1].id # 0
        BY <3>1
      <3>3. i + 1 = j + 1
        BY <1>6, <3>1, <3>2 DEF Once, OneResult
      <3> QED BY <2>3, <3>3
    <2>6. QueuedOrDone(B, S)
      BY <1>6, <2>3 DEF Once, QueuedOrDone
    <2>7. TakenOrDone(U, S)
      BY <1>6, <2>3 DEF Once, TakenOrDone
    <2> QED BY <1>6, <2>4, <2>5, <2>6, <2>7 DEF Once
  <1> QED BY <1>7, <1>8 DEF A, x
-----------------------------------------------------------------------------
(* The loop. *)

\* A new thread takes a slot there is.
LEMMA NewSlotIsFree ==
    ASSUME FreeSlots # {}
    PROVE  NewSlot \in Threads
  <1> DEFINE Below == {ss \in Nat \X Nat : ss[1] < ss[2]}
  <1>1. FreeSlots \subseteq Threads /\ FreeSlots \in SUBSET Nat
    BY OffloopAssumption DEF FreeSlots
  <1>2. IsWellFoundedOn(Below, Nat)
    BY NatLessThanWellFounded DEF OpToRel
  <1> HIDE DEF Below
  <1>3. PICK t \in FreeSlots : \A u \in FreeSlots : ~ (<<u, t>> \in Below)
    BY <1>1, <1>2, WFMin
  <1>4. ASSUME NEW u \in FreeSlots PROVE t <= u
    <2>1. u \in Nat /\ t \in Nat /\ <<u, t>> \in Nat \X Nat
      BY <1>1
    <2>2. u < t => <<u, t>> \in Below
      BY <2>1 DEF Below
    <2> QED BY <1>3, <2>1, <2>2
  <1>5. NewSlot \in FreeSlots
    BY <1>4 DEF NewSlot
  <1> QED BY <1>1, <1>5

\* The worker after _reap_overdue is well typed, its queues hold nothing that was
\* not there, and there is a slot for the thread it may need.
LEMMA ReapedFacts ==
    ASSUME TypeOK, HasRoom, NEW w, w = Reaped(SlotToUse)
    PROVE  /\ w.inflight \in [Keys -> (0..Deadline) \cup {Free}]
           /\ w.owner \in Threads \cup {NoThread} /\ w.cur \in Boxes
           /\ w.boxes \in [Boxes -> Seq(Items)]
           /\ \A b \in Boxes : w.boxes[b] = boxes[b] \/ w.boxes[b] = <<>>
           /\ NeedsThread(w) => SlotToUse \in Threads
           /\ Overdue = {} => w.owner = owner
  <1>0. boxes \in [Boxes -> Seq(Items)]
    BY DEF TypeOK, Items
  <1>1. CASE Overdue = {}
    <2>1. w = Untouched
      BY <1>1 DEF Reaped
    <2>2. NeedsThread(w) => SlotToUse \in Threads
      BY <2>1, NewSlotIsFree DEF HasRoom, SlotToUse
    <2> QED BY <1>0, <2>1, <2>2 DEF Untouched, TypeOK
  <1>2. CASE Overdue # {}
    <2>1. SlotToUse \in Threads
      BY <1>2, NewSlotIsFree DEF HasRoom, SlotToUse
    <2>2. w = Abandoned(SlotToUse)
      BY <1>2 DEF Reaped
    <2>3. /\ w.inflight = Release /\ w.owner = NoThread /\ w.cur = SlotToUse
          /\ w.boxes = [b \in Boxes |-> IF Waited(b) THEN boxes[b] ELSE <<>>]
      BY <2>2 DEF Abandoned
    <2>4. Release \in [Keys -> (0..Deadline) \cup {Free}]
      BY DEF Release, TypeOK
    <2>5. w.boxes \in [Boxes -> Seq(Items)]
      <3>1. <<>> \in Seq(Items)
        BY EmptySeq
      <3> QED BY <1>0, <2>3, <3>1
    <2> QED BY <1>2, <2>1, <2>3, <2>4, <2>5 DEF Boxes
  <1> QED BY <1>1, <1>2

\* A thread that is started carries no job.
LEMMA EnsureFacts ==
    ASSUME TypeOK, Working, NEW w, w.owner \in Threads \cup {NoThread}, NEW slot,
           NeedsThread(w) => slot \in Threads, Ensure(w, slot)
    PROVE  /\ owner' \in Threads \cup {NoThread} /\ stopping' \in BOOLEAN
           /\ threads' \in [Threads -> Thread] /\ Working'
           /\ \A t \in Threads : threads'[t].job = threads[t].job \/ threads'[t].job = NoJob
  <1>1. CASE NeedsThread(w)
    <2> DEFINE n == [Absent EXCEPT !.pc = "top"]
    <2>1. n \in Thread /\ n.job = NoJob /\ n.pc = "top"
      BY DEF Absent, Thread, Boxes
    <2> HIDE DEF n
    <2>2. threads' = [threads EXCEPT ![slot] = n] /\ owner' = slot /\ stopping' = FALSE
      BY <1>1 DEF Ensure, n
    <2>3. \A t \in Threads : threads'[t] = IF t = slot THEN n ELSE threads[t]
      BY <2>2 DEF TypeOK
    <2>4. threads' \in [Threads -> Thread]
      BY <2>1, <2>2 DEF TypeOK
    <2> QED BY <1>1, <2>1, <2>2, <2>3, <2>4 DEF TypeOK, Working
  <1>2. CASE ~NeedsThread(w)
    BY <1>2 DEF Ensure, TypeOK, Working
  <1> QED BY <1>1, <1>2

\* submit(k, fn).
LEMMA SubmitStep ==
    ASSUME WorkerInv, NEW k \in Keys, Submit(k)
    PROVE  WorkerInv'
  <1> DEFINE w == Reaped(SlotToUse)
             job == [key |-> k, id |-> IF Numbered THEN serial + 1 ELSE 0]
             m == IF Numbered THEN serial + 1 ELSE serial
  <1>0. TypeOK /\ Working /\ Once(boxes, threads, results, serial)
    BY DEF WorkerInv
  <1>1. HasRoom /\ results' = results /\ hangs' = hangs /\ deaths' = deaths
    BY DEF Submit
  <1>2. serial \in Nat /\ hangs \in Nat /\ deaths \in Nat /\ results \in Seq(Jobs)
        /\ Len(results) <= MaxResults /\ threads \in [Threads -> Thread]
        /\ Numbered \in BOOLEAN
    BY <1>0, OffloopAssumption DEF TypeOK
  <1>3. /\ w.inflight \in [Keys -> (0..Deadline) \cup {Free}]
        /\ w.owner \in Threads \cup {NoThread} /\ w.cur \in Boxes
        /\ w.boxes \in [Boxes -> Seq(Items)]
        /\ \A b \in Boxes : w.boxes[b] = boxes[b] \/ w.boxes[b] = <<>>
        /\ NeedsThread(w) => SlotToUse \in Threads
        /\ Overdue = {} => w.owner = owner
    BY <1>0, <1>1, ReapedFacts
  <1>4. \/ /\ inflight' = w.inflight /\ cur' = w.cur /\ boxes' = w.boxes /\ serial' = serial
           /\ UNCHANGED <<owner, threads, stopping>> \/ Ensure(w, SlotToUse)
        \/ /\ inflight' = [w.inflight EXCEPT ![k] = Deadline] /\ cur' = w.cur
           /\ boxes' = [w.boxes EXCEPT ![w.cur] = Append(@, job)]
           /\ Ensure(w, SlotToUse) /\ serial' = m
    BY Zenon DEF Submit
  <1> HIDE DEF w
  <1>5. /\ owner' \in Threads \cup {NoThread} /\ stopping' \in BOOLEAN
        /\ threads' \in [Threads -> Thread] /\ Working'
        /\ \A t \in Threads : threads'[t].job = threads[t].job \/ threads'[t].job = NoJob
    <2>1. CASE UNCHANGED <<owner, threads, stopping>>
      BY <1>0, <2>1 DEF TypeOK, Working
    <2>2. CASE Ensure(w, SlotToUse)
      BY <1>0, <1>3, <2>2, EnsureFacts
    <2> QED BY <1>4, <2>1, <2>2
  <1>6. Once(w.boxes, threads', results, serial)
    BY <1>0, <1>2, <1>3, <1>5, FewerPlaces
  <1>7. CASE inflight' = w.inflight /\ cur' = w.cur /\ boxes' = w.boxes /\ serial' = serial
    <2>1. TypeOK'
      BY <1>1, <1>2, <1>3, <1>5, <1>7 DEF TypeOK, Items
    <2>2. Once(boxes', threads', results', serial')
      BY <1>1, <1>6, <1>7
    <2> QED BY <1>5, <2>1, <2>2 DEF WorkerInv
  <1>8. CASE /\ inflight' = [w.inflight EXCEPT ![k] = Deadline] /\ cur' = w.cur
             /\ boxes' = [w.boxes EXCEPT ![w.cur] = Append(@, job)] /\ serial' = m
    <2>1. /\ job \in Jobs /\ job \in Items /\ m \in Nat
          /\ (job.id = 0 /\ m = serial) \/ (job.id = serial + 1 /\ m = serial + 1)
      <3>1. job \in Jobs
        BY <1>2 DEF Jobs
      <3>2. m \in Nat /\ ((job.id = 0 /\ m = serial) \/ (job.id = serial + 1 /\ m = serial + 1))
        BY <1>2
      <3> QED BY <3>1, <3>2 DEF Items
    <2> HIDE DEF job, m
    <2>2. Once(boxes', threads', results, serial')
      BY <1>2, <1>3, <1>5, <1>6, <1>8, <2>1, PutPlace
    <2>3. boxes' \in [Boxes -> Seq(Items)]
      <3>1. Append(w.boxes[w.cur], job) \in Seq(Items)
        BY <1>3, <2>1, AppendProperties
      <3> QED BY <1>3, <1>8, <3>1
    <2>4. inflight' \in [Keys -> (0..Deadline) \cup {Free}]
      <3>1. Deadline \in 0..Deadline
        BY OffloopAssumption
      <3> QED BY <1>3, <1>8, <3>1
    <2>5. TypeOK'
      BY <1>1, <1>2, <1>3, <1>5, <1>8, <2>1, <2>3, <2>4 DEF TypeOK, Items
    <2> QED BY <1>1, <1>5, <2>2, <2>5 DEF WorkerInv
  <1> QED BY <1>4, <1>7, <1>8

\* drain().
LEMMA DrainStep ==
    ASSUME WorkerInv, Drain
    PROVE  WorkerInv'
  <1> DEFINE w == Reaped(SlotToUse)
  <1>0. TypeOK /\ Working /\ Once(boxes, threads, results, serial)
    BY DEF WorkerInv
  <1>1. HasRoom /\ results' = <<>> /\ hangs' = hangs /\ deaths' = deaths /\ serial' = serial
    BY DEF Drain
  <1>2. serial \in Nat /\ hangs \in Nat /\ deaths \in Nat
    BY <1>0 DEF TypeOK
  <1>3. /\ w.inflight \in [Keys -> (0..Deadline) \cup {Free}]
        /\ w.owner \in Threads \cup {NoThread} /\ w.cur \in Boxes
        /\ w.boxes \in [Boxes -> Seq(Items)]
        /\ \A b \in Boxes : w.boxes[b] = boxes[b] \/ w.boxes[b] = <<>>
        /\ NeedsThread(w) => SlotToUse \in Threads
    BY <1>0, <1>1, ReapedFacts
  <1>4. /\ inflight' = w.inflight /\ cur' = w.cur /\ boxes' = w.boxes
        /\ UNCHANGED <<owner, threads, stopping>> \/ Ensure(w, SlotToUse)
    BY Zenon DEF Drain
  <1> HIDE DEF w
  <1>5. /\ owner' \in Threads \cup {NoThread} /\ stopping' \in BOOLEAN
        /\ threads' \in [Threads -> Thread] /\ Working'
        /\ \A t \in Threads : threads'[t].job = threads[t].job \/ threads'[t].job = NoJob
    <2>1. CASE UNCHANGED <<owner, threads, stopping>>
      BY <1>0, <2>1 DEF TypeOK, Working
    <2>2. CASE Ensure(w, SlotToUse)
      BY <1>0, <1>3, <2>2, EnsureFacts
    <2> QED BY <1>4, <2>1, <2>2
  <1>6. Once(w.boxes, threads', <<>>, serial)
    BY <1>0, <1>2, <1>3, <1>5, FewerPlaces
  <1>7. <<>> \in Seq(Jobs) /\ Len(<<>>) <= MaxResults
    BY EmptySeq, OffloopAssumption
  <1>8. TypeOK'
    BY <1>1, <1>2, <1>3, <1>4, <1>5, <1>7 DEF TypeOK, Items
  <1> QED BY <1>1, <1>4, <1>5, <1>6, <1>8 DEF WorkerInv

\* close().
LEMMA CloseStep ==
    ASSUME WorkerInv, Close
    PROVE  WorkerInv'
  <1>1. /\ boxes' = [boxes EXCEPT ![cur] = Append(@, Sentinel)] /\ stopping' = TRUE
        /\ UNCHANGED <<inflight, owner, threads, cur, results, serial, hangs, deaths>>
    BY DEF Close
  <1>2. /\ TypeOK /\ cur \in Boxes /\ boxes \in [Boxes -> Seq(Items)] /\ serial \in Nat
        /\ threads \in [Threads -> Thread] /\ results \in Seq(Jobs)
        /\ Once(boxes, threads, results, serial)
    BY DEF WorkerInv, TypeOK, Items
  <1>3. Sentinel \in Items /\ Sentinel.id = 0
    BY Numbers
  <1>4. Once(boxes', threads, results, serial)
    BY <1>1, <1>2, <1>3, PutPlace
  <1>5. boxes' \in [Boxes -> Seq(Items)]
    <2>1. Append(boxes[cur], Sentinel) \in Seq(Items)
      BY <1>2, <1>3, AppendProperties
    <2> QED BY <1>1, <1>2, <2>1
  <1>6. TypeOK'
    BY <1>1, <1>2, <1>5 DEF TypeOK, Items
  <1> QED BY <1>1, <1>4, <1>6 DEF WorkerInv, Working
-----------------------------------------------------------------------------
(* The threads and the clock. *)

\* A thread moves on with its job, or without one.
LEMMA MoveStep ==
    ASSUME WorkerInv, UNCHANGED <<loopless, boxes>>,
           hangs' \in Nat, deaths' \in Nat, threads' \in [Threads -> Thread], Working',
           \A t \in Threads : threads'[t].job = threads[t].job \/ threads'[t].job = NoJob
    PROVE  WorkerInv'
  <1>1. TypeOK /\ Once(boxes, threads, results, serial) /\ serial \in Nat
    BY DEF WorkerInv, TypeOK
  <1>2. Once(boxes, threads', results, serial)
    BY <1>1, FewerPlaces
  <1>3. TypeOK'
    BY <1>1 DEF TypeOK, loopless
  <1> QED BY <1>2, <1>3 DEF WorkerInv, loopless

\* One thread goes to another place of its program.
LEMMA OneMoves ==
    ASSUME WorkerInv, NEW t \in Threads, NEW r \in Thread,
           threads' = [threads EXCEPT ![t] = r], r.job = threads[t].job \/ r.job = NoJob,
           r.pc \in {"run", "hung", "done", "publish"} => r.job \in Jobs
    PROVE  /\ threads' \in [Threads -> Thread] /\ Working'
           /\ \A u \in Threads : threads'[u].job = threads[u].job \/ threads'[u].job = NoJob
  <1>1. threads \in [Threads -> Thread] /\ Working
    BY DEF WorkerInv, TypeOK
  <1>2. \A u \in Threads : threads'[u] = IF u = t THEN r ELSE threads[u]
    BY <1>1
  <1>3. threads' \in [Threads -> Thread]
    BY <1>1
  <1> QED BY <1>1, <1>2, <1>3 DEF Working

\* Every step of a thread that neither takes a job nor publishes one.
LEMMA QuietSteps ==
    ASSUME WorkerInv, NEW t \in Threads,
           Top(t) \/ Fetch(t) \/ Return(t) \/ Hang(t) \/ Recheck(t) \/ Die(t)
    PROVE  WorkerInv'
  <1>1. /\ threads \in [Threads -> Thread] /\ Working /\ hangs \in Nat /\ deaths \in Nat
        /\ cur \in Boxes
    BY DEF WorkerInv, TypeOK
  <1>2. threads[t] \in Thread
    BY <1>1
  <1>3. Absent \in Thread /\ Absent.pc = "none" /\ Absent.job = NoJob
    BY Numbers DEF Absent
  <1>4. UNCHANGED <<loopless, boxes>> /\ hangs' \in Nat /\ deaths' \in Nat
    BY <1>1 DEF Top, Fetch, Return, Hang, Recheck, Die
  <1>5. CASE threads' = [threads EXCEPT ![t] = Absent]
    <2>1. /\ threads' \in [Threads -> Thread] /\ Working'
          /\ \A u \in Threads : threads'[u].job = threads[u].job \/ threads'[u].job = NoJob
      BY <1>3, <1>5, OneMoves
    <2> QED BY <1>4, <2>1, MoveStep
  <1>6. ASSUME NEW p \in {"fetch", "hung", "done", "publish"},
               threads' = [threads EXCEPT ![t].pc = p],
               p # "fetch" => threads[t].job \in Jobs
        PROVE  WorkerInv'
    <2> DEFINE r == [threads[t] EXCEPT !.pc = p]
    <2>1. r \in Thread /\ r.pc = p /\ r.job = threads[t].job
      BY <1>2 DEF Thread
    <2>2. threads' = [threads EXCEPT ![t] = r]
      BY <1>6
    <2> HIDE DEF r
    <2>3. /\ threads' \in [Threads -> Thread] /\ Working'
          /\ \A u \in Threads : threads'[u].job = threads[u].job \/ threads'[u].job = NoJob
      BY <1>6, <2>1, <2>2, OneMoves
    <2> QED BY <1>4, <2>3, MoveStep
  <1>7. CASE Top(t)
    BY <1>5, <1>6, <1>7 DEF Top, Quit, Goto
  <1>8. CASE Fetch(t)
    <2> DEFINE r == [threads[t] EXCEPT !.pc = "wait", !.box = cur]
    <2>1. r \in Thread /\ r.pc = "wait" /\ r.job = threads[t].job
      BY <1>1, <1>2 DEF Thread
    <2>2. threads' = [threads EXCEPT ![t] = r]
      BY <1>8 DEF Fetch
    <2> HIDE DEF r
    <2>3. /\ threads' \in [Threads -> Thread] /\ Working'
          /\ \A u \in Threads : threads'[u].job = threads[u].job \/ threads'[u].job = NoJob
      BY <2>1, <2>2, OneMoves
    <2> QED BY <1>4, <2>3, MoveStep
  <1>9. CASE Return(t)
    <2>1. threads[t].job \in Jobs
      BY <1>1, <1>9 DEF Return, Working
    <2> QED BY <1>6, <1>9, <2>1 DEF Return, Goto
  <1>10. CASE Hang(t)
    <2>1. threads[t].job \in Jobs
      BY <1>1, <1>10 DEF Hang, Working
    <2> QED BY <1>6, <1>10, <2>1 DEF Hang, Goto
  <1>11. CASE Recheck(t)
    <2>1. threads[t].job \in Jobs
      BY <1>1, <1>11 DEF Recheck, Working
    <2> QED BY <1>5, <1>6, <1>11, <2>1 DEF Recheck, Goto, Quit
  <1>12. CASE Die(t)
    BY <1>5, <1>12 DEF Die, Quit
  <1> QED BY <1>7, <1>8, <1>9, <1>10, <1>11, <1>12

\* get hands the first item over, or times out.
LEMMA GetStep ==
    ASSUME WorkerInv, NEW t \in Threads, Get(t)
    PROVE  WorkerInv'
  <1> DEFINE b == threads[t].box
             x == Head(boxes[b])
  <1>1. /\ TypeOK /\ Working /\ Once(boxes, threads, results, serial)
        /\ threads \in [Threads -> Thread] /\ boxes \in [Boxes -> Seq(Items)] /\ b \in Boxes
        /\ hangs \in Nat /\ deaths \in Nat /\ serial \in Nat /\ results \in Seq(Jobs)
    <2>1. /\ TypeOK /\ Working /\ Once(boxes, threads, results, serial)
          /\ threads \in [Threads -> Thread] /\ boxes \in [Boxes -> Seq(Items)]
          /\ hangs \in Nat /\ deaths \in Nat /\ serial \in Nat /\ results \in Seq(Jobs)
      BY DEF WorkerInv, TypeOK, Items
    <2>2. threads[t] \in Thread
      BY <2>1
    <2> QED BY <2>1, <2>2 DEF Thread
  <1>2. UNCHANGED <<loopless, hangs, deaths>>
    BY DEF Get
  <1>3. Absent \in Thread /\ Absent.pc = "none" /\ Absent.job = NoJob
    BY Numbers DEF Absent
  <1>4. CASE boxes[b] = <<>>
    <2> DEFINE r == [threads[t] EXCEPT !.pc = "top", !.box = 0]
    <2>1. r \in Thread /\ r.pc = "top" /\ r.job = threads[t].job
      BY <1>1 DEF Thread, Boxes
    <2>2. threads' = [threads EXCEPT ![t] = r] /\ boxes' = boxes
      BY <1>4 DEF Get
    <2> HIDE DEF r
    <2>3. /\ threads' \in [Threads -> Thread] /\ Working'
          /\ \A u \in Threads : threads'[u].job = threads[u].job \/ threads'[u].job = NoJob
      BY <2>1, <2>2, OneMoves
    <2> QED BY <1>1, <1>2, <2>2, <2>3, MoveStep
  <1>5. CASE boxes[b] # <<>>
    <2>1. x \in Items /\ Tail(boxes[b]) \in Seq(Items)
      BY <1>1, <1>5, HeadTailProperties
    <2>2. boxes' = [boxes EXCEPT ![b] = Tail(@)] /\ Taken(t, x)
      BY <1>5 DEF Get
    <2> HIDE DEF x
    <2>3. PICK r \in Thread : /\ threads' = [threads EXCEPT ![t] = r]
                              /\ r.job = x \/ r.job = NoJob
                              /\ r.pc \in {"run", "hung", "done", "publish"} => r.job \in Jobs
      <3>1. CASE x = Sentinel
        BY <1>3, <2>2, <3>1 DEF Taken, Quit
      <3>2. CASE x # Sentinel
        <4> DEFINE r == [pc |-> "run", box |-> 0, job |-> x, age |-> 0]
        <4>1. x \in Jobs
          BY <2>1, <3>2, Numbers
        <4>2. r \in Thread /\ r.job = x
          BY <4>1 DEF Thread, Boxes
        <4>3. threads' = [threads EXCEPT ![t] = r]
          BY <2>2, <3>2 DEF Taken
        <4> HIDE DEF r
        <4> QED BY <4>1, <4>2, <4>3
      <3> QED BY <3>1, <3>2
    <2>4. \A u \in Threads : threads'[u] = IF u = t THEN r ELSE threads[u]
      BY <1>1, <2>3
    <2>5. threads' \in [Threads -> Thread] /\ Working'
      <3>1. threads' \in [Threads -> Thread]
        BY <1>1, <2>3
      <3>2. Working'
        BY <1>1, <2>3, <2>4 DEF Working
      <3> QED BY <3>1, <3>2
    <2>6. Once(boxes', threads', results, serial)
      <3>1. threads'[t].job = Head(boxes[b]) \/ threads'[t].job = NoJob
        BY <2>3, <2>4 DEF x
      <3>2. \A u \in Threads : u # t => threads'[u] = threads[u]
        BY <2>4
      <3> HIDE DEF b
      <3> QED BY <1>1, <1>5, <2>2, <3>1, <3>2, TakePlace
    <2>7. boxes' \in [Boxes -> Seq(Items)]
      BY <1>1, <2>1, <2>2
    <2>8. TypeOK'
      BY <1>1, <1>2, <2>5, <2>7 DEF TypeOK, loopless, Items
    <2> QED BY <1>2, <2>5, <2>6, <2>8 DEF WorkerInv, loopless
  <1> QED BY <1>4, <1>5

\* A result is put into the mailbox, and the oldest is dropped past the bound.
LEMMA PublishStep ==
    ASSUME WorkerInv, NEW t \in Threads, Publish(t)
    PROVE  WorkerInv'
  <1> DEFINE x == threads[t].job
             A == Append(results, x)
             n == [Absent EXCEPT !.pc = "top"]
  <1>1. /\ TypeOK /\ Working /\ Once(boxes, threads, results, serial)
        /\ threads \in [Threads -> Thread] /\ serial \in Nat /\ results \in Seq(Jobs)
        /\ Len(results) <= MaxResults
    BY DEF WorkerInv, TypeOK
  <1>2. /\ inflight' = [inflight EXCEPT ![x.key] = Free]
        /\ results' = IF Len(A) > MaxResults THEN Tail(A) ELSE A
        /\ threads' = [threads EXCEPT ![t] = n] /\ threads[t].pc = "publish"
        /\ UNCHANGED <<owner, cur, boxes, stopping, serial, hangs, deaths>>
    BY DEF Publish
  <1>3. x \in Jobs
    BY <1>1, <1>2 DEF Working
  <1>4. n \in Thread /\ n.job = NoJob /\ n.pc = "top"
    BY DEF Absent, Thread, Boxes
  <1> HIDE DEF n
  <1>5. \A u \in Threads : threads'[u] = IF u = t THEN n ELSE threads[u]
    BY <1>1, <1>2
  <1>6. threads' \in [Threads -> Thread] /\ Working'
    <2>1. threads' \in [Threads -> Thread]
      BY <1>1, <1>2, <1>4
    <2> QED BY <1>1, <1>4, <1>5, <2>1 DEF Working
  <1>7. Once(boxes, threads', results', serial)
    <2>1. threads'[t].job = NoJob /\ \A u \in Threads : u # t => threads'[u] = threads[u]
      BY <1>4, <1>5
    <2> QED BY <1>1, <1>2, <1>3, <2>1, PublishPlace
  <1>8. results' \in Seq(Jobs) /\ Len(results') <= MaxResults
    <2>1. A \in Seq(Jobs) /\ Len(A) = Len(results) + 1 /\ Len(results) \in Nat
      BY <1>1, <1>3, AppendProperties, LenProperties
    <2> HIDE DEF A
    <2>2. A # <<>>
      BY <2>1, EmptySeq
    <2>3. Tail(A) \in Seq(Jobs) /\ Len(Tail(A)) = Len(A) - 1
      BY <2>1, <2>2, HeadTailProperties
    <2> QED BY <1>1, <1>2, <2>1, <2>3, OffloopAssumption
  <1>9. inflight' \in [Keys -> (0..Deadline) \cup {Free}]
    <2>1. inflight \in [Keys -> (0..Deadline) \cup {Free}] /\ x.key \in Keys
      BY <1>1, <1>3, Numbers DEF TypeOK
    <2> HIDE DEF x
    <2> QED BY <1>2, <2>1
  <1>10. TypeOK'
    BY <1>1, <1>2, <1>6, <1>8, <1>9 DEF TypeOK
  <1> QED BY <1>2, <1>6, <1>7, <1>10 DEF WorkerInv

\* The clock goes on.
LEMMA TickStep ==
    ASSUME WorkerInv, Tick
    PROVE  WorkerInv'
  <1>1. /\ TypeOK /\ Working /\ Once(boxes, threads, results, serial)
        /\ threads \in [Threads -> Thread] /\ serial \in Nat
        /\ inflight \in [Keys -> (0..Deadline) \cup {Free}]
    BY DEF WorkerInv, TypeOK
  <1>2. /\ inflight' = [k \in Keys |-> IF inflight[k] > 0 THEN inflight[k] - 1 ELSE inflight[k]]
        /\ threads' = [t \in Threads |->
             IF threads[t].pc = "run" /\ threads[t].age < CallTime
             THEN [threads[t] EXCEPT !.age = @ + 1] ELSE threads[t]]
        /\ UNCHANGED <<owner, cur, boxes, results, stopping, serial, hangs, deaths>>
    BY DEF Tick
  <1>3. ASSUME NEW t \in Threads
        PROVE  /\ threads'[t] \in Thread /\ threads'[t].job = threads[t].job
               /\ threads'[t].pc = threads[t].pc
    <2>1. threads[t] \in Thread
      BY <1>1
    <2>2. LET r == [threads[t] EXCEPT !.age = @ + 1]
          IN  r \in Thread /\ r.job = threads[t].job /\ r.pc = threads[t].pc
      BY <2>1 DEF Thread
    <2> QED BY <1>2, <2>1, <2>2
  <1>4. threads' \in [Threads -> Thread] /\ Working'
    <2>1. threads' \in [Threads -> Thread]
      BY <1>2, <1>3
    <2> QED BY <1>1, <1>3, <2>1 DEF Working
  <1>5. inflight' \in [Keys -> (0..Deadline) \cup {Free}]
    <2> SUFFICES ASSUME NEW k \in Keys
                 PROVE  (IF inflight[k] > 0 THEN inflight[k] - 1 ELSE inflight[k])
                            \in (0..Deadline) \cup {Free}
      BY <1>2
    <2>1. inflight[k] \in (0..Deadline) \cup {Free} /\ Deadline \in Nat
      BY <1>1, OffloopAssumption
    <2> QED BY <2>1 DEF Free
  <1>6. Once(boxes', threads', results', serial')
    BY <1>1, <1>2, <1>3, FewerPlaces
  <1>7. TypeOK'
    BY <1>1, <1>2, <1>4, <1>5 DEF TypeOK
  <1> QED BY <1>4, <1>6, <1>7 DEF WorkerInv

\* Every step keeps the invariant.
LEMMA WorkerSteps == WorkerInv /\ [Next]_vars => WorkerInv'
  <1> SUFFICES ASSUME WorkerInv, [Next]_vars PROVE WorkerInv'
    OBVIOUS
  <1>1. ASSUME NEW k \in Keys, Submit(k) PROVE WorkerInv'
    BY <1>1, SubmitStep
  <1>2. CASE Drain
    BY <1>2, DrainStep
  <1>3. CASE Close
    BY <1>3, CloseStep
  <1>4. ASSUME NEW t \in Threads, ThreadStep(t) \/ Hang(t) \/ Die(t) PROVE WorkerInv'
    <2>1. CASE Get(t)
      BY <2>1, GetStep
    <2>2. CASE Publish(t)
      BY <2>2, PublishStep
    <2>3. CASE Top(t) \/ Fetch(t) \/ Return(t) \/ Hang(t) \/ Recheck(t) \/ Die(t)
      BY <2>3, QuietSteps
    <2> QED BY <1>4, <2>1, <2>2, <2>3 DEF ThreadStep
  <1>5. CASE Tick
    BY <1>5, TickStep
  <1>6. CASE UNCHANGED vars
    <2>1. UNCHANGED <<loopless, boxes, threads, hangs, deaths>>
      BY <1>6 DEF vars, loopless
    <2> QED BY <2>1 DEF WorkerInv, TypeOK, Working, loopless
  <1> QED BY <1>1, <1>2, <1>3, <1>4, <1>5, <1>6 DEF Next

\* A worker is born without thread, queue or result.
LEMMA WorkerStarts == Init => WorkerInv
  <1> SUFFICES ASSUME Init PROVE WorkerInv
    OBVIOUS
  <1>1. /\ inflight = [k \in Keys |-> Free] /\ owner = NoThread
        /\ threads = [t \in Threads |-> Absent] /\ cur = 0
        /\ boxes = [b \in Boxes |-> <<>>] /\ results = <<>>
        /\ stopping = FALSE /\ serial = 0 /\ hangs = 0 /\ deaths = 0
    BY DEF Init
  <1>2. <<>> \in Seq(Items) /\ <<>> \in Seq(Jobs) /\ Len(<<>>) = 0
    BY EmptySeq
  <1>3. Absent \in Thread /\ Absent.pc = "none" /\ Absent.job.id = 0
    BY Numbers DEF Absent
  <1>4. TypeOK
    <2>1. results \in Seq(Jobs) /\ Len(results) <= MaxResults
      BY <1>1, <1>2, OffloopAssumption
    <2>2. boxes \in [Boxes -> Seq(Jobs \cup {Sentinel})]
      BY <1>1, <1>2 DEF Items
    <2>3. inflight \in [Keys -> (0..Deadline) \cup {Free}] /\ threads \in [Threads -> Thread]
      BY <1>1, <1>3
    <2>4. {serial, hangs, deaths} \subseteq Nat /\ cur \in Boxes
      BY <1>1 DEF Boxes
    <2> QED BY <1>1, <2>1, <2>2, <2>3, <2>4 DEF TypeOK
  <1>5. \A i : i \notin 1..Len(<<>>)
    BY <1>2
  <1>6. Once(boxes, threads, results, serial)
    BY <1>1, <1>3, <1>5 DEF Once, Given, OneQueue, OneThread, OneResult, QueuedOrTaken,
                          QueuedOrDone, TakenOrDone
  <1>7. Working
    BY <1>1, <1>3 DEF Working
  <1> QED BY <1>4, <1>6, <1>7 DEF WorkerInv

\* Two members that are one make no more than one.
LEMMA AtMostOne ==
    ASSUME NEW S, \A x, y \in S : x = y
    PROVE  /\ Cardinality(S) \in {0, 1} /\ (S = {} => Cardinality(S) = 0)
  <1>1. CASE S = {}
    BY <1>1, FS_EmptySet
  <1>2. CASE S # {}
    <2>1. PICK x \in S : S = {x}
      BY <1>2
    <2> QED BY <1>2, <2>1, FS_Singleton
  <1> QED BY <1>1, <1>2

\* Every number is found in one place.
LEMMA FoundOnce == WorkerInv => JobsOnce
  <1> SUFFICES ASSUME WorkerInv, NEW id \in 1..serial PROVE CopyCount(id) <= 1
    BY DEF JobsOnce
  <1> DEFINE P == {p \in Boxes \X (1..MaxJobs) : p[2] \in Copies(id)[p[1]]}
             H == {t \in Threads : threads[t].job.id = id}
             D == {i \in 1..Len(results) : results[i].id = id}
  <1>1. Once(boxes, threads, results, serial) /\ id # 0
    BY DEF WorkerInv, TypeOK
  <1>2. \A p \in P : p = <<p[1], p[2]>> /\ p[1] \in Boxes /\ p[2] \in 1..Len(boxes[p[1]])
                     /\ boxes[p[1]][p[2]].id = id
    BY DEF Copies
  <1>3. \A p, q \in P : p = q
    <2> SUFFICES ASSUME NEW p \in P, NEW q \in P PROVE p = q
      OBVIOUS
    <2>1. p[1] = q[1] /\ p[2] = q[2]
      <3> HIDE DEF P
      <3> QED BY <1>1, <1>2 DEF Once, OneQueue
    <2>2. p = <<p[1], p[2]>> /\ q = <<q[1], q[2]>>
      BY <1>2
    <2> QED BY <2>1, <2>2
  <1>4. \A t, u \in H : t = u
    BY <1>1 DEF Once, OneThread
  <1>5. \A i, j \in D : i = j
    BY <1>1 DEF Once, OneResult
  <1>6. (P = {} \/ H = {}) /\ (P = {} \/ D = {}) /\ (H = {} \/ D = {})
    <2>1. P = {} \/ H = {}
      <3> SUFFICES ASSUME NEW p \in P, NEW t \in H PROVE FALSE
        OBVIOUS
      <3>1. threads[t].job.id = id /\ t \in Threads
        OBVIOUS
      <3> QED BY <1>1, <1>2, <3>1 DEF Once, QueuedOrTaken
    <2>2. P = {} \/ D = {}
      <3> SUFFICES ASSUME NEW p \in P, NEW i \in D PROVE FALSE
        OBVIOUS
      <3>1. results[i].id = id /\ i \in 1..Len(results)
        OBVIOUS
      <3> QED BY <1>1, <1>2, <3>1 DEF Once, QueuedOrDone
    <2>3. H = {} \/ D = {}
      BY <1>1 DEF Once, TakenOrDone
    <2> QED BY <2>1, <2>2, <2>3
  <1>7. CopyCount(id) = Cardinality(P) + Cardinality(H) + Cardinality(D)
    BY DEF CopyCount
  <1> HIDE DEF P, H, D
  <1>8. /\ Cardinality(P) \in {0, 1} /\ (P = {} => Cardinality(P) = 0)
        /\ Cardinality(H) \in {0, 1} /\ (H = {} => Cardinality(H) = 0)
        /\ Cardinality(D) \in {0, 1} /\ (D = {} => Cardinality(D) = 0)
    BY <1>3, <1>4, <1>5, AtMostOne
  <1> QED BY <1>6, <1>7, <1>8

\* Whatever the loop, the threads, the clock and hung calls do, every variable of
\* the worker stays in its range: no deadline of a key not in flight, no thread in
\* the middle of a call without a job, no more results than the mailbox holds
\* (offloop.py: submit, drain, _run).
THEOREM WorkerTyped == Spec => []TypeOK
  <1>1. WorkerInv => TypeOK
    BY DEF WorkerInv
  <1> QED BY <1>1, WorkerStarts, WorkerSteps, PTL DEF Spec

\* Every submission is in one place at most, a queue, a thread or the mailbox, for
\* any number of threads given up and left alive: no venue call is made twice
\* (offloop.py: _reap_overdue, _ensure_thread, _run).
THEOREM JobsRunOnce == Spec => []JobsOnce
  BY WorkerStarts, WorkerSteps, FoundOnce, PTL DEF Spec
=============================================================================
