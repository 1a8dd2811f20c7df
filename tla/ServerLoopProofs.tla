--------------------------- MODULE ServerLoopProofs ---------------------------
(***************************************************************************)
(* Proofs about ServerLoop, for every number of slots, requests and tasks, *)
(* and whatever fails: types, a slot in use stays with its task, and the   *)
(* main thread sleeps only when nothing is left to do.                     *)
(*                                                                         *)
(* Every action is first reduced to what it does to the slots, the queues  *)
(* and the results (HandleEffect, PassEffect); the invariants of this      *)
(* module and of ServerTaskProofs are proved from those.                   *)
(***************************************************************************)
EXTENDS ServerLoop, Induction, SequenceTheorems

-----------------------------------------------------------------------------
(* The queues                                                               *)

\* The queue holds a task (a result) of the id t; it holds at most one.
Holds(q, t) == \E i \in DOMAIN q : q[i].id = t
HoldsOnce(q, t) == \A i, j \in DOMAIN q : q[i].id = t /\ q[j].id = t => i = j

\* Every element of p is one of q.
DrawnFrom(p, q) == \A k \in DOMAIN p : \E i \in DOMAIN q : p[k] = q[i]

-----------------------------------------------------------------------------
(* cleanup_pending_task                                                     *)

\* What the recursion of CleanupPendingTask computes for the first n tasks.
IsKept(f, q, targets, n) ==
    f = [i \in 0..n |-> IF i = 0 THEN <<>>
                        ELSE IF q[i].id \in targets THEN f[i - 1]
                        ELSE Append(f[i - 1], q[i])]

\* The recursion at one task.
LEMMA KeptAt ==
    ASSUME NEW f, NEW q, NEW targets, NEW n, IsKept(f, q, targets, n),
           NEW i, i \in 0..n, i # 0
    PROVE  f[i] = IF q[i].id \in targets THEN f[i - 1] ELSE Append(f[i - 1], q[i])
BY DEF IsKept

\* The recursion has a solution.
LEMMA KeptExists ==
    ASSUME NEW q, NEW targets, NEW n \in Nat PROVE \E f : IsKept(f, q, targets, n)
<1> DEFINE S == {m \in Nat : \E f : IsKept(f, q, targets, m)}
<1>1. 0 \in S
  <2> DEFINE f == [i \in 0..0 |-> <<>>]
  <2>1. IsKept(f, q, targets, 0)
    BY DEF IsKept
  <2>. QED BY <2>1
<1>2. ASSUME NEW m \in Nat, m \in S PROVE m + 1 \in S
  <2>1. PICK f : IsKept(f, q, targets, m)
    BY <1>2
  <2> DEFINE next == IF q[m + 1].id \in targets THEN f[m] ELSE Append(f[m], q[m + 1])
             g == [i \in 0..(m + 1) |-> IF i = m + 1 THEN next ELSE f[i]]
             h == [i \in 0..(m + 1) |-> IF i = 0 THEN <<>>
                        ELSE IF q[i].id \in targets THEN g[i - 1]
                        ELSE Append(g[i - 1], q[i])]
  <2>2. \A i \in 0..(m + 1) : g[i] = h[i]
    <3> SUFFICES ASSUME NEW i \in 0..(m + 1) PROVE g[i] = h[i]
      OBVIOUS
    <3>1. CASE i = m + 1
      BY <3>1
    <3>2. CASE i = 0
      BY <2>1, <3>2 DEF IsKept
    <3>3. CASE i \in 1..m
      <4>1. g[i] = f[i] /\ g[i - 1] = f[i - 1]
        BY <3>3
      <4>2. f[i] = IF q[i].id \in targets THEN f[i - 1] ELSE Append(f[i - 1], q[i])
        BY <2>1, <3>3, KeptAt
      <4>. QED BY <3>3, <4>1, <4>2
    <3>. QED BY <3>1, <3>2, <3>3
  <2>3. g = h
    <3> HIDE DEF next
    <3>. QED BY <2>2
  <2>4. IsKept(g, q, targets, m + 1)
    <3> HIDE DEF g
    <3>. QED BY <2>3 DEF IsKept
  <2>. QED BY <2>4
<1>3. n \in S
  <2> HIDE DEF S
  <2>. QED BY <1>1, <1>2, SetInduction
<1>. QED BY <1>3

\* CleanupPendingTask removes the tasks with an id among the targets and no
\* other: the rest is neither lost nor duplicated, and nothing is added.
LEMMA CleanupFacts ==
    ASSUME NEW S, NEW q \in Seq(S), NEW targets
    PROVE  /\ CleanupPendingTask(q, targets) \in Seq(S)
           /\ DrawnFrom(CleanupPendingTask(q, targets), q)
           /\ \A t : Holds(CleanupPendingTask(q, targets), t)
                        <=> Holds(q, t) /\ t \notin targets
           /\ \A t : HoldsOnce(q, t) => HoldsOnce(CleanupPendingTask(q, targets), t)
<1> DEFINE n == Len(q)
<1>1. PICK f : IsKept(f, q, targets, n) /\ CleanupPendingTask(q, targets) = f[n]
  <2>1. n \in Nat
    OBVIOUS
  <2>2. \E f : IsKept(f, q, targets, n)
    BY <2>1, KeptExists
  <2>. QED BY <2>2 DEF CleanupPendingTask, IsKept
<1> DEFINE Held(m, t) == \E i \in 1..m : q[i].id = t
           Once(m, t) == \A i, j \in 1..m : q[i].id = t /\ q[j].id = t => i = j
           Good(m) == /\ f[m] \in Seq(S)
                      /\ DrawnFrom(f[m], q)
                      /\ \A t : Holds(f[m], t) <=> Held(m, t) /\ t \notin targets
                      /\ \A t : Once(m, t) => HoldsOnce(f[m], t)
           T == {m \in Nat : m <= n => Good(m)}
<1>2. 0 \in T
  <2>1. f[0] = <<>>
    BY <1>1 DEF IsKept
  <2>2. f[0] \in Seq(S) /\ DOMAIN f[0] = {}
    BY <2>1
  <2>3. DrawnFrom(f[0], q) /\ \A t : ~Holds(f[0], t) /\ HoldsOnce(f[0], t)
    BY <2>2 DEF Holds, HoldsOnce, DrawnFrom
  <2>4. \A t : ~Held(0, t)
    OBVIOUS
  <2>5. Good(0)
    <3> HIDE DEF Held, Once
    <3>. QED BY <2>2, <2>3, <2>4
  <2>. QED BY <2>5
<1>3. ASSUME NEW m \in Nat, m \in T PROVE m + 1 \in T
  <2> SUFFICES ASSUME m + 1 <= n PROVE Good(m + 1)
    OBVIOUS
  <2>1. Good(m)
    BY <1>3
  <2>2. m + 1 \in DOMAIN q /\ q[m + 1] \in S
    OBVIOUS
  <2>3. f[m + 1] = IF q[m + 1].id \in targets THEN f[m] ELSE Append(f[m], q[m + 1])
    <3>1. m + 1 \in 0..n /\ m + 1 # 0 /\ (m + 1) - 1 = m
      OBVIOUS
    <3> DEFINE j == m + 1
    <3>2. f[j] = IF q[j].id \in targets THEN f[j - 1] ELSE Append(f[j - 1], q[j])
      <4> HIDE DEF j, n
      <4>1. j \in 0..n /\ j # 0
        BY <3>1 DEF j
      <4>. QED BY <1>1, <4>1, KeptAt
    <3>. QED BY <3>1, <3>2
  <2>4. \A t : Held(m + 1, t) <=> Held(m, t) \/ q[m + 1].id = t
    OBVIOUS
  <2>5. \A t : Once(m + 1, t) => Once(m, t) /\ (q[m + 1].id = t => ~Held(m, t))
    <3> SUFFICES ASSUME NEW t, Once(m + 1, t)
                 PROVE  Once(m, t) /\ (q[m + 1].id = t => ~Held(m, t))
      OBVIOUS
    <3>1. Once(m, t)
      OBVIOUS
    <3>2. ASSUME NEW i \in 1..m, q[i].id = t, q[m + 1].id = t PROVE FALSE
      <4>1. i = m + 1
        BY <3>2
      <4>. QED BY <4>1
    <3>. QED BY <3>1, <3>2
  <2>6. CASE q[m + 1].id \in targets
    BY <2>1, <2>3, <2>4, <2>5, <2>6
  <2>7. CASE q[m + 1].id \notin targets
    <3> DEFINE p == f[m]
               e == q[m + 1]
    <3>0. p \in Seq(S) /\ e \in S /\ f[m + 1] = Append(p, e)
      BY <2>1, <2>2, <2>3, <2>7
    <3>1. /\ DOMAIN Append(p, e) = 1..(Len(p) + 1) /\ DOMAIN p = 1..Len(p)
          /\ \A i \in DOMAIN p : Append(p, e)[i] = p[i]
          /\ Append(p, e)[Len(p) + 1] = e /\ Len(p) \in Nat
      BY <3>0
    <3>2. f[m + 1] \in Seq(S)
      BY <3>0
    <3>3. DrawnFrom(Append(p, e), q)
      <4>1. DrawnFrom(p, q)
        BY <2>1
      <4> HIDE DEF p, e
      <4>2. e = q[m + 1]
        BY DEF e
      <4>. QED BY <2>2, <3>1, <4>1, <4>2 DEF DrawnFrom
    <3>4. \A t : Holds(Append(p, e), t) <=> Holds(p, t) \/ e.id = t
      <4> HIDE DEF p, e
      <4>. QED BY <3>1 DEF Holds
    <3>5. \A t : HoldsOnce(p, t) /\ (e.id = t => ~Holds(p, t)) => HoldsOnce(Append(p, e), t)
      <4> HIDE DEF p, e
      <4>. QED BY <3>1 DEF Holds, HoldsOnce
    <3>6. \A t : Holds(p, t) <=> Held(m, t) /\ t \notin targets
      BY <2>1
    <3>7. \A t : Once(m, t) => HoldsOnce(p, t)
      BY <2>1
    <3>8. \A t : Holds(f[m + 1], t) <=> Held(m + 1, t) /\ t \notin targets
      <4> HIDE DEF Held, p
      <4>. QED BY <2>4, <2>7, <3>0, <3>4, <3>6
    <3>9. \A t : Once(m + 1, t) => HoldsOnce(f[m + 1], t)
      <4> HIDE DEF Held, Once, p
      <4>. QED BY <2>5, <3>0, <3>5, <3>6, <3>7
    <3>. QED BY <3>0, <3>2, <3>3, <3>8, <3>9
  <2>. QED BY <2>6, <2>7
<1>4. n \in T
  <2>1. n \in Nat
    OBVIOUS
  <2> HIDE DEF T
  <2>. QED BY <1>2, <1>3, <2>1, SetInduction
<1>5. Good(n)
  BY <1>4
<1>6. \A t : (Held(n, t) <=> Holds(q, t)) /\ (Once(n, t) <=> HoldsOnce(q, t))
  BY DEF Holds, HoldsOnce
<1> HIDE DEF Held, Once
<1>. QED BY <1>1, <1>5, <1>6

-----------------------------------------------------------------------------
(* post, defer, notify_slot_changed and the pop                             *)

\* push_back: post(task) and defer(task).
LEMMA AppendFacts ==
    ASSUME NEW S, NEW q \in Seq(S), NEW e \in S
    PROVE  /\ Append(q, e) \in Seq(S)
           /\ \A t : Holds(Append(q, e), t) <=> Holds(q, t) \/ e.id = t
           /\ \A t : HoldsOnce(q, t) /\ (e.id = t => ~Holds(q, t)) => HoldsOnce(Append(q, e), t)
<1>1. /\ DOMAIN Append(q, e) = 1..(Len(q) + 1) /\ DOMAIN q = 1..Len(q)
      /\ \A i \in DOMAIN q : Append(q, e)[i] = q[i]
      /\ Append(q, e)[Len(q) + 1] = e /\ Len(q) \in Nat
  OBVIOUS
<1>. QED BY <1>1 DEF Holds, HoldsOnce

\* One queue behind the other: post(tasks) and notify_slot_changed.
LEMMA ConcatFacts ==
    ASSUME NEW S, NEW p \in Seq(S), NEW q \in Seq(S)
    PROVE  /\ p \o q \in Seq(S)
           /\ \A t : Holds(p \o q, t) <=> Holds(p, t) \/ Holds(q, t)
           /\ \A t : HoldsOnce(p, t) /\ HoldsOnce(q, t) /\ ~(Holds(p, t) /\ Holds(q, t))
                        => HoldsOnce(p \o q, t)
<1>1. /\ DOMAIN (p \o q) = 1..(Len(p) + Len(q)) /\ DOMAIN p = 1..Len(p) /\ DOMAIN q = 1..Len(q)
      /\ Len(p) \in Nat /\ Len(q) \in Nat
      /\ \A i \in DOMAIN p : (p \o q)[i] = p[i]
      /\ \A i \in DOMAIN q : (p \o q)[Len(p) + i] = q[i]
  OBVIOUS
<1>2. p \o q \in Seq(S)
  OBVIOUS
<1>3. ASSUME NEW i \in DOMAIN (p \o q)
      PROVE  \/ i \in DOMAIN p /\ (p \o q)[i] = p[i]
             \/ i - Len(p) \in DOMAIN q /\ (p \o q)[i] = q[i - Len(p)]
  BY <1>1
<1>4. ASSUME NEW t PROVE Holds(p \o q, t) <=> Holds(p, t) \/ Holds(q, t)
  <2>1. ASSUME NEW i \in DOMAIN p, p[i].id = t PROVE Holds(p \o q, t)
    BY <1>1, <2>1 DEF Holds
  <2>2. ASSUME NEW i \in DOMAIN q, q[i].id = t PROVE Holds(p \o q, t)
    <3>1. Len(p) + i \in DOMAIN (p \o q) /\ (p \o q)[Len(p) + i] = q[i]
      BY <1>1
    <3>. QED BY <2>2, <3>1 DEF Holds
  <2>3. ASSUME NEW i \in DOMAIN (p \o q), (p \o q)[i].id = t PROVE Holds(p, t) \/ Holds(q, t)
    BY <1>3, <2>3 DEF Holds
  <2>. QED BY <2>1, <2>2, <2>3 DEF Holds
<1>5. ASSUME NEW t, HoldsOnce(p, t), HoldsOnce(q, t), ~(Holds(p, t) /\ Holds(q, t))
      PROVE  HoldsOnce(p \o q, t)
  <2> SUFFICES ASSUME NEW i \in DOMAIN (p \o q), NEW j \in DOMAIN (p \o q),
                      (p \o q)[i].id = t, (p \o q)[j].id = t
               PROVE  i = j
    BY DEF HoldsOnce
  <2>1. CASE i \in DOMAIN p /\ j \in DOMAIN p
    BY <1>1, <1>5, <2>1 DEF HoldsOnce
  <2>2. CASE i \notin DOMAIN p /\ j \notin DOMAIN p
    <3>1. /\ i - Len(p) \in DOMAIN q /\ q[i - Len(p)].id = t
          /\ j - Len(p) \in DOMAIN q /\ q[j - Len(p)].id = t
      BY <1>3, <2>2
    <3>2. i - Len(p) = j - Len(p)
      BY <1>5, <3>1 DEF HoldsOnce
    <3>. QED BY <1>1, <3>2
  <2>3. CASE (i \in DOMAIN p) # (j \in DOMAIN p)
    <3>1. Holds(p, t) /\ Holds(q, t)
      BY <1>1, <1>3, <2>3 DEF Holds
    <3>. QED BY <1>5, <3>1
  <2>. QED BY <2>1, <2>2, <2>3
<1>. QED BY <1>2, <1>4, <1>5

\* pop_front: the loop takes the first task.
LEMMA TailFacts ==
    ASSUME NEW S, NEW q \in Seq(S), q # <<>>
    PROVE  /\ Head(q) \in S /\ Tail(q) \in Seq(S)
           /\ \A t : Holds(q, t) <=> Head(q).id = t \/ Holds(Tail(q), t)
           /\ \A t : HoldsOnce(q, t) => /\ HoldsOnce(Tail(q), t)
                                        /\ Head(q).id = t => ~Holds(Tail(q), t)
<1>1. /\ Head(q) = q[1] /\ 1 \in DOMAIN q /\ Len(q) \in Nat \ {0} /\ DOMAIN q = 1..Len(q)
      /\ DOMAIN Tail(q) = 1..(Len(q) - 1) /\ \A i \in DOMAIN Tail(q) : Tail(q)[i] = q[i + 1]
      /\ Head(q) \in S /\ Tail(q) \in Seq(S)
  OBVIOUS
<1>2. \A i \in DOMAIN Tail(q) : i + 1 \in DOMAIN q
  BY <1>1
<1>3. \A i \in DOMAIN q : i = 1 \/ (i - 1 \in DOMAIN Tail(q) /\ Tail(q)[i - 1] = q[i])
  BY <1>1
<1>4. ASSUME NEW t PROVE Holds(q, t) <=> Head(q).id = t \/ Holds(Tail(q), t)
  BY <1>1, <1>2, <1>3 DEF Holds
<1>5. ASSUME NEW t, HoldsOnce(q, t)
      PROVE  HoldsOnce(Tail(q), t) /\ (Head(q).id = t => ~Holds(Tail(q), t))
  <2>1. HoldsOnce(Tail(q), t)
    <3> SUFFICES ASSUME NEW i \in DOMAIN Tail(q), NEW j \in DOMAIN Tail(q),
                        Tail(q)[i].id = t, Tail(q)[j].id = t
                 PROVE  i = j
      BY DEF HoldsOnce
    <3>1. i + 1 = j + 1
      BY <1>1, <1>2, <1>5 DEF HoldsOnce
    <3>. QED BY <1>1, <3>1
  <2>2. ASSUME NEW i \in DOMAIN Tail(q), Tail(q)[i].id = t, Head(q).id = t PROVE FALSE
    <3>1. i + 1 = 1
      BY <1>1, <1>2, <1>5, <2>2 DEF HoldsOnce
    <3>. QED BY <1>1, <3>1
  <2>. QED BY <2>1, <2>2 DEF Holds
<1>. QED BY <1>1, <1>4, <1>5

\* A queue of tasks of a kind is one of any larger kind.
LEMMA SeqMonotone == ASSUME NEW S, NEW T, S \subseteq T, NEW q \in Seq(S) PROVE q \in Seq(T)
<1>1. Len(q) \in Nat /\ q = [i \in 1..Len(q) |-> q[i]] /\ \A i \in 1..Len(q) : q[i] \in T
  OBVIOUS
<1>. QED BY <1>1

-----------------------------------------------------------------------------
(* server_response                                                          *)

\* recv finds the first result it waits for.
LEMMA FirstMineFacts ==
    ASSUME NEW S, NEW results \in Seq(S), NEW ids, Mine(results, ids) # {}
    PROVE  /\ FirstMine(results, ids) \in DOMAIN results
           /\ results[FirstMine(results, ids)].id \in ids
<1>1. Mine(results, ids) \subseteq Nat
  BY DEF Mine
<1>2. \E i \in Mine(results, ids) : \A j \in Mine(results, ids) : ~(j < i)
  BY <1>1, LeastNat
<1>3. \E i \in Mine(results, ids) : \A j \in Mine(results, ids) : i <= j
  BY <1>1, <1>2
<1>4. FirstMine(results, ids) \in Mine(results, ids)
  BY <1>3 DEF FirstMine
<1>. QED BY <1>4 DEF Mine

\* erase: the results before and behind keep their order.
LEMMA RemoveAtFacts ==
    ASSUME NEW S, NEW q \in Seq(S), NEW i \in DOMAIN q
    PROVE  /\ RemoveAt(q, i) \in Seq(S)
           /\ DOMAIN RemoveAt(q, i) = 1..(Len(q) - 1)
           /\ \A k \in 1..(Len(q) - 1) : RemoveAt(q, i)[k] = IF k < i THEN q[k] ELSE q[k + 1]
<1> DEFINE a == SubSeq(q, 1, i - 1)
           b == SubSeq(q, i + 1, Len(q))
<1>1. i \in 1..Len(q) /\ Len(q) \in Nat
  OBVIOUS
<1>2. a \in Seq(S) /\ Len(a) = i - 1 /\ \A k \in 1..(i - 1) : a[k] = q[k]
  BY <1>1
<1>3. b \in Seq(S) /\ Len(b) = Len(q) - i /\ \A k \in 1..(Len(q) - i) : b[k] = q[i + k]
  BY <1>1
<1>4. RemoveAt(q, i) = a \o b
  BY DEF RemoveAt
<1> HIDE DEF a, b
<1>5. a \o b \in Seq(S) /\ Len(a \o b) = Len(q) - 1
  BY <1>1, <1>2, <1>3
<1>6. ASSUME NEW k \in 1..(Len(q) - 1) PROVE (a \o b)[k] = IF k < i THEN q[k] ELSE q[k + 1]
  <2>1. CASE k < i
    BY <1>1, <1>2, <1>3, <2>1
  <2>2. CASE ~(k < i)
    <3>1. k - (i - 1) \in 1..(Len(q) - i) /\ (a \o b)[k] = b[k - (i - 1)]
      BY <1>1, <1>2, <1>3, <2>2
    <3>2. i + (k - (i - 1)) = k + 1
      BY <1>1
    <3>. QED BY <1>3, <2>2, <3>1, <3>2
  <2>. QED BY <2>1, <2>2
<1>. QED BY <1>4, <1>5, <1>6

-----------------------------------------------------------------------------
(* Slots                                                                    *)

\* The slots the program can be in: the budget of a generating slot is not
\* used up, a tokenized prompt that is being loaded has a batch left, and a
\* slot in use has a task; a generating slot has no command left to carry out.
GoodSlot ==
    {x \in Slot : /\ Processing(x) => x.n_decoded < MaxTokens /\ x.command = "NONE"
                  /\ Loading(x) /\ x.tokenized => x.left # 0
                  /\ IsProcessing(x) => x.id_task \in ReaderTasks}

\* A change of a slot that neither gives it another task nor puts it to work
\* nor makes it available.
Calm(x, y) ==
    /\ y \in GoodSlot /\ y.id_task = x.id_task
    /\ IsProcessing(y) => IsProcessing(x)
    /\ ~Available(x) => ~Available(y)

\* release(), in both forms, is such a change.
LEMMA ReleaseCalm ==
    ASSUME NEW x \in GoodSlot PROVE Calm(x, x) /\ Calm(x, Release(x)) /\ Calm(x, ForceRelease(x))
<1>1. Calm(x, ForceRelease(x))
  BY DEF Calm, GoodSlot, Slot, Processing, Loading, IsProcessing, Available, ForceRelease
<1>2. Calm(x, x)
  BY DEF Calm
<1>3. Calm(x, Release(x))
  BY <1>1, <1>2 DEF Release, ForceRelease
<1>. QED BY <1>1, <1>2, <1>3

\* A batch of the prompt, the start of the generation and a token.
LEMMA PromptCalm ==
    ASSUME NEW x \in GoodSlot, Loading(x), NEW n \in 1..MaxChunks
    PROVE  /\ Calm(x, [x EXCEPT !.tokenized = TRUE, !.left = n])
           /\ n # 1 => Calm(x, [x EXCEPT !.tokenized = TRUE, !.left = n - 1])
           /\ Calm(x, [[x EXCEPT !.tokenized = TRUE, !.left = n - 1]
                         EXCEPT !.state = "PROCESSING", !.command = "NONE", !.n_decoded = 0])
<1>0. n \in 0..MaxChunks /\ n - 1 \in 0..MaxChunks /\ n # 0 /\ (n # 1 => n - 1 # 0)
      /\ 0 \in 0..MaxTokens /\ 0 < MaxTokens
  BY ConstantsAssumption
<1>1. Calm(x, [x EXCEPT !.tokenized = TRUE, !.left = n])
  BY <1>0 DEF Calm, GoodSlot, Slot, Processing, Loading, IsProcessing, Available
<1>2. n # 1 => Calm(x, [x EXCEPT !.tokenized = TRUE, !.left = n - 1])
  BY <1>0 DEF Calm, GoodSlot, Slot, Processing, Loading, IsProcessing, Available
<1>3. Calm(x, [[x EXCEPT !.tokenized = TRUE, !.left = n - 1]
                 EXCEPT !.state = "PROCESSING", !.command = "NONE", !.n_decoded = 0])
  <2> DEFINE m == n - 1
  <2>1. m \in 0..MaxChunks
    BY <1>0
  <2> HIDE DEF m
  <2>2. Calm(x, [[x EXCEPT !.tokenized = TRUE, !.left = m]
                 EXCEPT !.state = "PROCESSING", !.command = "NONE", !.n_decoded = 0])
    BY <1>0, <2>1 DEF Calm, GoodSlot, Slot, Processing, Loading, IsProcessing, Available
  <2>. QED BY <2>2 DEF m
<1>. QED BY <1>1, <1>2, <1>3

\* A slot that counts a token, and perhaps ends with it, keeps its task.
LEMMA TokenCalm ==
    ASSUME NEW x \in GoodSlot, Processing(x)
    PROVE  /\ x.n_decoded + 1 < MaxTokens => Calm(x, [x EXCEPT !.n_decoded = x.n_decoded + 1])
           /\ Calm(x, Release([x EXCEPT !.n_decoded = x.n_decoded + 1]))
           /\ ~IsProcessing(Release([x EXCEPT !.n_decoded = x.n_decoded + 1]))
<1> DEFINE n == x.n_decoded + 1
<1>0. n \in 0..MaxTokens
  BY ConstantsAssumption DEF GoodSlot, Slot
<1> HIDE DEF n
<1>1. n < MaxTokens => Calm(x, [x EXCEPT !.n_decoded = n])
  BY <1>0 DEF Calm, GoodSlot, Slot, Processing, Loading, IsProcessing, Available
<1>2. Calm(x, ForceRelease([x EXCEPT !.n_decoded = n])) /\ Processing([x EXCEPT !.n_decoded = n])
  BY <1>0 DEF Calm, GoodSlot, Slot, Processing, Loading, IsProcessing, Available, ForceRelease
<1>3. Release([x EXCEPT !.n_decoded = n]) = ForceRelease([x EXCEPT !.n_decoded = n])
  BY <1>2 DEF Release, ForceRelease
<1>4. ~IsProcessing(ForceRelease([x EXCEPT !.n_decoded = n]))
  BY <1>2 DEF Calm, GoodSlot, Slot, Processing, Loading, IsProcessing, ForceRelease
<1>. QED BY <1>1, <1>2, <1>3, <1>4 DEF n

\* A released slot is free; release leaves a loading slot as it is.
LEMMA ReleasedIdle ==
    ASSUME NEW x \in GoodSlot
    PROVE  ~IsProcessing(ForceRelease(x)) /\ (Loading(x) => Release(x) = x)
           /\ (Processing(x) => ~IsProcessing(Release(x)))
BY DEF GoodSlot, Slot, Processing, Loading, IsProcessing, ForceRelease, Release

\* release_slots frees a slot; a launch takes a free one.
LEMMA FreedGood ==
    ASSUME NEW x \in GoodSlot
    PROVE  /\ Freed(x) \in GoodSlot /\ Freed(x).id_task = x.id_task
           /\ IsProcessing(Freed(x)) => IsProcessing(x)
<1>0. 0 \in 0..MaxChunks /\ 0 \in 0..MaxTokens /\ 0 < MaxTokens
  BY ConstantsAssumption
<1>1. Freed(x) \in Slot /\ Freed(x).id_task = x.id_task /\ Freed(x).state = x.state
      /\ Freed(x).command = "NONE" /\ Freed(x).n_decoded = 0
  BY <1>0 DEF GoodSlot, Slot, Freed
<1>. QED BY <1>0, <1>1 DEF GoodSlot, Processing, Loading, IsProcessing, Slot

\* A launch gives an available slot the task, and the slot is in use when its prompt loads.
LEMMA LaunchGood ==
    ASSUME NEW x \in GoodSlot, Available(x), NEW t \in ReaderTasks
    PROVE  /\ Reset(x, t) \in GoodSlot /\ Reset(x, t).id_task = t
           /\ Available(Reset(x, t))
           /\ LoadPrompt(Reset(x, t)) \in GoodSlot /\ LoadPrompt(Reset(x, t)).id_task = t
           /\ IsProcessing(LoadPrompt(Reset(x, t)))
<1> DEFINE y == Reset(x, t)
<1>0. 0 \in 0..MaxChunks
  BY ConstantsAssumption
<1>1. /\ y \in Slot /\ y.id_task = t /\ ~y.tokenized
      /\ y.state = "IDLE" /\ y.command = "NONE"
  BY <1>0 DEF GoodSlot, Slot, Reset, Available
<1> HIDE DEF y
<1>2. /\ LoadPrompt(y) \in Slot /\ LoadPrompt(y).id_task = t /\ ~LoadPrompt(y).tokenized
      /\ LoadPrompt(y).state = "IDLE" /\ LoadPrompt(y).command = "LOAD_PROMPT"
  BY <1>1 DEF Slot, LoadPrompt
<1>. QED BY <1>1, <1>2 DEF GoodSlot, Processing, Loading, IsProcessing, Available, y

-----------------------------------------------------------------------------
(* The inductive invariant for types                                        *)

\* A task in a queue: its id says who waits for it.
TaskRec ==
    {x \in Task : /\ x.type = "COMPLETION" => x.id \in ReaderTasks
                  /\ x.type \in {"METRICS", "SLOT_OP", "SET_LORA"} => x.id \in Admins
                  /\ x.type \in {"CANCEL", "NEXT_RESPONSE"} => x.id = NoId
                  /\ x.type = "CANCEL" => x.id_target \in ReaderTasks}

TypeInv ==
    /\ TypeOK
    /\ queue_tasks \in Seq(TaskRec) /\ queue_tasks_deferred \in Seq(TaskRec)
    /\ hand \in TaskRec
    /\ slots \in [Slots -> GoodSlot]
    /\ loop # "handle" => hand.id = NoId

\* The steps of one pass of update_slots, between its NEXT_RESPONSE task and
\* the wait.
PassPhases == {"shift", "sampled", "prompt", "decode", "fail", "sample"}

PassStep ==
    \/ ContextShift \/ AddSampledTokens \/ BatchPendingPrompt \/ Decode
    \/ DecodeFailed \/ SampleSlot

\* Slot s works on task t.
Runs(s, t) == IsProcessing(slots[s]) /\ slots[s].id_task = t

\* A final result of t is sent, after a last piece of text or not.
FinalSent(t) ==
    \/ SendResult(t, "final")
    \/ queue_results' = Send(Send(queue_results, waiting_task_ids, Result(t, "partial")),
                             waiting_task_ids, Result(t, "final"))

\* What a step of the pass sends: text and final results only for the task the
\* slot at hand works on, the final one as it stops working on it.
ResultEffect ==
    \/ UNCHANGED queue_results
    \/ \E t : SendResult(t, "error")
    \/ \E t : Runs(cur, t) /\ SendResult(t, "partial")
    \/ \E t : Runs(cur, t) /\ ~IsProcessing(slots'[cur]) /\ FinalSent(t)

\* A slot stops working only with a result for its task, unless the decode is
\* aborted.
DismissEffect ==
    \A s \in Slots : IsProcessing(slots[s]) /\ ~IsProcessing(slots'[s]) =>
        \/ stop_internal_decode
        \/ SendResult(slots[s].id_task, "error") \/ FinalSent(slots[s].id_task)

PassEffect ==
    /\ loop \in PassPhases /\ loop' \in PassPhases \cup {"wait"}
    /\ cur' \in Slots /\ batch' \in BOOLEAN
    /\ stop_internal_decode' \in {FALSE, stop_internal_decode}
    /\ slots' \in [Slots -> GoodSlot] /\ \A s \in Slots : Calm(slots[s], slots'[s])
    /\ ResultEffect /\ DismissEffect
    /\ UNCHANGED <<queue_tasks, queue_tasks_deferred, running, waiting_task_ids,
                   queue_results_legacy, hand, rd, closed, admin>>

\* The loop over the slots stays within the slots.
LEMMA AdvanceFacts ==
    ASSUME cur \in Slots, NEW next, Advance(next)
    PROVE  cur' \in Slots /\ loop' \in {loop, next}
BY ConstantsAssumption DEF Advance, Slots

\* A step that changes the slot at hand, and it calmly.
LEMMA OneSlotCalm ==
    ASSUME slots \in [Slots -> GoodSlot], NEW c, NEW y, slots' = [slots EXCEPT ![c] = y],
           c \in Slots => Calm(slots[c], y)
    PROVE  /\ slots' \in [Slots -> GoodSlot] /\ \A s \in Slots : Calm(slots[s], slots'[s])
           /\ \A s \in Slots : s # c => slots'[s] = slots[s]
           /\ c \in Slots => slots'[c] = y
<1>1. \A s \in Slots : slots'[s] = IF s = c THEN y ELSE slots[s]
  OBVIOUS
<1>2. \A s \in Slots : Calm(slots[s], slots'[s])
  BY <1>1, ReleaseCalm
<1>3. slots' \in [Slots -> GoodSlot]
  BY <1>2 DEF Calm
<1>. QED BY <1>1, <1>2, <1>3

\* A step that leaves the slots alone steals none and drops none.
LEMMA SameSlotsCalm ==
    ASSUME slots \in [Slots -> GoodSlot], UNCHANGED slots
    PROVE  slots' \in [Slots -> GoodSlot] /\ \A s \in Slots : Calm(slots[s], slots'[s])
           /\ DismissEffect
BY ReleaseCalm DEF DismissEffect

\* context_shift: an error ends a generating slot; a loading one goes on.
LEMMA ShiftEffect == ASSUME TypeInv, ContextShift PROVE PassEffect
<1>0. cur \in Slots /\ slots[cur] \in GoodSlot /\ slots \in [Slots -> GoodSlot]
  BY DEF TypeInv, TypeOK
<1>1. /\ loop \in PassPhases /\ loop' \in PassPhases \cup {"wait"} /\ cur' \in Slots
      /\ batch' \in BOOLEAN
      /\ UNCHANGED <<queue_tasks, queue_tasks_deferred, running, waiting_task_ids,
                     queue_results_legacy, hand, rd, closed, admin>>
  BY <1>0, AdvanceFacts DEF ContextShift, PassPhases, TypeInv, TypeOK, queueVars
<1>2. CASE UNCHANGED <<slots, queue_results, stop_internal_decode>>
  BY <1>0, <1>1, <1>2, SameSlotsCalm DEF PassEffect, ResultEffect
<1>3. CASE /\ slots' = [slots EXCEPT ![cur] = Release(slots[cur])]
           /\ SendResult(slots[cur].id_task, "error")
           /\ stop_internal_decode' = FALSE
  <2>1. Calm(slots[cur], Release(slots[cur]))
    BY <1>0, ReleaseCalm
  <2>2. /\ slots' \in [Slots -> GoodSlot] /\ \A s \in Slots : Calm(slots[s], slots'[s])
        /\ \A s \in Slots : s # cur => slots'[s] = slots[s]
    BY <1>0, <1>3, <2>1, OneSlotCalm
  <2>3. DismissEffect
    BY <1>3, <2>2 DEF DismissEffect
  <2>. QED BY <1>1, <1>3, <2>2, <2>3 DEF PassEffect, ResultEffect
<1>. QED BY <1>2, <1>3 DEF ContextShift

\* add_sampled_tokens only releases slots and sends to those it releases.
LEMMA SampledEffect == ASSUME TypeInv, AddSampledTokens PROVE PassEffect
<1>1. slots \in [Slots -> GoodSlot] /\ UNCHANGED <<slots, queue_results, stop_internal_decode, cur>>
  BY DEF TypeInv, AddSampledTokens, resultVars
<1>2. batch' \in BOOLEAN
  BY DEF AddSampledTokens
<1>3. /\ loop \in PassPhases /\ loop' \in PassPhases \cup {"wait"} /\ cur' \in Slots
      /\ UNCHANGED <<queue_tasks, queue_tasks_deferred, running, waiting_task_ids,
                     queue_results_legacy, hand, rd, closed, admin>>
  BY DEF AddSampledTokens, PassPhases, TypeInv, TypeOK, queueVars, resultVars
<1>. QED BY <1>1, <1>2, <1>3, SameSlotsCalm DEF PassEffect, ResultEffect

\* batch_pending_prompt: the prompt of a loading slot is rejected, its image
\* fails, or one more batch of it is added.
LEMMA PromptEffect == ASSUME TypeInv, BatchPendingPrompt PROVE PassEffect
<1> DEFINE x == slots[cur]
<1>0. cur \in Slots /\ x \in GoodSlot /\ slots \in [Slots -> GoodSlot]
  BY DEF TypeInv, TypeOK
<1>1. /\ loop = "prompt"
      /\ UNCHANGED <<queue_tasks, queue_tasks_deferred, running, waiting_task_ids,
                     queue_results_legacy, hand, rd, closed, admin>>
  BY DEF BatchPendingPrompt, queueVars
<1>2. CASE ~Loading(x)
  <2>1. Advance("decode") /\ UNCHANGED <<slots, queue_results, batch, stop_internal_decode>>
    BY <1>2 DEF BatchPendingPrompt
  <2>2. cur' \in Slots /\ loop' \in {loop, "decode"} /\ batch' \in BOOLEAN
    BY <1>0, <2>1, AdvanceFacts DEF TypeInv, TypeOK
  <2>. QED BY <1>0, <1>1, <2>1, <2>2, SameSlotsCalm DEF PassEffect, ResultEffect, PassPhases
<1>3. CASE Loading(x) /\ PromptRejected(x)
  <2> DEFINE Rejected == /\ slots' = [slots EXCEPT ![cur] = ForceRelease(x)]
                         /\ SendResult(x.id_task, "final") \/ SendResult(x.id_task, "error")
             Exceeded == /\ slots' = [slots EXCEPT ![cur] =
                              Release([x EXCEPT !.tokenized = TRUE, !.left = MaxChunks])]
                         /\ SendResult(x.id_task, "error")
  <2>1. Rejected \/ Exceeded
    BY <1>3 DEF PromptRejected
  <2>2. Advance("decode") /\ UNCHANGED batch /\ stop_internal_decode' = FALSE
    BY <1>3 DEF PromptRejected
  <2>3. cur' \in Slots /\ loop' \in {loop, "decode"} /\ batch' \in BOOLEAN
    BY <1>0, <2>2, AdvanceFacts DEF TypeInv, TypeOK
  <2>4. CASE Rejected
    <3>1. Calm(x, ForceRelease(x)) /\ ~IsProcessing(ForceRelease(x))
      BY <1>0, ReleaseCalm, ReleasedIdle
    <3>2. /\ slots' \in [Slots -> GoodSlot] /\ \A s \in Slots : Calm(slots[s], slots'[s])
          /\ \A s \in Slots : s # cur => slots'[s] = slots[s]
          /\ slots'[cur] = ForceRelease(x)
      BY <1>0, <2>4, <3>1, OneSlotCalm
    <3>3. ResultEffect
      BY <1>3, <2>4, <3>1, <3>2 DEF ResultEffect, Runs, IsProcessing, FinalSent
    <3>4. DismissEffect
      BY <2>4, <3>2 DEF DismissEffect, FinalSent
    <3>. QED BY <1>1, <2>2, <2>3, <3>2, <3>3, <3>4 DEF PassEffect, PassPhases
  <2>5. CASE Exceeded
    <3> DEFINE y == [x EXCEPT !.tokenized = TRUE, !.left = MaxChunks]
    <3>0. MaxChunks \in 1..MaxChunks
      BY ConstantsAssumption
    <3>1. Calm(x, y)
      BY <1>0, <1>3, <3>0, PromptCalm
    <3>2. Calm(x, Release(y))
      BY <3>1, ReleaseCalm DEF Calm
    <3>3. /\ slots' \in [Slots -> GoodSlot] /\ \A s \in Slots : Calm(slots[s], slots'[s])
          /\ \A s \in Slots : s # cur => slots'[s] = slots[s]
      BY <1>0, <2>5, <3>2, OneSlotCalm
    <3>4. ResultEffect /\ DismissEffect
      BY <2>5, <3>3 DEF ResultEffect, DismissEffect
    <3>. QED BY <1>1, <2>2, <2>3, <3>3, <3>4 DEF PassEffect, PassPhases
  <2>. QED BY <2>1, <2>4, <2>5
<1>4. CASE Loading(x) /\ ImageFailed(x)
  <2>1. PICK n \in (IF x.tokenized THEN {x.left} ELSE 1..MaxChunks) :
            slots' = [slots EXCEPT ![cur] = Release([x EXCEPT !.tokenized = TRUE, !.left = n])]
    BY <1>4 DEF ImageFailed
  <2>2. /\ Advance("decode") /\ UNCHANGED batch /\ stop_internal_decode' = FALSE
        /\ SendResult(x.id_task, "error")
    BY <1>4 DEF ImageFailed
  <2>3. cur' \in Slots /\ loop' \in {loop, "decode"} /\ batch' \in BOOLEAN
    BY <1>0, <2>2, AdvanceFacts DEF TypeInv, TypeOK
  <2>4. n \in 1..MaxChunks
    BY <1>0, <1>4, <2>1, ConstantsAssumption DEF GoodSlot, Slot
  <2> DEFINE y == [x EXCEPT !.tokenized = TRUE, !.left = n]
  <2>5. Calm(x, y)
    BY <1>0, <1>4, <2>4, PromptCalm
  <2>6. Calm(x, Release(y))
    BY <2>5, ReleaseCalm DEF Calm
  <2>7. /\ slots' \in [Slots -> GoodSlot] /\ \A s \in Slots : Calm(slots[s], slots'[s])
        /\ \A s \in Slots : s # cur => slots'[s] = slots[s]
    BY <1>0, <2>1, <2>6, OneSlotCalm
  <2>8. ResultEffect /\ DismissEffect
    BY <2>2, <2>7 DEF ResultEffect, DismissEffect
  <2>. QED BY <1>1, <2>2, <2>3, <2>7, <2>8 DEF PassEffect, PassPhases
<1>5. CASE Loading(x) /\ PromptChunk(x)
  <2> DEFINE More(n) == [x EXCEPT !.tokenized = TRUE, !.left = n - 1]
             Start(n) == [More(n) EXCEPT !.state = "PROCESSING", !.command = "NONE",
                                         !.n_decoded = 0]
  <2>1. PICK n \in (IF x.tokenized THEN {x.left} ELSE 1..MaxChunks) :
            /\ slots' = [slots EXCEPT ![cur] = IF n = 1 THEN Start(n) ELSE More(n)]
            /\ Advance("decode") \/ (loop' = "decode" /\ cur' = 1)
    BY <1>5 DEF PromptChunk
  <2>2. batch' = TRUE /\ UNCHANGED <<queue_results, stop_internal_decode>>
    BY <1>5 DEF PromptChunk
  <2>3. n \in 1..MaxChunks
    BY <1>0, <1>5, <2>1, ConstantsAssumption DEF GoodSlot, Slot
  <2> DEFINE y == IF n = 1 THEN Start(n) ELSE More(n)
  <2>4. Calm(x, y)
    BY <1>0, <1>5, <2>3, PromptCalm
  <2>5. cur' \in Slots /\ loop' \in {loop, "decode"}
    BY <1>0, <2>1, AdvanceFacts, ConstantsAssumption DEF Slots
  <2>6. IsProcessing(x) /\ IsProcessing(y)
    <3>1. IsProcessing(x)
      BY <1>5 DEF IsProcessing
    <3>2. ~Available(y) /\ y \in GoodSlot
      BY <2>4, <1>5 DEF Calm, Available, Loading
    <3>3. CASE n = 1
      <4>1. y.state = "PROCESSING"
        BY <3>3, <1>0 DEF GoodSlot, Slot
      <4>. QED BY <3>1, <4>1 DEF IsProcessing, Processing
    <3>4. CASE n # 1
      <4>1. y.state = x.state /\ y.command = x.command
        BY <3>4, <1>0 DEF GoodSlot, Slot
      <4>. QED BY <1>5, <3>1, <4>1 DEF IsProcessing, Loading
    <3>. QED BY <3>3, <3>4
  <2>7. /\ slots' \in [Slots -> GoodSlot] /\ \A s \in Slots : Calm(slots[s], slots'[s])
        /\ \A s \in Slots : s # cur => slots'[s] = slots[s]
        /\ slots'[cur] = y
    <3> HIDE DEF y
    <3>1. slots' = [slots EXCEPT ![cur] = y]
      BY <2>1 DEF y
    <3>. QED BY <1>0, <2>4, <3>1, OneSlotCalm
  <2>8. DismissEffect
    <3> HIDE DEF y
    <3>. QED BY <2>6, <2>7 DEF DismissEffect
  <2>. QED BY <1>1, <2>2, <2>5, <2>7, <2>8 DEF PassEffect, PassPhases, ResultEffect
<1>. QED BY <1>2, <1>3, <1>4, <1>5 DEF BatchPendingPrompt

\* The decode: nothing is sent when it is aborted.
LEMMA DecodeEffect == ASSUME TypeInv, Decode PROVE PassEffect
<1>0. slots \in [Slots -> GoodSlot]
  BY DEF TypeInv
<1>1. /\ loop \in PassPhases /\ loop' \in PassPhases \cup {"wait"} /\ cur' \in Slots
      /\ batch' \in BOOLEAN
      /\ UNCHANGED <<queue_tasks, queue_tasks_deferred, running, waiting_task_ids,
                     queue_results_legacy, queue_results, hand, rd, closed, admin>>
  BY DEF Decode, PassPhases, TypeInv, TypeOK, queueVars, resultVars
<1>2. CASE UNCHANGED <<slots, stop_internal_decode>>
  BY <1>0, <1>1, <1>2, SameSlotsCalm DEF PassEffect, ResultEffect
<1>3. CASE /\ stop_internal_decode = TRUE /\ stop_internal_decode' = FALSE
           /\ slots' = [s \in Slots |-> ForceRelease(slots[s])]
  <2>1. \A s \in Slots : slots'[s] = ForceRelease(slots[s]) /\ Calm(slots[s], slots'[s])
    BY <1>0, <1>3, ReleaseCalm
  <2>2. slots' \in [Slots -> GoodSlot]
    BY <1>3, <2>1 DEF Calm
  <2>. QED BY <1>1, <1>3, <2>1, <2>2 DEF PassEffect, ResultEffect, DismissEffect
<1>. QED BY <1>2, <1>3 DEF Decode, TypeInv, TypeOK

\* The error branch of a failed decode.
LEMMA FailEffect == ASSUME TypeInv, DecodeFailed PROVE PassEffect
<1>0. cur \in Slots /\ slots[cur] \in GoodSlot /\ slots \in [Slots -> GoodSlot]
  BY DEF TypeInv, TypeOK
<1>1. /\ loop \in PassPhases /\ loop' \in PassPhases \cup {"wait"} /\ cur' \in Slots
      /\ batch' \in BOOLEAN
      /\ UNCHANGED <<queue_tasks, queue_tasks_deferred, running, waiting_task_ids,
                     queue_results_legacy, hand, rd, closed, admin>>
  BY <1>0, AdvanceFacts DEF DecodeFailed, PassPhases, TypeInv, TypeOK, queueVars
<1>2. /\ slots' = [slots EXCEPT ![cur] = ForceRelease(slots[cur])]
      /\ SendResult(slots[cur].id_task, "error") /\ stop_internal_decode' = FALSE
  BY DEF DecodeFailed
<1>3. Calm(slots[cur], ForceRelease(slots[cur]))
  BY <1>0, ReleaseCalm
<1>4. /\ slots' \in [Slots -> GoodSlot] /\ \A s \in Slots : Calm(slots[s], slots'[s])
      /\ \A s \in Slots : s # cur => slots'[s] = slots[s]
  BY <1>0, <1>2, <1>3, OneSlotCalm
<1>5. DismissEffect /\ ResultEffect
  BY <1>2, <1>4 DEF DismissEffect, ResultEffect
<1>. QED BY <1>1, <1>2, <1>4, <1>5 DEF PassEffect

\* The token loop: a generating slot goes on, finishes or fails.
LEMMA SampleEffect == ASSUME TypeInv, SampleSlot PROVE PassEffect
<1> DEFINE x == slots[cur]
           t == x.id_task
           y == [x EXCEPT !.n_decoded = x.n_decoded + 1]
<1>0. cur \in Slots /\ x \in GoodSlot /\ slots \in [Slots -> GoodSlot]
  BY DEF TypeInv, TypeOK
<1>1. /\ loop \in PassPhases /\ loop' \in PassPhases \cup {"wait"} /\ cur' \in Slots
      /\ batch' \in BOOLEAN
      /\ UNCHANGED <<queue_tasks, queue_tasks_deferred, running, waiting_task_ids,
                     queue_results_legacy, hand, rd, closed, admin>>
  BY <1>0, AdvanceFacts DEF SampleSlot, PassPhases, TypeInv, TypeOK, queueVars
<1>2. CASE ~Processing(x)
  <2>1. UNCHANGED <<slots, queue_results, stop_internal_decode>>
    BY <1>2 DEF SampleSlot
  <2>. QED BY <1>0, <1>1, <2>1, SameSlotsCalm DEF PassEffect, ResultEffect
<1>3. ASSUME NEW q \in Streamed(t, queue_results)
      PROVE  q = queue_results \/ q = Send(queue_results, waiting_task_ids, Result(t, "partial"))
  BY <1>3 DEF Streamed
<1>4. CASE Processing(x) /\ Generates(x)
  <2>1. slots' = [slots EXCEPT ![cur].n_decoded = slots[cur].n_decoded + 1]
    BY <1>4 DEF Generates
  <2>2. slots' = [slots EXCEPT ![cur] = y]
    BY <1>0, <2>1
  <2>3. Calm(x, y)
    <3>1. x.n_decoded + 1 < MaxTokens
      BY <1>4 DEF Generates
    <3>. QED BY <1>0, <1>4, <3>1, TokenCalm
  <2>4. Runs(cur, t)
    BY <1>4 DEF Runs, IsProcessing
  <2>5. IsProcessing(y)
    <3>1. y.state = x.state
      BY <1>0 DEF GoodSlot, Slot
    <3>. QED BY <1>4, <3>1 DEF IsProcessing, Processing
  <2>6. UNCHANGED queue_results \/ SendResult(t, "partial")
    BY <1>3, <1>4 DEF Generates, SendResult
  <2>7. UNCHANGED stop_internal_decode
    BY <1>4 DEF Generates
  <2> HIDE DEF y, t
  <2>8. /\ slots' \in [Slots -> GoodSlot] /\ \A s \in Slots : Calm(slots[s], slots'[s])
        /\ \A s \in Slots : s # cur => slots'[s] = slots[s]
        /\ slots'[cur] = y
    BY <1>0, <2>2, <2>3, OneSlotCalm
  <2>9. DismissEffect /\ ResultEffect
    BY <2>4, <2>5, <2>6, <2>8 DEF DismissEffect, ResultEffect
  <2>. QED BY <1>1, <2>7, <2>8, <2>9 DEF PassEffect
<1>5. CASE Processing(x) /\ Finishes(x)
  <2>1. slots' = [slots EXCEPT ![cur] = Release(y)]
    BY <1>5 DEF Finishes
  <2>2. Calm(x, Release(y)) /\ ~IsProcessing(Release(y))
    BY <1>0, <1>5, TokenCalm
  <2>3. Runs(cur, t)
    BY <1>5 DEF Runs, IsProcessing
  <2>4. FinalSent(t)
    BY <1>3, <1>5 DEF Finishes, FinalSent, SendResult
  <2>5. stop_internal_decode' = FALSE
    BY <1>5 DEF Finishes
  <2> HIDE DEF y
  <2>6. /\ slots' \in [Slots -> GoodSlot] /\ \A s \in Slots : Calm(slots[s], slots'[s])
        /\ \A s \in Slots : s # cur => slots'[s] = slots[s]
        /\ slots'[cur] = Release(y)
    BY <1>0, <2>1, <2>2, OneSlotCalm
  <2>7. DismissEffect /\ ResultEffect
    BY <2>2, <2>3, <2>4, <2>6 DEF DismissEffect, ResultEffect
  <2>. QED BY <1>1, <2>5, <2>6, <2>7 DEF PassEffect
<1>6. CASE SamplingFails(x)
  <2>1. /\ slots' = [slots EXCEPT ![cur] = Release(slots[cur])]
        /\ SendResult(t, "error") /\ stop_internal_decode' = FALSE
    BY <1>6 DEF SamplingFails
  <2>2. Calm(slots[cur], Release(slots[cur]))
    BY <1>0, ReleaseCalm
  <2>3. /\ slots' \in [Slots -> GoodSlot] /\ \A s \in Slots : Calm(slots[s], slots'[s])
        /\ \A s \in Slots : s # cur => slots'[s] = slots[s]
    BY <1>0, <2>1, <2>2, OneSlotCalm
  <2>4. DismissEffect /\ ResultEffect
    BY <2>1, <2>3 DEF DismissEffect, ResultEffect
  <2>. QED BY <1>1, <2>1, <2>3, <2>4 DEF PassEffect
<1>. QED BY <1>2, <1>4, <1>5, <1>6 DEF SampleSlot

\* Every step of update_slots has the effect PassEffect.
LEMMA PassEffects == ASSUME TypeInv, PassStep PROVE PassEffect
BY ShiftEffect, SampledEffect, PromptEffect, DecodeEffect, FailEffect, SampleEffect DEF PassStep

-----------------------------------------------------------------------------
(* process_single_task                                                      *)

\* The task is finished with: answered, refused, or a CANCEL carried out.
HandleDone ==
    /\ UNCHANGED queue_tasks_deferred
    /\ \A s \in Slots : Calm(slots[s], slots'[s])
    /\ hand.type = "COMPLETION" => SendResult(hand.id, "error")

\* The task is deferred, because of a slot in use.
HandleDeferred ==
    /\ UNCHANGED <<slots, queue_results>>
    /\ queue_tasks_deferred' = Append(queue_tasks_deferred, hand)
    /\ hand.type \in {"COMPLETION", "SLOT_OP"}
    /\ IdSlot[hand.id] \in Slots \cup {NoSlot} => \E s \in Slots : ~Available(slots[s])

\* The task takes an available slot.
HandleLaunch ==
    /\ UNCHANGED queue_tasks_deferred
    /\ hand.type = "COMPLETION"
    /\ \E s \in Slots : /\ Available(slots[s]) /\ slots'[s].id_task = hand.id
                        /\ IsProcessing(slots'[s]) \/ SendResult(hand.id, "error")
                        /\ \A q \in Slots : q # s => Calm(slots[q], slots'[q])

HandleEffect ==
    /\ loop = "handle" /\ loop' = "pop" /\ hand' = NextResponse
    /\ UNCHANGED <<queue_tasks, running, waiting_task_ids, cur, batch, rd, closed, admin>>
    /\ stop_internal_decode' \in {FALSE, stop_internal_decode}
    /\ slots' \in [Slots -> GoodSlot]
    /\ UNCHANGED queue_results \/ SendResult(hand.id, "error")
    /\ \/ UNCHANGED queue_results_legacy
       \/ queue_results_legacy' =
              Send(queue_results_legacy, waiting_task_ids, Result(hand.id, "final"))
    /\ HandleDone \/ HandleDeferred \/ HandleLaunch
    /\ \A s \in Slots : IsProcessing(slots[s]) /\ ~IsProcessing(slots'[s]) =>
           SystemPrompt # {} \/ (hand.type = "CANCEL" /\ slots[s].id_task = hand.id_target)

\* The slot found for a task is one that runs it.
LEMMA FirstLinkedFacts ==
    ASSUME NEW t, Linked(t) # {} PROVE FirstLinked(t) \in Slots /\ slots[FirstLinked(t)].id_task = t
<1>1. Linked(t) \subseteq Nat
  BY DEF Linked, Slots
<1>2. \E s \in Linked(t) : \A q \in Linked(t) : ~(q < s)
  BY <1>1, LeastNat
<1>3. \E s \in Linked(t) : \A q \in Linked(t) : s <= q
  BY <1>1, <1>2
<1>4. FirstLinked(t) \in Linked(t)
  BY <1>3 DEF FirstLinked
<1>. QED BY <1>4 DEF Linked

\* process_single_task has the effect HandleEffect, whatever the task.
LEMMA HandleEffects == ASSUME TypeInv, ProcessSingleTask PROVE HandleEffect
<1>0. slots \in [Slots -> GoodSlot] /\ hand \in TaskRec
  BY DEF TypeInv
<1> DEFINE Frame == /\ loop = "handle" /\ loop' = "pop" /\ hand' = NextResponse
                    /\ UNCHANGED <<queue_tasks, running, waiting_task_ids, cur, batch, rd,
                                   closed, admin>>
<1>1. Frame
  BY DEF ProcessSingleTask
<1>2. CASE UNCHANGED slots
  <2>1. \A s \in Slots : Calm(slots[s], slots'[s])
    BY <1>0, <1>2, ReleaseCalm
  <2> SUFFICES /\ stop_internal_decode' \in {FALSE, stop_internal_decode}
               /\ UNCHANGED queue_results \/ SendResult(hand.id, "error")
               /\ \/ UNCHANGED queue_results_legacy
                  \/ queue_results_legacy' =
                        Send(queue_results_legacy, waiting_task_ids, Result(hand.id, "final"))
               /\ HandleDone \/ HandleDeferred
    BY <1>0, <1>1, <1>2 DEF HandleEffect
  <2>2. CASE HandleCompletion
    <3>1. CASE Candidates(hand.id) = {}
      <4>1. DeferHand
        BY <2>2, <3>1 DEF HandleCompletion
      <4>2. ASSUME IdSlot[hand.id] \in Slots \cup {NoSlot} PROVE \E s \in Slots : ~Available(slots[s])
        <5>1. 1 \in Slots
          BY ConstantsAssumption DEF Slots
        <5>. QED BY <3>1, <4>2, <5>1 DEF Candidates
      <4>3. hand.type = "COMPLETION"
        BY <2>2 DEF HandleCompletion
      <4>. QED BY <4>1, <4>2, <4>3 DEF DeferHand, Defer, HandleDeferred
    <3>2. CASE Candidates(hand.id) # {}
      <4>1. PICK s \in Candidates(hand.id) : LaunchOn(s, hand.id)
        BY <2>2, <3>2 DEF HandleCompletion
      <4>2. s \in Slots /\ Available(slots[s]) /\ hand.id \in ReaderTasks
        BY <1>0, <2>2 DEF Candidates, HandleCompletion, TaskRec
      <4>3. UNCHANGED <<queue_tasks_deferred, queue_results_legacy>>
        BY <2>2, <3>2 DEF HandleCompletion
      <4>4. stop_internal_decode' \in {FALSE, stop_internal_decode}
        <5>1. stop_internal_decode \in BOOLEAN
          BY DEF TypeInv, TypeOK
        <5>. QED BY <4>1, <5>1 DEF LaunchOn
      <4>5. SendResult(hand.id, "error")
        <5> DEFINE old == AfterSystemPrompt(hand.id)
                   y == LoadPrompt(Reset(old[s], hand.id))
        <5>1. old[s] = slots[s] /\ DOMAIN old = Slots
          <6>1. Release(slots[s]) = slots[s]
            BY <4>2 DEF Available, Release, Processing
          <6>. QED BY <1>0, <4>2, <6>1 DEF AfterSystemPrompt
        <5>2. slots' # [old EXCEPT ![s] = y]
          <6>1. IsProcessing(y)
            BY <1>0, <4>2, <5>1, LaunchGood
          <6>2. ~IsProcessing(slots[s])
            BY <4>2 DEF Available, IsProcessing, Loading, Processing
          <6>3. y # slots[s]
            BY <6>1, <6>2
          <6> HIDE DEF y, old
          <6>. QED BY <1>2, <4>2, <5>1, <6>3
        <5>. QED BY <4>1, <5>2 DEF LaunchOn
      <4>. QED BY <2>1, <4>3, <4>4, <4>5 DEF HandleDone
    <3>. QED BY <3>1, <3>2
  <2>3. CASE HandleCancel
    BY <2>1, <2>3 DEF HandleCancel, HandleDone
  <2>4. CASE HandleNextResponse
    BY <2>1, <2>4 DEF HandleNextResponse, HandleDone
  <2>5. CASE HandleAlways
    BY <2>1, <2>5 DEF HandleAlways, Answer, HandleDone
  <2>6. CASE HandleSlotOp
    <3>1. hand.type = "SLOT_OP"
      BY <2>6 DEF HandleSlotOp
    <3>2. CASE IdSlot[hand.id] \in Slots /\ ~Available(slots[IdSlot[hand.id]]) /\ DeferHand
      BY <3>1, <3>2 DEF DeferHand, Defer, HandleDeferred
    <3>3. CASE Answer
      BY <2>1, <3>1, <3>3 DEF Answer, HandleDone
    <3>4. CASE /\ SendResult(hand.id, "error")
               /\ UNCHANGED <<queue_tasks_deferred, queue_results_legacy, slots,
                              stop_internal_decode>>
      BY <2>1, <3>1, <3>4 DEF HandleDone
    <3>. QED BY <2>6, <3>2, <3>3, <3>4 DEF HandleSlotOp
  <2>. QED BY <2>2, <2>3, <2>4, <2>5, <2>6 DEF ProcessSingleTask
<1>3. CASE HandleCompletion /\ slots' # slots
  <2>1. Candidates(hand.id) # {}
    BY <1>3 DEF HandleCompletion, DeferHand
  <2>2. PICK s \in Candidates(hand.id) : LaunchOn(s, hand.id)
    BY <1>3, <2>1 DEF HandleCompletion
  <2>3. s \in Slots /\ Available(slots[s]) /\ hand.id \in ReaderTasks /\ hand.type = "COMPLETION"
    BY <1>0, <1>3 DEF Candidates, HandleCompletion, TaskRec
  <2>4. UNCHANGED <<queue_tasks_deferred, queue_results_legacy>>
    BY <1>3, <2>1 DEF HandleCompletion
  <2>5. stop_internal_decode' \in {FALSE, stop_internal_decode}
    <3>1. stop_internal_decode \in BOOLEAN
      BY DEF TypeInv, TypeOK
    <3>. QED BY <2>2, <3>1 DEF LaunchOn
  <2> DEFINE t == hand.id
             old == AfterSystemPrompt(t)
             y == Reset(slots[s], t)
  <2>6. /\ old \in [Slots -> GoodSlot] /\ \A q \in Slots : Calm(slots[q], old[q])
        /\ old[s] = slots[s]
        /\ SystemPrompt = {} => old = slots
    <3>1. Release(slots[s]) = slots[s]
      BY <2>3 DEF Available, Release, Processing
    <3>2. \A q \in Slots : Calm(slots[q], slots[q]) /\ Calm(slots[q], Release(slots[q]))
      BY <1>0, ReleaseCalm
    <3>3. \A q \in Slots : Calm(slots[q], old[q])
      BY <1>0, <3>2 DEF AfterSystemPrompt
    <3>4. old \in [Slots -> GoodSlot]
      BY <1>0, <3>2 DEF AfterSystemPrompt, Calm
    <3>. QED BY <1>0, <2>3, <3>1, <3>3, <3>4 DEF AfterSystemPrompt
  <2>7. /\ y \in GoodSlot /\ y.id_task = t /\ LoadPrompt(y) \in GoodSlot
        /\ LoadPrompt(y).id_task = t /\ IsProcessing(LoadPrompt(y))
    BY <1>0, <2>3, LaunchGood
  <2>8. \/ slots' = [old EXCEPT ![s] = LoadPrompt(y)] /\ UNCHANGED queue_results
        \/ slots' = [old EXCEPT ![s] = y] /\ SendResult(t, "error")
    BY <1>3, <2>2, <2>6 DEF LaunchOn
  <2> HIDE DEF old, y, t
  <2>9. /\ slots' \in [Slots -> GoodSlot]
        /\ slots'[s].id_task = t
        /\ IsProcessing(slots'[s]) \/ SendResult(t, "error")
        /\ \A q \in Slots : q # s => slots'[q] = old[q]
    BY <2>3, <2>6, <2>7, <2>8
  <2>10. HandleLaunch
    BY <2>3, <2>4, <2>6, <2>9 DEF HandleLaunch, t
  <2>11. \A q \in Slots : IsProcessing(slots[q]) /\ ~IsProcessing(slots'[q]) => SystemPrompt # {}
    <3>1. ~IsProcessing(slots[s])
      BY <2>3 DEF Available, IsProcessing, Loading, Processing
    <3>. QED BY <2>6, <2>9, <3>1
  <2>. QED BY <1>1, <2>4, <2>5, <2>8, <2>9, <2>10, <2>11 DEF HandleEffect, t
<1>4. CASE HandleCancel /\ slots' # slots
  <2> DEFINE s == FirstLinked(hand.id_target)
  <2>1. /\ slots' = [slots EXCEPT ![s] = Release(slots[s])] /\ stop_internal_decode' = FALSE
        /\ Linked(hand.id_target) # {}
    BY <1>4 DEF HandleCancel
  <2>2. hand.type = "CANCEL" /\ UNCHANGED <<queue_tasks_deferred, queue_results, queue_results_legacy>>
    BY <1>4 DEF HandleCancel
  <2>3. s \in Slots /\ slots[s].id_task = hand.id_target
    BY <2>1, FirstLinkedFacts
  <2> HIDE DEF s
  <2>4. Calm(slots[s], Release(slots[s]))
    BY <1>0, <2>3, ReleaseCalm
  <2>5. /\ slots' \in [Slots -> GoodSlot] /\ \A q \in Slots : Calm(slots[q], slots'[q])
        /\ \A q \in Slots : q # s => slots'[q] = slots[q]
    BY <1>0, <2>1, <2>4, OneSlotCalm
  <2>6. HandleDone
    BY <2>2, <2>5 DEF HandleDone
  <2>7. \A q \in Slots : IsProcessing(slots[q]) /\ ~IsProcessing(slots'[q]) =>
           SystemPrompt # {} \/ (hand.type = "CANCEL" /\ slots[q].id_task = hand.id_target)
    BY <2>2, <2>3, <2>5
  <2>. QED BY <1>1, <2>1, <2>2, <2>5, <2>6, <2>7 DEF HandleEffect
<1>5. HandleNextResponse \/ HandleAlways \/ HandleSlotOp => UNCHANGED slots
  BY DEF HandleNextResponse, HandleAlways, HandleSlotOp, Answer, DeferHand
<1>. QED BY <1>2, <1>3, <1>4, <1>5 DEF ProcessSingleTask

-----------------------------------------------------------------------------
(* release_slots and the HTTP threads                                       *)

\* release_slots: the released slots are free, and the deferred tasks are back
\* in the queue if there is one.
ReleaseEffect ==
    /\ loop = "update" /\ loop' \in {"wait", "next"}
    /\ loop' = "wait" => \A s \in Slots : Available(slots'[s])
    /\ slots' \in [Slots -> GoodSlot]
    /\ \A s \in Slots : slots'[s].id_task = slots[s].id_task
    /\ \A s \in Slots : IsProcessing(slots'[s]) => IsProcessing(slots[s])
    /\ \A s \in Slots : IsProcessing(slots[s]) /\ slots[s].command # "RELEASE" => IsProcessing(slots'[s])
    /\ \/ UNCHANGED <<slots, queue_tasks, queue_tasks_deferred>>
       \/ queue_tasks' = queue_tasks \o queue_tasks_deferred /\ queue_tasks_deferred' = <<>>
    /\ UNCHANGED <<running, waiting_task_ids, queue_results, queue_results_legacy, hand, cur,
                   batch, stop_internal_decode, rd, closed, admin>>

\* Releasing every slot has the effect ReleaseEffect.
LEMMA ReleaseEffects == ASSUME TypeInv, ReleaseSlots PROVE ReleaseEffect
<1>0. slots \in [Slots -> GoodSlot]
  BY DEF TypeInv
<1>1. slots' = [s \in Slots |-> IF slots[s].command = "RELEASE" THEN Freed(slots[s]) ELSE slots[s]]
  BY DEF ReleaseSlots
<1>2. \A s \in Slots : /\ slots'[s] \in GoodSlot /\ slots'[s].id_task = slots[s].id_task
                       /\ IsProcessing(slots'[s]) => IsProcessing(slots[s])
                       /\ slots[s].command # "RELEASE" => slots'[s] = slots[s]
  BY <1>0, <1>1, FreedGood
<1>3. slots' \in [Slots -> GoodSlot]
  BY <1>1, <1>2
<1>4. \/ UNCHANGED <<slots, queue_tasks, queue_tasks_deferred>>
      \/ queue_tasks' = queue_tasks \o queue_tasks_deferred /\ queue_tasks_deferred' = <<>>
  <2>1. CASE \A s \in Slots : slots[s].command # "RELEASE"
    <3>1. slots' = slots
      BY <1>0, <1>2, <1>3, <2>1
    <3>. QED BY <2>1, <3>1 DEF ReleaseSlots
  <2>2. CASE \E s \in Slots : slots[s].command = "RELEASE"
    BY <2>2 DEF ReleaseSlots, RequeueDeferred, NotifySlotChanged
  <2>. QED BY <2>1, <2>2
<1>5. /\ loop = "update" /\ loop' \in {"wait", "next"}
      /\ loop' = "wait" => \A s \in Slots : Available(slots'[s])
  BY DEF ReleaseSlots
<1>6. UNCHANGED <<running, waiting_task_ids, queue_results, queue_results_legacy, hand, cur,
                  batch, stop_internal_decode, rd, closed, admin>>
  BY DEF ReleaseSlots, resultVars
<1>. QED BY <1>2, <1>3, <1>4, <1>5, <1>6 DEF ReleaseEffect

\* The tasks of a request, as post_tasks and stop() hand them to the queue.
Posted(r) == [i \in DOMAIN TasksOf[r] |-> Work(TasksOf[r][i], "COMPLETION")]
Cancels(r) == [i \in DOMAIN TasksOf[r] |-> Cancel(TasksOf[r][i])]

\* Ids of tasks are numbers other than -1.
LEMMA TaskIdFacts ==
    /\ ReaderTasks \subseteq Nat \ {NoId} /\ Admins \subseteq Nat \ {NoId}
    /\ \A r \in Readers : Ids(r) \subseteq ReaderTasks
<1>1. ASSUME NEW r \in Readers PROVE Ids(r) \subseteq Nat \ {NoId}
  <2>1. TasksOf[r] \in Seq(Nat \ {NoId})
    BY ConstantsAssumption
  <2>2. \A i \in DOMAIN TasksOf[r] : TasksOf[r][i] \in Nat \ {NoId}
    BY <2>1
  <2>. QED BY <2>2 DEF Ids, Range
<1>. QED BY <1>1, ConstantsAssumption DEF ReaderTasks

\* A task id belongs to one request.
LEMMA OwnerFacts == ASSUME NEW r \in Readers, NEW t \in Ids(r) PROVE OwnerOf(t) = r
<1>1. \E q \in Readers : t \in Ids(q)
  OBVIOUS
<1>2. OwnerOf(t) \in Readers /\ t \in Ids(OwnerOf(t))
  BY <1>1 DEF OwnerOf
<1>3. \A q, u \in Readers : Ids(q) \cap Ids(u) # {} => q = u
  BY ConstantsAssumption
<1>. QED BY <1>2, <1>3

\* A request posts each of its tasks once.
LEMMA PostedFacts ==
    ASSUME NEW r \in Readers
    PROVE  /\ Posted(r) \in Seq(TaskRec)
           /\ \A t : Holds(Posted(r), t) <=> t \in Ids(r)
           /\ \A t : HoldsOnce(Posted(r), t)
<1>1. TasksOf[r] \in Seq(Nat \ {NoId}) /\ IsInjective(TasksOf[r])
  BY ConstantsAssumption
<1>2. /\ DOMAIN TasksOf[r] = 1..Len(TasksOf[r]) /\ Len(TasksOf[r]) \in Nat
      /\ DOMAIN Posted(r) = DOMAIN TasksOf[r]
  BY <1>1 DEF Posted
<1>3. \A i \in DOMAIN TasksOf[r] : TasksOf[r][i] \in Ids(r) /\ TasksOf[r][i] \in ReaderTasks
  BY TaskIdFacts DEF Ids, Range
<1>4. \A i \in DOMAIN TasksOf[r] : /\ Posted(r)[i] = Work(TasksOf[r][i], "COMPLETION")
                                   /\ Posted(r)[i] \in TaskRec
                                   /\ Posted(r)[i].id = TasksOf[r][i]
  BY <1>3 DEF Posted, Work, TaskRec, Task, TaskTypes, TaskIds
<1>5. Posted(r) \in Seq(TaskRec)
  <2>1. Posted(r) = [i \in 1..Len(TasksOf[r]) |-> Posted(r)[i]]
    BY <1>2 DEF Posted
  <2> DEFINE p == Posted(r)
             n == Len(TasksOf[r])
  <2>2. n \in Nat /\ p = [i \in 1..n |-> p[i]] /\ \A i \in 1..n : p[i] \in TaskRec
    BY <1>2, <1>4, <2>1
  <2> HIDE DEF p, n
  <2>3. p \in Seq(TaskRec)
    BY <2>2
  <2>. QED BY <2>3 DEF p
<1>6. \A t : Holds(Posted(r), t) <=> t \in Ids(r)
  BY <1>2, <1>4 DEF Holds, Ids, Range
<1>7. \A t : HoldsOnce(Posted(r), t)
  <2>1. \A i, j \in DOMAIN TasksOf[r] : TasksOf[r][i] = TasksOf[r][j] => i = j
    BY <1>1 DEF IsInjective
  <2>. QED BY <1>2, <1>4, <2>1 DEF HoldsOnce
<1>. QED BY <1>5, <1>6, <1>7

\* The CANCEL tasks carry no id anyone waits for.
LEMMA CancelsFacts ==
    ASSUME NEW r \in Readers
    PROVE  /\ Reverse(Cancels(r)) \in Seq(TaskRec)
           /\ \A i \in DOMAIN Reverse(Cancels(r)) :
                 \E t \in Ids(r) : Reverse(Cancels(r))[i] = Cancel(t)
           /\ \A t \in Nat \ {NoId} : ~Holds(Reverse(Cancels(r)), t)
                                      /\ HoldsOnce(Reverse(Cancels(r)), t)
<1>1. TasksOf[r] \in Seq(Nat \ {NoId})
  BY ConstantsAssumption
<1> DEFINE n == Len(TasksOf[r])
           c == Cancels(r)
<1>2. n \in Nat /\ DOMAIN TasksOf[r] = 1..n
  BY <1>1
<1>3. \A i \in 1..n : \E t \in Ids(r) : c[i] = Cancel(t)
  BY <1>2 DEF Cancels, Ids, Range
<1>4. \A t \in Ids(r) : Cancel(t) \in TaskRec /\ Cancel(t).id = NoId
  BY TaskIdFacts DEF Cancel, TaskRec, Task, TaskTypes, TaskIds
<1>5. c \in Seq(TaskRec) /\ Len(c) = n
  <2>1. c = [i \in 1..n |-> c[i]]
    BY <1>2 DEF Cancels
  <2>2. \A i \in 1..n : c[i] \in TaskRec
    BY <1>3, <1>4
  <2> HIDE DEF c, n
  <2>. QED BY <1>2, <2>1, <2>2
<1> HIDE DEF c, n
<1>6. Reverse(c) = [i \in 1..n |-> c[(n - i) + 1]]
  BY <1>5 DEF Reverse
<1>7. \A i \in 1..n : (n - i) + 1 \in 1..n
  BY <1>2
<1>8. \A i \in 1..n : \E t \in Ids(r) : Reverse(c)[i] = Cancel(t)
  BY <1>3, <1>6, <1>7
<1>9. DOMAIN Reverse(c) = 1..n /\ Reverse(c) \in Seq(TaskRec)
  BY <1>2, <1>4, <1>6, <1>8
<1>10. \A i \in 1..n : Reverse(c)[i].id = NoId
  BY <1>4, <1>8
<1>. QED BY <1>8, <1>9, <1>10 DEF Holds, HoldsOnce, c

-----------------------------------------------------------------------------
(* Types                                                                    *)

Reader == [pc : {"init", "post", "recv", "gone", "decode_stop", "stop", "cancel", "done"},
           received : Nat, results : SUBSET ReaderTasks,
           first : BOOLEAN, cancelled : BOOLEAN]

\* send leaves a queue of results.
LEMMA SendType ==
    ASSUME NEW q \in Seq(ResultRec), NEW w, w \subseteq ReaderTasks \cup Admins,
           NEW t, NEW kind \in {"partial", "final", "error"}
    PROVE  Send(q, w, Result(t, kind)) \in Seq(ResultRec)
<1>1. t \in w => Result(t, kind) \in ResultRec
  BY DEF Result, ResultRec
<1>2. Result(t, kind).id = t
  BY DEF Result
<1> DEFINE x == Result(t, kind)
<1> HIDE DEF x
<1>. QED BY <1>1, <1>2 DEF Send, x

\* The tasks in the queues are tasks.
LEMMA TaskRecTask == TaskRec \subseteq Task
BY DEF TaskRec

\* A consistent slot is a slot.
LEMMA GoodSlotSlot == GoodSlot \subseteq Slot
BY DEF GoodSlot

\* The task that asks for the next pass is a task, with no id of a request.
LEMMA NextResponseRec == NextResponse \in TaskRec /\ NextResponse.id = NoId
BY DEF NextResponse, TaskRec, Task, TaskTypes, TaskIds

\* The queues and the slots typed by TypeInv are typed as TypeOK asks.
LEMMA StrongTypes ==
    ASSUME NEW q \in Seq(TaskRec), NEW f \in [Slots -> GoodSlot], NEW h \in TaskRec
    PROVE  q \in Seq(Task) /\ f \in [Slots -> Slot] /\ h \in Task
<1>1. q \in Seq(Task)
  BY TaskRecTask, SeqMonotone
<1>. QED BY <1>1, TaskRecTask, GoodSlotSlot

\* A step of update_slots keeps the types and the slots consistent.
LEMMA PassTypes == ASSUME TypeInv, PassEffect PROVE TypeInv'
<1>1. queue_results' \in Seq(ResultRec)
  <2>1. queue_results \in Seq(ResultRec) /\ waiting_task_ids \subseteq ReaderTasks \cup Admins
    BY DEF TypeInv, TypeOK
  <2>2. \A t : /\ SendResult(t, "error") => queue_results' \in Seq(ResultRec)
               /\ SendResult(t, "partial") => queue_results' \in Seq(ResultRec)
               /\ FinalSent(t) => queue_results' \in Seq(ResultRec)
    BY <2>1, SendType DEF SendResult, FinalSent
  <2>. QED BY <2>1, <2>2 DEF PassEffect, ResultEffect
<1>2. slots' \in [Slots -> Slot]
  BY StrongTypes DEF PassEffect, TypeInv
<1>3. /\ loop' \in PassPhases \cup {"wait"} /\ cur' \in Slots /\ batch' \in BOOLEAN
      /\ stop_internal_decode' \in BOOLEAN /\ slots' \in [Slots -> GoodSlot]
      /\ loop # "handle"
      /\ UNCHANGED <<queue_tasks, queue_tasks_deferred, running, waiting_task_ids,
                     queue_results_legacy, hand, rd, closed, admin>>
  BY DEF PassEffect, TypeInv, TypeOK, PassPhases
<1>. QED BY <1>1, <1>2, <1>3 DEF TypeInv, TypeOK, PassPhases

\* So does process_single_task.
LEMMA HandleTypes == ASSUME TypeInv, HandleEffect PROVE TypeInv'
<1>0. /\ queue_results \in Seq(ResultRec) /\ waiting_task_ids \subseteq ReaderTasks \cup Admins
      /\ queue_results_legacy \in Seq(ResultRec)
  BY DEF TypeInv, TypeOK
<1>1. queue_results' \in Seq(ResultRec) /\ queue_results_legacy' \in Seq(ResultRec)
  BY <1>0, SendType DEF HandleEffect, SendResult
<1>2. queue_tasks_deferred' \in Seq(TaskRec)
  <2>1. queue_tasks_deferred \in Seq(TaskRec) /\ hand \in TaskRec
    BY DEF TypeInv
  <2>2. Append(queue_tasks_deferred, hand) \in Seq(TaskRec)
    BY <2>1, AppendFacts
  <2>. QED BY <2>1, <2>2 DEF HandleEffect, HandleDone, HandleDeferred, HandleLaunch
<1>3. hand' \in TaskRec /\ hand'.id = NoId
  BY NextResponseRec DEF HandleEffect
<1>4. /\ slots' \in [Slots -> GoodSlot] /\ loop' = "pop" /\ stop_internal_decode' \in BOOLEAN
      /\ UNCHANGED <<queue_tasks, running, waiting_task_ids, cur, batch, rd, closed, admin>>
  BY DEF HandleEffect, TypeInv, TypeOK
<1>5. queue_tasks_deferred' \in Seq(Task) /\ slots' \in [Slots -> Slot] /\ hand' \in Task
  BY <1>2, <1>3, <1>4, StrongTypes
<1>. QED BY <1>1, <1>2, <1>3, <1>4, <1>5 DEF TypeInv, TypeOK

\* So does releasing every slot.
LEMMA ReleaseTypes == ASSUME TypeInv, ReleaseEffect PROVE TypeInv'
<1>1. queue_tasks' \in Seq(TaskRec) /\ queue_tasks_deferred' \in Seq(TaskRec)
  <2>1. queue_tasks \in Seq(TaskRec) /\ queue_tasks_deferred \in Seq(TaskRec)
    BY DEF TypeInv
  <2>2. queue_tasks \o queue_tasks_deferred \in Seq(TaskRec) /\ <<>> \in Seq(TaskRec)
    BY <2>1, ConcatFacts
  <2>. QED BY <2>1, <2>2 DEF ReleaseEffect
<1>2. /\ slots' \in [Slots -> GoodSlot] /\ loop' \in {"wait", "next"} /\ loop = "update"
      /\ UNCHANGED <<running, waiting_task_ids, queue_results, queue_results_legacy, hand, cur,
                     batch, stop_internal_decode, rd, closed, admin>>
  BY DEF ReleaseEffect
<1>3. /\ queue_tasks' \in Seq(Task) /\ queue_tasks_deferred' \in Seq(Task)
      /\ slots' \in [Slots -> Slot]
  BY <1>1, <1>2, StrongTypes DEF TypeInv
<1>. QED BY <1>1, <1>2, <1>3 DEF TypeInv, TypeOK

\* The rest of the main thread.
LEMMA LoopTypes ==
    ASSUME TypeInv, PopTask \/ WaitForTask \/ WakeUp \/ PostNextResponse PROVE TypeInv'
<1>0. queue_tasks \in Seq(TaskRec) /\ queue_tasks_deferred \in Seq(TaskRec) /\ hand \in TaskRec
      /\ slots \in [Slots -> GoodSlot]
  BY DEF TypeInv
<1>1. CASE PopTask
  <2>1. CASE queue_tasks = <<>>
    BY <1>1, <2>1 DEF PopTask, TypeInv, TypeOK, resultVars
  <2>2. CASE queue_tasks # <<>>
    <3>1. Head(queue_tasks) \in TaskRec /\ Tail(queue_tasks) \in Seq(TaskRec)
      BY <1>0, <2>2, TailFacts
    <3>2. Head(queue_tasks) \in Task /\ Tail(queue_tasks) \in Seq(Task)
      BY <1>0, <3>1, StrongTypes
    <3>3. /\ hand' = Head(queue_tasks) /\ queue_tasks' = Tail(queue_tasks) /\ loop' = "handle"
          /\ UNCHANGED <<queue_tasks_deferred, running, waiting_task_ids, queue_results,
                         queue_results_legacy, slots, cur, batch,
                         stop_internal_decode, rd, closed, admin>>
      BY <1>1, <2>2 DEF PopTask, resultVars
    <3>. QED BY <3>1, <3>2, <3>3 DEF TypeInv, TypeOK
  <2>. QED BY <2>1, <2>2
<1>2. CASE WaitForTask \/ WakeUp
  BY <1>2 DEF WaitForTask, WakeUp, TypeInv, TypeOK, resultVars, queueVars, mainVars
<1>3. CASE PostNextResponse
  <2>1. Append(queue_tasks, NextResponse) \in Seq(TaskRec)
    BY <1>0, NextResponseRec, AppendFacts
  <2>2. Append(queue_tasks, NextResponse) \in Seq(Task)
    BY <1>0, <2>1, StrongTypes
  <2>3. /\ queue_tasks' = Append(queue_tasks, NextResponse) /\ loop' = "shift" /\ cur' = 1
        /\ loop = "next" /\ 1 \in Slots
        /\ UNCHANGED <<queue_tasks_deferred, running, waiting_task_ids, queue_results,
                       queue_results_legacy, slots, hand, batch, stop_internal_decode,
                       rd, closed, admin>>
    BY <1>3, ConstantsAssumption DEF PostNextResponse, Post, resultVars, Slots
  <2>. QED BY <2>1, <2>2, <2>3 DEF TypeInv, TypeOK
<1>. QED BY <1>1, <1>2, <1>3

\* A notification wakes the main loop and changes nothing else of it.
LEMMA NotifyFacts ==
    ASSUME TypeInv, Notify
    PROVE  /\ loop' \in {"pop", "handle", "update", "next", "shift", "sampled", "prompt",
                         "decode", "fail", "sample", "wait", "asleep", "woken", "exited"}
           /\ loop' = "handle" <=> loop = "handle"
BY DEF Notify, TypeInv, TypeOK

\* The readers after r took a result of task t that it counts when one holds.
Taken(r, pc, n, one, t) ==
    [rd EXCEPT ![r].pc = pc, ![r].received = n,
               ![r].results = IF one THEN @ \cup {t} ELSE @, ![r].first = FALSE]

\* What next() changes in the reader.
LEMMA ReceiveUpdate ==
    ASSUME rd \in [Readers -> Reader], NEW r \in Readers, NEW pc \in {"stop", "recv"},
           NEW n \in Nat, NEW one \in BOOLEAN, NEW t \in ReaderTasks,
           rd' = Taken(r, pc, n, one, t)
    PROVE  /\ rd' \in [Readers -> Reader]
           /\ \A q \in Readers : q # r => rd'[q] = rd[q]
           /\ rd'[r].pc = pc /\ rd'[r].received = n
           /\ rd'[r].results = IF one THEN rd[r].results \cup {t} ELSE rd[r].results
           /\ rd'[r].cancelled = rd[r].cancelled
<1> DEFINE f == [rd EXCEPT ![r].pc = pc]
           g == [f EXCEPT ![r].received = n]
           new == IF one THEN rd[r].results \cup {t} ELSE rd[r].results
           h == [g EXCEPT ![r].results = new]
           k == [h EXCEPT ![r].first = FALSE]
<1>1. /\ f \in [Readers -> Reader] /\ f[r].pc = pc /\ f[r].results = rd[r].results
      /\ f[r].cancelled = rd[r].cancelled /\ \A q \in Readers : q # r => f[q] = rd[q]
  BY DEF Reader
<1>2. /\ g \in [Readers -> Reader] /\ g[r].pc = pc /\ g[r].received = n
      /\ g[r].results = rd[r].results
      /\ g[r].cancelled = rd[r].cancelled /\ \A q \in Readers : q # r => g[q] = rd[q]
  <2> HIDE DEF f
  <2>. QED BY <1>1 DEF Reader
<1>3. rd' = k
  BY <1>2 DEF Taken
<1>4. new \in SUBSET ReaderTasks
  BY DEF Reader
<1>5. /\ h \in [Readers -> Reader] /\ h[r].pc = pc /\ h[r].received = n
      /\ h[r].results = new
      /\ h[r].cancelled = rd[r].cancelled /\ \A q \in Readers : q # r => h[q] = rd[q]
  <2> HIDE DEF g, new
  <2>. QED BY <1>2, <1>4 DEF Reader
<1>6. /\ k \in [Readers -> Reader] /\ k[r].pc = pc /\ k[r].received = n
      /\ k[r].results = new
      /\ k[r].cancelled = rd[r].cancelled /\ \A q \in Readers : q # r => k[q] = rd[q]
  <2> HIDE DEF h, new
  <2>. QED BY <1>5 DEF Reader
<1> HIDE DEF k
<1>. QED BY <1>3, <1>6

\* Steps of a request keep the types.
LEMMA ReaderTypes ==
    ASSUME TypeInv, NEW r \in Readers, AddWaitingTasks(r) \/ ReaderStep(r) \/ CloseConnection(r)
    PROVE  TypeInv'
<1>0. /\ queue_tasks \in Seq(TaskRec) /\ queue_tasks_deferred \in Seq(TaskRec) /\ hand \in TaskRec
      /\ slots \in [Slots -> GoodSlot] /\ rd \in [Readers -> Reader]
  BY DEF TypeInv, TypeOK, Reader
<1>1. ASSUME NEW pc \in {"init", "post", "recv", "gone", "decode_stop", "stop", "cancel", "done"},
             Goto(r, pc)
      PROVE  rd' \in [Readers -> Reader]
  BY <1>0, <1>1 DEF Goto, Reader
<1>2. CASE AddWaitingTasks(r) \/ Stop(r)
  <2>1. rd' \in [Readers -> Reader]
    BY <1>1, <1>2 DEF AddWaitingTasks, Stop
  <2>2. Ids(r) \subseteq ReaderTasks
    BY TaskIdFacts
  <2>. QED BY <1>2, <2>1, <2>2 DEF AddWaitingTasks, Stop, TypeInv, TypeOK, Reader, queueVars,
                                   mainVars
<1>3. CASE PostTasks(r)
  <2>1. rd' \in [Readers -> Reader]
    BY <1>1, <1>3 DEF PostTasks
  <2>2. queue_tasks' = queue_tasks \o Posted(r)
    BY <1>3 DEF PostTasks, PostAll, Posted
  <2>3. queue_tasks' \in Seq(TaskRec)
    BY <1>0, <2>2, PostedFacts, ConcatFacts
  <2>4. queue_tasks' \in Seq(Task)
    BY <1>0, <2>3, StrongTypes
  <2>5. Notify
    BY <1>3 DEF PostTasks
  <2>6. UNCHANGED <<queue_tasks_deferred, running, waiting_task_ids, queue_results,
                    queue_results_legacy, slots, hand, cur, batch, stop_internal_decode,
                    closed, admin>>
    BY <1>3 DEF PostTasks, resultVars, mainVars
  <2>. QED BY <2>1, <2>3, <2>4, <2>5, <2>6, NotifyFacts DEF TypeInv, TypeOK, Reader
<1>4. CASE Receive(r)
  <2> DEFINE i == FirstMine(queue_results, Ids(r))
             res == queue_results[i]
             stops == IF res.kind = "final" THEN 1 ELSE 0
             received == rd[r].received + stops
  <2>0. queue_results \in Seq(ResultRec)
    BY DEF TypeInv, TypeOK
  <2>1. i \in DOMAIN queue_results /\ res.id \in Ids(r)
    BY <1>4, <2>0, FirstMineFacts DEF Receive
  <2>2. RemoveAt(queue_results, i) \in Seq(ResultRec)
    <3> HIDE DEF i
    <3>. QED BY <2>0, <2>1, RemoveAtFacts
  <2>3. PICK pc \in AfterResult(r, res, received) :
           rd' = [rd EXCEPT ![r].pc = pc, ![r].received = received,
                            ![r].results = IF stops = 1 THEN @ \cup {res.id} ELSE @,
                            ![r].first = FALSE]
    BY <1>4 DEF Receive
  <2>4. pc \in {"stop", "recv"}
    BY <2>3 DEF AfterResult
  <2>5. rd' \in [Readers -> Reader]
    <3>1. received \in Nat
      BY <1>0 DEF Reader
    <3>2. res.id \in ReaderTasks
      BY <2>1, TaskIdFacts
    <3> DEFINE one == stops = 1
               t == res.id
    <3>3. rd' = Taken(r, pc, received, one, t)
      BY <2>3 DEF Taken
    <3>4. one \in BOOLEAN
      OBVIOUS
    <3> HIDE DEF received, res, stops, one, t
    <3>. QED BY <1>0, <2>4, <3>1, <3>2, <3>3, <3>4, ReceiveUpdate DEF t
  <2>6. /\ queue_results' = RemoveAt(queue_results, i)
        /\ UNCHANGED <<queue_tasks, queue_tasks_deferred, running, waiting_task_ids,
                       queue_results_legacy, slots, hand, cur, batch, stop_internal_decode,
                       loop, closed, admin>>
    BY <1>4 DEF Receive, queueVars, mainVars
  <2> HIDE DEF i
  <2>. QED BY <2>2, <2>5, <2>6 DEF TypeInv, TypeOK, Reader
<1>5. CASE Timeout(r) \/ CheckSlots(r) \/ DecodeStop(r)
  <2>1. rd' \in [Readers -> Reader]
    BY <1>1, <1>5 DEF Timeout, CheckSlots, DecodeStop
  <2>2. /\ stop_internal_decode' \in BOOLEAN
        /\ UNCHANGED <<queue_tasks, queue_tasks_deferred, running, waiting_task_ids,
                       queue_results, queue_results_legacy, slots, hand, cur, batch,
                       loop, closed, admin>>
    BY <1>5 DEF Timeout, CheckSlots, DecodeStop, TypeInv, TypeOK, queueVars, resultVars, mainVars
  <2>. QED BY <2>1, <2>2 DEF TypeInv, TypeOK, Reader
<1>6. CASE CancelTasks(r)
  <2>1. rd' \in [Readers -> Reader]
    BY <1>0, <1>6, ZenonT(40) DEF CancelTasks, Reader
  <2>2. /\ queue_tasks' = Reverse(Cancels(r)) \o CleanupPendingTask(queue_tasks, Ids(r))
        /\ queue_tasks_deferred' = CleanupPendingTask(queue_tasks_deferred, Ids(r))
    BY <1>6 DEF CancelTasks, PostAll, Cancels
  <2>3. /\ CleanupPendingTask(queue_tasks, Ids(r)) \in Seq(TaskRec)
        /\ queue_tasks_deferred' \in Seq(TaskRec)
    BY <1>0, <2>2, CleanupFacts
  <2>4. queue_tasks' \in Seq(TaskRec)
    BY <2>2, <2>3, CancelsFacts, ConcatFacts
  <2>5. queue_tasks' \in Seq(Task) /\ queue_tasks_deferred' \in Seq(Task)
    BY <1>0, <2>3, <2>4, StrongTypes
  <2>6. Notify
    BY <1>6 DEF CancelTasks
  <2>7. UNCHANGED <<running, waiting_task_ids, queue_results,
                    queue_results_legacy, slots, hand, cur, batch, stop_internal_decode,
                    closed, admin>>
    BY <1>6 DEF CancelTasks, resultVars, mainVars
  <2>. QED BY <2>1, <2>3, <2>4, <2>5, <2>6, <2>7, NotifyFacts DEF TypeInv, TypeOK, Reader
<1>7. CASE CloseConnection(r)
  BY <1>7 DEF CloseConnection, TypeInv, TypeOK, queueVars, resultVars, mainVars
<1>. QED BY <1>2, <1>3, <1>4, <1>5, <1>6, <1>7 DEF ReaderStep

\* Steps of an administrative request keep the types.
LEMMA AdminTypes == ASSUME TypeInv, NEW a \in Admins, AdminStep(a) PROVE TypeInv'
<1>0. /\ queue_tasks \in Seq(TaskRec) /\ queue_tasks_deferred \in Seq(TaskRec) /\ hand \in TaskRec
      /\ slots \in [Slots -> GoodSlot]
  BY DEF TypeInv, TypeOK, Reader
<1>1. CASE AdminRegister(a)
  BY <1>1 DEF AdminRegister, TypeInv, TypeOK, queueVars, mainVars
<1>2. CASE AdminPost(a)
  <2>1. Work(a, AdminType[a]) \in TaskRec
    <3>1. AdminType[a] \in {"METRICS", "SLOT_OP", "SET_LORA"}
      BY ConstantsAssumption
    <3>. QED BY <3>1 DEF Work, TaskRec, Task, TaskTypes, TaskIds
  <2>2. queue_tasks' = Append(queue_tasks, Work(a, AdminType[a]))
    BY <1>2 DEF AdminPost, Post
  <2>3. queue_tasks' \in Seq(TaskRec)
    BY <1>0, <2>1, <2>2, AppendFacts
  <2>4. queue_tasks' \in Seq(Task)
    BY <1>0, <2>3, StrongTypes
  <2>5. Notify
    BY <1>2 DEF AdminPost
  <2>6. /\ admin' \in [Admins -> {"init", "second", "recv", "done"}]
        /\ UNCHANGED <<queue_tasks_deferred, running, waiting_task_ids, queue_results,
                       queue_results_legacy, slots, hand, cur, batch, stop_internal_decode,
                       rd, closed>>
    BY <1>2 DEF AdminPost, resultVars, mainVars, TypeInv, TypeOK
  <2>. QED BY <2>3, <2>4, <2>5, <2>6, NotifyFacts DEF TypeInv, TypeOK
<1>3. CASE AdminRecv(a)
  <2> DEFINE i == FirstMine(queue_results_legacy, {a})
  <2>0. queue_results_legacy \in Seq(ResultRec)
    BY DEF TypeInv, TypeOK
  <2>1. i \in DOMAIN queue_results_legacy
    BY <1>3, <2>0, FirstMineFacts DEF AdminRecv
  <2>2. queue_results_legacy' = RemoveAt(queue_results_legacy, i)
    BY <1>3 DEF AdminRecv
  <2> HIDE DEF i
  <2>3. queue_results_legacy' \in Seq(ResultRec)
    BY <2>0, <2>1, <2>2, RemoveAtFacts
  <2>. QED BY <1>3, <2>3 DEF AdminRecv, TypeInv, TypeOK, queueVars, mainVars
<1>. QED BY <1>1, <1>2, <1>3 DEF AdminStep

\* The steps of the main thread.
LEMMA MainSteps ==
    MainStep <=> \/ PopTask \/ WaitForTask \/ WakeUp \/ PostNextResponse
                 \/ ProcessSingleTask \/ ReleaseSlots \/ PassStep
BY DEF MainStep, PassStep

\* The types hold when the server starts.
LEMMA TypeInvInit == Init => TypeInv
<1> SUFFICES ASSUME Init PROVE TypeInv
  OBVIOUS
<1>1. \A s \in Slots : slots[s] \in GoodSlot
  <2>1. 0 \in 0..MaxChunks /\ 0 \in 0..MaxTokens /\ 0 < MaxTokens
    BY ConstantsAssumption
  <2>. QED BY <2>1 DEF Init, GoodSlot, Slot, Processing, Loading, IsProcessing
<1>2. slots \in [Slots -> GoodSlot]
  BY <1>1 DEF Init
<1>3. /\ queue_tasks \in Seq(TaskRec) /\ queue_tasks_deferred \in Seq(TaskRec)
      /\ queue_results \in Seq(ResultRec) /\ queue_results_legacy \in Seq(ResultRec)
  BY DEF Init
<1>4. hand \in TaskRec /\ hand.id = NoId
  BY NextResponseRec DEF Init
<1>5. /\ queue_tasks \in Seq(Task) /\ queue_tasks_deferred \in Seq(Task)
      /\ slots \in [Slots -> Slot] /\ hand \in Task
  BY <1>2, <1>3, <1>4, StrongTypes
<1>6. rd \in [Readers -> Reader]
  BY DEF Init, Reader
<1>7. cur \in Slots
  BY ConstantsAssumption DEF Init, Slots
<1>. QED BY <1>2, <1>3, <1>4, <1>5, <1>6, <1>7 DEF Init, TypeInv, TypeOK, Reader

\* Every step keeps the types and the slots consistent.
LEMMA TypeInvStep == TypeInv /\ [Next]_vars => TypeInv'
<1> SUFFICES ASSUME TypeInv, [Next]_vars PROVE TypeInv'
  OBVIOUS
<1>1. CASE MainStep
  BY <1>1, MainSteps, LoopTypes, HandleEffects, HandleTypes, ReleaseEffects, ReleaseTypes,
     PassEffects, PassTypes
<1>2. CASE Terminate
  <2>1. Notify /\ running' \in BOOLEAN
    BY <1>2 DEF Terminate
  <2>. QED BY <1>2, <2>1, NotifyFacts DEF Terminate, TypeInv, TypeOK, resultVars, mainVars
<1>3. CASE UNCHANGED vars
  BY <1>3 DEF vars, TypeInv, TypeOK, queueVars, resultVars, mainVars
<1>. QED BY <1>1, <1>2, <1>3, ReaderTypes, AdminTypes DEF Next

\* Types: in every reachable state, whatever fails and whoever disconnects, the
\* queues hold well-formed tasks and results, the counters of every slot are in
\* range, and the loop index is a slot.
LEMMA TypesHold == Spec => []TypeInv
BY TypeInvInit, TypeInvStep, PTL DEF Spec

\* Type correctness, as TypeOK states it.
THEOREM TypeCorrect == Spec => []TypeOK
<1>1. TypeInv => TypeOK
  BY DEF TypeInv
<1>. QED BY <1>1, TypesHold, PTL

-----------------------------------------------------------------------------
(* A slot in use stays with its task                                        *)

\* What any HTTP thread does: it never writes what the main thread owns; it
\* only adds to the queue of tasks, or removes its own; it may wake the loop.
HttpEffect ==
    /\ UNCHANGED <<slots, hand, cur, batch>>
    /\ loop' = loop \/ Notify
    /\ Holds(queue_tasks, NoId) => Holds(queue_tasks', NoId)
    /\ DrawnFrom(queue_tasks_deferred', queue_tasks_deferred)

\* A queue is drawn from itself.
LEMMA DrawnFromItself == ASSUME NEW q PROVE DrawnFrom(q, q)
BY DEF DrawnFrom

\* A step that is not of the main thread has the effect HttpEffect.
LEMMA HttpEffects ==
    ASSUME TypeInv, [Next]_vars PROVE MainStep \/ HttpEffect
<1>0. queue_tasks \in Seq(TaskRec) /\ queue_tasks_deferred \in Seq(TaskRec)
  BY DEF TypeInv
<1>1. ASSUME NEW r \in Readers, AddWaitingTasks(r) \/ ReaderStep(r) \/ CloseConnection(r)
      PROVE  HttpEffect
  <2>1. CASE UNCHANGED <<slots, hand, cur, batch, loop, queue_tasks, queue_tasks_deferred>>
    BY <2>1, DrawnFromItself DEF HttpEffect
  <2>2. CASE PostTasks(r)
    <3>1. queue_tasks' = queue_tasks \o Posted(r)
      BY <2>2 DEF PostTasks, PostAll, Posted
    <3>2. Holds(queue_tasks, NoId) => Holds(queue_tasks', NoId)
      BY <1>0, <3>1, PostedFacts, ConcatFacts
    <3>. QED BY <2>2, <3>2, DrawnFromItself DEF PostTasks, HttpEffect, mainVars
  <2>3. CASE CancelTasks(r)
    <3>1. /\ queue_tasks' = Reverse(Cancels(r)) \o CleanupPendingTask(queue_tasks, Ids(r))
          /\ queue_tasks_deferred' = CleanupPendingTask(queue_tasks_deferred, Ids(r))
      BY <2>3 DEF CancelTasks, PostAll, Cancels
    <3>2. /\ CleanupPendingTask(queue_tasks, Ids(r)) \in Seq(TaskRec)
          /\ DrawnFrom(queue_tasks_deferred', queue_tasks_deferred)
      BY <1>0, <3>1, CleanupFacts
    <3>3. NoId \notin Ids(r)
      BY TaskIdFacts
    <3>4. Holds(queue_tasks, NoId) => Holds(CleanupPendingTask(queue_tasks, Ids(r)), NoId)
      BY <1>0, <3>3, CleanupFacts
    <3>5. Holds(queue_tasks, NoId) => Holds(queue_tasks', NoId)
      BY <3>1, <3>2, <3>4, CancelsFacts, ConcatFacts
    <3>. QED BY <2>3, <3>2, <3>5 DEF CancelTasks, HttpEffect, mainVars
  <2>. QED BY <1>1, <2>1, <2>2, <2>3 DEF AddWaitingTasks, ReaderStep, CloseConnection, Receive,
              Timeout, CheckSlots, DecodeStop, Stop, mainVars, queueVars
<1>2. ASSUME NEW a \in Admins, AdminStep(a) PROVE HttpEffect
  <2>1. CASE AdminPost(a)
    <3>1. queue_tasks' = Append(queue_tasks, Work(a, AdminType[a]))
      BY <2>1 DEF AdminPost, Post
    <3>2. Work(a, AdminType[a]) \in TaskRec
      <4>1. AdminType[a] \in {"METRICS", "SLOT_OP", "SET_LORA"}
        BY ConstantsAssumption
      <4>. QED BY <4>1 DEF Work, TaskRec, Task, TaskTypes, TaskIds
    <3>3. Holds(queue_tasks, NoId) => Holds(queue_tasks', NoId)
      BY <1>0, <3>1, <3>2, AppendFacts
    <3>. QED BY <2>1, <3>3, DrawnFromItself DEF AdminPost, HttpEffect, mainVars
  <2>2. CASE AdminRegister(a) \/ AdminRecv(a)
    BY <2>2, DrawnFromItself DEF AdminRegister, AdminRecv, HttpEffect, mainVars, queueVars
  <2>. QED BY <1>2, <2>1, <2>2 DEF AdminStep
<1>3. CASE Terminate
  BY <1>3, DrawnFromItself DEF Terminate, HttpEffect, mainVars
<1>4. CASE UNCHANGED vars
  BY <1>4, DrawnFromItself DEF vars, HttpEffect, mainVars, queueVars
<1>. QED BY <1>1, <1>2, <1>3, <1>4 DEF Next

\* No step gives a slot in use another task.
LEMMA NotStolenStep ==
    ASSUME TypeInv, [Next]_vars
    PROVE  \A s \in Slots : ~Available(slots[s]) => slots'[s].id_task = slots[s].id_task
<1>1. CASE HttpEffect \/ PopTask \/ WaitForTask \/ WakeUp \/ PostNextResponse
  BY <1>1 DEF HttpEffect, PopTask, WaitForTask, WakeUp, PostNextResponse, mainVars
<1>2. CASE HandleEffect
  BY <1>2 DEF HandleEffect, HandleDone, HandleDeferred, HandleLaunch, Calm
<1>3. CASE ReleaseEffect
  BY <1>3 DEF ReleaseEffect
<1>4. CASE PassEffect
  BY <1>4 DEF PassEffect, Calm
<1>. QED BY <1>1, <1>2, <1>3, <1>4, HttpEffects, MainSteps, HandleEffects, ReleaseEffects,
            PassEffects

\* A slot in use is never handed to another task: with any number of slots and
\* requests, under cancellation, system prompts, aborted and failed decodes.
THEOREM SlotKeepsTask == Spec => SlotNotStolen
<1>1. TypeInv /\ [Next]_vars =>
        [\A s \in Slots : ~Available(slots[s]) => slots'[s].id_task = slots[s].id_task]_vars
  BY NotStolenStep
<1>. QED BY <1>1, TypesHold, PTL DEF Spec, SlotNotStolen

-----------------------------------------------------------------------------
(* The main thread sleeps only when idle                                    *)

AllAvailable == \A s \in Slots : Available(slots[s])

\* A pass over busy slots has its NEXT_RESPONSE task in the queue, so the wait
\* at its end falls through; the loop goes to sleep only after release_slots
\* has found every slot free.
SleepInv ==
    /\ DeferredHasBusySlot
    /\ loop \in PassPhases => Holds(queue_tasks, NoId)
    /\ loop = "wait" => AllAvailable \/ Holds(queue_tasks, NoId)
    /\ loop \in {"asleep", "woken", "exited"} => AllAvailable

\* Every step keeps SleepInv.
LEMMA SleepStep == TypeInv /\ SleepInv /\ [Next]_vars => SleepInv'
<1> SUFFICES ASSUME TypeInv, SleepInv, [Next]_vars PROVE SleepInv'
  OBVIOUS
<1>0. /\ queue_tasks \in Seq(TaskRec) /\ queue_tasks_deferred \in Seq(TaskRec) /\ hand \in TaskRec
      /\ slots \in [Slots -> GoodSlot]
  BY DEF TypeInv
<1>1. CASE HttpEffect
  <2>1. DeferredHasBusySlot'
    BY <1>1 DEF HttpEffect, DrawnFrom, DeferredHasBusySlot, SleepInv
  <2>2. loop' = loop \/ (loop = "asleep" /\ loop' = "woken")
    BY <1>1 DEF HttpEffect, Notify
  <2>. QED BY <1>1, <2>1, <2>2 DEF HttpEffect, SleepInv, AllAvailable, PassPhases
<1>2. CASE PopTask
  BY <1>2 DEF PopTask, SleepInv, DeferredHasBusySlot, PassPhases
<1>3. CASE WaitForTask \/ WakeUp
  <2>1. UNCHANGED <<slots, queue_tasks, queue_tasks_deferred>>
    BY <1>3 DEF WaitForTask, WakeUp, queueVars, mainVars
  <2>2. DeferredHasBusySlot'
    BY <2>1 DEF SleepInv, DeferredHasBusySlot
  <2>3. queue_tasks = <<>> => ~Holds(queue_tasks, NoId)
    BY DEF Holds
  <2>4. loop' \in {"pop", "asleep", "exited"} /\ (loop' # "pop" => AllAvailable)
    BY <1>3, <2>3 DEF WaitForTask, WakeUp, SleepInv
  <2>. QED BY <2>1, <2>2, <2>4 DEF SleepInv, AllAvailable, PassPhases
<1>4. CASE PostNextResponse
  <2>1. Holds(queue_tasks', NoId)
    BY <1>0, <1>4, AppendFacts, NextResponseRec DEF PostNextResponse, Post
  <2>2. DeferredHasBusySlot'
    BY <1>4 DEF PostNextResponse, SleepInv, DeferredHasBusySlot
  <2>3. loop' = "shift"
    BY <1>4 DEF PostNextResponse
  <2>. QED BY <2>1, <2>2, <2>3 DEF SleepInv, PassPhases
<1>5. CASE HandleEffect
  <2>1. loop' = "pop"
    BY <1>5 DEF HandleEffect
  <2>2. ASSUME HandleDone PROVE DeferredHasBusySlot'
    BY <2>2 DEF HandleDone, Calm, DeferredHasBusySlot, SleepInv
  <2>3. ASSUME HandleDeferred PROVE DeferredHasBusySlot'
    <3>1. /\ DOMAIN Append(queue_tasks_deferred, hand) = 1..(Len(queue_tasks_deferred) + 1)
          /\ \A i \in 1..Len(queue_tasks_deferred) :
                Append(queue_tasks_deferred, hand)[i] = queue_tasks_deferred[i]
          /\ Append(queue_tasks_deferred, hand)[Len(queue_tasks_deferred) + 1] = hand
          /\ DOMAIN queue_tasks_deferred = 1..Len(queue_tasks_deferred)
          /\ Len(queue_tasks_deferred) \in Nat
      BY <1>0
    <3>. QED BY <2>3, <3>1 DEF HandleDeferred, DeferredHasBusySlot, SleepInv
  <2>4. ASSUME HandleLaunch PROVE DeferredHasBusySlot'
    <3>1. \A s \in Slots : ~Available(slots[s]) => ~Available(slots'[s])
      BY <2>4 DEF HandleLaunch, Calm
    <3>. QED BY <2>4, <3>1 DEF HandleLaunch, DeferredHasBusySlot, SleepInv
  <2>5. DeferredHasBusySlot'
    BY <1>5, <2>2, <2>3, <2>4 DEF HandleEffect, SleepInv
  <2>. QED BY <2>1, <2>5 DEF SleepInv, PassPhases
<1>6. CASE ReleaseEffect
  <2>1. CASE UNCHANGED <<slots, queue_tasks, queue_tasks_deferred>>
    <3>1. DeferredHasBusySlot'
      BY <2>1 DEF DeferredHasBusySlot, SleepInv
    <3>. QED BY <1>6, <3>1 DEF ReleaseEffect, SleepInv, AllAvailable, PassPhases
  <2>2. CASE queue_tasks_deferred' = <<>>
    <3>1. DeferredHasBusySlot'
      BY <2>2 DEF DeferredHasBusySlot
    <3>. QED BY <1>6, <3>1 DEF ReleaseEffect, SleepInv, AllAvailable, PassPhases
  <2>. QED BY <1>6, <2>1, <2>2 DEF ReleaseEffect
<1>7. CASE PassEffect
  <2>1. DeferredHasBusySlot'
    BY <1>7 DEF PassEffect, Calm, DeferredHasBusySlot, SleepInv
  <2>. QED BY <1>7, <2>1 DEF PassEffect, SleepInv, PassPhases
<1>. QED BY <1>1, <1>2, <1>3, <1>4, <1>5, <1>6, <1>7, HttpEffects, MainSteps, HandleEffects,
            ReleaseEffects, PassEffects

\* The main thread never sleeps, and never leaves its loop, with a slot in use;
\* and whenever a task is deferred some slot is in use, whose release brings it
\* back.  No wake-up is lost, whatever order the threads run in.
THEOREM SleepsIdle == Spec => []SleepsOnlyWhenIdle
<1>1. Init => SleepInv
  BY DEF Init, SleepInv, DeferredHasBusySlot, PassPhases
<1>2. SleepInv => SleepsOnlyWhenIdle
  BY DEF SleepInv, SleepsOnlyWhenIdle, AllAvailable
<1>. QED BY <1>1, <1>2, SleepStep, TypesHold, PTL DEF Spec
=============================================================================
