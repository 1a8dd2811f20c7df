--------------------------- MODULE ServerTaskProofs ---------------------------
(***************************************************************************)
(* The life of a task, for every number of slots, requests and tasks: it   *)
(* is posted once, is in one place at a time, gets at most one final       *)
(* result, behind which nothing but an error follows, and is counted once  *)
(* by the reader that waits for it.                                        *)
(*                                                                         *)
(* The inductive invariant orders the stages of a task: not yet posted,    *)
(* in one place, final result stored, final result received.  OnePlace,    *)
(* NothingAfterFinal and NoDuplicateResult each follow from it; none of    *)
(* them is inductive alone.                                                *)
(***************************************************************************)
EXTENDS ServerLoopProofs, FiniteSetTheorems

Real == ReaderTasks \cup Admins

OnSlot(t) == \E s \in Slots : Runs(s, t)

Placed(t) ==
    \/ Holds(queue_tasks, t) \/ Holds(queue_tasks_deferred, t)
    \/ hand.id = t \/ OnSlot(t)

\* The task is in one place at most.
Single(t) ==
    /\ HoldsOnce(queue_tasks, t) /\ HoldsOnce(queue_tasks_deferred, t)
    /\ \A s, q \in Slots : Runs(s, t) /\ Runs(q, t) => s = q
    /\ Holds(queue_tasks, t) => ~Holds(queue_tasks_deferred, t) /\ hand.id # t /\ ~OnSlot(t)
    /\ Holds(queue_tasks_deferred, t) => hand.id # t /\ ~OnSlot(t)
    /\ hand.id = t => ~OnSlot(t)

\* The queue of results holds a final result of t, with only errors of t behind.
FinalIn(q, t) == \E i \in DOMAIN q : q[i].id = t /\ q[i].kind = "final"
FinalLast(q) ==
    \A i, j \in DOMAIN q :
        i < j /\ q[i].id = q[j].id /\ q[i].kind = "final" => q[j].kind = "error"

\* The handler of t has not posted it yet; a reader has counted its final result.
Before(a) == IF RegistersFirst(a) THEN {"init", "second"} ELSE {"init"}
Unposted(t) ==
    \/ \E r \in Readers : t \in Ids(r) /\ rd[r].pc \in {"init", "post"}
    \/ t \in Admins /\ admin[t] \in Before(t)
Got(t) == \E r \in Readers : t \in rd[r].results

\* The stages of a task exclude each other.
Stages(t) ==
    /\ Unposted(t) => ~Placed(t) /\ ~FinalIn(queue_results, t) /\ ~Got(t)
    /\ FinalIn(queue_results, t) => ~Placed(t) /\ ~Got(t)
    /\ Got(t) => ~Placed(t)

Counted ==
    \A r \in Readers : /\ IsFiniteSet(rd[r].results)
                       /\ rd[r].received = Cardinality(rd[r].results)

TaskInv ==
    /\ \A t \in Real : Single(t) /\ Stages(t)
    /\ FinalLast(queue_results)
    /\ Counted

\* Ids of requests are numbers other than -1.
LEMMA RealFacts == Real \subseteq Nat \ {NoId}
BY TaskIdFacts DEF Real

-----------------------------------------------------------------------------
(* Results                                                                  *)

\* send(): a result goes behind the others, if somebody waits for it.
LEMMA SendFacts ==
    ASSUME NEW q \in Seq(ResultRec), NEW w, w \subseteq Real, NEW u,
           NEW kind \in {"partial", "final", "error"}
    PROVE  /\ \A t : FinalIn(q, t) => FinalIn(Send(q, w, Result(u, kind)), t)
           /\ \A t : FinalIn(Send(q, w, Result(u, kind)), t) =>
                        FinalIn(q, t) \/ (t = u /\ kind = "final")
           /\ FinalLast(q) /\ (kind = "error" \/ ~FinalIn(q, u)) =>
                 FinalLast(Send(q, w, Result(u, kind)))
<1> DEFINE x == Result(u, kind)
<1>0. x.id = u /\ x.kind = kind
  BY DEF Result
<1>1. CASE u \notin w
  BY <1>0, <1>1 DEF Send
<1>2. CASE u \in w
  <2>1. x \in ResultRec
    BY <1>2 DEF Result, ResultRec, Real
  <2>2. Send(q, w, x) = Append(q, x)
    BY <1>0, <1>2 DEF Send
  <2> HIDE DEF x
  <2>3. /\ DOMAIN Append(q, x) = 1..(Len(q) + 1) /\ DOMAIN q = 1..Len(q)
        /\ \A i \in DOMAIN q : Append(q, x)[i] = q[i]
        /\ Append(q, x)[Len(q) + 1] = x /\ Len(q) \in Nat
    BY <2>1
  <2>4. \A t : FinalIn(q, t) => FinalIn(Append(q, x), t)
    BY <2>3 DEF FinalIn
  <2>5. \A t : FinalIn(Append(q, x), t) => FinalIn(q, t) \/ (t = u /\ kind = "final")
    BY <1>0, <2>3 DEF FinalIn
  <2>6. ASSUME FinalLast(q), kind = "error" \/ ~FinalIn(q, u) PROVE FinalLast(Append(q, x))
    <3> SUFFICES ASSUME NEW i \in 1..(Len(q) + 1), NEW j \in 1..(Len(q) + 1), i < j,
                        Append(q, x)[i].id = Append(q, x)[j].id,
                        Append(q, x)[i].kind = "final"
                 PROVE  Append(q, x)[j].kind = "error"
      BY <2>3 DEF FinalLast
    <3>1. i \in DOMAIN q /\ Append(q, x)[i] = q[i]
      BY <2>3
    <3>2. CASE j \in DOMAIN q
      BY <2>3, <2>6, <3>1, <3>2 DEF FinalLast
    <3>3. CASE j = Len(q) + 1
      BY <1>0, <2>3, <2>6, <3>1, <3>3 DEF FinalIn
    <3>. QED BY <2>3, <3>2, <3>3
  <2>. QED BY <2>2, <2>4, <2>5, <2>6 DEF x
<1>. QED BY <1>1, <1>2

\* Receiving a result: the order of the others does not change, and a final
\* result that is received was the only one of its task.
LEMMA RemoveFacts ==
    ASSUME NEW q \in Seq(ResultRec), NEW i \in DOMAIN q, FinalLast(q)
    PROVE  /\ FinalLast(RemoveAt(q, i))
           /\ \A t : FinalIn(RemoveAt(q, i), t) => FinalIn(q, t)
           /\ q[i].kind = "final" => ~FinalIn(RemoveAt(q, i), q[i].id)
<1> DEFINE p == RemoveAt(q, i)
           At(k) == IF k < i THEN k ELSE k + 1
<1>1. /\ Len(q) \in Nat /\ DOMAIN q = 1..Len(q) /\ DOMAIN p = 1..(Len(q) - 1)
      /\ \A k \in 1..(Len(q) - 1) : p[k] = IF k < i THEN q[k] ELSE q[k + 1]
  <2>1. Len(q) \in Nat /\ DOMAIN q = 1..Len(q)
    OBVIOUS
  <2>2. /\ DOMAIN RemoveAt(q, i) = 1..(Len(q) - 1)
        /\ \A k \in 1..(Len(q) - 1) : RemoveAt(q, i)[k] = IF k < i THEN q[k] ELSE q[k + 1]
    BY RemoveAtFacts
  <2>. QED BY <2>1, <2>2
<1> HIDE DEF p
<1>2. \A k \in DOMAIN p : At(k) \in DOMAIN q /\ At(k) # i /\ p[k] = q[At(k)]
  BY <1>1
<1>3. \A k, m \in DOMAIN p : k < m => At(k) < At(m)
  BY <1>1
<1>4. \A j, k \in DOMAIN q : j < k /\ q[j].id = q[k].id /\ q[j].kind = "final" => q[k].kind = "error"
  BY DEF FinalLast
<1>5. FinalLast(p)
  <2> SUFFICES ASSUME NEW k \in DOMAIN p, NEW m \in DOMAIN p, k < m, p[k].id = p[m].id,
                      p[k].kind = "final"
               PROVE  p[m].kind = "error"
    BY DEF FinalLast
  <2>1. At(k) < At(m) /\ At(k) \in DOMAIN q /\ At(m) \in DOMAIN q /\ p[k] = q[At(k)] /\ p[m] = q[At(m)]
    BY <1>2, <1>3
  <2> HIDE DEF At
  <2>. QED BY <1>4, <2>1
<1>6. \A t : FinalIn(p, t) => FinalIn(q, t)
  <2> HIDE DEF At
  <2>. QED BY <1>2 DEF FinalIn
<1>7. ASSUME q[i].kind = "final", NEW k \in DOMAIN p, p[k].id = q[i].id, p[k].kind = "final"
      PROVE  FALSE
  <2> DEFINE m == At(k)
  <2>1. m \in DOMAIN q /\ m # i /\ q[m].id = q[i].id /\ q[m].kind = "final"
    BY <1>2, <1>7
  <2> HIDE DEF m
  <2>2. m < i \/ i < m
    BY <1>1, <2>1
  <2>. QED BY <1>4, <1>7, <2>1, <2>2
<1>. QED BY <1>5, <1>6, <1>7 DEF p, FinalIn

-----------------------------------------------------------------------------
(* The steps that leave the readers alone                                   *)

\* Nothing is posted and no reader moves: the stages before and after the time
\* in the server are as they were.
LEMMA StageFrame ==
    ASSUME UNCHANGED <<rd, admin>>, NEW t
    PROVE  (Unposted(t)' <=> Unposted(t)) /\ (Got(t)' <=> Got(t))
BY DEF Unposted, Got

\* Steps that send nothing final: it is enough that no task enters the server.
LEMMA StagesKept ==
    ASSUME NEW t, Stages(t), Unposted(t)' => Unposted(t), Got(t)' <=> Got(t),
           Placed(t)' => Placed(t), FinalIn(queue_results, t)' => FinalIn(queue_results, t)
    PROVE  Stages(t)'
BY DEF Stages

\* An error changes neither.
LEMMA ErrorKept ==
    ASSUME TypeInv, FinalLast(queue_results),
           UNCHANGED queue_results \/ \E u : SendResult(u, "error")
    PROVE  /\ \A t : FinalIn(queue_results, t)' => FinalIn(queue_results, t)
           /\ FinalLast(queue_results)'
<1>1. queue_results \in Seq(ResultRec) /\ waiting_task_ids \subseteq Real
  BY DEF TypeInv, TypeOK, Real
<1>2. CASE UNCHANGED queue_results
  BY <1>2
<1>3. ASSUME NEW u, SendResult(u, "error")
      PROVE  /\ \A t : FinalIn(queue_results, t)' => FinalIn(queue_results, t)
             /\ FinalLast(queue_results)'
  <2>1. queue_results' = Send(queue_results, waiting_task_ids, Result(u, "error"))
    BY <1>3 DEF SendResult
  <2>. QED BY <1>1, <2>1, SendFacts
<1>. QED BY <1>2, <1>3

\* update_slots keeps TaskInv.
LEMMA PassTask == ASSUME TypeInv, TaskInv, PassEffect PROVE TaskInv'
<1>0. /\ queue_results \in Seq(ResultRec) /\ waiting_task_ids \subseteq Real /\ cur \in Slots
      /\ slots \in [Slots -> GoodSlot]
  BY DEF TypeInv, TypeOK, Real
<1>1. UNCHANGED <<queue_tasks, queue_tasks_deferred, hand, rd, admin>>
  BY DEF PassEffect
<1>2. \A t : \A s \in Slots : Runs(s, t)' => Runs(s, t)
  BY DEF PassEffect, Calm, Runs
<1>3. \A t : (OnSlot(t)' => OnSlot(t)) /\ (Placed(t)' => Placed(t))
  BY <1>1, <1>2 DEF OnSlot, Placed
<1>4. ASSUME NEW t \in Real PROVE Single(t)'
  <2>1. Single(t)
    BY DEF TaskInv
  <2>. QED BY <1>1, <1>2, <1>3, <2>1 DEF Single
<1>5. \A u : Runs(cur, u) => u \in Real /\ Placed(u)
  BY <1>0 DEF Runs, GoodSlot, Real, Placed, OnSlot
<1>6. Counted'
  BY <1>1 DEF TaskInv, Counted
<1>7. CASE UNCHANGED queue_results \/ \E u : SendResult(u, "error")
  <2>1. /\ \A t : FinalIn(queue_results, t)' => FinalIn(queue_results, t)
        /\ FinalLast(queue_results)'
    BY <1>7, ErrorKept DEF TaskInv
  <2>2. \A t \in Real : Stages(t)'
    BY <1>1, <1>3, <2>1, StageFrame, StagesKept DEF TaskInv
  <2>. QED BY <1>4, <1>6, <2>1, <2>2 DEF TaskInv
<1>8. ASSUME NEW u, Runs(cur, u), SendResult(u, "partial") PROVE TaskInv'
  <2>1. ~FinalIn(queue_results, u)
    BY <1>5, <1>8 DEF TaskInv, Stages
  <2>2. queue_results' = Send(queue_results, waiting_task_ids, Result(u, "partial"))
    BY <1>8 DEF SendResult
  <2>3. /\ \A t : FinalIn(queue_results, t)' => FinalIn(queue_results, t)
        /\ FinalLast(queue_results)'
    BY <1>0, <2>1, <2>2, SendFacts DEF TaskInv
  <2>4. \A t \in Real : Stages(t)'
    BY <1>1, <1>3, <2>3, StageFrame, StagesKept DEF TaskInv
  <2>. QED BY <1>4, <1>6, <2>3, <2>4 DEF TaskInv
<1>9. ASSUME NEW u, Runs(cur, u), ~IsProcessing(slots'[cur]), FinalSent(u) PROVE TaskInv'
  <2>1. u \in Real /\ Placed(u) /\ Single(u) /\ Stages(u) /\ OnSlot(u)
    BY <1>0, <1>5, <1>9 DEF TaskInv, OnSlot
  <2>2. ~FinalIn(queue_results, u) /\ ~Got(u) /\ ~Unposted(u)
    BY <2>1 DEF Stages
  <2>3. ~Placed(u)'
    <3>1. \A s \in Slots : ~Runs(s, u)'
      <4> SUFFICES ASSUME NEW s \in Slots, Runs(s, u)' PROVE FALSE
        OBVIOUS
      <4>1. Runs(s, u)
        BY <1>2
      <4>2. s = cur
        BY <1>0, <1>9, <2>1, <4>1 DEF Single
      <4>. QED BY <1>9, <4>2 DEF Runs
    <3>2. ~OnSlot(u)'
      BY <3>1 DEF OnSlot
    <3>3. ~Holds(queue_tasks, u) /\ ~Holds(queue_tasks_deferred, u) /\ hand.id # u
      BY <2>1 DEF Single
    <3>. QED BY <1>1, <3>2, <3>3 DEF Placed
  <2> DEFINE mid == Send(queue_results, waiting_task_ids, Result(u, "partial"))
  <2>4. /\ mid \in Seq(ResultRec) /\ \A t : FinalIn(mid, t) => FinalIn(queue_results, t)
        /\ FinalLast(mid)
    <3>1. mid \in Seq(ResultRec)
      BY <1>0, SendType DEF Real
    <3>. QED BY <1>0, <2>2, <3>1, SendFacts DEF TaskInv
  <2>5. PICK q \in {queue_results, mid} :
            queue_results' = Send(q, waiting_task_ids, Result(u, "final"))
    BY <1>9 DEF FinalSent, SendResult
  <2>6. /\ q \in Seq(ResultRec) /\ FinalLast(q)
        /\ \A t : FinalIn(q, t) => FinalIn(queue_results, t)
    <3> HIDE DEF mid
    <3>. QED BY <1>0, <2>4 DEF TaskInv
  <2>7. /\ \A t : FinalIn(queue_results, t)' => FinalIn(queue_results, t) \/ t = u
        /\ FinalLast(queue_results)'
    <3>1. ~FinalIn(q, u)
      BY <2>2, <2>6
    <3>. QED BY <1>0, <2>5, <2>6, <3>1, SendFacts
  <2>8. ASSUME NEW t \in Real, t # u PROVE Stages(t)'
    <3>1. FinalIn(queue_results, t)' => FinalIn(queue_results, t)
      BY <2>7, <2>8
    <3>2. Stages(t)
      BY DEF TaskInv
    <3>. QED BY <1>1, <1>3, <3>1, <3>2, StageFrame, StagesKept
  <2>9. Stages(u)'
    BY <1>1, <2>2, <2>3, StageFrame DEF Stages
  <2>. QED BY <1>4, <1>6, <2>7, <2>8, <2>9 DEF TaskInv
<1>. QED BY <1>7, <1>8, <1>9 DEF PassEffect, ResultEffect

\* process_single_task keeps TaskInv.
LEMMA HandleTask == ASSUME TypeInv, TaskInv, HandleEffect PROVE TaskInv'
<1>0. /\ queue_tasks_deferred \in Seq(TaskRec) /\ hand \in TaskRec /\ slots \in [Slots -> GoodSlot]
  BY DEF TypeInv
<1>1. UNCHANGED <<queue_tasks, rd, admin>> /\ hand'.id = NoId
  BY NextResponseRec DEF HandleEffect
<1>2. /\ \A t : FinalIn(queue_results, t)' => FinalIn(queue_results, t)
      /\ FinalLast(queue_results)'
  BY ErrorKept DEF TaskInv, HandleEffect
<1>3. Counted'
  BY <1>1 DEF TaskInv, Counted
<1> SUFFICES ASSUME NEW t \in Real PROVE Single(t)' /\ (Placed(t)' => Placed(t))
  <2>1. ASSUME NEW t \in Real PROVE Single(t)' /\ Stages(t)'
    <3>1. Stages(t)
      BY DEF TaskInv
    <3>. QED BY <1>1, <1>2, <3>1, StageFrame, StagesKept
  <2>. QED BY <1>2, <1>3, <2>1 DEF TaskInv
<1>4. Single(t) /\ hand'.id # t
  BY <1>1, RealFacts DEF TaskInv
<1>5. CASE HandleDone
  <2>1. \A s \in Slots : Runs(s, t)' => Runs(s, t)
    BY <1>5 DEF HandleDone, Calm, Runs
  <2>2. OnSlot(t)' => OnSlot(t)
    BY <2>1 DEF OnSlot
  <2>. QED BY <1>1, <1>4, <1>5, <2>1, <2>2 DEF HandleDone, Single, Placed
<1>6. CASE HandleDeferred
  <2>1. UNCHANGED slots /\ queue_tasks_deferred' = Append(queue_tasks_deferred, hand)
    BY <1>6 DEF HandleDeferred
  <2>2. \A s \in Slots : Runs(s, t)' <=> Runs(s, t)
    BY <2>1 DEF Runs
  <2>3. OnSlot(t)' <=> OnSlot(t)
    BY <2>2 DEF OnSlot
  <2>4. /\ Holds(queue_tasks_deferred, t)' <=> Holds(queue_tasks_deferred, t) \/ hand.id = t
        /\ HoldsOnce(queue_tasks_deferred, t)'
    <3>1. HoldsOnce(queue_tasks_deferred, t) /\ (hand.id = t => ~Holds(queue_tasks_deferred, t))
      BY <1>4 DEF Single
    <3>. QED BY <1>0, <2>1, <3>1, AppendFacts
  <2>. QED BY <1>1, <1>4, <2>2, <2>3, <2>4 DEF Single, Placed
<1>7. CASE HandleLaunch
  <2>1. PICK s \in Slots : /\ Available(slots[s]) /\ slots'[s].id_task = hand.id
                           /\ \A q \in Slots : q # s => Calm(slots[q], slots'[q])
    BY <1>7 DEF HandleLaunch
  <2>2. UNCHANGED queue_tasks_deferred
    BY <1>7 DEF HandleLaunch
  <2>3. \A q \in Slots : q # s /\ Runs(q, t)' => Runs(q, t)
    BY <2>1 DEF Calm, Runs
  <2>4. Runs(s, t)' => hand.id = t
    BY <2>1 DEF Runs
  <2>5. CASE hand.id = t
    <3>1. ~OnSlot(t) /\ ~Holds(queue_tasks, t) /\ ~Holds(queue_tasks_deferred, t)
      BY <1>4, <2>5 DEF Single
    <3>2. \A q \in Slots : Runs(q, t)' => q = s
      BY <2>3, <3>1 DEF OnSlot
    <3>. QED BY <1>1, <1>4, <2>2, <2>5, <3>1, <3>2 DEF Single, Placed
  <2>6. CASE hand.id # t
    <3>1. \A q \in Slots : Runs(q, t)' => Runs(q, t)
      BY <2>3, <2>4, <2>6
    <3>2. OnSlot(t)' => OnSlot(t)
      BY <3>1 DEF OnSlot
    <3>. QED BY <1>1, <1>4, <2>2, <3>1, <3>2 DEF Single, Placed
  <2>. QED BY <2>5, <2>6
<1>. QED BY <1>5, <1>6, <1>7 DEF HandleEffect

\* The rest of the main loop keeps TaskInv.
LEMMA LoopTask ==
    ASSUME TypeInv, TaskInv,
           PopTask \/ WaitForTask \/ WakeUp \/ PostNextResponse \/ ReleaseEffect
    PROVE  TaskInv'
<1>0. queue_tasks \in Seq(TaskRec) /\ queue_tasks_deferred \in Seq(TaskRec)
      /\ (loop # "handle" => hand.id = NoId)
  BY DEF TypeInv
<1>1. UNCHANGED <<rd, admin, queue_results>>
  BY DEF PopTask, WaitForTask, WakeUp, PostNextResponse, ReleaseEffect, resultVars
<1> SUFFICES ASSUME NEW t \in Real PROVE Single(t)' /\ (Placed(t)' => Placed(t))
  <2>1. ASSUME NEW t \in Real PROVE Single(t)' /\ Stages(t)'
    <3>1. Stages(t)
      BY DEF TaskInv
    <3>. QED BY <1>1, <3>1, StageFrame, StagesKept
  <2>2. Counted' /\ FinalLast(queue_results)'
    BY <1>1 DEF TaskInv, Counted
  <2>. QED BY <2>1, <2>2 DEF TaskInv
<1>2. Single(t) /\ t # NoId
  BY RealFacts DEF TaskInv
<1>3. ASSUME UNCHANGED slots PROVE (OnSlot(t)' <=> OnSlot(t)) /\ \A s \in Slots : Runs(s, t)' <=> Runs(s, t)
  BY <1>3 DEF OnSlot, Runs
<1>4. CASE UNCHANGED <<queue_tasks, queue_tasks_deferred, hand, slots>>
  BY <1>2, <1>3, <1>4 DEF Single, Placed
<1>5. CASE PopTask
  <2>1. CASE queue_tasks = <<>>
    <3>1. UNCHANGED <<queue_tasks, queue_tasks_deferred, hand, slots>>
      BY <1>5, <2>1 DEF PopTask
    <3>. QED BY <1>4, <3>1
  <2>2. CASE queue_tasks # <<>>
    <3>1. /\ hand' = Head(queue_tasks) /\ queue_tasks' = Tail(queue_tasks)
          /\ UNCHANGED <<queue_tasks_deferred, slots>> /\ hand.id = NoId
      BY <1>0, <1>5, <2>2 DEF PopTask
    <3>2. /\ Holds(queue_tasks, t) <=> hand'.id = t \/ Holds(queue_tasks', t)
          /\ HoldsOnce(queue_tasks', t) /\ (hand'.id = t => ~Holds(queue_tasks', t))
      <4>1. HoldsOnce(queue_tasks, t)
        BY <1>2 DEF Single
      <4>. QED BY <1>0, <2>2, <3>1, <4>1, TailFacts
    <3>. QED BY <1>2, <1>3, <3>1, <3>2 DEF Single, Placed
  <2>. QED BY <2>1, <2>2
<1>6. CASE WaitForTask \/ WakeUp
  BY <1>4, <1>6 DEF WaitForTask, WakeUp, queueVars, mainVars
<1>7. CASE PostNextResponse
  <2>1. /\ queue_tasks' = Append(queue_tasks, NextResponse)
        /\ UNCHANGED <<queue_tasks_deferred, slots, hand>>
    BY <1>7 DEF PostNextResponse, Post
  <2>2. /\ Holds(queue_tasks', t) <=> Holds(queue_tasks, t)
        /\ HoldsOnce(queue_tasks, t) => HoldsOnce(queue_tasks', t)
    BY <1>0, <1>2, <2>1, AppendFacts, NextResponseRec
  <2>. QED BY <1>2, <1>3, <2>1, <2>2 DEF Single, Placed
<1>8. CASE ReleaseEffect
  <2>1. UNCHANGED hand
    BY <1>8 DEF ReleaseEffect
  <2>2. (OnSlot(t)' => OnSlot(t)) /\ \A s \in Slots : Runs(s, t)' => Runs(s, t)
    BY <1>8 DEF ReleaseEffect, OnSlot, Runs
  <2>3. CASE UNCHANGED <<queue_tasks, queue_tasks_deferred>>
    BY <1>2, <2>1, <2>2, <2>3 DEF Single, Placed
  <2>4. CASE queue_tasks' = queue_tasks \o queue_tasks_deferred /\ queue_tasks_deferred' = <<>>
    <3>1. ~Holds(queue_tasks_deferred', t) /\ HoldsOnce(queue_tasks_deferred', t)
      BY <2>4 DEF Holds, HoldsOnce
    <3>2. /\ Holds(queue_tasks', t) <=> Holds(queue_tasks, t) \/ Holds(queue_tasks_deferred, t)
          /\ HoldsOnce(queue_tasks', t)
      <4>1. /\ HoldsOnce(queue_tasks, t) /\ HoldsOnce(queue_tasks_deferred, t)
            /\ ~(Holds(queue_tasks, t) /\ Holds(queue_tasks_deferred, t))
        BY <1>2 DEF Single
      <4>. QED BY <1>0, <2>4, <4>1, ConcatFacts
    <3>. QED BY <1>2, <2>1, <2>2, <3>1, <3>2 DEF Single, Placed
  <2>. QED BY <1>8, <2>3, <2>4 DEF ReleaseEffect
<1>. QED BY <1>5, <1>6, <1>7, <1>8

-----------------------------------------------------------------------------
(* The HTTP threads                                                         *)

\* A step that moves the program counter of one reader, past the post.
LEMMA GotoFrame ==
    ASSUME TypeInv, NEW r \in Readers, UNCHANGED admin,
           rd' \in [Readers -> Reader],
           \A q \in Readers : q # r => rd'[q] = rd[q],
           rd'[r].results = rd[r].results, rd'[r].received = rd[r].received,
           rd[r].pc \in {"init", "post"} \/ rd'[r].pc \notin {"init", "post"}
    PROVE  /\ \A t : (Got(t)' <=> Got(t)) /\ (Unposted(t)' => Unposted(t))
           /\ Counted => Counted'
<1>1. \A t : Got(t)' <=> Got(t)
  BY DEF Got
<1>2. \A t : Unposted(t)' => Unposted(t)
  BY DEF Unposted
<1>3. Counted => Counted'
  BY DEF Counted
<1>. QED BY <1>1, <1>2, <1>3

\* What moving a request on leaves alone.
LEMMA GotoFacts ==
    ASSUME TypeInv, NEW r \in Readers,
           NEW pc \in {"post", "recv", "gone", "decode_stop", "stop", "cancel", "done"},
           Goto(r, pc)
    PROVE  /\ rd' \in [Readers -> Reader] /\ \A q \in Readers : q # r => rd'[q] = rd[q]
           /\ rd'[r].results = rd[r].results /\ rd'[r].received = rd[r].received
           /\ rd'[r].pc = pc
<1>1. rd \in [Readers -> Reader]
  BY DEF TypeInv, TypeOK, Reader
<1>. QED BY <1>1 DEF Goto, Reader

\* A step after which the queues and slots are as before.
LEMMA PlaceFrame ==
    ASSUME TaskInv, UNCHANGED <<queue_tasks, queue_tasks_deferred, hand, slots>>, NEW t \in Real
    PROVE  Single(t)' /\ (Placed(t)' <=> Placed(t))
<1>1. (OnSlot(t)' <=> OnSlot(t)) /\ \A s \in Slots : Runs(s, t)' <=> Runs(s, t)
  BY DEF OnSlot, Runs
<1>2. Single(t)
  BY DEF TaskInv
<1>. QED BY <1>1, <1>2 DEF Single, Placed

\* What a reader's next() does with the result it takes: the id of the task, and
\* whether the result is a stop result that is counted.
LEMMA ReceiveFacts ==
    ASSUME TypeInv, NEW r \in Readers, Receive(r)
    PROVE  \E i \in DOMAIN queue_results, u \in Ids(r), one \in BOOLEAN, pc \in {"stop", "recv"} :
              /\ u = queue_results[i].id /\ one = (queue_results[i].kind = "final")
              /\ queue_results[i].kind = "error" => pc = "stop"
              /\ queue_results' = RemoveAt(queue_results, i)
              /\ \A q \in Readers : q # r => rd'[q] = rd[q]
              /\ rd'[r].pc = pc
              /\ rd'[r].received = IF one THEN rd[r].received + 1 ELSE rd[r].received
              /\ rd'[r].results = IF one THEN rd[r].results \cup {u} ELSE rd[r].results
<1> DEFINE i == FirstMine(queue_results, Ids(r))
           res == queue_results[i]
           stops == IF res.kind = "final" THEN 1 ELSE 0
           received == rd[r].received + stops
           one == (res.kind = "final")
           u == res.id
<1>0. queue_results \in Seq(ResultRec) /\ rd \in [Readers -> Reader]
  BY DEF TypeInv, TypeOK, Reader
<1>1. i \in DOMAIN queue_results /\ u \in Ids(r)
  BY <1>0, FirstMineFacts DEF Receive
<1>2. u \in ReaderTasks
  BY <1>1, TaskIdFacts
<1>3. PICK pc \in AfterResult(r, res, received) :
         rd' = [rd EXCEPT ![r].pc = pc, ![r].received = received,
                          ![r].results = IF stops = 1 THEN @ \cup {u} ELSE @, ![r].first = FALSE]
  BY DEF Receive
<1>4. /\ pc \in {"stop", "recv"} /\ received \in Nat
      /\ queue_results[i].kind = "error" => pc = "stop"
  BY <1>0, <1>3 DEF AfterResult, Reader
<1>5. queue_results' = RemoveAt(queue_results, i)
  BY DEF Receive
<1>6. (stops = 1) = one
  OBVIOUS
<1>8. received = IF one THEN rd[r].received + 1 ELSE rd[r].received
  BY <1>0 DEF Reader
<1>9. u = queue_results[i].id /\ one = (queue_results[i].kind = "final") /\ one \in BOOLEAN
  OBVIOUS
<1>10. rd' = Taken(r, pc, received, one, u)
  BY <1>3, <1>6 DEF Taken
<1> HIDE DEF received, one, u, res, stops, i
<1>11. /\ \A q \in Readers : q # r => rd'[q] = rd[q]
       /\ rd'[r].pc = pc /\ rd'[r].received = received
       /\ rd'[r].results = IF one THEN rd[r].results \cup {u} ELSE rd[r].results
  <2>1. PICK n \in Nat, o \in BOOLEAN, w \in ReaderTasks : n = received /\ o = one /\ w = u
    BY <1>2, <1>4, <1>9
  <2>2. rd' = Taken(r, pc, n, o, w)
    BY <1>10, <2>1
  <2>a. pc \in {"stop", "recv"} /\ rd \in [Readers -> Reader]
    BY <1>0, <1>4
  <2>3. /\ rd' \in [Readers -> Reader]
        /\ \A q \in Readers : q # r => rd'[q] = rd[q]
        /\ rd'[r].pc = pc /\ rd'[r].received = n
        /\ rd'[r].results = IF o THEN rd[r].results \cup {w} ELSE rd[r].results
        /\ rd'[r].cancelled = rd[r].cancelled
    BY <2>a, <2>2, ReceiveUpdate, ZenonT(40)
  <2>. QED BY <2>1, <2>3
<1>. QED BY <1>1, <1>4, <1>5, <1>8, <1>9, <1>11

\* TaskInv is kept when a reader takes a result.
LEMMA ReceiveTask == ASSUME TypeInv, TaskInv, NEW r \in Readers, Receive(r) PROVE TaskInv'
<1>0. queue_results \in Seq(ResultRec) /\ rd \in [Readers -> Reader]
  BY DEF TypeInv, TypeOK, Reader
<1>1. PICK i \in DOMAIN queue_results, u \in Ids(r), one \in BOOLEAN, pc \in {"stop", "recv"} :
              /\ u = queue_results[i].id /\ one = (queue_results[i].kind = "final")
              /\ queue_results[i].kind = "error" => pc = "stop"
              /\ queue_results' = RemoveAt(queue_results, i)
              /\ \A q \in Readers : q # r => rd'[q] = rd[q]
              /\ rd'[r].pc = pc
              /\ rd'[r].received = IF one THEN rd[r].received + 1 ELSE rd[r].received
              /\ rd'[r].results = IF one THEN rd[r].results \cup {u} ELSE rd[r].results
  BY ReceiveFacts
<1>2. u \in ReaderTasks /\ u \in Real
  BY <1>1, TaskIdFacts DEF Real
<1>4. pc \in {"stop", "recv"}
  BY <1>1
<1>5. /\ queue_results' = RemoveAt(queue_results, i) /\ rd[r].pc = "recv"
      /\ UNCHANGED <<queue_tasks, queue_tasks_deferred, hand, slots, admin>>
  BY <1>1 DEF Receive, queueVars, mainVars
<1>7. one => FinalIn(queue_results, u)
  BY <1>1 DEF FinalIn
<1>8. rd'[r].received = IF one THEN rd[r].received + 1 ELSE rd[r].received
  BY <1>1
<1>10. /\ \A q \in Readers : q # r => rd'[q] = rd[q]
       /\ rd'[r].pc = pc
       /\ rd'[r].results = IF one THEN rd[r].results \cup {u} ELSE rd[r].results
  BY <1>1
<1>11. /\ FinalLast(queue_results')
       /\ \A t : FinalIn(queue_results', t) => FinalIn(queue_results, t)
       /\ one => ~FinalIn(queue_results', u)
  <2>1. FinalLast(queue_results)
    BY DEF TaskInv
  <2>2. /\ FinalLast(RemoveAt(queue_results, i))
        /\ \A t : FinalIn(RemoveAt(queue_results, i), t) => FinalIn(queue_results, t)
        /\ queue_results[i].kind = "final"
              => ~FinalIn(RemoveAt(queue_results, i), queue_results[i].id)
    BY <1>0, <1>1, <2>1, RemoveFacts
  <2>. QED BY <1>1, <2>2
<1>12. \A t : Unposted(t)' => Unposted(t)
  BY <1>4, <1>5, <1>10 DEF Unposted
<1>13. \A t : Got(t)' <=> Got(t) \/ (one /\ t = u)
  BY <1>10 DEF Got
<1>14. ASSUME NEW t \in Real PROVE Single(t)' /\ Stages(t)'
  <2>1. Single(t)' /\ (Placed(t)' <=> Placed(t))
    BY <1>5, PlaceFrame
  <2>2. Stages(t)
    BY DEF TaskInv
  <2>3. CASE one /\ t = u
    <3>1. ~Placed(t) /\ ~Unposted(t)
      BY <1>7, <2>2, <2>3 DEF Stages
    <3>2. ~Placed(t)' /\ ~Unposted(t)' /\ ~FinalIn(queue_results, t)'
      BY <1>11, <1>12, <2>1, <2>3, <3>1
    <3>. QED BY <2>1, <3>2 DEF Stages
  <2>4. CASE ~(one /\ t = u)
    BY <1>11, <1>12, <1>13, <2>1, <2>2, <2>4, StagesKept
  <2>. QED BY <2>3, <2>4
<1>15. Counted'
  <2> SUFFICES ASSUME NEW q \in Readers
               PROVE  IsFiniteSet(rd'[q].results) /\ rd'[q].received = Cardinality(rd'[q].results)
    BY DEF Counted
  <2>1. IsFiniteSet(rd[q].results) /\ rd[q].received = Cardinality(rd[q].results)
    BY DEF TaskInv, Counted
  <2>2. CASE q # r \/ ~one
    BY <1>8, <1>10, <2>1, <2>2
  <2>3. CASE q = r /\ one
    <3>1. u \notin rd[r].results
      BY <1>2, <1>7, <2>3 DEF TaskInv, Stages, Got
    <3>2. /\ IsFiniteSet(rd[r].results \cup {u})
          /\ Cardinality(rd[r].results \cup {u}) = Cardinality(rd[r].results) + 1
      BY <2>1, <2>3, <3>1, FS_AddElement
    <3>. QED BY <1>8, <1>10, <2>1, <2>3, <3>2
  <2>. QED BY <2>2, <2>3
<1>. QED BY <1>11, <1>14, <1>15 DEF TaskInv

\* Posting the tasks of a request keeps TaskInv.
LEMMA PostTask == ASSUME TypeInv, TaskInv, NEW r \in Readers, PostTasks(r) PROVE TaskInv'
<1>0. queue_tasks \in Seq(TaskRec) /\ rd[r].pc = "post"
  BY DEF TypeInv, PostTasks
<1>1. queue_tasks' = queue_tasks \o Posted(r)
  BY DEF PostTasks, PostAll, Posted
<1>2. UNCHANGED <<queue_tasks_deferred, hand, slots, queue_results, admin>>
  BY DEF PostTasks, mainVars, resultVars
<1>3. /\ rd' \in [Readers -> Reader] /\ \A q \in Readers : q # r => rd'[q] = rd[q]
      /\ rd'[r].results = rd[r].results /\ rd'[r].received = rd[r].received
      /\ rd'[r].pc = "recv"
  BY GotoFacts DEF PostTasks
<1>4. (\A t : (Got(t)' <=> Got(t)) /\ (Unposted(t)' => Unposted(t))) /\ Counted'
  BY <1>2, <1>3, GotoFrame DEF TaskInv
<1>5. FinalLast(queue_results)'
  BY <1>2 DEF TaskInv
<1>6. ASSUME NEW t \in Real PROVE Single(t)' /\ Stages(t)'
  <2>0. Single(t) /\ Stages(t)
    BY DEF TaskInv
  <2>1. (OnSlot(t)' <=> OnSlot(t)) /\ \A s \in Slots : Runs(s, t)' <=> Runs(s, t)
    BY <1>2 DEF OnSlot, Runs
  <2>2. Holds(queue_tasks', t) <=> Holds(queue_tasks, t) \/ t \in Ids(r)
    BY <1>0, <1>1, PostedFacts, ConcatFacts
  <2>3. t \in Ids(r) => Unposted(t) /\ ~Holds(queue_tasks, t)
    BY <1>0, <2>0 DEF Unposted, Stages, Placed
  <2>4. HoldsOnce(queue_tasks', t)
    <3>1. HoldsOnce(queue_tasks, t)
      BY <2>0 DEF Single
    <3>2. ~(Holds(queue_tasks, t) /\ Holds(Posted(r), t))
      BY <2>3, PostedFacts
    <3>. QED BY <1>0, <1>1, <3>1, <3>2, PostedFacts, ConcatFacts
  <2>5. CASE t \in Ids(r)
    <3>1. ~Placed(t) /\ ~FinalIn(queue_results, t) /\ ~Got(t)
      BY <2>0, <2>3, <2>5 DEF Stages
    <3>2. Single(t)'
      BY <1>2, <2>0, <2>1, <2>4, <3>1 DEF Single, Placed
    <3>3. ~Unposted(t)'
      <4>1. t \notin Admins
        BY <2>5, TaskIdFacts, ConstantsAssumption
      <4>2. \A q \in Readers : t \in Ids(q) => q = r
        BY <2>5, OwnerFacts
      <4>. QED BY <1>3, <4>1, <4>2 DEF Unposted
    <3>. QED BY <1>2, <1>4, <3>1, <3>2, <3>3 DEF Stages
  <2>6. CASE t \notin Ids(r)
    <3>1. Single(t)' /\ (Placed(t)' => Placed(t))
      BY <1>2, <2>0, <2>1, <2>2, <2>4, <2>6 DEF Single, Placed
    <3>. QED BY <1>2, <1>4, <2>0, <3>1, StagesKept
  <2>. QED BY <2>5, <2>6
<1>. QED BY <1>4, <1>5, <1>6 DEF TaskInv

\* Posting its cancellation keeps TaskInv.
LEMMA CancelTask == ASSUME TypeInv, TaskInv, NEW r \in Readers, CancelTasks(r) PROVE TaskInv'
<1>0. /\ queue_tasks \in Seq(TaskRec) /\ queue_tasks_deferred \in Seq(TaskRec)
      /\ rd \in [Readers -> Reader]
  BY DEF TypeInv, TypeOK, Reader
<1>1. /\ queue_tasks' = Reverse(Cancels(r)) \o CleanupPendingTask(queue_tasks, Ids(r))
      /\ queue_tasks_deferred' = CleanupPendingTask(queue_tasks_deferred, Ids(r))
  BY DEF CancelTasks, PostAll, Cancels
<1>2. UNCHANGED <<hand, slots, queue_results, admin>>
  BY DEF CancelTasks, mainVars, resultVars
<1>3. /\ rd' \in [Readers -> Reader] /\ \A q \in Readers : q # r => rd'[q] = rd[q]
      /\ rd'[r].results = rd[r].results /\ rd'[r].received = rd[r].received
      /\ rd'[r].pc = "done"
  BY <1>0 DEF CancelTasks, Reader
<1>4. (\A t : (Got(t)' <=> Got(t)) /\ (Unposted(t)' => Unposted(t))) /\ Counted'
  BY <1>2, <1>3, GotoFrame DEF TaskInv
<1>5. FinalLast(queue_results)'
  BY <1>2 DEF TaskInv
<1>6. ASSUME NEW t \in Real PROVE Single(t)' /\ Stages(t)'
  <2>0. Single(t) /\ Stages(t) /\ t \in Nat \ {NoId}
    BY RealFacts DEF TaskInv
  <2>1. (OnSlot(t)' <=> OnSlot(t)) /\ \A s \in Slots : Runs(s, t)' <=> Runs(s, t)
    BY <1>2 DEF OnSlot, Runs
  <2>2. /\ Holds(queue_tasks_deferred', t) => Holds(queue_tasks_deferred, t)
        /\ HoldsOnce(queue_tasks_deferred, t) => HoldsOnce(queue_tasks_deferred', t)
    BY <1>0, <1>1, CleanupFacts
  <2> DEFINE kept == CleanupPendingTask(queue_tasks, Ids(r))
  <2>3. /\ kept \in Seq(TaskRec)
        /\ Holds(kept, t) => Holds(queue_tasks, t)
        /\ HoldsOnce(queue_tasks, t) => HoldsOnce(kept, t)
    BY <1>0, CleanupFacts
  <2> HIDE DEF kept
  <2>4. /\ Holds(queue_tasks', t) => Holds(queue_tasks, t)
        /\ HoldsOnce(queue_tasks, t) => HoldsOnce(queue_tasks', t)
    <3>1. queue_tasks' = Reverse(Cancels(r)) \o kept
      BY <1>1 DEF kept
    <3>2. /\ Reverse(Cancels(r)) \in Seq(TaskRec)
          /\ ~Holds(Reverse(Cancels(r)), t) /\ HoldsOnce(Reverse(Cancels(r)), t)
      BY <2>0, CancelsFacts
    <3> DEFINE c == Reverse(Cancels(r))
    <3> HIDE DEF c
    <3>3. c \in Seq(TaskRec) /\ ~Holds(c, t) /\ HoldsOnce(c, t) /\ queue_tasks' = c \o kept
      BY <3>1, <3>2 DEF c
    <3>4. /\ Holds(c \o kept, t) <=> Holds(c, t) \/ Holds(kept, t)
          /\ HoldsOnce(c, t) /\ HoldsOnce(kept, t) /\ ~(Holds(c, t) /\ Holds(kept, t))
                => HoldsOnce(c \o kept, t)
      BY <2>3, <3>3, ConcatFacts
    <3>. QED BY <2>3, <3>3, <3>4
  <2>5. Single(t)' /\ (Placed(t)' => Placed(t))
    BY <1>2, <2>0, <2>1, <2>2, <2>4 DEF Single, Placed
  <2>. QED BY <1>2, <1>4, <2>0, <2>5, StagesKept
<1>. QED BY <1>4, <1>5, <1>6 DEF TaskInv

\* Every step of a request keeps TaskInv.
LEMMA ReaderTask ==
    ASSUME TypeInv, TaskInv, NEW r \in Readers,
           AddWaitingTasks(r) \/ ReaderStep(r) \/ CloseConnection(r)
    PROVE  TaskInv'
<1>1. ASSUME NEW pc \in {"post", "recv", "gone", "decode_stop", "stop", "cancel", "done"},
             Goto(r, pc), rd[r].pc \in {"init", "post"} \/ pc # "post",
             UNCHANGED <<queue_tasks, queue_tasks_deferred, hand, slots, queue_results, admin>>
      PROVE  TaskInv'
  <2>1. (\A t : (Got(t)' <=> Got(t)) /\ (Unposted(t)' => Unposted(t))) /\ Counted'
    BY <1>1, GotoFacts, GotoFrame DEF TaskInv
  <2>2. \A t \in Real : Single(t)' /\ Stages(t)'
    BY <1>1, <2>1, PlaceFrame, StagesKept DEF TaskInv
  <2>. QED BY <1>1, <2>1, <2>2 DEF TaskInv
<1>2. CASE AddWaitingTasks(r)
  BY <1>1, <1>2 DEF AddWaitingTasks, queueVars, mainVars
<1>3. CASE Timeout(r) \/ CheckSlots(r) \/ DecodeStop(r) \/ Stop(r)
  <2>1. PICK pc \in {"gone", "decode_stop", "stop", "cancel", "done"} : Goto(r, pc)
    BY <1>3 DEF Timeout, CheckSlots, DecodeStop, Stop
  <2>2. UNCHANGED <<queue_tasks, queue_tasks_deferred, hand, slots, queue_results, admin>>
    BY <1>3 DEF Timeout, CheckSlots, DecodeStop, Stop, queueVars, mainVars, resultVars
  <2>. QED BY <1>1, <2>1, <2>2
<1>4. CASE CloseConnection(r)
  <2>1. UNCHANGED <<queue_tasks, queue_tasks_deferred, hand, slots, queue_results, admin, rd>>
    BY <1>4 DEF CloseConnection, queueVars, mainVars, resultVars
  <2>2. \A t \in Real : Single(t)' /\ Stages(t)'
    BY <2>1, PlaceFrame, StageFrame, StagesKept DEF TaskInv
  <2>. QED BY <2>1, <2>2 DEF TaskInv, Counted
<1>. QED BY <1>2, <1>3, <1>4, ReceiveTask, PostTask, CancelTask DEF ReaderStep

\* Every step of an administrative request keeps TaskInv.
LEMMA AdminTask == ASSUME TypeInv, TaskInv, NEW a \in Admins, AdminStep(a) PROVE TaskInv'
<1>0. queue_tasks \in Seq(TaskRec) /\ admin \in [Admins -> {"init", "second", "recv", "done"}]
  BY DEF TypeInv, TypeOK
<1>1. UNCHANGED <<queue_tasks_deferred, hand, slots, queue_results, rd>>
  BY DEF AdminStep, AdminRegister, AdminPost, AdminRecv, queueVars, mainVars, resultVars
<1>2. Counted' /\ FinalLast(queue_results)'
  BY <1>1 DEF TaskInv, Counted
<1>3. \A t : Got(t)' <=> Got(t)
  BY <1>1 DEF Got
<1>4. CASE AdminRegister(a) \/ AdminRecv(a)
  <2>1. UNCHANGED queue_tasks
    BY <1>4 DEF AdminRegister, AdminRecv, queueVars
  <2>2. \A t : Unposted(t)' => Unposted(t)
    BY <1>0, <1>1, <1>4 DEF AdminRegister, AdminRecv, Unposted, Before
  <2>3. \A t \in Real : Single(t)' /\ Stages(t)'
    BY <1>1, <1>3, <2>1, <2>2, PlaceFrame, StagesKept DEF TaskInv
  <2>. QED BY <1>2, <2>3 DEF TaskInv
<1>5. CASE AdminPost(a)
  <2>1. Work(a, AdminType[a]) \in TaskRec /\ Work(a, AdminType[a]).id = a
    <3>1. AdminType[a] \in {"METRICS", "SLOT_OP", "SET_LORA"}
      BY ConstantsAssumption
    <3>. QED BY <3>1 DEF Work, TaskRec, Task, TaskTypes, TaskIds
  <2>2. queue_tasks' = Append(queue_tasks, Work(a, AdminType[a]))
    BY <1>5 DEF AdminPost, Post
  <2>3. \A t : Unposted(t)' => Unposted(t) /\ t # a
    <3>1. a \notin ReaderTasks
      BY ConstantsAssumption
    <3>2. \A q \in Readers : a \notin Ids(q)
      BY <3>1, TaskIdFacts
    <3>. QED BY <1>0, <1>1, <1>5, <3>2 DEF AdminPost, Unposted, Before
  <2>4. Unposted(a)
    BY <1>5 DEF AdminPost, Unposted, Before
  <2>5. ASSUME NEW t \in Real PROVE Single(t)' /\ Stages(t)'
    <3>0. Single(t) /\ Stages(t)
      BY DEF TaskInv
    <3>1. (OnSlot(t)' <=> OnSlot(t)) /\ \A s \in Slots : Runs(s, t)' <=> Runs(s, t)
      BY <1>1 DEF OnSlot, Runs
    <3>2. Holds(queue_tasks', t) <=> Holds(queue_tasks, t) \/ a = t
      BY <1>0, <2>1, <2>2, AppendFacts
    <3>3. CASE a = t
      <4>1. ~Placed(t) /\ ~FinalIn(queue_results, t) /\ ~Got(t)
        BY <2>4, <3>0, <3>3 DEF Stages
      <4>2. HoldsOnce(queue_tasks', t)
        BY <1>0, <2>1, <2>2, <3>0, <4>1, AppendFacts DEF Single, Placed
      <4>3. Single(t)'
        BY <1>1, <3>0, <3>1, <4>1, <4>2 DEF Single, Placed
      <4>. QED BY <1>1, <1>3, <2>3, <3>3, <4>1, <4>3 DEF Stages
    <3>4. CASE a # t
      <4>1. HoldsOnce(queue_tasks', t)
        BY <1>0, <2>1, <2>2, <3>0, <3>4, AppendFacts DEF Single
      <4>2. Single(t)' /\ (Placed(t)' => Placed(t))
        BY <1>1, <3>0, <3>1, <3>2, <3>4, <4>1 DEF Single, Placed
      <4>. QED BY <1>1, <1>3, <2>3, <3>0, <4>2, StagesKept
    <3>. QED BY <3>3, <3>4
  <2>. QED BY <1>2, <2>5 DEF TaskInv
<1>. QED BY <1>4, <1>5 DEF AdminStep

\* TaskInv holds when the server starts.
LEMMA TaskInvInit == Init => TaskInv
<1> SUFFICES ASSUME Init PROVE TaskInv
  OBVIOUS
<1>1. hand.id = NoId
  BY NextResponseRec DEF Init
<1>2. ASSUME NEW t \in Real PROVE Single(t) /\ Stages(t)
  <2>1. t # NoId
    BY RealFacts
  <2>2. ~Holds(queue_tasks, t) /\ HoldsOnce(queue_tasks, t)
        /\ ~Holds(queue_tasks_deferred, t) /\ HoldsOnce(queue_tasks_deferred, t)
        /\ ~FinalIn(queue_results, t)
    BY DEF Init, Holds, HoldsOnce, FinalIn
  <2>3. \A s \in Slots : ~IsProcessing(slots[s])
    BY DEF Init, IsProcessing, Loading, Processing
  <2>4. ~OnSlot(t) /\ ~Got(t) /\ \A s \in Slots : ~Runs(s, t)
    BY <2>3 DEF Init, OnSlot, Runs, Got
  <2>. QED BY <1>1, <2>1, <2>2, <2>4 DEF Single, Stages, Placed
<1>3. FinalLast(queue_results)
  BY DEF Init, FinalLast
<1>4. Counted
  BY FS_EmptySet DEF Init, Counted
<1>. QED BY <1>2, <1>3, <1>4 DEF TaskInv

\* Every step keeps TaskInv.
LEMMA TaskInvStep == TypeInv /\ TaskInv /\ [Next]_vars => TaskInv'
<1> SUFFICES ASSUME TypeInv, TaskInv, [Next]_vars PROVE TaskInv'
  OBVIOUS
<1>1. CASE MainStep
  BY <1>1, MainSteps, LoopTask, HandleEffects, HandleTask, ReleaseEffects, PassEffects, PassTask
<1>2. CASE Terminate \/ UNCHANGED vars
  <2>1. UNCHANGED <<queue_tasks, queue_tasks_deferred, hand, slots, queue_results, admin, rd>>
    BY <1>2 DEF Terminate, vars, queueVars, mainVars, resultVars
  <2>2. \A t \in Real : Single(t)' /\ Stages(t)'
    BY <2>1, PlaceFrame, StageFrame, StagesKept DEF TaskInv
  <2>. QED BY <2>1, <2>2 DEF TaskInv, Counted
<1>. QED BY <1>1, <1>2, ReaderTask, AdminTask DEF Next

\* TaskInv holds in every reachable state.
LEMMA TasksHold == Spec => []TaskInv
BY TaskInvInit, TaskInvStep, TypesHold, PTL DEF Spec

-----------------------------------------------------------------------------
(* The theorems                                                             *)

\* The places of a task that is in one place at most.
LEMMA OneOfPlaces ==
    ASSUME NEW t, Single(t), NEW p \in Places(t), NEW q \in Places(t) PROVE p = q
<1> DEFINE Q(x) == \E i \in DOMAIN queue_tasks : queue_tasks[i].id = t /\ x = <<"queue", i>>
           D(x) == \E i \in DOMAIN queue_tasks_deferred :
                      queue_tasks_deferred[i].id = t /\ x = <<"deferred", i>>
           S(x) == \E s \in Slots : Runs(s, t) /\ x = <<"slot", s>>
           H(x) == hand.id = t /\ x = <<"hand", 0>>
<1>1. \A x \in Places(t) : Q(x) \/ D(x) \/ S(x) \/ H(x)
  BY DEF Places, Runs
<1>2. \A x : (Q(x) => Holds(queue_tasks, t)) /\ (D(x) => Holds(queue_tasks_deferred, t))
             /\ (S(x) => OnSlot(t))
  BY DEF Holds, OnSlot
<1>3. \A x, y : Q(x) /\ Q(y) => x = y
  BY DEF Single, HoldsOnce
<1>4. \A x, y : D(x) /\ D(y) => x = y
  BY DEF Single, HoldsOnce
<1>5. \A x, y : S(x) /\ S(y) => x = y
  BY DEF Single
<1>6. \A x, y : H(x) /\ H(y) => x = y
  OBVIOUS
<1>7. \A x : H(x) => hand.id = t
  OBVIOUS
<1> HIDE DEF Q, D, S, H
<1>. QED BY <1>1, <1>2, <1>3, <1>4, <1>5, <1>6, <1>7 DEF Single

\* A task is in at most one place, for any number of slots and requests:
\* deferring, re-queueing, cancelling, launching and releasing never duplicate
\* it, in whatever order the threads run.
THEOREM TaskInOnePlace == Spec => []OnePlace
<1>1. TypeInv /\ TaskInv => OnePlace
  <2> SUFFICES ASSUME TypeInv, TaskInv, NEW t \in Real PROVE Cardinality(Places(t)) <= 1
    BY DEF OnePlace, TypeInv, Real
  <2>1. \A p, q \in Places(t) : p = q
    BY OneOfPlaces DEF TaskInv
  <2>2. CASE Places(t) = {}
    BY <2>2, FS_EmptySet
  <2>3. ASSUME NEW p \in Places(t) PROVE Cardinality(Places(t)) <= 1
    <3>1. Places(t) = {p}
      BY <2>1
    <3>2. Cardinality({p}) = 1
      BY FS_Singleton
    <3>. QED BY <3>1, <3>2
  <2>. QED BY <2>2, <2>3
<1>. QED BY <1>1, TypesHold, TasksHold, PTL

\* A client never sees text, or a second end, behind the end of its answer.
THEOREM FinalIsLast == Spec => []NothingAfterFinal
<1>1. TaskInv => NothingAfterFinal
  BY DEF TaskInv, FinalLast, NothingAfterFinal
<1>. QED BY <1>1, TasksHold, PTL

\* The assertion in wait_for_all never fires: a reader counts every task once.
THEOREM ResultsCountedOnce == Spec => []NoDuplicateResult
<1>1. TaskInv => NoDuplicateResult
  BY DEF TaskInv, Counted, NoDuplicateResult
<1>. QED BY <1>1, TasksHold, PTL
-----------------------------------------------------------------------------
(* No request is lost                                                       *)

\* A CANCEL task is harmless: the reader of its target has finished.
Harmless ==
    {x \in TaskRec : x.type = "CANCEL" =>
        \A r \in Readers : x.id_target \in Ids(r) => rd[r].pc = "done"}

ErrorIn(q, r) == \E i \in DOMAIN q : q[i].id \in Ids(r) /\ q[i].kind = "error"

\* Task t of reader r is not forgotten.
Kept(r, t) ==
    \/ t \in rd[r].results \/ Placed(t)
    \/ ErrorIn(queue_results, r) \/ FinalIn(queue_results, t)

\* While nobody disconnects, no reader stops the decode or cancels a task that
\* somebody still waits for, and the ids a reader waits for are registered, so
\* that no result for it is dropped.
LostInv ==
    /\ ~stop_internal_decode
    /\ queue_tasks \in Seq(Harmless) /\ queue_tasks_deferred \in Seq(Harmless)
    /\ hand \in Harmless
    /\ \A r \in Readers : /\ closed[r] = FALSE /\ rd[r].pc \notin {"gone", "decode_stop"}
                          /\ rd[r].pc \in {"post", "recv"} => Ids(r) \subseteq waiting_task_ids
                          /\ rd[r].pc = "recv" => \A t \in Ids(r) : Kept(r, t)

\* A result that is sent to a waiting reader is stored, behind the others.
LEMMA SendKeeps ==
    ASSUME NEW q \in Seq(ResultRec), NEW w, w \subseteq Real, NEW u,
           NEW kind \in {"partial", "final", "error"}, NEW r
    PROVE  /\ ErrorIn(q, r) => ErrorIn(Send(q, w, Result(u, kind)), r)
           /\ u \in w /\ kind = "error" /\ u \in Ids(r) => ErrorIn(Send(q, w, Result(u, kind)), r)
           /\ u \in w /\ kind = "final" => FinalIn(Send(q, w, Result(u, kind)), u)
<1>1. CASE u \notin w
  BY <1>1 DEF Send, Result
<1>2. CASE u \in w
  <2> DEFINE e == Result(u, kind)
             p == Append(q, e)
  <2>1. e.id = u /\ e.kind = kind /\ Send(q, w, e) = p
    BY <1>2 DEF Send, Result
  <2> HIDE DEF e
  <2>2. /\ DOMAIN q \subseteq DOMAIN p /\ Len(q) + 1 \in DOMAIN p /\ p[Len(q) + 1] = e
        /\ \A i \in DOMAIN q : p[i] = q[i]
    OBVIOUS
  <2> HIDE DEF p
  <2>3. ErrorIn(q, r) => ErrorIn(p, r)
    BY <2>2 DEF ErrorIn
  <2>4. kind = "error" /\ u \in Ids(r) => ErrorIn(p, r)
    BY <2>1, <2>2 DEF ErrorIn
  <2>5. kind = "final" => FinalIn(p, u)
    BY <2>1, <2>2 DEF FinalIn
  <2>. QED BY <2>1, <2>3, <2>4, <2>5 DEF e
<1>. QED BY <1>1, <1>2

\* Receiving a result leaves the others where they are.
LEMMA RemoveKeeps ==
    ASSUME NEW q \in Seq(ResultRec), NEW i \in DOMAIN q, NEW k \in DOMAIN q, k # i
    PROVE  \E j \in DOMAIN RemoveAt(q, i) : RemoveAt(q, i)[j] = q[k]
<1> DEFINE p == RemoveAt(q, i)
<1>1. /\ Len(q) \in Nat /\ DOMAIN q = 1..Len(q)
  OBVIOUS
<1>2. /\ DOMAIN p = 1..(Len(q) - 1)
      /\ \A j \in 1..(Len(q) - 1) : p[j] = IF j < i THEN q[j] ELSE q[j + 1]
  BY RemoveAtFacts
<1> HIDE DEF p
<1>3. ASSUME k < i PROVE k \in DOMAIN p /\ p[k] = q[k]
  BY <1>1, <1>2, <1>3
<1>4. ASSUME k > i PROVE k - 1 \in DOMAIN p /\ p[k - 1] = q[k]
  BY <1>1, <1>2, <1>4
<1>5. k < i \/ k > i
  BY <1>1
<1>6. \E j \in DOMAIN p : p[j] = q[k]
  BY <1>3, <1>4, <1>5
<1>. QED BY <1>6 DEF p

\* Nothing a step of the main thread sends removes a stored result.
LEMMA ResultsKept ==
    ASSUME TypeInv, ResultEffect \/ \E u : SendResult(u, "error"), NEW r
    PROVE  /\ ErrorIn(queue_results, r) => ErrorIn(queue_results', r)
           /\ \A t : FinalIn(queue_results, t) => FinalIn(queue_results', t)
<1>0. queue_results \in Seq(ResultRec) /\ waiting_task_ids \subseteq Real
  BY DEF TypeInv, TypeOK, Real
<1>1. ASSUME NEW u, NEW kind \in {"partial", "final", "error"}, SendResult(u, kind)
      PROVE  /\ ErrorIn(queue_results, r) => ErrorIn(queue_results', r)
             /\ \A t : FinalIn(queue_results, t) => FinalIn(queue_results', t)
  <2>1. queue_results' = Send(queue_results, waiting_task_ids, Result(u, kind))
    BY <1>1 DEF SendResult
  <2>. QED BY <1>0, <2>1, SendKeeps, SendFacts
<1>2. ASSUME NEW u, FinalSent(u)
      PROVE  /\ ErrorIn(queue_results, r) => ErrorIn(queue_results', r)
             /\ \A t : FinalIn(queue_results, t) => FinalIn(queue_results', t)
  <2>1. CASE SendResult(u, "final")
    BY <1>1, <2>1
  <2> DEFINE mid == Send(queue_results, waiting_task_ids, Result(u, "partial"))
  <2>2. CASE queue_results' = Send(mid, waiting_task_ids, Result(u, "final"))
    <3>1. mid \in Seq(ResultRec)
      BY <1>0, SendType DEF Real
    <3>2. /\ ErrorIn(queue_results, r) => ErrorIn(mid, r)
          /\ \A t : FinalIn(queue_results, t) => FinalIn(mid, t)
      BY <1>0, SendKeeps, SendFacts
    <3> HIDE DEF mid
    <3>. QED BY <1>0, <2>2, <3>1, <3>2, SendKeeps, SendFacts
  <2>. QED BY <1>2, <2>1, <2>2 DEF FinalSent
<1>3. CASE UNCHANGED queue_results
  BY <1>3
<1>. QED BY <1>1, <1>2, <1>3 DEF ResultEffect

\* A step that moves no reader keeps the CANCEL tasks harmless.
LEMMA HarmlessKept ==
    ASSUME \A r \in Readers : rd[r].pc = "done" => rd'[r].pc = "done"
    PROVE  /\ Harmless \subseteq Harmless'
           /\ \A q \in Seq(Harmless) : q \in Seq(Harmless')
<1>1. Harmless \subseteq Harmless'
  BY DEF Harmless
<1>. QED BY <1>1, SeqMonotone

\* update_slots loses no request.
LEMMA PassLost == ASSUME TypeInv, LostInv, PassEffect PROVE LostInv'
<1>1. /\ UNCHANGED <<queue_tasks, queue_tasks_deferred, waiting_task_ids, hand, rd, closed>>
      /\ ResultEffect /\ DismissEffect
  BY DEF PassEffect
<1>0. ~stop_internal_decode'
  BY Zenon DEF PassEffect, LostInv
<1>2. queue_tasks' \in Seq(Harmless') /\ queue_tasks_deferred' \in Seq(Harmless') /\ hand' \in Harmless'
  BY <1>1, HarmlessKept DEF LostInv
<1>3. queue_results \in Seq(ResultRec) /\ waiting_task_ids \subseteq Real
  BY DEF TypeInv, TypeOK, Real
<1>4. ASSUME NEW r \in Readers, rd[r].pc = "recv", NEW t \in Ids(r) PROVE Kept(r, t)'
  <2>1. Kept(r, t) /\ t \in waiting_task_ids
    BY <1>4 DEF LostInv
  <2>2. ErrorIn(queue_results, r) => ErrorIn(queue_results', r)
    BY <1>1, ResultsKept
  <2>3. FinalIn(queue_results, t) => FinalIn(queue_results', t)
    BY <1>1, ResultsKept
  <2>4. ASSUME NEW s \in Slots, Runs(s, t) PROVE Kept(r, t)'
    <3>1. CASE IsProcessing(slots'[s])
      <4>1. Runs(s, t)'
        BY <2>4, <3>1 DEF Runs, PassEffect, Calm
      <4>. QED BY <4>1 DEF Kept, Placed, OnSlot
    <3>2. CASE ~IsProcessing(slots'[s])
      <4>1. SendResult(t, "error") \/ FinalSent(t)
        BY <1>1, <2>4, <3>2 DEF DismissEffect, Runs, LostInv
      <4>2. SendResult(t, "error") => ErrorIn(queue_results', r)
        BY <1>3, <2>1, SendKeeps DEF SendResult
      <4>3. FinalSent(t) => FinalIn(queue_results', t)
        <5> DEFINE mid == Send(queue_results, waiting_task_ids, Result(t, "partial"))
        <5>1. mid \in Seq(ResultRec)
          BY <1>3, SendType DEF Real
        <5>2. SendResult(t, "final") => FinalIn(queue_results', t)
          BY <1>3, <2>1, SendKeeps DEF SendResult
        <5>3. FinalIn(Send(mid, waiting_task_ids, Result(t, "final")), t)
          <6> HIDE DEF mid
          <6>. QED BY <1>3, <2>1, <5>1, SendKeeps
        <5>. QED BY <5>2, <5>3 DEF FinalSent
      <4>. QED BY <4>1, <4>2, <4>3 DEF Kept
    <3>. QED BY <3>1, <3>2
  <2>. QED BY <1>1, <2>1, <2>2, <2>3, <2>4 DEF Kept, Placed, OnSlot
<1>. QED BY <1>0, <1>1, <1>2, <1>4 DEF LostInv

\* process_single_task loses none, when no system prompt is set.
LEMMA HandleLost ==
    ASSUME SystemPrompt = {}, TypeInv, LostInv, HandleEffect PROVE LostInv'
<1>1. /\ UNCHANGED <<queue_tasks, waiting_task_ids, rd, closed>>
      /\ hand' = NextResponse
      /\ UNCHANGED queue_results \/ SendResult(hand.id, "error")
      /\ HandleDone \/ HandleDeferred \/ HandleLaunch
  BY DEF HandleEffect
<1>5. ~stop_internal_decode'
  BY Zenon DEF HandleEffect, LostInv
<1>0. queue_tasks_deferred \in Seq(TaskRec) /\ hand \in TaskRec
  BY DEF TypeInv
<1>2. queue_tasks' \in Seq(Harmless') /\ queue_tasks_deferred' \in Seq(Harmless') /\ hand' \in Harmless'
  <2>1. queue_tasks' \in Seq(Harmless') /\ queue_tasks_deferred \in Seq(Harmless') /\ hand \in Harmless'
    BY <1>1, HarmlessKept DEF LostInv
  <2>2. hand' \in Harmless'
    BY <1>1, NextResponseRec DEF NextResponse, Harmless
  <2>3. Append(queue_tasks_deferred, hand) \in Seq(Harmless')
    BY <2>1, AppendFacts
  <2>. QED BY <1>1, <2>1, <2>2, <2>3 DEF HandleDone, HandleDeferred, HandleLaunch
<1>3. queue_results \in Seq(ResultRec) /\ waiting_task_ids \subseteq Real
  BY DEF TypeInv, TypeOK, Real
<1>4. ASSUME NEW r \in Readers, rd[r].pc = "recv", NEW t \in Ids(r) PROVE Kept(r, t)'
  <2>1. Kept(r, t) /\ t \in waiting_task_ids /\ t \in ReaderTasks
    BY <1>4, TaskIdFacts DEF LostInv
  <2>2. ErrorIn(queue_results, r) => ErrorIn(queue_results', r)
    BY <1>1, ResultsKept DEF ResultEffect
  <2>3. FinalIn(queue_results, t) => FinalIn(queue_results', t)
    BY <1>1, ResultsKept DEF ResultEffect
  <2>4. Holds(queue_tasks_deferred, t) => Holds(queue_tasks_deferred', t)
    BY <1>0, <1>1, AppendFacts DEF HandleDone, HandleDeferred, HandleLaunch
  <2>5. SendResult(t, "error") => ErrorIn(queue_results', r)
    BY <1>3, <2>1, SendKeeps DEF SendResult
  <2>6. CASE hand.id = t
    <3>1. hand.type = "COMPLETION"
      BY <1>0, <2>1, <2>6, TaskIdFacts, ConstantsAssumption DEF TaskRec, Task, TaskTypes
    <3>2. CASE HandleDone
      BY <2>5, <2>6, <3>1, <3>2 DEF HandleDone, Kept
    <3>3. CASE HandleDeferred
      <4>1. Holds(queue_tasks_deferred', t)
        BY <1>0, <2>6, <3>3, AppendFacts DEF HandleDeferred
      <4>. QED BY <4>1 DEF Kept, Placed
    <3>4. CASE HandleLaunch
      <4>1. OnSlot(t)' \/ SendResult(t, "error")
        BY <2>6, <3>4 DEF HandleLaunch, OnSlot, Runs
      <4>. QED BY <2>5, <4>1 DEF Kept, Placed
    <3>. QED BY <1>1, <3>2, <3>3, <3>4
  <2>7. ASSUME NEW s \in Slots, Runs(s, t) PROVE Kept(r, t)'
    <3>1. IsProcessing(slots'[s])
      <4> SUFFICES ASSUME ~IsProcessing(slots'[s]) PROVE FALSE
        OBVIOUS
      <4>1. hand.type = "CANCEL" /\ hand.id_target = t
        BY <2>7 DEF HandleEffect, Runs
      <4>2. rd[r].pc = "done"
        BY <4>1 DEF LostInv, Harmless
      <4>. QED BY <1>4, <4>2
    <3>2. Calm(slots[s], slots'[s])
      <4>1. slots[s] \in GoodSlot /\ ~Available(slots[s])
        BY <2>7 DEF TypeInv, Runs, IsProcessing, Loading, Processing, Available
      <4>. QED BY <1>1, <4>1, ReleaseCalm DEF HandleDone, HandleDeferred, HandleLaunch
    <3>3. Runs(s, t)'
      BY <2>7, <3>1, <3>2 DEF Runs, Calm
    <3>. QED BY <3>3 DEF Kept, Placed, OnSlot
  <2>. QED BY <1>1, <2>1, <2>2, <2>3, <2>4, <2>6, <2>7 DEF Kept, Placed, OnSlot
<1>. QED BY <1>1, <1>2, <1>4, <1>5 DEF LostInv

\* A step that touches neither the readers nor the results: it is enough that
\* every task stays where it is looked for.
LEMMA PlacesLost ==
    ASSUME LostInv, UNCHANGED <<waiting_task_ids, queue_results, stop_internal_decode, rd, closed>>,
           queue_tasks' \in Seq(Harmless), queue_tasks_deferred' \in Seq(Harmless),
           hand' \in Harmless,
           \A t \in ReaderTasks : Placed(t) => Placed(t)'
    PROVE  LostInv'
<1>1. /\ queue_tasks' \in Seq(Harmless') /\ queue_tasks_deferred' \in Seq(Harmless')
      /\ hand' \in Harmless'
  BY HarmlessKept
<1>2. ASSUME NEW r \in Readers, rd[r].pc = "recv", NEW t \in Ids(r) PROVE Kept(r, t)'
  <2>1. Kept(r, t) /\ t \in ReaderTasks
    BY <1>2, TaskIdFacts DEF LostInv
  <2>. QED BY <2>1 DEF Kept
<1>. QED BY <1>1, <1>2 DEF LostInv

\* The rest of the main loop loses none.
LEMMA LoopLost ==
    ASSUME TypeInv, LostInv,
           PopTask \/ WaitForTask \/ WakeUp \/ PostNextResponse \/ ReleaseEffect
    PROVE  LostInv'
<1>0. /\ queue_tasks \in Seq(TaskRec) /\ queue_tasks_deferred \in Seq(TaskRec)
      /\ queue_tasks \in Seq(Harmless) /\ queue_tasks_deferred \in Seq(Harmless)
      /\ hand \in Harmless /\ NextResponse \in Harmless
      /\ hand.id \notin ReaderTasks \/ loop = "handle"
  BY NextResponseRec, TaskIdFacts DEF TypeInv, LostInv, NextResponse, Harmless
<1>1. CASE PopTask
  <2>1. CASE queue_tasks = <<>>
    <3>1. UNCHANGED <<queue_tasks, queue_tasks_deferred, slots, hand, waiting_task_ids,
                      queue_results, stop_internal_decode, rd, closed>>
      BY <1>1, <2>1 DEF PopTask, resultVars
    <3>2. \A t : Placed(t) => Placed(t)'
      BY <3>1 DEF Placed, OnSlot, Runs
    <3>. QED BY <1>0, <3>1, <3>2, PlacesLost
  <2>2. CASE queue_tasks # <<>>
    <3>1. /\ UNCHANGED <<queue_tasks_deferred, slots, waiting_task_ids, queue_results,
                         stop_internal_decode, rd, closed>>
          /\ hand' = Head(queue_tasks) /\ queue_tasks' = Tail(queue_tasks) /\ loop = "pop"
      BY <1>1, <2>2 DEF PopTask, resultVars
    <3>2. /\ Head(queue_tasks) \in Harmless /\ Tail(queue_tasks) \in Seq(Harmless)
          /\ \A t : Holds(queue_tasks, t) <=> Head(queue_tasks).id = t \/ Holds(Tail(queue_tasks), t)
      BY <1>0, <2>2, TailFacts
    <3>3. \A t \in ReaderTasks : Placed(t) => Placed(t)'
      BY <1>0, <3>1, <3>2 DEF Placed, OnSlot, Runs
    <3>. QED BY <1>0, <3>1, <3>2, <3>3, PlacesLost
  <2>. QED BY <2>1, <2>2
<1>2. CASE WaitForTask \/ WakeUp
  <2>1. UNCHANGED <<queue_tasks, queue_tasks_deferred, slots, hand, waiting_task_ids,
                    queue_results, stop_internal_decode, rd, closed>>
    BY <1>2 DEF WaitForTask, WakeUp, queueVars, resultVars, mainVars
  <2>2. \A t : Placed(t) => Placed(t)'
    BY <2>1 DEF Placed, OnSlot, Runs
  <2>. QED BY <1>0, <2>1, <2>2, PlacesLost
<1>3. CASE PostNextResponse
  <2>1. /\ UNCHANGED <<queue_tasks_deferred, slots, hand, waiting_task_ids, queue_results,
                       stop_internal_decode, rd, closed>>
        /\ queue_tasks' = Append(queue_tasks, NextResponse)
    BY <1>3 DEF PostNextResponse, Post, resultVars
  <2>2. /\ Append(queue_tasks, NextResponse) \in Seq(Harmless)
        /\ \A t : Holds(queue_tasks, t) => Holds(Append(queue_tasks, NextResponse), t)
    BY <1>0, AppendFacts
  <2>3. \A t : Placed(t) => Placed(t)'
    BY <2>1, <2>2 DEF Placed, OnSlot, Runs
  <2>. QED BY <1>0, <2>1, <2>2, <2>3, PlacesLost
<1>4. CASE ReleaseEffect
  <2>1. UNCHANGED <<hand, waiting_task_ids, queue_results, stop_internal_decode, rd, closed>>
    BY <1>4 DEF ReleaseEffect
  <2>2. /\ queue_tasks' \in Seq(Harmless) /\ queue_tasks_deferred' \in Seq(Harmless)
        /\ \A t : Holds(queue_tasks, t) \/ Holds(queue_tasks_deferred, t)
                    => Holds(queue_tasks', t) \/ Holds(queue_tasks_deferred', t)
    <3>1. CASE UNCHANGED <<queue_tasks, queue_tasks_deferred>>
      BY <1>0, <3>1
    <3>2. CASE queue_tasks' = queue_tasks \o queue_tasks_deferred /\ queue_tasks_deferred' = <<>>
      <4>1. /\ queue_tasks \o queue_tasks_deferred \in Seq(Harmless)
            /\ \A t : Holds(queue_tasks \o queue_tasks_deferred, t)
                        <=> Holds(queue_tasks, t) \/ Holds(queue_tasks_deferred, t)
        BY <1>0, ConcatFacts
      <4>. QED BY <3>2, <4>1
    <3>. QED BY <1>4, <3>1, <3>2 DEF ReleaseEffect
  <2>3. ASSUME NEW t, NEW s \in Slots, Runs(s, t) PROVE Runs(s, t)'
    <3>1. slots[s] \in GoodSlot
      BY DEF TypeInv
    <3>2. slots[s].command # "RELEASE"
      BY <2>3, <3>1 DEF Runs, IsProcessing, Loading, Processing, GoodSlot
    <3>. QED BY <1>4, <2>3, <3>2 DEF ReleaseEffect, Runs
  <2>4. \A t : Placed(t) => Placed(t)'
    BY <2>1, <2>2, <2>3 DEF Placed, OnSlot
  <2>. QED BY <1>0, <2>1, <2>2, <2>4, PlacesLost
<1>. QED BY <1>1, <1>2, <1>3, <1>4

\* A step of reader r: its own obligations, and that it does nothing to the
\* tasks and results of the others.
LEMMA ReaderFrame ==
    ASSUME LostInv, NEW r \in Readers,
           \A q \in Readers : q # r => rd'[q] = rd[q],
           rd[r].pc # "done", rd'[r].pc \notin {"gone", "decode_stop"},
           rd'[r].pc \in {"post", "recv"} => Ids(r) \subseteq waiting_task_ids',
           rd'[r].pc = "recv" => \A t \in Ids(r) : Kept(r, t)',
           UNCHANGED <<closed, stop_internal_decode>>,
           queue_tasks' \in Seq(Harmless'), queue_tasks_deferred' \in Seq(Harmless'),
           hand' \in Harmless',
           \A q \in Readers : q # r =>
               /\ Ids(q) \cap waiting_task_ids \subseteq waiting_task_ids'
               /\ ErrorIn(queue_results, q) => ErrorIn(queue_results', q)
               /\ \A t \in Ids(q) : /\ Placed(t) => Placed(t)'
                                    /\ FinalIn(queue_results, t) => FinalIn(queue_results', t)
    PROVE  LostInv'
<1>1. ASSUME NEW q \in Readers, q # r
      PROVE  /\ rd'[q].pc \notin {"gone", "decode_stop"}
             /\ rd'[q].pc \in {"post", "recv"} => Ids(q) \subseteq waiting_task_ids'
             /\ rd'[q].pc = "recv" => \A t \in Ids(q) : Kept(q, t)'
  <2>1. /\ rd'[q] = rd[q] /\ rd[q].pc \notin {"gone", "decode_stop"}
        /\ rd[q].pc \in {"post", "recv"} => Ids(q) \subseteq waiting_task_ids
        /\ rd[q].pc = "recv" => \A t \in Ids(q) : Kept(q, t)
    BY <1>1 DEF LostInv
  <2>2. Ids(q) \cap waiting_task_ids \subseteq waiting_task_ids'
    BY <1>1
  <2>3. ASSUME NEW t \in Ids(q), Kept(q, t) PROVE Kept(q, t)'
    BY <1>1, <2>1, <2>3 DEF Kept
  <2>. QED BY <2>1, <2>2, <2>3
<1>2. \A q \in Readers : closed'[q] = FALSE
  BY DEF LostInv
<1>3. ~stop_internal_decode'
  BY DEF LostInv
<1>. QED BY <1>1, <1>2, <1>3 DEF LostInv

\* A reader takes a result: an error ends it; a final result is counted.
LEMMA ReceiveLost ==
    ASSUME TypeInv, TaskInv, LostInv, NEW r \in Readers, Receive(r) PROVE LostInv'
<1>0. queue_results \in Seq(ResultRec)
  BY DEF TypeInv, TypeOK
<1>1. PICK i \in DOMAIN queue_results, u \in Ids(r), one \in BOOLEAN, pc \in {"stop", "recv"} :
              /\ u = queue_results[i].id /\ one = (queue_results[i].kind = "final")
              /\ queue_results[i].kind = "error" => pc = "stop"
              /\ queue_results' = RemoveAt(queue_results, i)
              /\ \A q \in Readers : q # r => rd'[q] = rd[q]
              /\ rd'[r].pc = pc
              /\ rd'[r].received = IF one THEN rd[r].received + 1 ELSE rd[r].received
              /\ rd'[r].results = IF one THEN rd[r].results \cup {u} ELSE rd[r].results
  BY ReceiveFacts
<1>2. /\ UNCHANGED <<queue_tasks, queue_tasks_deferred, hand, slots, waiting_task_ids, closed,
                     stop_internal_decode>>
      /\ rd[r].pc = "recv"
  BY DEF Receive, queueVars, mainVars
<1>3. /\ queue_tasks' \in Seq(Harmless') /\ queue_tasks_deferred' \in Seq(Harmless')
      /\ hand' \in Harmless'
  <2>1. \A q \in Readers : rd[q].pc = "done" => rd'[q].pc = "done"
    BY <1>1, <1>2
  <2>. QED BY <1>2, <2>1, HarmlessKept DEF LostInv
<1>4. \A t : Placed(t) => Placed(t)'
  BY <1>2 DEF Placed, OnSlot, Runs
<1>5. ASSUME NEW k \in DOMAIN queue_results, k # i
      PROVE  \E j \in DOMAIN queue_results' : queue_results'[j] = queue_results[k]
  BY <1>0, <1>1, <1>5, RemoveKeeps
<1>6. ASSUME NEW q \in Readers, ErrorIn(queue_results, q), q # r \/ pc = "recv"
      PROVE  ErrorIn(queue_results', q)
  <2>1. PICK k \in DOMAIN queue_results :
           queue_results[k].id \in Ids(q) /\ queue_results[k].kind = "error"
    BY <1>6 DEF ErrorIn
  <2>2. k # i
    BY <1>1, <1>6, <2>1, ConstantsAssumption
  <2>3. PICK j \in DOMAIN queue_results' : queue_results'[j] = queue_results[k]
    BY <1>5, <2>2
  <2>. QED BY <2>1, <2>3 DEF ErrorIn
<1>7. ASSUME NEW t, FinalIn(queue_results, t), t # u \/ ~one
      PROVE  FinalIn(queue_results', t)
  <2>1. PICK k \in DOMAIN queue_results : queue_results[k].id = t /\ queue_results[k].kind = "final"
    BY <1>7 DEF FinalIn
  <2>2. k # i
    BY <1>1, <1>7, <2>1
  <2>3. PICK j \in DOMAIN queue_results' : queue_results'[j] = queue_results[k]
    BY <1>5, <2>2
  <2>. QED BY <2>1, <2>3 DEF FinalIn
<1>8. ASSUME pc = "recv", NEW t \in Ids(r) PROVE Kept(r, t)'
  <2>1. Kept(r, t)
    BY <1>2 DEF LostInv
  <2>2. rd[r].results \subseteq rd'[r].results /\ (one => u \in rd'[r].results)
    BY <1>1
  <2>. QED BY <1>4, <1>6, <1>7, <1>8, <2>1, <2>2 DEF Kept
<1>9. Ids(r) \subseteq waiting_task_ids'
  BY <1>2 DEF LostInv
<1>10. \A q \in Readers : q # r => \A t \in Ids(q) : t # u
  BY ConstantsAssumption
<1>11. \A q \in Readers : q # r =>
               /\ Ids(q) \cap waiting_task_ids \subseteq waiting_task_ids'
               /\ ErrorIn(queue_results, q) => ErrorIn(queue_results', q)
               /\ \A t \in Ids(q) : /\ Placed(t) => Placed(t)'
                                    /\ FinalIn(queue_results, t) => FinalIn(queue_results', t)
  BY <1>2, <1>4, <1>6, <1>7, <1>10
<1>. QED BY <1>1, <1>2, <1>3, <1>8, <1>9, <1>11, ReaderFrame

\* A reader posts its tasks: each of them is in the queue.
LEMMA PostLost == ASSUME TypeInv, LostInv, NEW r \in Readers, PostTasks(r) PROVE LostInv'
<1>0. queue_tasks \in Seq(TaskRec) /\ rd[r].pc = "post"
  BY DEF TypeInv, PostTasks
<1>1. queue_tasks' = queue_tasks \o Posted(r)
  BY DEF PostTasks, PostAll, Posted
<1>2. UNCHANGED <<queue_tasks_deferred, hand, slots, queue_results, waiting_task_ids, closed,
                  stop_internal_decode>>
  BY DEF PostTasks, mainVars, resultVars
<1>3. /\ \A q \in Readers : q # r => rd'[q] = rd[q]
      /\ rd'[r].pc = "recv"
  BY GotoFacts DEF PostTasks
<1>4. \A q \in Readers : rd[q].pc = "done" => rd'[q].pc = "done"
  BY <1>0, <1>3
<1>5. Posted(r) \in Seq(Harmless')
  <2>1. Posted(r) \in Seq(TaskRec) /\ \A i \in DOMAIN Posted(r) : Posted(r)[i].type = "COMPLETION"
    BY PostedFacts DEF Posted, Work
  <2>2. \A i \in DOMAIN Posted(r) : Posted(r)[i] \in Harmless'
    BY <2>1 DEF Harmless
  <2> DEFINE p == Posted(r)
  <2> HIDE DEF p
  <2>3. p \in Seq(TaskRec) /\ \A i \in DOMAIN p : p[i] \in Harmless'
    BY <2>1, <2>2 DEF p
  <2>4. Len(p) \in Nat /\ p = [i \in 1..Len(p) |-> p[i]] /\ \A i \in 1..Len(p) : p[i] \in Harmless'
    BY <2>3
  <2>. QED BY <2>4 DEF p
<1>6. /\ queue_tasks' \in Seq(Harmless') /\ queue_tasks_deferred' \in Seq(Harmless')
      /\ hand' \in Harmless'
  <2>1. queue_tasks \in Seq(Harmless')
    BY <1>4, HarmlessKept DEF LostInv
  <2>2. queue_tasks \o Posted(r) \in Seq(Harmless')
    BY <1>5, <2>1, ConcatFacts
  <2>. QED BY <1>1, <1>2, <1>4, <2>2, HarmlessKept DEF LostInv
<1>7. \A t : Holds(queue_tasks', t) <=> Holds(queue_tasks, t) \/ t \in Ids(r)
  BY <1>0, <1>1, PostedFacts, ConcatFacts
<1>8. \A t : Placed(t) \/ t \in Ids(r) => Placed(t)'
  BY <1>2, <1>7 DEF Placed, OnSlot, Runs
<1>9. \A t \in Ids(r) : Kept(r, t)'
  BY <1>8 DEF Kept
<1>10. Ids(r) \subseteq waiting_task_ids'
  BY <1>0, <1>2 DEF LostInv
<1>11. \A q \in Readers : q # r =>
               /\ Ids(q) \cap waiting_task_ids \subseteq waiting_task_ids'
               /\ ErrorIn(queue_results, q) => ErrorIn(queue_results', q)
               /\ \A t \in Ids(q) : /\ Placed(t) => Placed(t)'
                                    /\ FinalIn(queue_results, t) => FinalIn(queue_results', t)
  BY <1>2, <1>8
<1>. QED BY <1>0, <1>2, <1>3, <1>6, <1>9, <1>10, <1>11, ReaderFrame

\* A reader cancels its tasks: it has finished, and the others keep theirs.
LEMMA CancelLost == ASSUME TypeInv, LostInv, NEW r \in Readers, CancelTasks(r) PROVE LostInv'
<1>0. /\ queue_tasks \in Seq(TaskRec) /\ queue_tasks_deferred \in Seq(TaskRec)
      /\ rd \in [Readers -> Reader] /\ rd[r].pc = "cancel"
  BY DEF TypeInv, TypeOK, Reader, CancelTasks
<1>1. /\ queue_tasks' = Reverse(Cancels(r)) \o CleanupPendingTask(queue_tasks, Ids(r))
      /\ queue_tasks_deferred' = CleanupPendingTask(queue_tasks_deferred, Ids(r))
  BY DEF CancelTasks, PostAll, Cancels
<1>2. UNCHANGED <<hand, slots, queue_results, waiting_task_ids, closed, stop_internal_decode>>
  BY DEF CancelTasks, mainVars, resultVars
<1>3. /\ \A q \in Readers : q # r => rd'[q] = rd[q]
      /\ rd'[r].pc = "done"
  BY <1>0 DEF CancelTasks, Reader
<1>4. \A q \in Readers : rd[q].pc = "done" => rd'[q].pc = "done"
  BY <1>3
<1> DEFINE c == Reverse(Cancels(r))
           kept == CleanupPendingTask(queue_tasks, Ids(r))
<1>5. c \in Seq(Harmless')
  <2>1. /\ c \in Seq(TaskRec)
        /\ \A i \in DOMAIN c : \E t \in Ids(r) : c[i] = Cancel(t)
    BY CancelsFacts
  <2> HIDE DEF c
  <2>2. ASSUME NEW i \in DOMAIN c PROVE c[i] \in Harmless'
    <3>1. PICK t \in Ids(r) : c[i] = Cancel(t)
      BY <2>1
    <3>2. c[i].id_target = t /\ c[i] \in TaskRec
      BY <2>1, <3>1 DEF Cancel
    <3>3. \A q \in Readers : t \in Ids(q) => rd'[q].pc = "done"
      BY <1>3, ConstantsAssumption
    <3>. QED BY <3>2, <3>3 DEF Harmless
  <2>3. Len(c) \in Nat /\ c = [i \in 1..Len(c) |-> c[i]] /\ \A i \in 1..Len(c) : c[i] \in Harmless'
    BY <2>1, <2>2
  <2>. QED BY <2>3
<1>6. /\ queue_tasks \in Seq(Harmless') /\ queue_tasks_deferred \in Seq(Harmless')
      /\ hand \in Harmless'
  BY <1>4, HarmlessKept DEF LostInv
<1>7. kept \in Seq(Harmless') /\ \A t : Holds(kept, t) <=> Holds(queue_tasks, t) /\ t \notin Ids(r)
  BY <1>6, CleanupFacts
<1>8. /\ queue_tasks_deferred' \in Seq(Harmless')
      /\ \A t : Holds(queue_tasks_deferred', t) <=> Holds(queue_tasks_deferred, t) /\ t \notin Ids(r)
  BY <1>1, <1>6, CleanupFacts
<1>9. /\ queue_tasks' \in Seq(Harmless')
      /\ \A t : Holds(kept, t) => Holds(queue_tasks', t)
  <2> HIDE DEF c, kept
  <2>1. queue_tasks' = c \o kept
    BY <1>1 DEF c, kept
  <2>. QED BY <1>5, <1>7, <2>1, ConcatFacts
<1> HIDE DEF c, kept
<1>10. \A t : Placed(t) /\ t \notin Ids(r) => Placed(t)'
  BY <1>2, <1>7, <1>8, <1>9 DEF Placed, OnSlot, Runs
<1>11. \A q \in Readers : q # r =>
               /\ Ids(q) \cap waiting_task_ids \subseteq waiting_task_ids'
               /\ ErrorIn(queue_results, q) => ErrorIn(queue_results', q)
               /\ \A t \in Ids(q) : /\ Placed(t) => Placed(t)'
                                    /\ FinalIn(queue_results, t) => FinalIn(queue_results', t)
  <2>1. \A q \in Readers : q # r => \A t \in Ids(q) : t \notin Ids(r)
    BY ConstantsAssumption
  <2>. QED BY <1>2, <1>10, <2>1
<1>. QED BY <1>0, <1>2, <1>3, <1>6, <1>8, <1>9, <1>11, ReaderFrame

\* A request whose connection stays open does not lose itself.
LEMMA ReaderLost ==
    ASSUME MayClose = {}, TypeInv, TaskInv, LostInv, NEW r \in Readers,
           AddWaitingTasks(r) \/ ReaderStep(r) \/ CloseConnection(r)
    PROVE  LostInv'
<1>1. ASSUME NEW pc \in {"post", "cancel", "done"}, Goto(r, pc), rd[r].pc \in {"init", "stop"},
             UNCHANGED <<queue_tasks, queue_tasks_deferred, hand, slots, queue_results, closed,
                         stop_internal_decode>>,
             pc = "post" => Ids(r) \subseteq waiting_task_ids',
             waiting_task_ids \ Ids(r) \subseteq waiting_task_ids'
      PROVE  LostInv'
  <2>1. (\A q \in Readers : q # r => rd'[q] = rd[q]) /\ rd'[r].pc = pc
    BY <1>1, GotoFacts
  <2>2. \A q \in Readers : rd[q].pc = "done" => rd'[q].pc = "done"
    BY <1>1, <2>1
  <2>3. /\ queue_tasks' \in Seq(Harmless') /\ queue_tasks_deferred' \in Seq(Harmless')
        /\ hand' \in Harmless'
    BY <1>1, <2>2, HarmlessKept DEF LostInv
  <2>4. \A t : Placed(t) => Placed(t)'
    BY <1>1 DEF Placed, OnSlot, Runs
  <2>5. \A q \in Readers : q # r => Ids(q) \cap waiting_task_ids \subseteq waiting_task_ids'
    BY <1>1, ConstantsAssumption
  <2>. QED BY <1>1, <2>1, <2>3, <2>4, <2>5, ReaderFrame
<1>2. CASE AddWaitingTasks(r)
  BY <1>1, <1>2 DEF AddWaitingTasks, queueVars, mainVars
<1>3. CASE PostTasks(r)
  BY <1>3, PostLost
<1>4. CASE Receive(r)
  BY <1>4, ReceiveLost
<1>5. CASE Timeout(r) \/ CheckSlots(r) \/ DecodeStop(r) \/ CloseConnection(r)
  BY <1>5 DEF Timeout, CheckSlots, DecodeStop, CloseConnection, LostInv
<1>6. CASE Stop(r)
  BY <1>1, <1>6 DEF Stop, queueVars, mainVars
<1>7. CASE CancelTasks(r)
  BY <1>7, CancelLost
<1>. QED BY <1>2, <1>3, <1>4, <1>5, <1>6, <1>7 DEF ReaderStep

\* An administrative request loses none.
LEMMA AdminLost == ASSUME TypeInv, LostInv, NEW a \in Admins, AdminStep(a) PROVE LostInv'
<1>0. /\ queue_tasks \in Seq(Harmless) /\ queue_tasks_deferred \in Seq(Harmless)
      /\ hand \in Harmless
  BY DEF LostInv
<1>1. ASSUME UNCHANGED <<queue_results, stop_internal_decode, rd, closed, hand, slots,
                         queue_tasks_deferred>>,
             waiting_task_ids \ {a} \subseteq waiting_task_ids',
             queue_tasks' \in Seq(Harmless),
             \A t : Holds(queue_tasks, t) => Holds(queue_tasks', t)
      PROVE  LostInv'
  <2>1. /\ queue_tasks' \in Seq(Harmless') /\ queue_tasks_deferred' \in Seq(Harmless')
        /\ hand' \in Harmless'
    BY <1>0, <1>1, HarmlessKept
  <2>2. \A t : Placed(t) => Placed(t)'
    BY <1>1 DEF Placed, OnSlot, Runs
  <2>3. \A q \in Readers : \A t \in Ids(q) : Kept(q, t) => Kept(q, t)'
    BY <1>1, <2>2 DEF Kept
  <2>4. ASSUME NEW q \in Readers, Ids(q) \subseteq waiting_task_ids
        PROVE  Ids(q) \subseteq waiting_task_ids'
    BY <1>1, <2>4, TaskIdFacts, ConstantsAssumption
  <2>. QED BY <1>1, <2>1, <2>3, <2>4 DEF LostInv
<1>2. CASE AdminRegister(a)
  BY <1>0, <1>1, <1>2 DEF AdminRegister, queueVars, mainVars
<1>3. CASE AdminPost(a)
  <2>1. Work(a, AdminType[a]) \in Harmless
    BY ConstantsAssumption DEF Work, Harmless, TaskRec, Task, TaskTypes, TaskIds
  <2>2. queue_tasks' = Append(queue_tasks, Work(a, AdminType[a]))
    BY <1>3 DEF AdminPost, Post
  <2>3. queue_tasks' \in Seq(Harmless) /\ \A t : Holds(queue_tasks, t) => Holds(queue_tasks', t)
    BY <1>0, <2>1, <2>2, AppendFacts
  <2>. QED BY <1>1, <1>3, <2>3 DEF AdminPost, resultVars, mainVars
<1>4. CASE AdminRecv(a)
  BY <1>0, <1>1, <1>4 DEF AdminRecv, queueVars, mainVars
<1>. QED BY <1>2, <1>3, <1>4 DEF AdminStep

\* LostInv holds when the server starts.
LEMMA LostInvInit == Init => LostInv
<1> SUFFICES ASSUME Init PROVE LostInv
  OBVIOUS
<1>1. hand \in Harmless /\ <<>> \in Seq(Harmless)
  BY NextResponseRec DEF Init, Harmless, NextResponse
<1>. QED BY <1>1 DEF Init, LostInv

\* Every step keeps LostInv, without system prompts and closed connections.
LEMMA LostInvStep ==
    ASSUME MayClose = {}, SystemPrompt = {}
    PROVE  TypeInv /\ TaskInv /\ LostInv /\ [Next]_vars => LostInv'
<1> SUFFICES ASSUME TypeInv, TaskInv, LostInv, [Next]_vars PROVE LostInv'
  OBVIOUS
<1>1. CASE MainStep
  BY <1>1, MainSteps, LoopLost, PassLost, PassEffects, HandleLost, HandleEffects, ReleaseEffects
<1>2. CASE \E r \in Readers : AddWaitingTasks(r) \/ ReaderStep(r) \/ CloseConnection(r)
  BY <1>2, ReaderLost
<1>3. CASE \E a \in Admins : AdminStep(a)
  BY <1>3, AdminLost
<1>4. CASE Terminate \/ UNCHANGED vars
  <2>1. UNCHANGED <<queue_tasks, queue_tasks_deferred, slots, hand, waiting_task_ids,
                    queue_results, stop_internal_decode, rd, closed>>
    BY <1>4 DEF Terminate, vars, queueVars, resultVars, mainVars
  <2>2. \A t : Placed(t) => Placed(t)'
    BY <2>1 DEF Placed, OnSlot, Runs
  <2>. QED BY <2>1, <2>2, PlacesLost DEF LostInv
<1>. QED BY <1>1, <1>2, <1>3, <1>4 DEF Next

\* What LostInv says of a reader that waits, in the words of NoLostRequest.
LEMMA KeptPlaces == ASSUME TypeInv, LostInv PROVE NoLostRequest
<1> SUFFICES ASSUME NEW r \in Readers, rd[r].pc = "recv", NEW t \in Ids(r)
             PROVE  \/ t \in rd[r].results \/ Places(t) # {}
                    \/ \E i \in DOMAIN queue_results :
                          queue_results[i].id \in Ids(r) /\ queue_results[i].kind = "error"
                    \/ \E i \in DOMAIN queue_results : queue_results[i] = Result(t, "final")
  BY DEF NoLostRequest
<1>1. Kept(r, t)
  BY DEF LostInv
<1>2. Placed(t) => Places(t) # {}
  BY DEF Placed, Places, Holds, OnSlot, Runs
<1>3. FinalIn(queue_results, t) => \E i \in DOMAIN queue_results : queue_results[i] = Result(t, "final")
  <2> SUFFICES ASSUME NEW i \in DOMAIN queue_results, queue_results[i].id = t,
                      queue_results[i].kind = "final"
               PROVE  queue_results[i] = Result(t, "final")
    BY DEF FinalIn
  <2>1. queue_results[i] \in ResultRec
    BY DEF TypeInv, TypeOK
  <2>. QED BY <2>1 DEF ResultRec, Result
<1>. QED BY <1>1, <1>2, <1>3 DEF Kept, ErrorIn

\* While no client disconnects and no task carries a system prompt, a request
\* that waits is never forgotten: each of its tasks is somewhere in the server,
\* or a result that ends the wait is stored or was received.  Deferral, slot
\* release, re-queueing, failed decodes, rejected prompts and the cancellation
\* of other requests lose nothing.  Both hypotheses are needed: the stop of a
\* decode and the system prompt drop the tasks of other requests silently.
THEOREM NoRequestLost ==
    ASSUME MayClose = {}, SystemPrompt = {}
    PROVE  Spec => []NoLostRequest
<1>1. TypeInv /\ TaskInv /\ LostInv /\ [Next]_vars => LostInv'
  BY LostInvStep
<1>2. TypeInv /\ LostInv => NoLostRequest
  BY KeptPlaces
<1>. QED BY <1>1, <1>2, LostInvInit, TypesHold, TasksHold, PTL DEF Spec
=============================================================================
