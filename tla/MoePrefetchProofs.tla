-------------------------- MODULE MoePrefetchProofs --------------------------
(***************************************************************************)
(* Theorems about MoePrefetch, for any number of contexts, workers,        *)
(* tensors and chunks: a pool is stopped only when nobody uses it, no      *)
(* waiter misses its wake-up although tickets are counted down without the *)
(* mutex, a ticket counts its jobs exactly, one context queues no chunk    *)
(* twice for an epoch, and a pass is past a wait only when its jobs are    *)
(* done.                                                                   *)
(***************************************************************************)
EXTENDS MoePrefetch, FiniteSetTheorems, TLAPS

Op == {"tensor", "node", "wait", "cold", "eval"} \X Tensors
Kinds == {"offload", "host", "multi", "decode"}

Ticket == [known : BOOLEAN, pending : Int, epoch : Nat, track_reads : BOOLEAN,
           read_chunks : SUBSET (Chunks \X Nat)]
Worker == [pc : {"wait", "run", "settle", "exited"}, job : Job \cup {NoJob}, left : Int,
           done_read : BOOLEAN]
Caller == [pc : {"idle", "tensor", "node", "wait", "check", "asleep", "cold", "return", "join"},
           kind : Kinds, split : Int, ops : Seq(Op), held : Pools \cup {NoPool}, seen : Nat,
           pass : Nat, passes : Nat]

TicketsTyped == tickets \in [Pools -> [Tensors -> Ticket]]
QueuesTyped == queue \in [Pools -> Seq(Job)] /\ shutdown \in [Pools -> BOOLEAN]
WorkersTyped ==
    /\ wk \in [Pools -> [Workers -> Worker]]
    /\ \A p \in Pools, k \in Workers : wk[p][k].pc \in {"run", "settle"} => wk[p][k].job \in Job
CallersTyped ==
    /\ ca \in [Callers -> Caller]
    /\ \A c \in Callers :
          /\ ca[c].split \in 0..NTensors
          /\ ca[c].pc = "idle" => ca[c].held = NoPool
          /\ ca[c].pc # "idle" => ca[c].held \in Pools /\ ca[c].ops # <<>>
EngineTyped == pool \in Pools /\ epoch \in Nat /\ mgr \in {"run", "joining", "done"}

\* The state of the engine, with tickets that may be any integer: that they are
\* never negative is a matter of counting, and not needed here.
Typed == TicketsTyped /\ QueuesTyped /\ WorkersTyped /\ CallersTyped /\ EngineTyped

\* The second pool is untouched until it replaces the first.
Succession ==
    /\ mgr = "done" => pool = 2
    /\ mgr # "done" => /\ pool = 1 /\ ~shutdown[2]
                       /\ \A c \in Callers : ca[c].held # 2

IInv == Typed /\ Succession /\ StoppedUnused /\ NoLostWakeup

-----------------------------------------------------------------------------

\* The calls around a split are calls on tensors of the graph.
LEMMA SplitOpsType ==
    ASSUME NEW kind \in Kinds, NEW w \in Tensors
    PROVE  SplitOps(kind, w) \in Seq(Op)
<1>1. AheadOf(w) \in Seq(Op)
  <2>1. CASE w = 1
    <3> DEFINE n == IF Ahead < NTensors THEN Ahead ELSE NTensors
    <3>1. n \in Nat /\ \A k \in 1..n : <<"tensor", k>> \in Op
      BY ConstantsAssumption DEF Op, Tensors
    <3>2. AheadOf(w) = [k \in 1..n |-> <<"tensor", k>>]
      BY <2>1 DEF AheadOf
    <3> QED BY <3>1, <3>2
  <2>2. CASE w # 1 /\ Ahead > 0 /\ w + Ahead - 1 <= NTensors
    <3>1. <<"tensor", w + Ahead - 1>> \in Op
      BY <2>2, ConstantsAssumption DEF Op, Tensors
    <3>2. AheadOf(w) = << <<"tensor", w + Ahead - 1>> >>
      BY <2>2 DEF AheadOf
    <3> QED BY <3>1, <3>2
  <2>3. CASE w # 1 /\ ~(Ahead > 0 /\ w + Ahead - 1 <= NTensors)
    BY <2>3 DEF AheadOf
  <2> QED BY <2>1, <2>2, <2>3
<1>2. /\ <<"wait", w>> \in Op /\ <<"eval", w>> \in Op
      /\ <<"cold", w>> \in Op /\ <<"node", w>> \in Op
  BY DEF Op
<1> DEFINE before == IF kind \in {"offload", "host"} THEN AheadOf(w) ELSE <<>>
           during == IF kind = "offload" THEN << <<"wait", w>> >>
                     ELSE IF kind = "multi" THEN << <<"node", w>> >>
                     ELSE << <<"node", w>>, <<"node", w>> >>
           after == IF kind = "decode" THEN << <<"eval", w>> >>
                    ELSE << <<"eval", w>>, <<"cold", w>> >>
<1>3. before \in Seq(Op) BY <1>1
<1>4. during \in Seq(Op) BY <1>2
<1>5. after \in Seq(Op) BY <1>2
<1>6. SplitOps(kind, w) = before \o during \o after BY DEF SplitOps
<1> QED BY <1>3, <1>4, <1>5, <1>6

\* The invariant holds when the library is loaded.
LEMMA InitIInv == Init => IInv
<1> SUFFICES ASSUME Init PROVE IInv OBVIOUS
<1> USE ConstantsAssumption DEF Init
<1>1. TicketsTyped BY DEF TicketsTyped, Ticket
<1>2. QueuesTyped BY DEF QueuesTyped
<1>3. WorkersTyped BY DEF WorkersTyped, Worker
<1>4. CallersTyped BY DEF CallersTyped, Caller, Kinds
<1>5. EngineTyped BY DEF EngineTyped, Pools
<1>6. Succession BY DEF Succession, NoPool, Pools
<1>7. StoppedUnused BY DEF StoppedUnused
<1>8. NoLostWakeup BY DEF NoLostWakeup
<1> QED BY <1>1, <1>2, <1>3, <1>4, <1>5, <1>6, <1>7, <1>8 DEF IInv, Typed

\* Setting the count of a ticket leaves a ticket.
LEMMA TicketPending ==
    ASSUME NEW tk \in Ticket, NEW n \in Int
    PROVE  [tk EXCEPT !.pending = n] \in Ticket
BY DEF Ticket

\* The same for the chunks that were read.
LEMMA TicketReads ==
    ASSUME NEW tk \in Ticket, NEW rc \in SUBSET (Chunks \X Nat)
    PROVE  [tk EXCEPT !.read_chunks = rc] \in Ticket
BY DEF Ticket

\* Moving a caller leaves the rest of its state alone.
LEMMA CallerPc ==
    ASSUME NEW x \in Caller, NEW pc \in {"check", "asleep", "return", "join"}
    PROVE  LET y == [x EXCEPT !.pc = pc] IN
           /\ y \in Caller /\ y.pc = pc /\ y.split = x.split /\ y.held = x.held
           /\ y.ops = x.ops
BY DEF Caller

\* The call a caller is in is about a tensor of the graph.
LEMMA ArgType ==
    ASSUME CallersTyped, NEW c \in Callers, ca[c].pc # "idle"
    PROVE  Arg(c) \in Tensors
<1>1. ca[c].ops \in Seq(Op) /\ ca[c].ops # <<>> BY DEF CallersTyped, Caller
<1>2. Head(ca[c].ops) \in Op BY <1>1
<1> QED BY <1>2 DEF Op, Arg

-----------------------------------------------------------------------------
(* Workers                                                                  *)

\* Steps that keep every worker that is about to wake the waiters.
LEMMA WakerStays ==
    ASSUME NoLostWakeup, CallersTyped, UNCHANGED <<tickets, shutdown, ca>>,
           \A q \in Pools, j \in Workers : wk[q][j].pc = "settle" => wk'[q][j] = wk[q][j]
    PROVE  NoLostWakeup'
<1>1. \A c \in Callers : Arg(c)' = Arg(c) BY DEF Arg
<1>2. \A c \in Callers : ca[c].pc = "asleep" => ca[c].held \in Pools BY DEF CallersTyped
<1> QED BY <1>1, <1>2 DEF NoLostWakeup

\* A worker takes a job from the queue of a running pool.
LEMMA WorkerTakeIInv ==
    ASSUME IInv, NEW p \in Pools, NEW k \in Workers, WorkerTake(p, k)
    PROVE  IInv'
<1> USE DEF IInv, Typed
<1>1. Head(queue[p]) \in Job /\ Tail(queue[p]) \in Seq(Job) BY DEF QueuesTyped, WorkerTake
<1>2. QueuesTyped' BY <1>1 DEF QueuesTyped, WorkerTake
<1>3. WorkersTyped' BY <1>1 DEF WorkersTyped, Worker, WorkerTake
<1>4. TicketsTyped' /\ CallersTyped' /\ EngineTyped'
  BY DEF WorkerTake, TicketsTyped, CallersTyped, EngineTyped
<1>5. Succession' BY DEF WorkerTake, Succession
<1>6. StoppedUnused' BY DEF WorkerTake, StoppedUnused, QueuesTyped
<1>7. \A q \in Pools, j \in Workers : wk[q][j].pc = "settle" => wk'[q][j] = wk[q][j]
  BY DEF WorkerTake, WorkersTyped
<1>8. NoLostWakeup' BY <1>7, WakerStays DEF WorkerTake
<1> QED BY <1>2, <1>3, <1>4, <1>5, <1>6, <1>8

\* A worker of a stopped pool ends; it was not about to wake anybody.
LEMMA WorkerExitIInv ==
    ASSUME IInv, NEW p \in Pools, NEW k \in Workers, WorkerExit(p, k)
    PROVE  IInv'
<1> USE DEF IInv, Typed
<1>1. WorkersTyped' BY DEF WorkersTyped, Worker, WorkerExit
<1>2. TicketsTyped' /\ QueuesTyped' /\ CallersTyped' /\ EngineTyped'
  BY DEF WorkerExit, TicketsTyped, QueuesTyped, CallersTyped, EngineTyped
<1>3. Succession' /\ StoppedUnused' BY DEF WorkerExit, Succession, StoppedUnused
<1>4. \A q \in Pools, j \in Workers : wk[q][j].pc = "settle" => wk'[q][j] = wk[q][j]
  BY DEF WorkerExit, WorkersTyped
<1>5. NoLostWakeup' BY <1>4, WakerStays DEF WorkerExit
<1> QED BY <1>1, <1>2, <1>3, <1>5

\* The count-down that reaches zero leaves a worker that will wake the waiters.
LEMMA WorkerRunIInv ==
    ASSUME IInv, NEW p \in Pools, NEW k \in Workers, WorkerRun(p, k)
    PROVE  IInv'
<1> USE DEF IInv, Typed
<1> DEFINE v == wk[p][k].job.w
<1>1. wk[p][k].job \in Job /\ v \in Tensors BY DEF WorkersTyped, WorkerRun, Job
<1>2. PICK done_read \in BOOLEAN :
        wk' = [wk EXCEPT ![p][k] = [pc |-> "settle", job |-> wk[p][k].job,
                                    left |-> tickets[p][v].pending,
                                    done_read |-> done_read]]
  BY DEF WorkerRun
<1>3. tickets' = [tickets EXCEPT ![p][v].pending = @ - 1] BY DEF WorkerRun
<1>4. tickets[p][v] \in Ticket /\ tickets[p][v].pending \in Int
  BY <1>1 DEF TicketsTyped, Ticket
<1>5. TicketsTyped'
  <2>1. [tickets[p][v] EXCEPT !.pending = @ - 1] \in Ticket
    BY <1>4, TicketPending
  <2>2. tickets' = [tickets EXCEPT ![p][v] = [tickets[p][v] EXCEPT !.pending = @ - 1]]
    BY <1>3
  <2> QED BY <1>1, <2>1, <2>2 DEF TicketsTyped
<1>6. WorkersTyped' BY <1>1, <1>2, <1>4 DEF WorkersTyped, Worker
<1>7. QueuesTyped' /\ CallersTyped' /\ EngineTyped'
  BY DEF WorkerRun, QueuesTyped, CallersTyped, EngineTyped
<1>8. Succession' /\ StoppedUnused' BY DEF WorkerRun, Succession, StoppedUnused
<1>9. NoLostWakeup'
  <2> SUFFICES ASSUME NEW c \in Callers, ca[c].pc = "asleep"
               PROVE  LET q == ca[c].held IN
                      \/ tickets'[q][Arg(c)].pending > 0 /\ ~shutdown[q]
                      \/ \E j \in Workers : wk'[q][j].pc = "settle" /\ wk'[q][j].left = 1
    BY DEF WorkerRun, NoLostWakeup, Arg
  <2> DEFINE q == ca[c].held
             w == Arg(c)
  <2>1. q \in Pools /\ w \in Tensors
    BY ArgType DEF CallersTyped
  <2>2. \/ tickets[q][w].pending > 0 /\ ~shutdown[q]
        \/ \E j \in Workers : wk[q][j].pc = "settle" /\ wk[q][j].left = 1
    BY DEF NoLostWakeup
  <2>3. CASE \E j \in Workers : wk[q][j].pc = "settle" /\ wk[q][j].left = 1
    <3>1. PICK j \in Workers : wk[q][j].pc = "settle" /\ wk[q][j].left = 1 BY <2>3
    <3>2. ~(q = p /\ j = k) BY <3>1 DEF WorkerRun
    <3>3. wk'[q][j] = wk[q][j] BY <1>2, <3>2, <2>1 DEF WorkersTyped
    <3> QED BY <3>1, <3>3
  <2>4. CASE tickets[q][w].pending > 0 /\ ~shutdown[q] /\ ~(q = p /\ w = v)
    <3>1. tickets'[q][w] = tickets[q][w] BY <1>3, <2>1, <2>4 DEF TicketsTyped
    <3> QED BY <2>4, <3>1
  <2>5. CASE tickets[q][w].pending > 0 /\ ~shutdown[q] /\ q = p /\ w = v
    <3>1. tickets'[q][w].pending = tickets[p][v].pending - 1
      BY <1>1, <1>3, <1>4, <2>5 DEF TicketsTyped, Ticket
    <3>2. CASE tickets[p][v].pending = 1
      <4>1. wk'[p][k].pc = "settle" /\ wk'[p][k].left = 1
        BY <1>2, <3>2 DEF WorkersTyped, Worker
      <4> QED BY <4>1, <2>5
    <3>3. CASE tickets[p][v].pending # 1 BY <3>1, <3>3, <1>4, <2>5
    <3> QED BY <3>2, <3>3
  <2> QED BY <2>2, <2>3, <2>4, <2>5
<1> QED BY <1>5, <1>6, <1>7, <1>8, <1>9

\* A worker that finds left = 1 wakes every waiter of its pool; any other
\* worker leaves the one that will in place.
LEMMA WorkerSettleIInv ==
    ASSUME IInv, NEW p \in Pools, NEW k \in Workers, WorkerSettle(p, k)
    PROVE  IInv'
<1> USE DEF IInv, Typed
<1> DEFINE me == wk[p][k]
           v == me.job.w
           idle == [pc |-> "wait", job |-> NoJob, left |-> 0, done_read |-> FALSE]
<1>1. me.job \in Job /\ v \in Tensors /\ me.job.i \in Chunks /\ me.job.e \in Nat
  BY DEF WorkersTyped, WorkerSettle, Job
<1>2. wk' = [wk EXCEPT ![p][k] = idle] BY DEF WorkerSettle
<1>3. WorkersTyped' BY <1>2 DEF WorkersTyped, Worker
<1>4. tickets[p][v] \in Ticket /\ tickets[p][v].read_chunks \in SUBSET (Chunks \X Nat)
  BY <1>1 DEF TicketsTyped, Ticket
<1> DEFINE noted == tickets[p][v].read_chunks \cup {<<me.job.i, me.job.e>>}
           tk == [tickets[p][v] EXCEPT !.read_chunks = noted]
<1>5. tk \in Ticket /\ tk.pending = tickets[p][v].pending
  <2>0. <<me.job.i, me.job.e>> \in Chunks \X Nat BY <1>1
  <2>1. noted \in SUBSET (Chunks \X Nat) BY <1>4, <2>0, Zenon
  <2> HIDE DEF noted
  <2>2. tk \in Ticket BY <1>4, <2>1, TicketReads
  <2>3. tk.pending = tickets[p][v].pending BY <1>4 DEF Ticket
  <2> QED BY <2>2, <2>3
<1>6. tickets' = tickets \/ tickets' = [tickets EXCEPT ![p][v] = tk]
  BY DEF WorkerSettle
<1> HIDE DEF tk
<1>7. TicketsTyped' BY <1>1, <1>5, <1>6 DEF TicketsTyped
<1>8. \A q \in Pools, w \in Tensors : tickets'[q][w].pending = tickets[q][w].pending
  BY <1>1, <1>5, <1>6 DEF TicketsTyped
<1>9. /\ me.left = 1 => ca' = [c \in Callers |->
            IF ca[c].pc = "asleep" /\ ca[c].held = p
            THEN [ca[c] EXCEPT !.pc = "check"] ELSE ca[c]]
      /\ me.left # 1 => ca' = ca
  BY DEF WorkerSettle
<1>10. CallersTyped'
  <2>1. ASSUME NEW c \in Callers
        PROVE  /\ ca'[c] \in Caller /\ ca'[c].split = ca[c].split
               /\ ca'[c].held = ca[c].held /\ ca'[c].ops = ca[c].ops
               /\ ca'[c].pc = "idle" <=> ca[c].pc = "idle"
    <3>1. ca[c] \in Caller BY DEF CallersTyped
    <3>2. \/ ca'[c] = ca[c]
          \/ ca[c].pc = "asleep" /\ ca'[c] = [ca[c] EXCEPT !.pc = "check"]
      BY <1>9
    <3>3. CASE ca'[c] = ca[c] BY <3>1, <3>3
    <3>4. CASE ca[c].pc = "asleep" /\ ca'[c] = [ca[c] EXCEPT !.pc = "check"]
      <4>1. LET y == [ca[c] EXCEPT !.pc = "check"] IN
            /\ y \in Caller /\ y.pc = "check" /\ y.split = ca[c].split
            /\ y.held = ca[c].held /\ y.ops = ca[c].ops
        BY <3>1, CallerPc
      <4> QED BY <3>4, <4>1
    <3> QED BY <3>2, <3>3, <3>4
  <2>2. ca' \in [Callers -> Caller] BY <1>9, <2>1 DEF CallersTyped
  <2>3. \A c \in Callers : /\ ca'[c].split \in 0..NTensors
                           /\ ca'[c].pc = "idle" => ca'[c].held = NoPool
                           /\ ca'[c].pc # "idle" => ca'[c].held \in Pools /\ ca'[c].ops # <<>>
    BY <2>1 DEF CallersTyped
  <2> QED BY <2>2, <2>3 DEF CallersTyped
<1>11. \A c \in Callers : /\ ca'[c].held = ca[c].held /\ ca'[c].ops = ca[c].ops
                          /\ ca'[c].pc = "join" <=> ca[c].pc = "join"
                          /\ ca'[c].pc = "asleep" => /\ ca[c].pc = "asleep"
                                                     /\ me.left = 1 => ca[c].held # p
  BY <1>9, ZenonT(40) DEF CallersTyped, Caller
<1>12. QueuesTyped' /\ EngineTyped' BY DEF WorkerSettle, QueuesTyped, EngineTyped
<1>13. Succession' BY <1>11, ZenonT(40) DEF WorkerSettle, Succession
<1>14. StoppedUnused' BY <1>11, ZenonT(40) DEF WorkerSettle, StoppedUnused
<1>15. NoLostWakeup'
  <2> SUFFICES ASSUME NEW c \in Callers, ca'[c].pc = "asleep"
               PROVE  LET q == ca[c].held IN
                      \/ tickets[q][Arg(c)].pending > 0 /\ ~shutdown[q]
                      \/ \E j \in Workers : wk'[q][j].pc = "settle" /\ wk'[q][j].left = 1
    <3>1. \A c \in Callers : Arg(c)' = Arg(c) BY <1>11 DEF Arg
    <3>2. \A c \in Callers : ca'[c].pc = "asleep" =>
             ca[c].held \in Pools /\ Arg(c) \in Tensors
      BY <1>11, ArgType DEF CallersTyped
    <3>3. shutdown' = shutdown BY DEF WorkerSettle
    <3> QED BY <1>8, <1>11, <3>1, <3>2, <3>3 DEF NoLostWakeup
  <2> DEFINE q == ca[c].held
  <2>1. ca[c].pc = "asleep" /\ q \in Pools BY <1>11 DEF CallersTyped
  <2>2. \/ tickets[q][Arg(c)].pending > 0 /\ ~shutdown[q]
        \/ \E j \in Workers : wk[q][j].pc = "settle" /\ wk[q][j].left = 1
    BY <2>1 DEF NoLostWakeup
  <2>3. CASE \E j \in Workers : wk[q][j].pc = "settle" /\ wk[q][j].left = 1
    <3>1. PICK j \in Workers : wk[q][j].pc = "settle" /\ wk[q][j].left = 1 BY <2>3
    <3>2. ~(q = p /\ j = k) BY <1>11, <3>1
    <3>3. wk'[q][j] = wk[q][j] BY <1>2, <2>1, <3>2 DEF WorkersTyped
    <3> QED BY <3>1, <3>3
  <2> QED BY <2>2, <2>3
<1> QED BY <1>3, <1>7, <1>10, <1>12, <1>13, <1>14, <1>15

-----------------------------------------------------------------------------
(* Callers                                                                  *)

\* A step of caller c that leaves the pools alone and does not let c sleep.
LEMMA CallerOnly ==
    ASSUME IInv, NEW c \in Callers, NEW x \in Caller,
           ca' = [ca EXCEPT ![c] = x],
           x.split \in 0..NTensors,
           x.pc = "idle" => x.held = NoPool,
           x.pc # "idle" => x.held \in Pools /\ x.ops # <<>>,
           x.pc # "asleep",
           x.held \in {NoPool, ca[c].held} \/ (x.held = pool /\ mgr # "joining"),
           x.held = ca[c].held /\ ca[c].held # NoPool => (x.pc = "join" <=> ca[c].pc = "join"),
           epoch' \in Nat, UNCHANGED <<poolVars, pool, mgr>>
    PROVE  IInv'
<1> USE DEF IInv, Typed
<1>1. CallersTyped' BY DEF CallersTyped
<1>2. TicketsTyped' /\ QueuesTyped' /\ WorkersTyped' /\ EngineTyped'
  BY DEF TicketsTyped, QueuesTyped, WorkersTyped, EngineTyped, poolVars
<1>3. ca'[c] = x /\ \A d \in Callers \ {c} : ca'[d] = ca[d] BY DEF CallersTyped
<1>4. Succession' BY <1>3 DEF Succession, poolVars, NoPool, EngineTyped
<1>5. StoppedUnused' BY <1>3 DEF StoppedUnused, poolVars, NoPool, Pools, EngineTyped
<1>6. NoLostWakeup' BY <1>3 DEF NoLostWakeup, Arg, poolVars
<1> QED BY <1>1, <1>2, <1>4, <1>5, <1>6

\* A pass starts outside every call.
LEMMA NewEpochIInv ==
    ASSUME IInv, NEW c \in Callers, NewEpoch(c)
    PROVE  IInv'
<1> USE DEF IInv, Typed
<1>1. ca[c] \in Caller /\ ca[c].held = NoPool BY DEF CallersTyped, NewEpoch
<1> DEFINE started(kind) == [pc |-> "idle", kind |-> kind, split |-> 0, ops |-> <<>>,
                             held |-> NoPool, seen |-> 0, pass |-> epoch + 1,
                             passes |-> ca[c].passes + 1]
<1>2. PICK kind \in PassKinds : ca' = [ca EXCEPT ![c] = started(kind)]
  BY DEF NewEpoch
<1> DEFINE x == started(kind)
<1>3. ca' = [ca EXCEPT ![c] = x] BY <1>2
<1>4. x \in Caller /\ x.split = 0 /\ x.pc = "idle" /\ x.held = NoPool
  <2>1. kind \in Kinds BY ConstantsAssumption DEF Kinds
  <2>2. epoch + 1 \in Nat /\ ca[c].passes + 1 \in Nat BY <1>1 DEF EngineTyped, Caller
  <2> QED BY <2>1, <2>2 DEF Caller
<1>5. epoch' \in Nat /\ UNCHANGED <<poolVars, pool, mgr>> BY DEF NewEpoch, EngineTyped
<1>6. 0 \in 0..NTensors BY ConstantsAssumption
<1> HIDE DEF x, started
<1> QED BY <1>3, <1>4, <1>5, <1>6, CallerOnly DEF NoPool

\* A pass goes on to its next split.
LEMMA NextSplitIInv ==
    ASSUME IInv, NEW c \in Callers, NextSplit(c)
    PROVE  IInv'
<1> USE DEF IInv, Typed
<1> DEFINE w == ca[c].split + 1
           x == [ca[c] EXCEPT !.split = w, !.ops = SplitOps(ca[c].kind, w)]
<1>1. ca[c] \in Caller /\ ca[c].held = NoPool BY DEF CallersTyped, NextSplit
<1>2. w \in 0..NTensors /\ w \in Tensors
  BY <1>1, ConstantsAssumption DEF CallersTyped, NextSplit, Tensors
<1>3. SplitOps(ca[c].kind, w) \in Seq(Op)
  BY <1>1, <1>2, SplitOpsType DEF Caller
<1>4. ca' = [ca EXCEPT ![c] = x] BY DEF CallersTyped, NextSplit
<1>5. x \in Caller /\ x.split = w /\ x.pc = "idle" /\ x.held = NoPool
  <2> HIDE DEF w
  <2>1. w \in Int BY <1>2
  <2> QED BY <1>1, <1>3, <2>1 DEF Caller, NextSplit
<1>6. epoch' \in Nat /\ UNCHANGED <<poolVars, pool, mgr>> BY DEF NextSplit, EngineTyped
<1> HIDE DEF x, w
<1> QED BY <1>2, <1>4, <1>5, <1>6, CallerOnly DEF NoPool

\* A call takes the pool in use, never one that is being joined.
LEMMA TakePoolIInv ==
    ASSUME IInv, NEW c \in Callers, TakePool(c)
    PROVE  IInv'
<1> USE DEF IInv, Typed
<1> DEFINE x == [ca[c] EXCEPT !.pc = Head(ca[c].ops)[1], !.held = pool, !.seen = epoch]
<1>1. ca[c] \in Caller /\ ca[c].ops # <<>> /\ ca[c].held = NoPool BY DEF CallersTyped, TakePool
<1>2. Head(ca[c].ops) \in Op BY <1>1 DEF Caller
<1>3. Head(ca[c].ops)[1] \in {"tensor", "node", "wait", "cold"}
  BY <1>2 DEF Op, TakePool
<1>4. ca' = [ca EXCEPT ![c] = x] BY DEF CallersTyped, TakePool
<1>5. /\ x \in Caller /\ x.split = ca[c].split /\ x.held = pool /\ x.ops = ca[c].ops
      /\ x.pc \in {"tensor", "node", "wait", "cold"}
  BY <1>1, <1>3 DEF Caller, EngineTyped
<1>6. x.split \in 0..NTensors /\ x.held \in Pools BY <1>5 DEF CallersTyped, EngineTyped
<1>7. epoch' \in Nat /\ UNCHANGED <<poolVars, pool, mgr>> /\ mgr # "joining"
  BY DEF TakePool, EngineTyped
<1> HIDE DEF x
<1> QED BY <1>1, <1>4, <1>5, <1>6, <1>7, CallerOnly DEF NoPool

\* A caller goes on inside its call.
LEMMA CallerMoves ==
    ASSUME IInv, NEW c \in Callers, NEW pc \in {"check", "return"},
           ca[c].pc \notin {"idle", "join"},
           ca' = [ca EXCEPT ![c].pc = pc], UNCHANGED <<poolVars, pool, mgr, epoch>>
    PROVE  IInv'
<1> USE DEF IInv, Typed
<1> DEFINE x == [ca[c] EXCEPT !.pc = pc]
<1>1. ca[c] \in Caller /\ ca[c].split \in 0..NTensors /\ ca[c].held \in Pools /\ ca[c].ops # <<>>
  BY DEF CallersTyped
<1>2. ca' = [ca EXCEPT ![c] = x] BY DEF CallersTyped
<1>3. /\ x \in Caller /\ x.pc = pc /\ x.split = ca[c].split /\ x.held = ca[c].held
      /\ x.ops = ca[c].ops
  <2>1. pc \in {"check", "asleep", "return", "join"} OBVIOUS
  <2> QED BY <1>1, <2>1 DEF Caller
<1>4. epoch' \in Nat BY DEF EngineTyped
<1> HIDE DEF x
<1> QED BY <1>1, <1>2, <1>3, <1>4, CallerOnly

\* The first look at a ticket, without the mutex.
LEMMA WaitLookupIInv ==
    ASSUME IInv, NEW c \in Callers, WaitLookup(c)
    PROVE  IInv'
<1>1. \E pc \in {"check", "return"} : ca' = [ca EXCEPT ![c].pc = pc]
  BY DEF WaitLookup, Return
<1> QED BY <1>1, CallerMoves DEF WaitLookup

\* A caller that goes to sleep saw jobs pending in a running pool.
LEMMA WaitCheckIInv ==
    ASSUME IInv, NEW c \in Callers, WaitCheck(c)
    PROVE  IInv'
<1>1. CASE ca' = [ca EXCEPT ![c].pc = "return"] BY <1>1, CallerMoves DEF WaitCheck
<1>2. CASE /\ ca' = [ca EXCEPT ![c].pc = "asleep"]
           /\ ~shutdown[ca[c].held] /\ ~(tickets[ca[c].held][Arg(c)].pending <= 0)
  <2> USE DEF IInv, Typed
  <2> DEFINE x == [ca[c] EXCEPT !.pc = "asleep"]
  <2>1. /\ ca[c] \in Caller /\ ca[c].split \in 0..NTensors
        /\ ca[c].held \in Pools /\ ca[c].ops # <<>>
    BY DEF CallersTyped, WaitCheck
  <2>2. ca' = [ca EXCEPT ![c] = x] BY <1>2 DEF CallersTyped
  <2>3. /\ x \in Caller /\ x.pc = "asleep" /\ x.split = ca[c].split
        /\ x.held = ca[c].held /\ x.ops = ca[c].ops
    BY <2>1, CallerPc
  <2> HIDE DEF x
  <2>4. ca'[c] = x /\ \A d \in Callers \ {c} : ca'[d] = ca[d] BY <2>2 DEF CallersTyped
  <2>5. CallersTyped' BY <2>1, <2>2, <2>3 DEF CallersTyped
  <2>6. TicketsTyped' /\ QueuesTyped' /\ WorkersTyped' /\ EngineTyped'
    BY DEF WaitCheck, TicketsTyped, QueuesTyped, WorkersTyped, EngineTyped, poolVars
  <2>7. Succession' BY <2>3, <2>4 DEF WaitCheck, Succession, poolVars
  <2>8. StoppedUnused' BY <1>2, <2>3, <2>4 DEF WaitCheck, StoppedUnused, poolVars
  <2>9. NoLostWakeup'
    <3>1. tickets[ca[c].held][Arg(c)].pending \in Int
      BY <2>1, ArgType DEF TicketsTyped, Ticket, WaitCheck
    <3>2. tickets[ca[c].held][Arg(c)].pending > 0 BY <1>2, <3>1
    <3>3. Arg(c)' = Arg(c) /\ \A d \in Callers \ {c} : Arg(d)' = Arg(d)
      BY <2>3, <2>4 DEF Arg
    <3> QED BY <1>2, <2>3, <2>4, <3>2, <3>3 DEF WaitCheck, NoLostWakeup, poolVars
  <2> QED BY <2>5, <2>6, <2>7, <2>8, <2>9
<1> QED BY <1>1, <1>2 DEF WaitCheck, Return

\* A caller finishes a call that only adds to the tickets and the queue of a
\* pool in use.
LEMMA CallerReturns ==
    ASSUME IInv, NEW c \in Callers, ca[c].pc \notin {"idle", "join"}, Return(c),
           TicketsTyped', QueuesTyped', UNCHANGED <<shutdown, wk, pool, mgr, epoch>>,
           \A q \in Pools : shutdown[q] => queue'[q] = queue[q],
           \A q \in Pools, w \in Tensors : tickets'[q][w].pending >= tickets[q][w].pending
    PROVE  IInv'
<1> USE DEF IInv, Typed
<1> DEFINE x == [ca[c] EXCEPT !.pc = "return"]
<1>1. /\ ca[c] \in Caller /\ ca[c].split \in 0..NTensors
      /\ ca[c].held \in Pools /\ ca[c].ops # <<>>
  BY DEF CallersTyped
<1>2. ca' = [ca EXCEPT ![c] = x] BY DEF CallersTyped, Return
<1>3. /\ x \in Caller /\ x.pc = "return" /\ x.split = ca[c].split
      /\ x.held = ca[c].held /\ x.ops = ca[c].ops
  BY <1>1 DEF Caller
<1> HIDE DEF x
<1>4. ca'[c] = x /\ \A d \in Callers \ {c} : ca'[d] = ca[d] BY <1>2 DEF CallersTyped
<1>5. CallersTyped' BY <1>1, <1>2, <1>3 DEF CallersTyped
<1>6. WorkersTyped' /\ EngineTyped' BY DEF WorkersTyped, EngineTyped
<1>7. Succession' BY <1>3, <1>4 DEF Succession
<1>8. StoppedUnused' BY <1>3, <1>4 DEF StoppedUnused
<1>9. NoLostWakeup'
  <2> SUFFICES ASSUME NEW d \in Callers, ca'[d].pc = "asleep"
               PROVE  LET q == ca[d].held IN
                      \/ tickets'[q][Arg(d)].pending > 0 /\ ~shutdown[q]
                      \/ \E j \in Workers : wk[q][j].pc = "settle" /\ wk[q][j].left = 1
    <3>1. \A d \in Callers : ca'[d].held = ca[d].held /\ Arg(d)' = Arg(d)
      BY <1>3, <1>4 DEF Arg
    <3> QED BY <3>1 DEF NoLostWakeup
  <2>1. ca[d].pc = "asleep" /\ ca[d].held \in Pools /\ Arg(d) \in Tensors
    BY <1>3, <1>4, ArgType DEF CallersTyped
  <2>2. /\ tickets[ca[d].held][Arg(d)].pending \in Int
        /\ tickets'[ca[d].held][Arg(d)].pending \in Int
    BY <2>1 DEF TicketsTyped, Ticket
  <2> QED BY <2>1, <2>2 DEF NoLostWakeup
<1> QED BY <1>5, <1>6, <1>7, <1>8, <1>9

\* An enqueue finds its pool running, and only raises counts.
LEMMA EnqueueIInv ==
    ASSUME IInv, NEW c \in Callers, Enqueue(c)
    PROVE  IInv'
<1> USE DEF IInv, Typed
<1> DEFINE p == ca[c].held
           w == Arg(c)
           ahead == ca[c].pc = "tensor"
           jobs == Jobs(w, ca[c].seen, ca[c].pass, ahead)
           fresh == [known |-> TRUE, pending |-> tickets[p][w].pending + Counted(NChunks),
                     epoch |-> ca[c].seen, track_reads |-> ahead, read_chunks |-> {}]
           seen == [tickets[p][w] EXCEPT !.known = @ \/ ~shutdown[p]]
<1>1. p \in Pools /\ w \in Tensors /\ ca[c] \in Caller
  BY ArgType DEF CallersTyped, Enqueue
<1>2. tickets[p][w] \in Ticket /\ tickets[p][w].pending \in Int
  BY <1>1 DEF TicketsTyped, Ticket
<1>3. ~shutdown[p] BY <1>1 DEF StoppedUnused, Enqueue
<1>4. /\ ca[c].pc \notin {"idle", "join"} /\ Return(c)
      /\ UNCHANGED <<shutdown, wk, pool, mgr, epoch>>
  BY DEF Enqueue
<1>5. CASE tickets' = [tickets EXCEPT ![p][w].known = @ \/ ~shutdown[p]] /\ queue' = queue
  <2>1. seen \in Ticket /\ seen.pending = tickets[p][w].pending
    <3>1. (tickets[p][w].known \/ ~shutdown[p]) \in BOOLEAN OBVIOUS
    <3>2. \A tk \in Ticket, b \in BOOLEAN :
             [tk EXCEPT !.known = b] \in Ticket /\ [tk EXCEPT !.known = b].pending = tk.pending
      BY DEF Ticket
    <3> QED BY <1>2, <3>1, <3>2
  <2>2. tickets' = [tickets EXCEPT ![p][w] = seen] BY <1>5
  <2> HIDE DEF seen, p, w
  <2>3. TicketsTyped' BY <1>1, <2>1, <2>2 DEF TicketsTyped
  <2>4. \A q \in Pools, v \in Tensors : tickets'[q][v].pending >= tickets[q][v].pending
    <3> SUFFICES ASSUME NEW q \in Pools, NEW v \in Tensors
                 PROVE  tickets'[q][v].pending >= tickets[q][v].pending
      OBVIOUS
    <3>1. tickets[q][v].pending \in Int BY DEF TicketsTyped, Ticket
    <3>2. tickets'[q][v].pending = tickets[q][v].pending
      BY <1>1, <2>1, <2>2 DEF TicketsTyped
    <3> QED BY <3>1, <3>2
  <2>5. QueuesTyped' BY <1>4, <1>5 DEF QueuesTyped
  <2> QED BY <1>4, <1>5, <2>3, <2>4, <2>5, CallerReturns
<1>6. CASE /\ tickets' = [tickets EXCEPT ![p][w] = fresh]
           /\ queue' = [queue EXCEPT ![p] = IF ahead THEN @ \o jobs ELSE jobs \o @]
  <2>1. Counted(NChunks) \in Nat BY ConstantsAssumption DEF Counted
  <2>2. fresh \in Ticket /\ fresh.pending >= tickets[p][w].pending
    <3>1. ca[c].seen \in Nat BY <1>1 DEF Caller
    <3>2. tickets[p][w].pending + Counted(NChunks) \in Int BY <1>2, <2>1
    <3>3. tickets[p][w].pending + Counted(NChunks) >= tickets[p][w].pending BY <1>2, <2>1
    <3>4. ahead \in BOOLEAN OBVIOUS
    <3> HIDE DEF ahead
    <3>5. fresh \in Ticket BY <3>1, <3>2, <3>4 DEF Ticket
    <3> QED BY <3>3, <3>5
  <2>3. jobs \in Seq(Job)
    <3>1. ca[c].seen \in Nat /\ ca[c].pass \in Nat BY <1>1 DEF Caller
    <3>2. \A i \in Chunks : [w |-> w, i |-> i, e |-> ca[c].seen, pass |-> ca[c].pass,
                             ahead |-> ahead] \in Job
      BY <1>1, <3>1 DEF Job
    <3>3. jobs \in [1..NChunks -> Job] BY <3>2 DEF Jobs, Chunks
    <3> QED BY <3>3, ConstantsAssumption
  <2> HIDE DEF fresh, jobs, p, w, ahead
  <2>4. TicketsTyped' BY <1>1, <1>6, <2>2 DEF TicketsTyped
  <2>5. \A q \in Pools, v \in Tensors : tickets'[q][v].pending >= tickets[q][v].pending
    <3> SUFFICES ASSUME NEW q \in Pools, NEW v \in Tensors
                 PROVE  tickets'[q][v].pending >= tickets[q][v].pending
      OBVIOUS
    <3>1. tickets[q][v].pending \in Int BY DEF TicketsTyped, Ticket
    <3>2. CASE q = p /\ v = w BY <1>1, <1>6, <2>2, <3>2 DEF TicketsTyped
    <3>3. CASE ~(q = p /\ v = w)
      <4>1. tickets'[q][v] = tickets[q][v] BY <1>1, <1>6, <3>3 DEF TicketsTyped
      <4> QED BY <3>1, <4>1
    <3> QED BY <3>2, <3>3
  <2>6. queue[p] \in Seq(Job) BY <1>1 DEF QueuesTyped
  <2>7. QueuesTyped' BY <1>1, <1>4, <1>6, <2>3, <2>6 DEF QueuesTyped
  <2>8. \A q \in Pools : shutdown[q] => queue'[q] = queue[q]
    BY <1>1, <1>3, <1>6 DEF QueuesTyped
  <2> QED BY <1>4, <2>4, <2>5, <2>7, <2>8, CallerReturns
<1> QED BY <1>5, <1>6 DEF Enqueue

\* Marking a tensor cold leaves the counts alone.
LEMMA ColdIInv ==
    ASSUME IInv, NEW c \in Callers, Cold(c)
    PROVE  IInv'
<1> USE DEF IInv, Typed
<1> DEFINE p == ca[c].held
           w == Arg(c)
           tk == [tickets[p][w] EXCEPT !.read_chunks = {}]
<1>1. p \in Pools /\ w \in Tensors BY ArgType DEF CallersTyped, Cold
<1>2. tickets[p][w] \in Ticket BY <1>1 DEF TicketsTyped
<1>3. tk \in Ticket /\ tk.pending = tickets[p][w].pending
  BY <1>2 DEF Ticket
<1>4. tickets' = tickets \/ tickets' = [tickets EXCEPT ![p][w] = tk] BY DEF Cold
<1> HIDE DEF tk, p, w
<1>5. TicketsTyped' BY <1>1, <1>3, <1>4 DEF TicketsTyped
<1>6. \A q \in Pools, v \in Tensors : tickets'[q][v].pending >= tickets[q][v].pending
  <2> SUFFICES ASSUME NEW q \in Pools, NEW v \in Tensors
               PROVE  tickets'[q][v].pending >= tickets[q][v].pending
    OBVIOUS
  <2>1. tickets[q][v].pending \in Int BY DEF TicketsTyped, Ticket
  <2>2. tickets'[q][v].pending = tickets[q][v].pending BY <1>1, <1>3, <1>4 DEF TicketsTyped
  <2> QED BY <2>1, <2>2
<1>7. /\ ca[c].pc \notin {"idle", "join"} /\ Return(c)
      /\ UNCHANGED <<queue, shutdown, wk, pool, mgr, epoch>>
  BY DEF Cold
<1>8. QueuesTyped' BY <1>7 DEF QueuesTyped
<1> QED BY <1>5, <1>6, <1>7, <1>8, CallerReturns

\* A split is evaluated outside every call of the engine.
LEMMA EvalIInv ==
    ASSUME IInv, NEW c \in Callers, Eval(c)
    PROVE  IInv'
<1> USE DEF IInv, Typed
<1>1. ca[c] \in Caller /\ ca[c].held = NoPool /\ ca[c].pc = "idle" /\ ca[c].ops # <<>>
      /\ ca[c].split \in 0..NTensors
  BY DEF CallersTyped, Eval
<1>2. epoch' \in Nat /\ UNCHANGED <<poolVars, pool, mgr>> BY DEF Eval, EngineTyped
<1>3. CASE ca' = [ca EXCEPT ![c].ops = Tail(@)]
  <2> DEFINE x == [ca[c] EXCEPT !.ops = Tail(ca[c].ops)]
  <2>1. Tail(ca[c].ops) \in Seq(Op) BY <1>1 DEF Caller
  <2>2. x \in Caller /\ x.split = ca[c].split /\ x.pc = "idle" /\ x.held = NoPool
    BY <1>1, <2>1 DEF Caller
  <2>3. ca' = [ca EXCEPT ![c] = x] BY <1>3 DEF CallersTyped
  <2> HIDE DEF x
  <2> QED BY <1>1, <1>2, <2>2, <2>3, CallerOnly DEF NoPool
<1>4. CASE ca' = [ca EXCEPT ![c].ops = <<>>, ![c].split = NTensors]
  <2> DEFINE x == [ca[c] EXCEPT !.ops = <<>>, !.split = NTensors]
  <2>1. NTensors \in Int /\ NTensors \in 0..NTensors BY ConstantsAssumption
  <2>2. x \in Caller /\ x.split = NTensors /\ x.pc = "idle" /\ x.held = NoPool
    <3>1. <<>> \in Seq(Op) OBVIOUS
    <3>2. \A ops \in Seq(Op), n \in Int :
             LET y == [ca[c] EXCEPT !.ops = ops, !.split = n] IN
             /\ y \in Caller /\ y.split = n /\ y.pc = ca[c].pc /\ y.held = ca[c].held
      BY <1>1 DEF Caller
    <3> QED BY <1>1, <2>1, <3>1, <3>2
  <2>3. ca' = [ca EXCEPT ![c] = x] BY <1>4 DEF CallersTyped
  <2> HIDE DEF x
  <2> QED BY <1>1, <1>2, <2>1, <2>2, <2>3, CallerOnly DEF NoPool
<1> QED BY <1>3, <1>4 DEF Eval

\* A caller drops its reference and goes on with its pass.
LEMMA CallerLeaves ==
    ASSUME IInv, NEW c \in Callers, ca[c].pc # "idle",
           ca' = [ca EXCEPT ![c].pc = "idle", ![c].ops = Tail(@), ![c].held = NoPool],
           UNCHANGED <<poolVars, pool, mgr, epoch>>
    PROVE  IInv'
<1> USE DEF IInv, Typed
<1> DEFINE x == [ca[c] EXCEPT !.pc = "idle", !.ops = Tail(ca[c].ops), !.held = NoPool]
<1>1. /\ ca[c] \in Caller /\ ca[c].split \in 0..NTensors
      /\ ca[c].ops \in Seq(Op) /\ ca[c].ops # <<>> /\ ca[c].held \in Pools
  BY DEF CallersTyped, Caller
<1>2. Tail(ca[c].ops) \in Seq(Op) BY <1>1
<1>3. x \in Caller /\ x.split = ca[c].split /\ x.pc = "idle" /\ x.held = NoPool
  BY <1>1, <1>2 DEF Caller
<1>4. ca' = [ca EXCEPT ![c] = x] BY DEF CallersTyped
<1>5. epoch' \in Nat BY DEF EngineTyped
<1>6. NoPool \notin Pools BY DEF NoPool, Pools
<1> HIDE DEF x
<1> QED BY <1>1, <1>3, <1>4, <1>5, <1>6, CallerOnly

\* The call that stopped its pool returns when the workers have ended.
LEMMA CallerJoinIInv ==
    ASSUME IInv, NEW c \in Callers, CallerJoin(c)
    PROVE  IInv'
BY CallerLeaves DEF CallerJoin

-----------------------------------------------------------------------------
(* Stopping and replacing a pool                                            *)

\* The jobs of a tensor that are queued can be counted.
LEMMA QueuedOfType ==
    ASSUME QueuesTyped, NEW p \in Pools, NEW w \in Tensors
    PROVE  QueuedOf(p, w) \in Nat
<1> DEFINE of == {i \in DOMAIN queue[p] : queue[p][i].w = w}
<1>1. queue[p] \in Seq(Job) BY DEF QueuesTyped
<1>2. DOMAIN queue[p] = 1..Len(queue[p]) /\ Len(queue[p]) \in Nat BY <1>1
<1>3. IsFiniteSet(1..Len(queue[p])) BY <1>2, FS_Interval
<1>4. of \subseteq 1..Len(queue[p]) BY <1>2
<1>5. IsFiniteSet(of) BY <1>3, <1>4, FS_Subset
<1>6. Cardinality(of) \in Nat BY <1>5, FS_CardinalityType
<1> QED BY <1>6 DEF QueuedOf

\* Stopping a pool empties its queue and leaves the other pool alone.
LEMMA StopPoolFacts ==
    ASSUME TicketsTyped, QueuesTyped, NEW p \in Pools, StopPool(p)
    PROVE  /\ TicketsTyped' /\ QueuesTyped'
           /\ shutdown'[p] /\ queue'[p] = <<>>
           /\ \A q \in Pools \ {p} : /\ shutdown'[q] = shutdown[q] /\ queue'[q] = queue[q]
                                     /\ tickets'[q] = tickets[q]
<1> DEFINE given == [w \in Tensors |-> [tickets[p][w] EXCEPT !.pending = @ - QueuedOf(p, w)]]
<1>1. given \in [Tensors -> Ticket]
  <2> SUFFICES ASSUME NEW w \in Tensors
               PROVE  [tickets[p][w] EXCEPT !.pending = @ - QueuedOf(p, w)] \in Ticket
    OBVIOUS
  <2>1. tickets[p][w] \in Ticket /\ tickets[p][w].pending \in Int
    BY DEF TicketsTyped, Ticket
  <2>2. QueuedOf(p, w) \in Nat BY QueuedOfType
  <2>3. tickets[p][w].pending - QueuedOf(p, w) \in Int BY <2>1, <2>2
  <2> QED BY <2>1, <2>3, TicketPending
<1>2. tickets' = [tickets EXCEPT ![p] = given] BY DEF StopPool
<1> HIDE DEF given
<1>3. TicketsTyped' BY <1>1, <1>2 DEF TicketsTyped
<1>4. QueuesTyped' BY DEF StopPool, QueuesTyped
<1>5. shutdown'[p] /\ queue'[p] = <<>> BY DEF StopPool, QueuesTyped
<1>6. \A q \in Pools \ {p} : tickets'[q] = tickets[q] BY <1>2 DEF TicketsTyped
<1>7. \A q \in Pools \ {p} : shutdown'[q] = shutdown[q] /\ queue'[q] = queue[q]
  BY DEF StopPool, QueuesTyped
<1> QED BY <1>3, <1>4, <1>5, <1>6, <1>7

\* A pool that nobody uses any more can be stopped: its waiters are gone.
LEMMA StopUnused ==
    ASSUME IInv, NEW p \in Pools, StopPool(p), CallersTyped', EngineTyped', Succession',
           UNCHANGED <<wk, pool>>, pool = p => mgr' = "joining",
           mgr = "joining" => mgr' = "joining",
           \A d \in Callers : ca'[d].held = ca[d].held /\ ca'[d].ops = ca[d].ops,
           \A d \in Callers : ca'[d].pc = ca[d].pc \/ ca'[d].pc = "join",
           \A d \in Callers : ca[d].held = p => ca'[d].pc = "join"
    PROVE  IInv'
<1> USE DEF IInv, Typed
<1>1. /\ TicketsTyped' /\ QueuesTyped'
      /\ shutdown'[p] /\ queue'[p] = <<>>
      /\ \A q \in Pools \ {p} : /\ shutdown'[q] = shutdown[q] /\ queue'[q] = queue[q]
                                /\ tickets'[q] = tickets[q]
  BY StopPoolFacts
<1>2. WorkersTyped' BY DEF WorkersTyped
<1>3. StoppedUnused' BY <1>1 DEF StoppedUnused
<1>4. NoLostWakeup'
  <2> SUFFICES ASSUME NEW d \in Callers, ca'[d].pc = "asleep"
               PROVE  LET q == ca[d].held IN
                      \/ tickets'[q][Arg(d)].pending > 0 /\ ~shutdown'[q]
                      \/ \E j \in Workers : wk[q][j].pc = "settle" /\ wk[q][j].left = 1
    <3>1. \A d \in Callers : Arg(d)' = Arg(d) BY DEF Arg
    <3> QED BY <3>1 DEF NoLostWakeup
  <2>1. ca[d].pc = "asleep" /\ ca[d].held \in Pools \ {p} BY DEF CallersTyped
  <2> QED BY <1>1, <2>1 DEF NoLostWakeup
<1> QED BY <1>1, <1>2, <1>3, <1>4

\* The last reference to a pool that was replaced is dropped by a caller.
LEMMA DropPoolIInv ==
    ASSUME IInv, NEW c \in Callers, DropPool(c)
    PROVE  IInv'
<1> USE DEF IInv, Typed
<1> DEFINE p == ca[c].held
           x == [ca[c] EXCEPT !.pc = "join"]
<1>1. CASE HeldByOthers(p, c)
  BY <1>1, CallerLeaves DEF DropPool, poolVars
<1>2. CASE ~HeldByOthers(p, c)
  <2>1. /\ ca[c] \in Caller /\ ca[c].split \in 0..NTensors
        /\ p \in Pools /\ ca[c].ops # <<>>
    BY DEF CallersTyped, DropPool
  <2>2. pool # p /\ \A d \in Callers \ {c} : ca[d].held # p
    BY <1>2 DEF HeldByOthers
  <2>3. StopPool(p) /\ UNCHANGED <<wk, pool, mgr, epoch>> BY <1>2 DEF DropPool
  <2>4. ca' = [ca EXCEPT ![c] = x] BY <1>2 DEF DropPool, CallersTyped
  <2>5. /\ x \in Caller /\ x.pc = "join" /\ x.split = ca[c].split
        /\ x.held = ca[c].held /\ x.ops = ca[c].ops
    BY <2>1, CallerPc
  <2> HIDE DEF x
  <2>6. ca'[c] = x /\ \A d \in Callers \ {c} : ca'[d] = ca[d] BY <2>4 DEF CallersTyped
  <2>7. CallersTyped' BY <2>1, <2>4, <2>5 DEF CallersTyped
  <2>8. EngineTyped' BY <2>3 DEF EngineTyped
  <2>9. Succession'
    <3>1. \A q \in Pools \ {p} : shutdown'[q] = shutdown[q] BY <2>1, <2>3, StopPoolFacts
    <3>2. mgr # "done" => p = 1 BY <2>1 DEF Succession, Pools
    <3> QED BY <2>3, <2>5, <2>6, <3>1, <3>2 DEF Succession, Pools
  <2>10. /\ \A d \in Callers : ca'[d].held = ca[d].held /\ ca'[d].ops = ca[d].ops
         /\ \A d \in Callers : ca'[d].pc = ca[d].pc \/ ca'[d].pc = "join"
         /\ \A d \in Callers : ca[d].held = p => ca'[d].pc = "join"
    BY <2>2, <2>5, <2>6
  <2> HIDE DEF p
  <2> QED BY <2>1, <2>2, <2>3, <2>7, <2>8, <2>9, <2>10, StopUnused
<1> QED BY <1>1, <1>2

\* The new pool has never been stopped, and the old one is left to its callers
\* or stopped at once.
LEMMA ResetPoolIInv ==
    ASSUME IInv, ResetPool
    PROVE  IInv'
<1> USE DEF IInv, Typed
<1>1. mgr = "run" /\ pool = 1 /\ ~shutdown[2] BY DEF ResetPool, Succession
<1>2. UNCHANGED <<wk, epoch, ca>> BY DEF ResetPool
<1>3. CASE \E c \in Callers : ca[c].held = pool
  <2>1. pool' = 2 /\ mgr' = "done" /\ UNCHANGED <<queue, shutdown, tickets>>
    BY <1>3 DEF ResetPool
  <2>2. Typed'
    BY <1>2, <2>1 DEF TicketsTyped, QueuesTyped, WorkersTyped, CallersTyped, EngineTyped, Pools
  <2>3. Succession' BY <2>1 DEF Succession
  <2>4. StoppedUnused' BY <1>1, <1>2, <2>1 DEF StoppedUnused
  <2>5. NoLostWakeup' BY <1>2, <2>1 DEF NoLostWakeup, Arg
  <2> QED BY <2>2, <2>3, <2>4, <2>5
<1>4. CASE ~\E c \in Callers : ca[c].held = pool
  <2>1. StopPool(pool) /\ mgr' = "joining" /\ UNCHANGED pool BY <1>4 DEF ResetPool
  <2>2. CallersTyped' /\ EngineTyped' BY <1>2, <2>1 DEF CallersTyped, EngineTyped
  <2>3. \A q \in Pools \ {pool} : shutdown'[q] = shutdown[q]
    BY <2>1, StopPoolFacts DEF EngineTyped
  <2>4. Succession' BY <1>1, <1>2, <2>1, <2>3 DEF Succession, Pools
  <2>5. pool \in Pools BY DEF EngineTyped
  <2> QED BY <1>1, <1>2, <1>4, <2>1, <2>2, <2>4, <2>5, StopUnused
<1> QED BY <1>3, <1>4

\* set_n_threads installs the new pool when the old workers have ended.
LEMMA StartPoolIInv ==
    ASSUME IInv, StartPool
    PROVE  IInv'
<1> USE DEF IInv, Typed
<1>1. mgr = "joining" /\ pool = 1 /\ ~shutdown[2] BY DEF StartPool, Succession
<1>2. pool' = 2 /\ mgr' = "done" /\ UNCHANGED <<queue, shutdown, tickets, wk, epoch, ca>>
  BY DEF StartPool, poolVars
<1>3. Typed'
  BY <1>2 DEF TicketsTyped, QueuesTyped, WorkersTyped, CallersTyped, EngineTyped, Pools
<1>4. Succession' BY <1>2 DEF Succession
<1>5. StoppedUnused' BY <1>1, <1>2 DEF StoppedUnused
<1>6. NoLostWakeup' BY <1>2 DEF NoLostWakeup, Arg
<1> QED BY <1>3, <1>4, <1>5, <1>6

-----------------------------------------------------------------------------

\* A step that changes nothing.
LEMMA StutterIInv ==
    ASSUME IInv, UNCHANGED vars
    PROVE  IInv'
<1> USE DEF IInv, Typed, vars, poolVars
<1>1. Typed'
  BY DEF TicketsTyped, QueuesTyped, WorkersTyped, CallersTyped, EngineTyped
<1>2. Succession' BY DEF Succession
<1>3. StoppedUnused' BY DEF StoppedUnused
<1>4. NoLostWakeup' BY DEF NoLostWakeup, Arg
<1> QED BY <1>1, <1>2, <1>3, <1>4

\* Every step keeps the invariant.
LEMMA NextIInv == IInv /\ [Next]_vars => IInv'
<1> SUFFICES ASSUME IInv, [Next]_vars PROVE IInv' OBVIOUS
<1>1. ASSUME NEW p \in Pools, NEW k \in Workers, WorkerStep(p, k) PROVE IInv'
  BY <1>1, WorkerTakeIInv, WorkerExitIInv, WorkerRunIInv, WorkerSettleIInv DEF WorkerStep
<1>2. ASSUME NEW c \in Callers, NewEpoch(c) PROVE IInv' BY <1>2, NewEpochIInv
<1>3. ASSUME NEW c \in Callers, CallerStep(c) PROVE IInv'
  BY <1>3, NextSplitIInv, TakePoolIInv, EnqueueIInv, WaitLookupIInv, WaitCheckIInv, ColdIInv,
     EvalIInv, DropPoolIInv, CallerJoinIInv
  DEF CallerStep
<1>4. CASE ResetPool BY <1>4, ResetPoolIInv
<1>5. CASE StartPool BY <1>5, StartPoolIInv
<1>6. CASE UNCHANGED vars BY <1>6, StutterIInv
<1> QED BY <1>1, <1>2, <1>3, <1>4, <1>5, <1>6 DEF Next

\* A pool is stopped only when nobody uses it: the reference that stops it is
\* the last one, whichever of set_n_threads and the calls drops it, and no job
\* is left in its queue.
THEOREM StoppedUnusedThm == Spec => []StoppedUnused
<1>1. IInv => StoppedUnused BY DEF IInv
<1> QED BY <1>1, InitIInv, NextIInv, PTL DEF Spec

\* No waiter of ggml_moe_prefetch_wait misses its wake-up, although run()
\* counts the ticket down before it takes the mutex.
THEOREM NoLostWakeupThm == Spec => []NoLostWakeup
<1>1. IInv => NoLostWakeup BY DEF IInv
<1> QED BY <1>1, InitIInv, NextIInv, PTL DEF Spec

-----------------------------------------------------------------------------
(* Counting the jobs of a queue                                             *)

\* The positions of a sequence that hold members of S, and their number.
At(q, S) == {i \in DOMAIN q : q[i] \in S}
Count(q, S) == Cardinality(At(q, S))

\* The positions of a sequence can be counted.
LEMMA CountType ==
    ASSUME NEW T, NEW q \in Seq(T), NEW S
    PROVE  IsFiniteSet(At(q, S)) /\ Count(q, S) \in Nat /\ Count(q, S) <= Len(q)
<1>1. Len(q) \in Nat /\ DOMAIN q = 1..Len(q)
  OBVIOUS
<1>2. IsFiniteSet(1..Len(q)) /\ Cardinality(1..Len(q)) = Len(q)
  BY <1>1, FS_Interval
<1>3. At(q, S) \in SUBSET (1..Len(q))
  BY <1>1 DEF At
<1>4. IsFiniteSet(At(q, S)) /\ Cardinality(At(q, S)) <= Len(q)
  BY <1>2, <1>3, FS_Subset
<1>5. Cardinality(At(q, S)) \in Nat
  BY <1>4, FS_CardinalityType
<1>. QED BY <1>4, <1>5 DEF Count

\* Two queues, one behind the other, hold what they hold together.
LEMMA CountConcat ==
    ASSUME NEW T, NEW a \in Seq(T), NEW b \in Seq(T), NEW S
    PROVE  Count(a \o b, S) = Count(a, S) + Count(b, S)
<1> DEFINE A == At(a, S)
           B == At(b, S)
           n == Len(a)
           shifted == {n + i : i \in B}
           f == [i \in B |-> n + i]
<1>1. /\ n \in Nat /\ Len(b) \in Nat /\ DOMAIN a = 1..n /\ DOMAIN b = 1..Len(b)
      /\ DOMAIN (a \o b) = 1..(n + Len(b))
      /\ \A i \in DOMAIN a : (a \o b)[i] = a[i]
      /\ \A i \in DOMAIN b : (a \o b)[n + i] = b[i]
  OBVIOUS
<1>2. IsFiniteSet(A) /\ IsFiniteSet(B) /\ Cardinality(A) \in Nat /\ Cardinality(B) \in Nat
  BY CountType DEF Count
<1>3. A \subseteq 1..n /\ B \subseteq 1..Len(b)
  BY <1>1 DEF At
<1>4. At(a \o b, S) = A \cup shifted
  <2>1. ASSUME NEW i \in At(a \o b, S) PROVE i \in A \cup shifted
    <3>1. i \in 1..(n + Len(b)) /\ (a \o b)[i] \in S
      BY <1>1 DEF At
    <3>2. CASE i <= n
      BY <1>1, <3>1, <3>2 DEF At
    <3>3. CASE i > n
      <4>1. i - n \in DOMAIN b /\ i = n + (i - n)
        BY <1>1, <3>1, <3>3
      <4>2. i - n \in B
        BY <1>1, <3>1, <4>1 DEF At
      <4>. QED BY <4>1, <4>2
    <3>. QED BY <1>1, <3>1, <3>2, <3>3
  <2>2. ASSUME NEW i \in A PROVE i \in At(a \o b, S)
    BY <1>1 DEF At
  <2>3. ASSUME NEW i \in B PROVE n + i \in At(a \o b, S)
    BY <1>1 DEF At
  <2>. QED BY <2>1, <2>2, <2>3
<1> HIDE DEF A, B, n
<1>5. IsFiniteSet(shifted) /\ Cardinality(shifted) = Cardinality(B)
  <2>1. f \in [B -> shifted] /\ (\A y \in shifted : \E x \in B : f[x] = y)
    OBVIOUS
  <2>2. \A x, y \in B : f[x] = f[y] => x = y
    BY <1>1, <1>3
  <2>3. f \in Bijection(B, shifted)
    BY <2>1, <2>2 DEF Bijection, Injection, Surjection, IsInjective
  <2>4. ExistsBijection(B, shifted)
    BY <2>3 DEF ExistsBijection
  <2>. QED BY <1>2, <2>4, FS_Bijection
<1>6. A \cap shifted = {}
  BY <1>1, <1>3
<1>7. Cardinality(A \cup shifted) = Cardinality(A) + Cardinality(B)
  <2> HIDE DEF shifted
  <2>1. Cardinality(A \cup shifted) = Cardinality(A) + Cardinality(shifted) - Cardinality(A \cap shifted)
    BY <1>2, <1>5, FS_Union
  <2>2. Cardinality(A \cap shifted) = 0
    BY <1>6, FS_EmptySet
  <2>3. Cardinality(shifted) = Cardinality(B)
    BY <1>5
  <2>. QED BY <1>2, <2>1, <2>2, <2>3
<1>. QED BY <1>4, <1>7 DEF Count, A, B

\* A queue all of whose members, or none, are in S.
LEMMA CountUniform ==
    ASSUME NEW T, NEW q \in Seq(T), NEW S
    PROVE  /\ (\A i \in DOMAIN q : q[i] \in S) => Count(q, S) = Len(q)
           /\ (\A i \in DOMAIN q : q[i] \notin S) => Count(q, S) = 0
<1>1. Len(q) \in Nat /\ DOMAIN q = 1..Len(q)
  OBVIOUS
<1>2. Cardinality(1..Len(q)) = Len(q)
  BY <1>1, FS_Interval
<1>3. (\A i \in DOMAIN q : q[i] \in S) => At(q, S) = 1..Len(q)
  BY <1>1 DEF At
<1>4. (\A i \in DOMAIN q : q[i] \notin S) => At(q, S) = {}
  BY DEF At
<1>. QED BY <1>2, <1>3, <1>4, FS_EmptySet DEF Count

\* An empty queue holds no job of any kind.
LEMMA CountEmpty == ASSUME NEW S PROVE Count(<<>>, S) = 0
<1>1. At(<<>>, S) = {}
  BY DEF At
<1>. QED BY <1>1, FS_EmptySet DEF Count

\* Taking the first job of a queue.
LEMMA CountTail ==
    ASSUME NEW T, NEW q \in Seq(T), q # <<>>, NEW S
    PROVE  Count(q, S) = Count(Tail(q), S) + (IF Head(q) \in S THEN 1 ELSE 0)
<1>1. /\ Tail(q) \in Seq(T) /\ <<Head(q)>> \in Seq(T) /\ q = <<Head(q)>> \o Tail(q)
      /\ Len(<<Head(q)>>) = 1 /\ <<Head(q)>>[1] = Head(q) /\ DOMAIN <<Head(q)>> = {1}
  OBVIOUS
<1>2. Count(<<Head(q)>>, S) = IF Head(q) \in S THEN 1 ELSE 0
  BY <1>1, CountUniform
<1>3. Count(<<Head(q)>> \o Tail(q), S) = Count(<<Head(q)>>, S) + Count(Tail(q), S)
  BY <1>1, CountConcat
<1>4. Count(q, S) = Count(<<Head(q)>>, S) + Count(Tail(q), S)
  BY <1>1, <1>3
<1>5. Count(Tail(q), S) \in Nat
  BY <1>1, CountType
<1>. QED BY <1>2, <1>4, <1>5

-----------------------------------------------------------------------------
(* Tickets count exactly                                                    *)

\* The jobs of tensor w, and the workers of pool p that are at one.
JobsOf(w) == {j \in Job : j.w = w}
At_work(p, w) == {k \in Workers : wk[p][k].pc = "run" /\ wk[p][k].job.w = w}

Exact(p, w) == tickets[p][w].pending = Count(queue[p], JobsOf(w)) + Cardinality(At_work(p, w))

\* Every ticket counts the jobs of its tensor, so a worker at a job finds at
\* least that one counted.
CountInv ==
    /\ \A p \in Pools, w \in Tensors : Exact(p, w)
    /\ \A p \in Pools, k \in Workers : wk[p][k].left \in Nat

\* QueuedOf in terms of Count.
LEMMA QueuedOfCount ==
    ASSUME QueuesTyped, NEW p \in Pools, NEW w
    PROVE  QueuedOf(p, w) = Count(queue[p], JobsOf(w))
<1>1. queue[p] \in Seq(Job)
  BY DEF QueuesTyped
<1>2. \A i \in DOMAIN queue[p] : queue[p][i] \in Job
  BY <1>1
<1>3. {i \in DOMAIN queue[p] : queue[p][i].w = w} = At(queue[p], JobsOf(w))
  BY <1>2 DEF At, JobsOf
<1>. QED BY <1>3 DEF QueuedOf, Count

\* Finitely many workers read chunks of a tensor.
LEMMA AtWorkType ==
    ASSUME NEW p, NEW w PROVE IsFiniteSet(At_work(p, w)) /\ Cardinality(At_work(p, w)) \in Nat
<1>1. At_work(p, w) \in SUBSET Workers
  BY DEF At_work
<1>2. IsFiniteSet(At_work(p, w))
  BY <1>1, FS_Subset, ConstantsAssumption
<1>. QED BY <1>2, FS_CardinalityType

\* A step that leaves the queues, the counts and the workers at work alone.
LEMMA CountFrame ==
    ASSUME CountInv, UNCHANGED queue,
           \A p \in Pools, w \in Tensors : tickets'[p][w].pending = tickets[p][w].pending,
           \A p \in Pools, w \in Tensors : At_work(p, w)' = At_work(p, w),
           \A p \in Pools, k \in Workers : wk'[p][k].left \in Nat
    PROVE  CountInv'
<1> SUFFICES ASSUME NEW p \in Pools, NEW w \in Tensors PROVE Exact(p, w)'
  BY DEF CountInv
<1>1. Exact(p, w) /\ At_work(p, w)' = At_work(p, w)
  BY DEF CountInv
<1>. QED BY <1>1 DEF Exact

\* What a step of one worker does to the workers at work.
LEMMA AtWorkMoves ==
    ASSUME NEW p \in Pools, NEW k \in Workers,
           \A q \in Pools, j \in Workers : q # p \/ j # k => wk'[q][j] = wk[q][j]
    PROVE  /\ \A q \in Pools, w \in Tensors : q # p => At_work(q, w)' = At_work(q, w)
           /\ \A w \in Tensors : At_work(p, w)' = IF wk'[p][k].pc = "run" /\ wk'[p][k].job.w = w
                                                  THEN At_work(p, w) \cup {k}
                                                  ELSE At_work(p, w) \ {k}
BY DEF At_work

\* A job that a worker takes leaves the queue and is at work.
LEMMA TakeCount ==
    ASSUME IInv, CountInv, NEW p \in Pools, NEW k \in Workers, WorkerTake(p, k)
    PROVE  CountInv'
<1> DEFINE j == Head(queue[p])
           x == [pc |-> "run", job |-> j, left |-> 0, done_read |-> FALSE]
<1>0. /\ queue \in [Pools -> Seq(Job)] /\ queue[p] # <<>> /\ queue[p] \in Seq(Job)
      /\ WorkersTyped /\ wk[p][k].pc = "wait" /\ UNCHANGED tickets
  BY DEF IInv, Typed, QueuesTyped, WorkerTake
<1>1. queue'[p] = Tail(queue[p]) /\ \A q \in Pools : q # p => queue'[q] = queue[q]
  BY <1>0 DEF WorkerTake
<1>2. wk' = [wk EXCEPT ![p][k] = x]
  BY DEF WorkerTake
<1>3. x.pc = "run" /\ x.job.w = j.w /\ x.left = 0 /\ j \in Job
  BY <1>0
<1> HIDE DEF x
<1>a. /\ wk'[p][k] = x
      /\ \A q \in Pools, i \in Workers : q # p \/ i # k => wk'[q][i] = wk[q][i]
  BY <1>0, <1>2 DEF WorkersTyped
<1>4. /\ \A q \in Pools, w \in Tensors : q # p => At_work(q, w)' = At_work(q, w)
      /\ \A w \in Tensors : At_work(p, w)' = IF j.w = w THEN At_work(p, w) \cup {k}
                                                       ELSE At_work(p, w) \ {k}
  BY <1>3, <1>a, AtWorkMoves
<1>5. \A q \in Pools, i \in Workers : wk'[q][i].left \in Nat
  BY <1>3, <1>a DEF CountInv
<1>6. ASSUME NEW q \in Pools, NEW w \in Tensors, q # p PROVE Exact(q, w)'
  BY <1>0, <1>1, <1>4, <1>6 DEF CountInv, Exact
<1>7. ASSUME NEW w \in Tensors PROVE Exact(p, w)'
  <2>1. Exact(p, w) /\ k \notin At_work(p, w)
    BY <1>0 DEF CountInv, At_work
  <2>2. Count(queue[p], JobsOf(w)) = Count(Tail(queue[p]), JobsOf(w)) + (IF j \in JobsOf(w) THEN 1 ELSE 0)
    BY <1>0, CountTail
  <2>3. /\ IsFiniteSet(At_work(p, w)) /\ Cardinality(At_work(p, w)) \in Nat
        /\ Count(Tail(queue[p]), JobsOf(w)) \in Nat
    <3>1. Tail(queue[p]) \in Seq(Job)
      BY <1>0
    <3>2. Count(Tail(queue[p]), JobsOf(w)) \in Nat
      BY <3>1, CountType
    <3>. QED BY <3>2, AtWorkType
  <2>4. j \in JobsOf(w) <=> j.w = w
    BY <1>3 DEF JobsOf
  <2>5. CASE j.w = w
    <3>1. At_work(p, w)' = At_work(p, w) \cup {k}
      BY <1>4, <2>5
    <3>2. Cardinality(At_work(p, w)') = Cardinality(At_work(p, w)) + 1
      BY <2>1, <2>3, <3>1, FS_AddElement
    <3>3. Count(queue'[p], JobsOf(w)) = Count(queue[p], JobsOf(w)) - 1
      BY <1>1, <2>2, <2>3, <2>4, <2>5
    <3>4. Count(queue[p], JobsOf(w)) \in Nat
      BY <1>0, CountType
    <3>5. tickets'[p][w].pending = Count(queue'[p], JobsOf(w)) + Cardinality(At_work(p, w)')
      BY <1>0, <2>1, <2>3, <3>2, <3>3, <3>4 DEF Exact
    <3>. QED BY <3>5 DEF Exact
  <2>6. CASE j.w # w
    <3>1. At_work(p, w)' = At_work(p, w)
      BY <1>4, <2>1, <2>6
    <3>2. Count(queue'[p], JobsOf(w)) = Count(queue[p], JobsOf(w))
      BY <1>1, <2>2, <2>3, <2>4, <2>6
    <3>. QED BY <1>0, <2>1, <3>1, <3>2 DEF Exact
  <2>. QED BY <2>5, <2>6
<1>. QED BY <1>5, <1>6, <1>7 DEF CountInv

\* A worker that was not at work, or no longer is, changes nothing.
LEMMA OffWorkCount ==
    ASSUME IInv, CountInv, NEW p \in Pools, NEW k \in Workers,
           WorkerExit(p, k) \/ WorkerSettle(p, k)
    PROVE  CountInv'
<1>0. /\ tickets \in [Pools -> [Tensors -> Ticket]] /\ WorkersTyped /\ UNCHANGED queue
      /\ wk[p][k].pc # "run" /\ wk \in [Pools -> [Workers -> Worker]]
  BY DEF IInv, Typed, TicketsTyped, WorkersTyped, WorkerExit, WorkerSettle
<1>1. /\ wk'[p][k].pc # "run" /\ wk'[p][k].left \in Nat
      /\ \A q \in Pools, i \in Workers : q # p \/ i # k => wk'[q][i] = wk[q][i]
  <2>1. CASE WorkerExit(p, k)
    <3>1. wk[p][k] \in Worker /\ wk[p][k].left \in Nat
      BY <1>0 DEF CountInv
    <3>. QED BY <1>0, <2>1, <3>1 DEF WorkerExit, Worker
  <2>2. CASE WorkerSettle(p, k)
    BY <1>0, <2>2 DEF WorkerSettle
  <2>. QED BY <2>1, <2>2
<1>2. \A q \in Pools, w \in Tensors : At_work(q, w)' = At_work(q, w)
  BY <1>0, <1>1 DEF At_work
<1>3. \A q \in Pools, w \in Tensors : tickets'[q][w].pending = tickets[q][w].pending
  <2>1. CASE WorkerExit(p, k)
    BY <2>1 DEF WorkerExit
  <2>2. CASE WorkerSettle(p, k)
    <3> DEFINE job == wk[p][k].job
               noted == tickets[p][job.w].read_chunks \cup {<<job.i, job.e>>}
    <3>1. \/ UNCHANGED tickets
          \/ tickets' = [tickets EXCEPT ![p][job.w].read_chunks = noted]
      BY <2>2 DEF WorkerSettle
    <3>2. wk[p][k].job \in Job
      BY <2>2 DEF WorkerSettle, IInv, Typed, WorkersTyped
    <3>3. job.w \in Tensors
      BY <3>2 DEF Job
    <3>4. PICK v \in Tensors : v = job.w
      BY <3>3
    <3> HIDE DEF noted, job
    <3>5. CASE tickets' = [tickets EXCEPT ![p][v].read_chunks = noted]
      <4>1. /\ tickets'[p][v] = [tickets[p][v] EXCEPT !.read_chunks = noted]
            /\ \A q \in Pools, w \in Tensors : q # p \/ w # v => tickets'[q][w] = tickets[q][w]
        BY <1>0, <3>5
      <4>2. tickets[p][v] \in Ticket
        BY <1>0
      <4>3. [tickets[p][v] EXCEPT !.read_chunks = noted].pending = tickets[p][v].pending
        BY <4>2 DEF Ticket
      <4>. QED BY <4>1, <4>3
    <3>. QED BY <3>1, <3>4, <3>5
  <2>. QED BY <2>1, <2>2
<1>4. \A q \in Pools, i \in Workers : wk'[q][i].left \in Nat
  BY <1>1 DEF CountInv
<1>. QED BY <1>0, <1>2, <1>3, <1>4, CountFrame

\* The ticket is counted down by the worker that was at work: it found itself
\* counted.
LEMMA RunCount ==
    ASSUME IInv, CountInv, NEW p \in Pools, NEW k \in Workers, WorkerRun(p, k)
    PROVE  CountInv'
<1>0. /\ tickets \in [Pools -> [Tensors -> Ticket]] /\ UNCHANGED queue
      /\ wk[p][k].pc = "run" /\ wk \in [Pools -> [Workers -> Worker]]
      /\ queue[p] \in Seq(Job)
  BY DEF IInv, Typed, TicketsTyped, WorkersTyped, QueuesTyped, WorkerRun
<1>a. PICK v \in Tensors : v = wk[p][k].job.w
  <2>1. wk[p][k].job \in Job
    BY <1>0 DEF IInv, Typed, WorkersTyped
  <2>. QED BY <2>1 DEF Job
<1>1. PICK n \in Int : n = tickets[p][v].pending
  BY <1>0, <1>a DEF Ticket
<1>2. /\ wk'[p][k].pc = "settle" /\ wk'[p][k].left = n
      /\ \A q \in Pools, i \in Workers : q # p \/ i # k => wk'[q][i] = wk[q][i]
  BY <1>0, <1>a, <1>1 DEF WorkerRun
<1>3. /\ tickets'[p][v].pending = n - 1
      /\ \A q \in Pools, w \in Tensors : q # p \/ w # v =>
            tickets'[q][w].pending = tickets[q][w].pending
  <2>1. tickets' = [tickets EXCEPT ![p][v].pending = n - 1]
    BY <1>a, <1>1 DEF WorkerRun
  <2>. QED BY <1>0, <1>1, <2>1 DEF Ticket
<1>4. /\ \A q \in Pools, w \in Tensors : q # p => At_work(q, w)' = At_work(q, w)
      /\ \A w \in Tensors : At_work(p, w)' = At_work(p, w) \ {k}
  BY <1>2, AtWorkMoves
<1>5. k \in At_work(p, v) /\ \A w \in Tensors : w # v => k \notin At_work(p, w)
  BY <1>0, <1>a DEF At_work
<1>6. Cardinality(At_work(p, v) \ {k}) = Cardinality(At_work(p, v)) - 1
  BY <1>5, AtWorkType, FS_RemoveElement
<1>7. Exact(p, v) /\ Cardinality(At_work(p, v)) \in Nat /\ Count(queue[p], JobsOf(v)) \in Nat
  BY <1>0, <1>1, AtWorkType, CountType DEF CountInv
<1>8. Exact(p, v)'
  <2>1. tickets'[p][v].pending = Count(queue[p], JobsOf(v)) + Cardinality(At_work(p, v) \ {k})
    BY <1>1, <1>3, <1>6, <1>7 DEF Exact
  <2>. QED BY <1>0, <1>4, <2>1 DEF Exact
<1>9. ASSUME NEW q \in Pools, NEW w \in Tensors, q # p \/ w # v PROVE Exact(q, w)'
  <2>1. At_work(q, w)' = At_work(q, w)
    BY <1>4, <1>5, <1>9
  <2>. QED BY <1>0, <1>3, <1>9, <2>1 DEF CountInv, Exact
<1>10. n \in Nat
  <2>1. Cardinality(At_work(p, v)) # 0
    BY <1>5, AtWorkType, FS_EmptySet
  <2>. QED BY <1>1, <1>7, <2>1 DEF Exact
<1>11. \A q \in Pools, i \in Workers : wk'[q][i].left \in Nat
  BY <1>2, <1>10 DEF CountInv
<1>. QED BY <1>8, <1>9, <1>11 DEF CountInv

\* What an enqueue does: nothing that counts, or the chunks of a tensor go to
\* the back or the front of the queue, for an epoch its ticket has not seen.
EnqueueEffect(c, p, w, jobs) ==
    /\ \A q \in Pools : q # p => queue'[q] = queue[q]
    /\ \A q \in Pools, v \in Tensors : q # p \/ v # w => tickets'[q][v] = tickets[q][v]
    /\ \/ /\ queue'[p] = queue[p] /\ tickets'[p][w].pending = tickets[p][w].pending
          /\ tickets'[p][w].epoch = tickets[p][w].epoch
       \/ /\ tickets[p][w].epoch # ca[c].seen /\ tickets'[p][w].epoch = ca[c].seen
          /\ tickets'[p][w].pending = tickets[p][w].pending + NChunks
          /\ \/ /\ ca[c].pc = "node" /\ queue'[p] = jobs \o queue[p]
             \/ /\ ca[c].pc = "tensor" /\ queue'[p] = queue[p] \o jobs
                /\ Len(queue[p]) <= MaxQueue

\* An enqueue has the effect EnqueueEffect with the jobs of its tensor.
LEMMA EnqueueFacts ==
    ASSUME IInv, NEW c \in Callers, Enqueue(c)
    PROVE  /\ ca[c].held \in Pools /\ Arg(c) \in Tensors /\ ca[c].seen \in Nat /\ ca[c].pass \in Nat
           /\ EnqueueEffect(c, ca[c].held, Arg(c),
                            Jobs(Arg(c), ca[c].seen, ca[c].pass, ca[c].pc = "tensor"))
<1> DEFINE p == ca[c].held
           w == Arg(c)
           ahead == ca[c].pc = "tensor"
           jobs == Jobs(w, ca[c].seen, ca[c].pass, ahead)
           new == [known |-> TRUE, pending |-> tickets[p][w].pending + NChunks,
                   epoch |-> ca[c].seen, track_reads |-> ahead, read_chunks |-> {}]
<1>0. /\ tickets \in [Pools -> [Tensors -> Ticket]] /\ queue \in [Pools -> Seq(Job)]
      /\ ca[c].pc \in {"tensor", "node"} /\ p \in Pools /\ w \in Tensors
      /\ ca[c].seen \in Nat /\ ca[c].pass \in Nat
  BY ArgType DEF IInv, Typed, TicketsTyped, QueuesTyped, CallersTyped, Caller, Enqueue
<1>1. CASE shutdown[p] \/ AlreadyDone(c) \/ Dropped(c)
  <2>1. UNCHANGED queue /\ \E b : tickets' = [tickets EXCEPT ![p][w].known = b]
    BY <1>1 DEF Enqueue
  <2> HIDE DEF p, w, jobs
  <2>2. EnqueueEffect(c, p, w, jobs)
    BY <1>0, <2>1 DEF EnqueueEffect, Ticket
  <2>. QED BY <1>0, <2>2 DEF p, w, jobs
<1>2. CASE ~(shutdown[p] \/ AlreadyDone(c) \/ Dropped(c))
  <2>1. /\ tickets' = [tickets EXCEPT ![p][w] = new]
        /\ queue' = [queue EXCEPT ![p] = IF ahead THEN queue[p] \o jobs ELSE jobs \o queue[p]]
    BY <1>2 DEF Enqueue, Counted
  <2>2. tickets[p][w].epoch # ca[c].seen
    BY <1>2 DEF AlreadyDone
  <2>3. new.epoch = ca[c].seen /\ new.pending = tickets[p][w].pending + NChunks
    OBVIOUS
  <2>4. Len(queue[p]) \in Nat
    BY <1>0
  <2>5. ahead => Len(queue[p]) <= MaxQueue
    BY <1>2, <2>4, ConstantsAssumption DEF Dropped
  <2>6. ahead \/ ca[c].pc = "node"
    BY <1>0
  <2> HIDE DEF p, w, jobs, new
  <2>7. EnqueueEffect(c, p, w, jobs)
    BY <1>0, <2>1, <2>2, <2>3, <2>5, <2>6 DEF EnqueueEffect
  <2>. QED BY <1>0, <2>7 DEF p, w, jobs
<1>. QED BY <1>1, <1>2

\* One job for every chunk of the tensor.
ChunksFor(c, w, jobs) ==
    /\ Len(jobs) = NChunks
    /\ \A i \in DOMAIN jobs :
          /\ jobs[i] \in Job /\ jobs[i].w = w /\ jobs[i].i = i /\ jobs[i].e = ca[c].seen
          /\ jobs[i].pass = ca[c].pass /\ (jobs[i].ahead <=> ca[c].pc = "tensor")

\* The same, with the jobs given by what they are.
LEMMA EnqueueJobs ==
    ASSUME IInv, NEW c \in Callers, Enqueue(c)
    PROVE  \E p \in Pools, w \in Tensors, jobs \in Seq(Job) :
              /\ EnqueueEffect(c, p, w, jobs) /\ p = ca[c].held /\ w = Arg(c)
              /\ ChunksFor(c, w, jobs)
<1>1. PICK ahead \in BOOLEAN : ahead = (ca[c].pc = "tensor")
  OBVIOUS
<1> DEFINE j == Jobs(Arg(c), ca[c].seen, ca[c].pass, ahead)
<1>2. /\ ca[c].held \in Pools /\ Arg(c) \in Tensors /\ ca[c].seen \in Nat /\ ca[c].pass \in Nat
      /\ EnqueueEffect(c, ca[c].held, Arg(c), j)
  BY <1>1, EnqueueFacts
<1>3. PICK v \in Tensors, e \in Nat, n \in Nat : v = Arg(c) /\ e = ca[c].seen /\ n = ca[c].pass
  BY <1>2
<1> DEFINE k == Jobs(v, e, n, ahead)
<1>4. /\ k = [i \in 1..NChunks |-> [w |-> v, i |-> i, e |-> e, pass |-> n, ahead |-> ahead]]
      /\ NChunks \in Nat /\ \A i \in 1..NChunks : k[i] \in Job
  BY <1>1, ConstantsAssumption DEF Jobs, Job, Chunks
<1>5. k \in Seq(Job) /\ Len(k) = NChunks
  BY <1>4
<1>6. \A i \in DOMAIN k :
         /\ k[i] \in Job /\ k[i].w = v /\ k[i].i = i /\ k[i].e = e /\ k[i].pass = n
         /\ k[i].ahead = ahead
  BY <1>4
<1>7. k = j
  BY <1>3
<1> HIDE DEF k, j
<1>8. ChunksFor(c, v, k)
  BY <1>1, <1>3, <1>5, <1>6 DEF ChunksFor
<1>. QED BY <1>2, <1>3, <1>5, <1>7, <1>8

\* An enqueue counts what it queues.
LEMMA EnqueueCount ==
    ASSUME IInv, CountInv, NEW c \in Callers, Enqueue(c)
    PROVE  CountInv'
<1>0. PICK p \in Pools, w \in Tensors, jobs \in Seq(Job) :
          /\ EnqueueEffect(c, p, w, jobs) /\ p = ca[c].held /\ w = Arg(c)
          /\ ChunksFor(c, w, jobs)
  BY EnqueueJobs
<1>1. jobs \in Seq(Job) /\ Len(jobs) = NChunks /\ \A i \in DOMAIN jobs : jobs[i] \in Job /\ jobs[i].w = w
  BY <1>0 DEF ChunksFor
<1>2. UNCHANGED wk /\ queue[p] \in Seq(Job)
  BY <1>0 DEF Enqueue, IInv, Typed, QueuesTyped
<1>3. \A q \in Pools, v \in Tensors : At_work(q, v)' = At_work(q, v)
  BY <1>2 DEF At_work
<1>4. ASSUME NEW q \in Pools, NEW v \in Tensors, q # p PROVE Exact(q, v)'
  BY <1>0, <1>3, <1>4 DEF CountInv, Exact, EnqueueEffect
<1>5. ASSUME NEW v \in Tensors PROVE Exact(p, v)'
  <2>1. Exact(p, v)
    BY <1>0 DEF CountInv
  <2>2. Cardinality(At_work(p, v)) \in Nat /\ Count(queue[p], JobsOf(v)) \in Nat
    BY <1>2, AtWorkType, CountType
  <2>3. CASE queue'[p] = queue[p] /\ tickets'[p][w].pending = tickets[p][w].pending
    BY <1>0, <1>3, <2>1, <2>3 DEF Exact, EnqueueEffect
  <2>4. CASE /\ tickets'[p][w].pending = tickets[p][w].pending + NChunks
             /\ queue'[p] = jobs \o queue[p] \/ queue'[p] = queue[p] \o jobs
    <3>1. Count(queue'[p], JobsOf(v)) = Count(queue[p], JobsOf(v)) + Count(jobs, JobsOf(v))
      <4>1. Count(jobs, JobsOf(v)) \in Nat
        BY <1>1, CountType
      <4>2. /\ Count(jobs \o queue[p], JobsOf(v)) = Count(jobs, JobsOf(v)) + Count(queue[p], JobsOf(v))
            /\ Count(queue[p] \o jobs, JobsOf(v)) = Count(queue[p], JobsOf(v)) + Count(jobs, JobsOf(v))
        BY <1>1, <1>2, CountConcat
      <4>3. Count(jobs, JobsOf(v)) + Count(queue[p], JobsOf(v))
               = Count(queue[p], JobsOf(v)) + Count(jobs, JobsOf(v))
        BY <2>2, <4>1
      <4>. QED BY <2>4, <4>2, <4>3
    <3>2. Count(jobs, JobsOf(v)) = IF v = w THEN NChunks ELSE 0
      <4>1. v = w => \A i \in DOMAIN jobs : jobs[i] \in JobsOf(v)
        BY <1>1 DEF JobsOf
      <4>2. v # w => \A i \in DOMAIN jobs : jobs[i] \notin JobsOf(v)
        BY <1>1 DEF JobsOf
      <4>. QED BY <1>1, <4>1, <4>2, CountUniform
    <3>3. tickets'[p][v].pending = IF v = w THEN tickets[p][w].pending + NChunks
                                            ELSE tickets[p][v].pending
      BY <1>0, <2>4 DEF EnqueueEffect
    <3>4. NChunks \in Nat
      BY ConstantsAssumption
    <3>5. tickets'[p][v].pending = Count(queue'[p], JobsOf(v)) + Cardinality(At_work(p, v))
      <4>1. CASE v = w
        BY <2>1, <2>2, <3>1, <3>2, <3>3, <3>4, <4>1 DEF Exact
      <4>2. CASE v # w
        BY <2>1, <2>2, <3>1, <3>2, <3>3, <4>2 DEF Exact
      <4>. QED BY <4>1, <4>2
    <3>. QED BY <1>3, <3>5 DEF Exact
  <2>. QED BY <1>0, <2>3, <2>4 DEF EnqueueEffect
<1>6. \A q \in Pools, i \in Workers : wk'[q][i].left \in Nat
  BY <1>2 DEF CountInv
<1>. QED BY <1>4, <1>5, <1>6 DEF CountInv

\* stop() gives up what is queued, and only that.
LEMMA StopCount ==
    ASSUME IInv, CountInv, NEW p \in Pools, StopPool(p), UNCHANGED wk
    PROVE  CountInv'
<1>0. /\ tickets \in [Pools -> [Tensors -> Ticket]] /\ queue \in [Pools -> Seq(Job)]
      /\ TicketsTyped /\ QueuesTyped /\ <<>> \in Seq(Job)
  BY DEF IInv, Typed, TicketsTyped, QueuesTyped
<1>1. /\ queue'[p] = <<>>
      /\ \A q \in Pools \ {p} : queue'[q] = queue[q] /\ tickets'[q] = tickets[q]
  BY <1>0, StopPoolFacts
<1>2. \A q \in Pools, w \in Tensors : At_work(q, w)' = At_work(q, w)
  BY DEF At_work
<1>3. ASSUME NEW q \in Pools, NEW w \in Tensors, q # p PROVE Exact(q, w)'
  BY <1>1, <1>2, <1>3 DEF CountInv, Exact
<1>4. ASSUME NEW w \in Tensors PROVE Exact(p, w)'
  <2>1. tickets'[p][w].pending = tickets[p][w].pending - QueuedOf(p, w)
    <3>1. tickets'[p][w] = [tickets[p][w] EXCEPT !.pending = tickets[p][w].pending - QueuedOf(p, w)]
      BY <1>0 DEF StopPool
    <3>2. tickets[p][w] \in Ticket
      BY <1>0
    <3>. QED BY <3>1, <3>2 DEF Ticket
  <2>2. QueuedOf(p, w) = Count(queue[p], JobsOf(w))
    BY <1>0, QueuedOfCount
  <2>3. Count(queue[p], JobsOf(w)) \in Nat /\ Cardinality(At_work(p, w)) \in Nat
    BY <1>0, AtWorkType, CountType
  <2>4. Count(<<>>, JobsOf(w)) = 0
    BY CountEmpty
  <2>5. Exact(p, w)
    BY DEF CountInv
  <2>6. tickets'[p][w].pending = Count(queue'[p], JobsOf(w)) + Cardinality(At_work(p, w))
    BY <1>1, <2>1, <2>2, <2>3, <2>4, <2>5 DEF Exact
  <2>. QED BY <1>2, <2>6 DEF Exact
<1>5. \A q \in Pools, i \in Workers : wk'[q][i].left \in Nat
  BY DEF CountInv
<1>. QED BY <1>3, <1>4, <1>5 DEF CountInv

\* Marking a tensor cold does not touch the count of its ticket.
LEMMA ColdCount ==
    ASSUME IInv, CountInv, NEW c \in Callers, Cold(c) PROVE CountInv'
<1>0. /\ tickets \in [Pools -> [Tensors -> Ticket]] /\ UNCHANGED <<queue, wk>>
      /\ ca[c].held \in Pools /\ Arg(c) \in Tensors
  BY ArgType DEF IInv, Typed, TicketsTyped, CallersTyped, Cold
<1>1. PICK p \in Pools, v \in Tensors : p = ca[c].held /\ v = Arg(c)
  BY <1>0
<1>2. UNCHANGED tickets \/ tickets' = [tickets EXCEPT ![p][v].read_chunks = {}]
  BY <1>1 DEF Cold
<1>3. tickets[p][v] \in Ticket
  BY <1>0
<1>4. [tickets[p][v] EXCEPT !.read_chunks = {}].pending = tickets[p][v].pending
  BY <1>3 DEF Ticket
<1>5. \A q \in Pools, w \in Tensors : tickets'[q][w].pending = tickets[q][w].pending
  <2>1. CASE tickets' = [tickets EXCEPT ![p][v].read_chunks = {}]
    <3>1. /\ tickets'[p][v] = [tickets[p][v] EXCEPT !.read_chunks = {}]
          /\ \A q \in Pools, w \in Tensors : q # p \/ w # v => tickets'[q][w] = tickets[q][w]
      BY <1>0, <2>1
    <3>. QED BY <1>4, <3>1
  <2>. QED BY <1>2, <2>1
<1>6. \A q \in Pools, w \in Tensors : At_work(q, w)' = At_work(q, w)
  BY <1>0 DEF At_work
<1>7. \A q \in Pools, i \in Workers : wk'[q][i].left \in Nat
  BY <1>0 DEF CountInv
<1>. QED BY <1>0, <1>5, <1>6, <1>7, CountFrame

\* Every step keeps the tickets exact.
LEMMA StepCount == IInv /\ CountInv /\ [Next]_vars => CountInv'
<1> SUFFICES ASSUME IInv, CountInv, [Next]_vars PROVE CountInv'
  OBVIOUS
<1>1. ASSUME UNCHANGED poolVars PROVE CountInv'
  <2>1. UNCHANGED <<queue, tickets, wk>>
    BY <1>1 DEF poolVars
  <2>2. \A q \in Pools, w \in Tensors : At_work(q, w)' = At_work(q, w)
    BY <2>1 DEF At_work
  <2>. QED BY <2>1, <2>2, CountFrame DEF CountInv
<1>2. ASSUME NEW p \in Pools, NEW k \in Workers, WorkerStep(p, k) PROVE CountInv'
  BY <1>2, TakeCount, OffWorkCount, RunCount DEF WorkerStep
<1>3. ASSUME NEW c \in Callers, NewEpoch(c) \/ CallerStep(c) PROVE CountInv'
  <2>1. CASE Enqueue(c)
    BY <2>1, EnqueueCount
  <2>2. CASE Cold(c)
    BY <2>2, ColdCount
  <2>3. CASE DropPool(c)
    <3>0. ca[c].held \in Pools
      BY <2>3 DEF DropPool, IInv, Typed, CallersTyped
    <3>1. CASE HeldByOthers(ca[c].held, c)
      BY <1>1, <2>3, <3>1 DEF DropPool, poolVars
    <3>2. CASE ~HeldByOthers(ca[c].held, c)
      BY <2>3, <3>0, <3>2, StopCount DEF DropPool
    <3>. QED BY <3>1, <3>2
  <2>4. CASE \/ NewEpoch(c) \/ NextSplit(c) \/ TakePool(c) \/ WaitLookup(c) \/ WaitCheck(c)
             \/ Eval(c) \/ CallerJoin(c)
    BY <1>1, <2>4 DEF NewEpoch, NextSplit, TakePool, WaitLookup, WaitCheck, Eval, CallerJoin
  <2>. QED BY <1>3, <2>1, <2>2, <2>3, <2>4 DEF CallerStep
<1>4. CASE ResetPool
  <2>1. CASE \E c \in Callers : ca[c].held = pool
    BY <1>1, <1>4, <2>1 DEF ResetPool, poolVars
  <2>2. CASE ~\E c \in Callers : ca[c].held = pool
    BY <1>4, <2>2, StopCount DEF ResetPool, IInv, Typed, EngineTyped
  <2>. QED BY <2>1, <2>2
<1>5. CASE StartPool
  BY <1>1, <1>5 DEF StartPool
<1>6. CASE UNCHANGED vars
  BY <1>1, <1>6 DEF vars
<1>. QED BY <1>2, <1>3, <1>4, <1>5, <1>6 DEF Next

\* The tickets are exact when the library is loaded.
LEMMA InitCount == Init => CountInv
<1> SUFFICES ASSUME Init PROVE CountInv
  OBVIOUS
<1>1. ASSUME NEW p \in Pools, NEW w \in Tensors PROVE Exact(p, w)
  <2>1. <<>> \in Seq(Job) /\ queue[p] = <<>> /\ tickets[p][w].pending = 0
    BY DEF Init
  <2>2. Count(<<>>, JobsOf(w)) = 0
    BY CountEmpty
  <2>3. At_work(p, w) = {}
    BY DEF Init, At_work
  <2>4. Cardinality(At_work(p, w)) = 0
    BY <2>3, FS_EmptySet
  <2>. QED BY <2>1, <2>2, <2>4 DEF Exact
<1>2. \A p \in Pools, k \in Workers : wk[p][k].left \in Nat
  BY DEF Init
<1>. QED BY <1>1, <1>2 DEF CountInv

\* What the two invariants say, in the words of PendingExact.
LEMMA CountsExact == IInv /\ CountInv => PendingExact
<1> SUFFICES ASSUME IInv, CountInv PROVE PendingExact
  OBVIOUS
<1>1. ASSUME NEW p \in Pools, NEW w \in Tensors
      PROVE  /\ tickets[p][w].pending = QueuedOf(p, w) + RunningOf(p, w)
             /\ tickets[p][w].pending \in Nat
  <2>1. Exact(p, w) /\ QueuesTyped /\ queue[p] \in Seq(Job)
    BY DEF CountInv, IInv, Typed, QueuesTyped
  <2>2. QueuedOf(p, w) = Count(queue[p], JobsOf(w)) /\ RunningOf(p, w) = Cardinality(At_work(p, w))
    BY <2>1, QueuedOfCount DEF RunningOf, At_work
  <2>3. Count(queue[p], JobsOf(w)) \in Nat /\ Cardinality(At_work(p, w)) \in Nat
    BY <2>1, AtWorkType, CountType
  <2>. QED BY <2>1, <2>2, <2>3 DEF Exact
<1> DEFINE T == [known : BOOLEAN, pending : Nat, epoch : Nat, track_reads : BOOLEAN,
                 read_chunks : SUBSET (Chunks \X Nat)]
           W == [pc : {"wait", "run", "settle", "exited"}, job : Job \cup {NoJob}, left : Nat,
                 done_read : BOOLEAN]
<1>2. tickets \in [Pools -> [Tensors -> T]]
  <2>1. tickets \in [Pools -> [Tensors -> Ticket]]
    BY DEF IInv, Typed, TicketsTyped
  <2>2. ASSUME NEW p \in Pools, NEW w \in Tensors PROVE tickets[p][w] \in T
    <3>1. tickets[p][w] \in Ticket /\ tickets[p][w].pending \in Nat
      BY <1>1, <2>1
    <3>. QED BY <3>1 DEF Ticket
  <2> HIDE DEF T
  <2>. QED BY <2>1, <2>2
<1>3. wk \in [Pools -> [Workers -> W]]
  <2>1. wk \in [Pools -> [Workers -> Worker]]
    BY DEF IInv, Typed, WorkersTyped
  <2>2. ASSUME NEW p \in Pools, NEW k \in Workers PROVE wk[p][k] \in W
    <3>1. wk[p][k] \in Worker /\ wk[p][k].left \in Nat
      BY <2>1 DEF CountInv
    <3>. QED BY <3>1 DEF Worker
  <2> HIDE DEF W
  <2>. QED BY <2>1, <2>2
<1>4. /\ queue \in [Pools -> Seq(Job)] /\ shutdown \in [Pools -> BOOLEAN]
      /\ pool \in Pools /\ mgr \in {"run", "joining", "done"} /\ epoch \in Nat
  BY DEF IInv, Typed, QueuesTyped, EngineTyped
<1>5. \A c \in Callers :
          /\ ca[c].pc \in {"idle", "tensor", "node", "wait", "check", "asleep", "cold",
                           "return", "join"}
          /\ ca[c].held \in Pools \cup {NoPool}
          /\ ca[c].pc # "idle" => ca[c].held \in Pools /\ ca[c].ops # <<>>
  BY DEF IInv, Typed, CallersTyped, Caller
<1>6. TypeOK
  BY <1>2, <1>3, <1>4, <1>5 DEF TypeOK
<1>. QED BY <1>1, <1>6 DEF PendingExact

\* The first invariant holds in every reachable state.
LEMMA IInvHolds == Spec => []IInv
BY InitIInv, NextIInv, PTL DEF Spec

\* The tickets are exact in every reachable state.
LEMMA CountsHold == Spec => []CountInv
BY InitCount, StepCount, IInvHolds, PTL DEF Spec

\* A ticket counts the jobs of its tensor that are queued or being read, no more
\* and no less, for any number of contexts, workers and tensors, also when jobs
\* of several epochs overlap and when a pool is stopped: a waiter neither hangs
\* nor returns early.
THEOREM PendingExactThm == Spec => []PendingExact
BY CountsHold, IInvHolds, CountsExact, PTL

-----------------------------------------------------------------------------
(* Lookahead is bounded, and nothing is queued twice                        *)

\* What a step other than an enqueue does to a queue: the first job is taken,
\* or everything is given up.
Shrinks(p) ==
    \/ queue'[p] = queue[p] \/ queue'[p] = <<>>
    \/ queue[p] # <<>> /\ queue'[p] = Tail(queue[p])

\* ... and to a ticket: it is counted down, or left.
TicketKept(p, w) ==
    /\ tickets'[p][w].epoch = tickets[p][w].epoch /\ tickets'[p][w].known = tickets[p][w].known
    /\ tickets'[p][w].pending <= tickets[p][w].pending

\* Steps other than enqueues only shrink the queues and count down the tickets.
LEMMA ShrinkSteps ==
    ASSUME IInv, [Next]_vars, ~\E c \in Callers : Enqueue(c)
    PROVE  /\ \A p \in Pools : Shrinks(p)
           /\ \A p \in Pools, w \in Tensors : TicketKept(p, w)
<1>0. /\ tickets \in [Pools -> [Tensors -> Ticket]] /\ queue \in [Pools -> Seq(Job)]
      /\ TicketsTyped /\ QueuesTyped /\ WorkersTyped /\ CallersTyped
  BY DEF IInv, Typed, TicketsTyped, QueuesTyped
<1>a. \A q \in Pools, w \in Tensors : tickets'[q][w] = tickets[q][w] => TicketKept(q, w)
  <2>1. \A q \in Pools, w \in Tensors : tickets[q][w].pending \in Int
    BY <1>0 DEF Ticket
  <2>. QED BY <2>1 DEF TicketKept
<1>1. ASSUME NEW p \in Pools, NEW v \in Tensors, NEW rc,
             tickets' = [tickets EXCEPT ![p][v].read_chunks = rc]
      PROVE  \A q \in Pools, w \in Tensors : TicketKept(q, w)
  <2>1. /\ tickets'[p][v] = [tickets[p][v] EXCEPT !.read_chunks = rc]
        /\ \A q \in Pools, w \in Tensors : q # p \/ w # v => tickets'[q][w] = tickets[q][w]
    BY <1>0, <1>1
  <2>2. tickets[p][v] \in Ticket
    BY <1>0
  <2>3. TicketKept(p, v)
    BY <2>1, <2>2 DEF Ticket, TicketKept
  <2>. QED BY <1>a, <2>1, <2>3
<1>2. ASSUME NEW p \in Pools, StopPool(p)
      PROVE  /\ \A q \in Pools : Shrinks(q)
             /\ \A q \in Pools, w \in Tensors : TicketKept(q, w)
  <2>1. \A q \in Pools : Shrinks(q)
    BY <1>0, <1>2, StopPoolFacts DEF Shrinks
  <2>2. ASSUME NEW w \in Tensors PROVE TicketKept(p, w)
    <3>1. tickets'[p][w] = [tickets[p][w] EXCEPT !.pending = tickets[p][w].pending - QueuedOf(p, w)]
      BY <1>0, <1>2 DEF StopPool
    <3>2. tickets[p][w] \in Ticket
      BY <1>0
    <3>3. QueuedOf(p, w) \in Nat
      BY <1>0, QueuedOfType
    <3>. QED BY <3>1, <3>2, <3>3 DEF Ticket, TicketKept
  <2>3. \A q \in Pools \ {p} : tickets'[q] = tickets[q]
    BY <1>0, <1>2, StopPoolFacts
  <2>. QED BY <1>a, <2>1, <2>2, <2>3
<1>3. ASSUME UNCHANGED queue PROVE \A p \in Pools : Shrinks(p)
  BY <1>3 DEF Shrinks
<1>4. ASSUME NEW p \in Pools, NEW k \in Workers, WorkerStep(p, k)
      PROVE  /\ \A q \in Pools : Shrinks(q)
             /\ \A q \in Pools, w \in Tensors : TicketKept(q, w)
  <2>1. CASE WorkerTake(p, k)
    BY <1>0, <1>a, <2>1 DEF WorkerTake, Shrinks
  <2>2. CASE WorkerExit(p, k)
    BY <1>3, <1>a, <2>2 DEF WorkerExit
  <2>a. ASSUME wk[p][k].pc \in {"run", "settle"} PROVE \E v \in Tensors : v = wk[p][k].job.w
    <3>1. wk[p][k].job \in Job
      BY <1>0, <2>a DEF WorkersTyped
    <3>. QED BY <3>1 DEF Job
  <2>3. CASE WorkerRun(p, k)
    <3>1. PICK v \in Tensors : v = wk[p][k].job.w
      BY <2>3, <2>a DEF WorkerRun
    <3>2. tickets' = [tickets EXCEPT ![p][v].pending = tickets[p][v].pending - 1] /\ UNCHANGED queue
      BY <2>3, <3>1 DEF WorkerRun
    <3>3. /\ tickets'[p][v] = [tickets[p][v] EXCEPT !.pending = tickets[p][v].pending - 1]
          /\ \A q \in Pools, w \in Tensors : q # p \/ w # v => tickets'[q][w] = tickets[q][w]
      BY <1>0, <3>2
    <3>4. tickets[p][v] \in Ticket
      BY <1>0
    <3>5. TicketKept(p, v)
      BY <3>3, <3>4 DEF Ticket, TicketKept
    <3>. QED BY <1>3, <1>a, <3>2, <3>3, <3>5
  <2>4. CASE WorkerSettle(p, k)
    <3>1. PICK v \in Tensors : v = wk[p][k].job.w
      BY <2>4, <2>a DEF WorkerSettle
    <3>2. /\ UNCHANGED queue
          /\ UNCHANGED tickets \/ \E rc : tickets' = [tickets EXCEPT ![p][v].read_chunks = rc]
      BY <2>4, <3>1 DEF WorkerSettle
    <3>. QED BY <1>1, <1>3, <1>a, <3>2
  <2>. QED BY <1>4, <2>1, <2>2, <2>3, <2>4 DEF WorkerStep
<1>5. ASSUME UNCHANGED <<queue, tickets>>
      PROVE  /\ \A q \in Pools : Shrinks(q)
             /\ \A q \in Pools, w \in Tensors : TicketKept(q, w)
  BY <1>3, <1>5, <1>a
<1>6. ASSUME NEW c \in Callers, NewEpoch(c) \/ CallerStep(c)
      PROVE  /\ \A q \in Pools : Shrinks(q)
             /\ \A q \in Pools, w \in Tensors : TicketKept(q, w)
  <2>1. CASE Cold(c)
    <3>1. ca[c].held \in Pools /\ Arg(c) \in Tensors
      BY <1>0, <2>1, ArgType DEF Cold, CallersTyped
    <3>2. PICK p \in Pools, v \in Tensors : p = ca[c].held /\ v = Arg(c)
      BY <3>1
    <3>3. /\ UNCHANGED queue
          /\ UNCHANGED tickets \/ tickets' = [tickets EXCEPT ![p][v].read_chunks = {}]
      BY <2>1, <3>2 DEF Cold
    <3>. QED BY <1>1, <1>3, <1>a, <3>3
  <2>2. CASE DropPool(c)
    <3>0. ca[c].held \in Pools
      BY <1>0, <2>2 DEF DropPool, CallersTyped
    <3>1. CASE HeldByOthers(ca[c].held, c)
      BY <1>5, <2>2, <3>1 DEF DropPool
    <3>2. CASE ~HeldByOthers(ca[c].held, c)
      BY <1>2, <2>2, <3>0, <3>2 DEF DropPool
    <3>. QED BY <3>1, <3>2
  <2>3. CASE \/ NewEpoch(c) \/ NextSplit(c) \/ TakePool(c) \/ WaitLookup(c) \/ WaitCheck(c)
             \/ Eval(c) \/ CallerJoin(c)
    BY <1>5, <2>3 DEF NewEpoch, NextSplit, TakePool, WaitLookup, WaitCheck, Eval, CallerJoin,
                      poolVars
  <2>. QED BY <1>6, <2>1, <2>2, <2>3 DEF CallerStep
<1>7. CASE ResetPool
  <2>1. CASE \E c \in Callers : ca[c].held = pool
    BY <1>5, <1>7, <2>1 DEF ResetPool
  <2>2. CASE ~\E c \in Callers : ca[c].held = pool
    BY <1>2, <1>7, <2>2 DEF ResetPool, IInv, Typed, EngineTyped
  <2>. QED BY <2>1, <2>2
<1>8. CASE StartPool \/ UNCHANGED vars
  BY <1>5, <1>8 DEF StartPool, vars, poolVars
<1>. QED BY <1>4, <1>6, <1>7, <1>8 DEF Next

\* The jobs of lookahead.
AheadJobs == {j \in Job : j.ahead}
AheadBounded == \A p \in Pools : Count(queue[p], AheadJobs) <= MaxQueue + NChunks

\* Every step keeps the bound on lookahead: it is looked at before more is queued.
LEMMA AheadStep == IInv /\ AheadBounded /\ [Next]_vars => AheadBounded'
<1> SUFFICES ASSUME IInv, AheadBounded, [Next]_vars, NEW p \in Pools
             PROVE  Count(queue'[p], AheadJobs) <= MaxQueue + NChunks
  BY DEF AheadBounded
<1>0. /\ queue[p] \in Seq(Job) /\ Count(queue[p], AheadJobs) \in Nat
      /\ MaxQueue \in Nat /\ NChunks \in Nat
  BY ConstantsAssumption, CountType DEF IInv, Typed, QueuesTyped
<1>1. Count(queue[p], AheadJobs) <= MaxQueue + NChunks
  BY DEF AheadBounded
<1>2. CASE Shrinks(p)
  <2>1. CASE queue'[p] = <<>>
    <3>1. Count(queue'[p], AheadJobs) = 0
      BY <2>1, CountEmpty
    <3>. QED BY <1>0, <3>1
  <2>2. CASE queue[p] # <<>> /\ queue'[p] = Tail(queue[p])
    <3>1. Count(queue[p], AheadJobs) = Count(Tail(queue[p]), AheadJobs)
                                         + (IF Head(queue[p]) \in AheadJobs THEN 1 ELSE 0)
      BY <1>0, <2>2, CountTail
    <3>2. Tail(queue[p]) \in Seq(Job)
      BY <1>0, <2>2
    <3>3. Count(Tail(queue[p]), AheadJobs) \in Nat
      BY <3>2, CountType
    <3>. QED BY <1>0, <1>1, <2>2, <3>1, <3>3
  <2>. QED BY <1>1, <1>2, <2>1, <2>2 DEF Shrinks
<1>3. CASE \E c \in Callers : Enqueue(c)
  <2>1. PICK c \in Callers : Enqueue(c)
    BY <1>3
  <2>2. PICK h \in Pools, w \in Tensors, jobs \in Seq(Job) :
          /\ EnqueueEffect(c, h, w, jobs) /\ h = ca[c].held /\ w = Arg(c)
          /\ ChunksFor(c, w, jobs)
    BY <2>1, EnqueueJobs
  <2>3. Count(jobs, AheadJobs) \in Nat /\ Count(jobs, AheadJobs) <= NChunks
    BY <2>2, CountType DEF ChunksFor
  <2>4. CASE h # p \/ queue'[p] = queue[p]
    <3>1. queue'[p] = queue[p]
      BY <2>2, <2>4 DEF EnqueueEffect
    <3>. QED BY <1>1, <3>1
  <2>5. CASE h = p /\ ca[c].pc = "node" /\ queue'[p] = jobs \o queue[p]
    <3>1. \A i \in DOMAIN jobs : jobs[i] \notin AheadJobs
      BY <2>2, <2>5 DEF ChunksFor, AheadJobs
    <3>2. Count(jobs, AheadJobs) = 0
      BY <3>1, CountUniform
    <3>3. Count(jobs \o queue[p], AheadJobs) = Count(jobs, AheadJobs) + Count(queue[p], AheadJobs)
      BY <1>0, CountConcat
    <3>. QED BY <1>0, <1>1, <2>5, <3>2, <3>3
  <2>6. CASE h = p /\ queue'[p] = queue[p] \o jobs /\ Len(queue[p]) <= MaxQueue
    <3>1. Count(queue[p] \o jobs, AheadJobs) = Count(queue[p], AheadJobs) + Count(jobs, AheadJobs)
      BY <1>0, CountConcat
    <3>2. Count(queue[p], AheadJobs) <= Len(queue[p]) /\ Len(queue[p]) \in Nat
      BY <1>0, CountType
    <3>. QED BY <1>0, <2>3, <2>6, <3>1, <3>2
  <2>. QED BY <2>2, <2>4, <2>5, <2>6 DEF EnqueueEffect
<1>. QED BY <1>2, <1>3, ShrinkSteps

\* There is no lookahead at first.
LEMMA AheadInit == Init => AheadBounded
<1> SUFFICES ASSUME Init, NEW p \in Pools PROVE Count(queue[p], AheadJobs) <= MaxQueue + NChunks
  BY DEF AheadBounded
<1>1. queue[p] = <<>>
  BY DEF Init
<1>. QED BY <1>1, CountEmpty, ConstantsAssumption

\* The bound in the words of LookaheadBounded.
LEMMA AheadCounts == IInv /\ AheadBounded => LookaheadBounded
<1> SUFFICES ASSUME IInv, AheadBounded, NEW p \in Pools
             PROVE  Cardinality({i \in DOMAIN queue[p] : queue[p][i].ahead}) <= MaxQueue + NChunks
  BY DEF LookaheadBounded
<1>1. queue[p] \in Seq(Job)
  BY DEF IInv, Typed, QueuesTyped
<1>2. \A i \in DOMAIN queue[p] : queue[p][i] \in Job
  BY <1>1
<1>3. {i \in DOMAIN queue[p] : queue[p][i].ahead} = At(queue[p], AheadJobs)
  BY <1>2 DEF At, AheadJobs
<1>. QED BY <1>3 DEF AheadBounded, Count

\* A stalled pool never accumulates lookahead, whatever the contexts do.
LEMMA AheadHolds == Spec => []LookaheadBounded
BY AheadInit, AheadStep, AheadCounts, IInvHolds, PTL DEF Spec

-----------------------------------------------------------------------------
(* One context queues a chunk once per epoch                                *)

\* What identifies a job for the bound on duplicates.
Key(j) == <<j.w, j.i, j.e>>
DistinctIn(s) == \A i, j \in DOMAIN s : i # j => Key(s[i]) # Key(s[j])

\* A call of the only context sees the current epoch, tickets are of epochs that
\* have begun, and a queued job is of an epoch its ticket has reached: an enqueue
\* for another epoch than the ticket's is for a later one than every queued job.
EpochInv ==
    /\ \A c \in Callers : ca[c].pc # "idle" => ca[c].seen = epoch
    /\ \A p \in Pools, w \in Tensors : tickets[p][w].epoch <= epoch
    /\ \A p \in Pools : \A i \in DOMAIN queue[p] :
          queue[p][i].e <= tickets[p][queue[p][i].w].epoch
    /\ \A p \in Pools : DistinctIn(queue[p])

\* The epoch only grows, and a call in progress sees the current one when there
\* is one context: it begins no pass while it is in a call.
LEMMA SeenStep ==
    ASSUME \A c, d \in Callers : c = d,
           IInv, [Next]_vars, \A c \in Callers : ca[c].pc # "idle" => ca[c].seen = epoch
    PROVE  /\ epoch <= epoch' /\ epoch' \in Nat
           /\ \A c \in Callers : ca'[c].pc # "idle" => ca'[c].seen = epoch'
<1>0. /\ ca \in [Callers -> Caller] /\ epoch \in Nat /\ CallersTyped
  BY DEF IInv, Typed, CallersTyped, EngineTyped
<1> DEFINE Seen(d) == ca'[d].pc # "idle" => ca'[d].seen = epoch'
<1>1. ASSUME UNCHANGED <<epoch, ca>>
      PROVE  epoch <= epoch' /\ epoch' \in Nat /\ \A d \in Callers : Seen(d)
  BY <1>0, <1>1
<1>2. ASSUME NEW p \in Pools, NEW k \in Workers, WorkerStep(p, k)
      PROVE  epoch <= epoch' /\ epoch' \in Nat /\ \A d \in Callers : Seen(d)
  <2>1. CASE WorkerTake(p, k) \/ WorkerExit(p, k) \/ WorkerRun(p, k)
    BY <1>1, <2>1 DEF WorkerTake, WorkerExit, WorkerRun
  <2>2. CASE WorkerSettle(p, k)
    <3>1. epoch' = epoch
      BY <2>2 DEF WorkerSettle
    <3>2. ASSUME NEW d \in Callers PROVE Seen(d)
      <4>1. ca'[d] = ca[d] \/ (ca[d].pc = "asleep" /\ ca'[d] = [ca[d] EXCEPT !.pc = "check"])
        BY <1>0, <2>2 DEF WorkerSettle
      <4>2. ca[d] \in Caller
        BY <1>0
      <4>. QED BY <3>1, <4>1, <4>2 DEF Caller
    <3>. QED BY <1>0, <3>1, <3>2
  <2>. QED BY <1>2, <2>1, <2>2 DEF WorkerStep
<1>3. ASSUME NEW c \in Callers, NewEpoch(c)
      PROVE  epoch <= epoch' /\ epoch' \in Nat /\ \A d \in Callers : Seen(d)
  <2>1. epoch' = epoch + 1 /\ ca'[c].pc = "idle"
    BY <1>0, <1>3 DEF NewEpoch
  <2>2. \A d \in Callers : d = c
    OBVIOUS
  <2>. QED BY <1>0, <2>1, <2>2
<1>4. ASSUME NEW c \in Callers, CallerStep(c)
      PROVE  epoch <= epoch' /\ epoch' \in Nat /\ \A d \in Callers : Seen(d)
  <2>1. epoch' = epoch
    BY <1>4 DEF CallerStep, NextSplit, TakePool, Enqueue, WaitLookup, WaitCheck, Cold, Eval,
                DropPool, CallerJoin
  <2>2. \A d \in Callers : d = c
    OBVIOUS
  <2>3. ca[c] \in Caller
    BY <1>0
  <2>4. CASE TakePool(c)
    <3>1. ca'[c].seen = epoch
      BY <1>0, <2>3, <2>4 DEF TakePool, Caller
    <3>. QED BY <1>0, <2>1, <2>2, <3>1
  <2>5. CASE NextSplit(c) \/ Eval(c) \/ CallerJoin(c)
    <3>1. ca'[c].pc = "idle"
      BY <1>0, <2>3, <2>5 DEF NextSplit, Eval, CallerJoin, Caller
    <3>. QED BY <1>0, <2>1, <2>2, <3>1
  <2>6. CASE Enqueue(c) \/ WaitLookup(c) \/ WaitCheck(c) \/ Cold(c) \/ DropPool(c)
    <3>1. ca[c].pc # "idle"
      BY <2>6 DEF Enqueue, WaitLookup, WaitCheck, Cold, DropPool
    <3>2. \E pc : \/ ca' = [ca EXCEPT ![c].pc = pc]
                   \/ ca' = [ca EXCEPT ![c].pc = "idle", ![c].ops = Tail(ca[c].ops), ![c].held = NoPool]
      BY <2>6 DEF Enqueue, WaitLookup, WaitCheck, Cold, DropPool, Return
    <3>3. ca'[c].seen = ca[c].seen
      BY <1>0, <2>3, <3>2 DEF Caller
    <3>. QED BY <1>0, <2>1, <2>2, <3>1, <3>3
  <2>. QED BY <1>4, <2>4, <2>5, <2>6 DEF CallerStep
<1>5. CASE ResetPool \/ StartPool \/ UNCHANGED vars
  BY <1>1, <1>5 DEF ResetPool, StartPool, vars
<1>. QED BY <1>2, <1>3, <1>4, <1>5 DEF Next

\* A job of a concatenation is one of the two sequences.
LEMMA ConcatElements ==
    ASSUME NEW s \in Seq(Job), NEW t \in Seq(Job)
    PROVE  \A i \in DOMAIN (s \o t) : \/ \E j \in DOMAIN s : (s \o t)[i] = s[j]
                                     \/ \E j \in DOMAIN t : (s \o t)[i] = t[j]
<1> SUFFICES ASSUME NEW i \in DOMAIN (s \o t)
             PROVE  \/ \E j \in DOMAIN s : (s \o t)[i] = s[j]
                    \/ \E j \in DOMAIN t : (s \o t)[i] = t[j]
  OBVIOUS
<1>1. /\ i \in 1..Len(s) + Len(t) /\ Len(s) \in Nat /\ Len(t) \in Nat
      /\ DOMAIN s = 1..Len(s) /\ DOMAIN t = 1..Len(t)
  OBVIOUS
<1>2. CASE i <= Len(s)
  <2>1. i \in DOMAIN s /\ (s \o t)[i] = s[i]
    BY <1>1, <1>2
  <2>. QED BY <2>1
<1>3. CASE i > Len(s)
  <2>1. i - Len(s) \in DOMAIN t /\ (s \o t)[i] = t[i - Len(s)]
    BY <1>1, <1>3
  <2>. QED BY <2>1
<1>. QED BY <1>1, <1>2, <1>3

\* Jobs of a later epoch are new to the queue.
LEMMA DistinctConcat ==
    ASSUME NEW s \in Seq(Job), NEW t \in Seq(Job), DistinctIn(s), DistinctIn(t),
           \A i \in DOMAIN s, j \in DOMAIN t : Key(s[i]) # Key(t[j])
    PROVE  DistinctIn(s \o t)
<1> SUFFICES ASSUME NEW i \in DOMAIN (s \o t), NEW j \in DOMAIN (s \o t), i # j
             PROVE  Key((s \o t)[i]) # Key((s \o t)[j])
  BY DEF DistinctIn
<1>0. /\ i \in 1..Len(s) + Len(t) /\ j \in 1..Len(s) + Len(t) /\ Len(s) \in Nat /\ Len(t) \in Nat
      /\ DOMAIN s = 1..Len(s) /\ DOMAIN t = 1..Len(t)
  OBVIOUS
<1>1. /\ \A n \in 1..Len(s) : (s \o t)[n] = s[n]
      /\ \A n \in Len(s) + 1..Len(s) + Len(t) : (s \o t)[n] = t[n - Len(s)] /\ n - Len(s) \in DOMAIN t
  BY <1>0
<1>2. CASE i <= Len(s) /\ j <= Len(s)
  BY <1>0, <1>1, <1>2 DEF DistinctIn
<1>3. CASE i <= Len(s) /\ j > Len(s)
  BY <1>0, <1>1, <1>3
<1>4. CASE i > Len(s) /\ j <= Len(s)
  BY <1>0, <1>1, <1>4
<1>5. CASE i > Len(s) /\ j > Len(s)
  <2>1. i - Len(s) # j - Len(s)
    BY <1>0
  <2>. QED BY <1>0, <1>1, <1>5, <2>1 DEF DistinctIn
<1>. QED BY <1>0, <1>2, <1>3, <1>4, <1>5

\* With one context every step keeps EpochInv.
LEMMA EpochStep ==
    ASSUME \A c, d \in Callers : c = d
    PROVE  IInv /\ EpochInv /\ [Next]_vars => EpochInv'
<1> SUFFICES ASSUME IInv, EpochInv, [Next]_vars PROVE EpochInv'
  OBVIOUS
<1>0. /\ queue \in [Pools -> Seq(Job)] /\ tickets \in [Pools -> [Tensors -> Ticket]]
      /\ epoch \in Nat
      /\ \A p \in Pools, w \in Tensors : tickets[p][w].epoch \in Nat
  BY DEF IInv, Typed, QueuesTyped, TicketsTyped, EngineTyped, Ticket
<1>1. /\ epoch <= epoch' /\ epoch' \in Nat
      /\ \A c \in Callers : ca'[c].pc # "idle" => ca'[c].seen = epoch'
  BY SeenStep DEF EpochInv
<1>2. \A p \in Pools : \A i \in DOMAIN queue[p] : /\ queue[p][i] \in Job /\ queue[p][i].w \in Tensors
                                                  /\ queue[p][i].e \in Nat
  <2>1. \A p \in Pools : \A i \in DOMAIN queue[p] : queue[p][i] \in Job
    BY <1>0
  <2>. QED BY <2>1 DEF Job
<1>3. CASE ~\E c \in Callers : Enqueue(c)
  <2>1. /\ \A p \in Pools : Shrinks(p)
        /\ \A p \in Pools, w \in Tensors : tickets'[p][w].epoch = tickets[p][w].epoch
    BY <1>3, ShrinkSteps DEF TicketKept
  <2>2. \A p \in Pools, w \in Tensors : tickets'[p][w].epoch <= epoch'
    BY <1>0, <1>1, <2>1 DEF EpochInv
  <2>3. ASSUME NEW p \in Pools
        PROVE  /\ \A i \in DOMAIN queue'[p] : queue'[p][i].e <= tickets'[p][queue'[p][i].w].epoch
               /\ DistinctIn(queue'[p])
    <3>1. CASE queue'[p] = queue[p]
      BY <1>2, <2>1, <3>1 DEF EpochInv
    <3>2. CASE queue'[p] = <<>>
      BY <3>2 DEF DistinctIn
    <3>3. CASE queue[p] # <<>> /\ queue'[p] = Tail(queue[p])
      <4>1. queue[p] \in Seq(Job)
        BY <1>0
      <4>2. \A i \in DOMAIN queue'[p] : i + 1 \in DOMAIN queue[p] /\ queue'[p][i] = queue[p][i + 1]
                                        /\ i \in Nat
        BY <3>3, <4>1
      <4>3. \A i \in DOMAIN queue'[p] : queue'[p][i].e <= tickets'[p][queue'[p][i].w].epoch
        BY <1>2, <2>1, <4>2 DEF EpochInv
      <4>4. \A i, j \in DOMAIN queue'[p] : i # j => i + 1 # j + 1
        BY <4>2
      <4>5. DistinctIn(queue[p])
        BY DEF EpochInv
      <4>6. DistinctIn(queue'[p])
        BY <4>2, <4>4, <4>5 DEF DistinctIn
      <4>. QED BY <4>3, <4>6
    <3>. QED BY <2>1, <3>1, <3>2, <3>3 DEF Shrinks
  <2>. QED BY <1>1, <2>2, <2>3 DEF EpochInv, DistinctIn, Key
<1>4. CASE \E c \in Callers : Enqueue(c)
  <2>1. PICK c \in Callers : Enqueue(c)
    BY <1>4
  <2>2. PICK h \in Pools, w \in Tensors, jobs \in Seq(Job) :
          /\ EnqueueEffect(c, h, w, jobs) /\ h = ca[c].held /\ w = Arg(c)
          /\ ChunksFor(c, w, jobs)
    BY <2>1, EnqueueJobs
  <2>3. ca[c].seen = epoch /\ epoch' = epoch
    BY <2>1 DEF EpochInv, Enqueue
  <2>4. \A p \in Pools, v \in Tensors : /\ tickets[p][v].epoch <= tickets'[p][v].epoch
                                        /\ tickets'[p][v].epoch <= epoch'
                                        /\ tickets'[p][v].epoch \in Nat
    <3>1. \A p \in Pools, v \in Tensors : tickets'[p][v].epoch \in {tickets[p][v].epoch, epoch}
      BY <2>2, <2>3, Zenon DEF EnqueueEffect
    <3>2. \A p \in Pools, v \in Tensors : tickets[p][v].epoch <= epoch
      BY Zenon DEF EpochInv
    <3>3. \A p \in Pools, v \in Tensors : tickets[p][v].epoch \in Nat /\ epoch \in Nat
      BY <1>0
    <3>. QED BY <2>3, <3>1, <3>2, <3>3
  <2>5. \A p \in Pools : \A i \in DOMAIN queue[p] :
           queue[p][i].e <= tickets'[p][queue[p][i].w].epoch
    BY <1>0, <1>2, <2>4 DEF EpochInv
  <2>6. \A p \in Pools : p # h => queue'[p] = queue[p]
    BY <2>2 DEF EnqueueEffect
  <2>7. /\ \A i \in DOMAIN queue'[h] : queue'[h][i].e <= tickets'[h][queue'[h][i].w].epoch
        /\ DistinctIn(queue'[h])
    <3>1. CASE queue'[h] = queue[h]
      BY <2>5, <3>1 DEF EpochInv
    <3>2. CASE /\ tickets[h][w].epoch # ca[c].seen /\ tickets'[h][w].epoch = ca[c].seen
               /\ queue'[h] = jobs \o queue[h] \/ queue'[h] = queue[h] \o jobs
      <4>0. queue[h] \in Seq(Job) /\ DistinctIn(queue[h])
        BY <1>0 DEF EpochInv
      <4>1. \A i \in DOMAIN jobs : jobs[i].w = w /\ jobs[i].i = i /\ jobs[i].e = ca[c].seen
        BY <2>2 DEF ChunksFor
      <4>2. DistinctIn(jobs)
        BY <4>1 DEF DistinctIn, Key
      <4>3. tickets[h][w].epoch < epoch
        BY <1>0, <2>3, <3>2 DEF EpochInv
      <4>4. ASSUME NEW i \in DOMAIN queue[h], NEW j \in DOMAIN jobs
            PROVE  Key(queue[h][i]) # Key(jobs[j])
        <5>1. queue[h][i].e <= tickets[h][queue[h][i].w].epoch /\ queue[h][i].e \in Nat
          BY <1>2 DEF EpochInv
        <5>2. CASE queue[h][i].w = w
          <6>1. queue[h][i].e # epoch
            BY <1>0, <4>3, <5>1, <5>2
          <6>. QED BY <2>3, <4>1, <6>1 DEF Key
        <5>3. CASE queue[h][i].w # w
          BY <4>1, <5>3 DEF Key
        <5>. QED BY <5>2, <5>3
      <4>5. DistinctIn(jobs \o queue[h]) /\ DistinctIn(queue[h] \o jobs)
        BY <4>0, <4>2, <4>4, DistinctConcat
      <4>6. \A i \in DOMAIN jobs : jobs[i].e <= tickets'[h][jobs[i].w].epoch
        BY <1>0, <2>3, <3>2, <4>1
      <4>7. \A i \in DOMAIN queue'[h] : \/ \E j \in DOMAIN jobs : queue'[h][i] = jobs[j]
                                        \/ \E j \in DOMAIN queue[h] : queue'[h][i] = queue[h][j]
        <5>1. \A i \in DOMAIN (jobs \o queue[h]) :
                 \/ \E j \in DOMAIN jobs : (jobs \o queue[h])[i] = jobs[j]
                 \/ \E j \in DOMAIN queue[h] : (jobs \o queue[h])[i] = queue[h][j]
          BY <4>0, ConcatElements
        <5>2. \A i \in DOMAIN (queue[h] \o jobs) :
                 \/ \E j \in DOMAIN queue[h] : (queue[h] \o jobs)[i] = queue[h][j]
                 \/ \E j \in DOMAIN jobs : (queue[h] \o jobs)[i] = jobs[j]
          BY <4>0, ConcatElements
        <5>. QED BY <3>2, <5>1, <5>2, ZenonT(30)
      <4>. QED BY <2>5, <3>2, <4>5, <4>6, <4>7
    <3>. QED BY <2>2, <3>1, <3>2 DEF EnqueueEffect
  <2>8. ASSUME NEW p \in Pools
        PROVE  /\ \A i \in DOMAIN queue'[p] : queue'[p][i].e <= tickets'[p][queue'[p][i].w].epoch
               /\ DistinctIn(queue'[p])
    BY <2>5, <2>6, <2>7 DEF EpochInv
  <2>. QED BY <1>1, <2>4, <2>8 DEF EpochInv, DistinctIn, Key
<1>. QED BY <1>3, <1>4

\* EpochInv holds at first.
LEMMA EpochInit == Init => EpochInv
BY DEF Init, EpochInv, DistinctIn

\* EpochInv in the words of NoDuplicateJobs.
LEMMA EpochSays == EpochInv /\ LookaheadBounded => NoDuplicateJobs
BY DEF EpochInv, DistinctIn, Key, NoDuplicateJobs

\* However the lookahead, the scheduler and the kernel hook of the passes of one
\* context follow each other, no chunk is queued twice for the same epoch, and
\* the queue holds at most the depth and one tensor of lookahead.
THEOREM NoDuplicateJobsThm ==
    ASSUME \A c, d \in Callers : c = d
    PROVE  Spec => []NoDuplicateJobs
<1>1. IInv /\ EpochInv /\ [Next]_vars => EpochInv'
  BY EpochStep
<1>2. Spec => []EpochInv
  BY <1>1, EpochInit, IInvHolds, PTL DEF Spec
<1>. QED BY <1>2, AheadHolds, EpochSays, PTL

-----------------------------------------------------------------------------
(* A wait covers the jobs of its pass                                       *)

\* The jobs of a pool that are queued or being read.
JobsIn(p) ==
    {queue[p][i] : i \in DOMAIN queue[p]}
    \cup {wk[p][k].job : k \in {q \in Workers : wk[p][q].pc = "run"}}

\* Only an enqueue adds jobs ...
LEMMA JobsShrink ==
    ASSUME IInv, [Next]_vars, ~\E c \in Callers : Enqueue(c), NEW p \in Pools
    PROVE  JobsIn(p)' \subseteq JobsIn(p)
<1>0. queue \in [Pools -> Seq(Job)] /\ wk \in [Pools -> [Workers -> Worker]] /\ queue[p] \in Seq(Job)
  BY DEF IInv, Typed, QueuesTyped, WorkersTyped
<1>1. Shrinks(p)
  BY ShrinkSteps
<1>2. \A i \in DOMAIN queue'[p] : \E n \in DOMAIN queue[p] : queue'[p][i] = queue[p][n]
  <2>1. CASE queue[p] # <<>> /\ queue'[p] = Tail(queue[p])
    <3>1. \A i \in DOMAIN queue'[p] : i + 1 \in DOMAIN queue[p] /\ queue'[p][i] = queue[p][i + 1]
      BY <1>0, <2>1
    <3>. QED BY <3>1
  <2>. QED BY <1>1, <2>1 DEF Shrinks
<1>3. ASSUME NEW k \in Workers, wk'[p][k].pc = "run"
      PROVE  \/ wk[p][k].pc = "run" /\ wk'[p][k].job = wk[p][k].job
             \/ \E n \in DOMAIN queue[p] : wk'[p][k].job = queue[p][n]
  <2>1. CASE wk'[p][k] = wk[p][k]
    BY <1>3, <2>1
  <2>2. ASSUME NEW q \in Pools, NEW m \in Workers, WorkerStep(q, m), ~(q = p /\ m = k)
        PROVE  wk'[p][k] = wk[p][k]
    <3>1. \E x : wk' = [wk EXCEPT ![q][m] = x]
      BY <2>2 DEF WorkerStep, WorkerTake, WorkerExit, WorkerRun, WorkerSettle
    <3>. QED BY <1>0, <2>2, <3>1
  <2>3. CASE WorkerStep(p, k)
    <3>1. CASE WorkerTake(p, k)
      <4>1. wk'[p][k].job = Head(queue[p]) /\ queue[p] # <<>>
        BY <1>0, <3>1 DEF WorkerTake
      <4>2. 1 \in DOMAIN queue[p] /\ Head(queue[p]) = queue[p][1]
        BY <1>0, <4>1
      <4>. QED BY <4>1, <4>2
    <3>2. CASE WorkerExit(p, k)
      <4>1. wk'[p][k].pc = "exited"
        BY <1>0, <3>2 DEF WorkerExit, Worker
      <4>. QED BY <1>3, <4>1
    <3>3. CASE WorkerRun(p, k)
      <4>1. wk'[p][k].pc = "settle"
        BY <1>0, <3>3 DEF WorkerRun
      <4>. QED BY <1>3, <4>1
    <3>4. CASE WorkerSettle(p, k)
      <4>1. wk'[p][k].pc = "wait"
        BY <1>0, <3>4 DEF WorkerSettle
      <4>. QED BY <1>3, <4>1
    <3>. QED BY <2>3, <3>1, <3>2, <3>3, <3>4 DEF WorkerStep
  <2>4. CASE \E c \in Callers : NewEpoch(c) \/ CallerStep(c)
    <3>1. UNCHANGED wk
      BY <2>4 DEF CallerStep, NewEpoch, NextSplit, TakePool, Enqueue, WaitLookup, WaitCheck, Cold,
                  Eval, DropPool, CallerJoin, poolVars
    <3>. QED BY <2>1, <3>1
  <2>5. CASE ResetPool \/ StartPool \/ UNCHANGED vars
    <3>1. UNCHANGED wk
      BY <2>5 DEF ResetPool, StartPool, vars, poolVars
    <3>. QED BY <2>1, <3>1
  <2>. QED BY <2>1, <2>2, <2>3, <2>4, <2>5 DEF Next
<1>. QED BY <1>2, <1>3 DEF JobsIn

\* ... and the jobs it adds are of its pass, in the pool it holds.
LEMMA JobsGrow ==
    ASSUME IInv, NEW c \in Callers, Enqueue(c), NEW p \in Pools, NEW j \in JobsIn(p)'
    PROVE  j \in JobsIn(p) \/ (p = ca[c].held /\ j.pass = ca[c].pass)
<1>1. PICK h \in Pools, w \in Tensors, jobs \in Seq(Job) :
        /\ EnqueueEffect(c, h, w, jobs) /\ h = ca[c].held /\ w = Arg(c)
        /\ ChunksFor(c, w, jobs)
  BY EnqueueJobs
<1>2. UNCHANGED wk /\ queue[p] \in Seq(Job)
  BY DEF Enqueue, IInv, Typed, QueuesTyped
<1>3. CASE \E k \in Workers : wk'[p][k].pc = "run" /\ j = wk'[p][k].job
  BY <1>2, <1>3 DEF JobsIn
<1>4. ASSUME NEW i \in DOMAIN queue'[p], j = queue'[p][i]
      PROVE  j \in JobsIn(p) \/ (p = ca[c].held /\ j.pass = ca[c].pass)
  <2>1. CASE queue'[p] = queue[p]
    BY <1>4, <2>1 DEF JobsIn
  <2>2. CASE p = h /\ (queue'[p] = jobs \o queue[p] \/ queue'[p] = queue[p] \o jobs)
    <3>1. \A n \in DOMAIN (jobs \o queue[p]) :
             \/ \E m \in DOMAIN jobs : (jobs \o queue[p])[n] = jobs[m]
             \/ \E m \in DOMAIN queue[p] : (jobs \o queue[p])[n] = queue[p][m]
      BY <1>2, ConcatElements
    <3>2. \A n \in DOMAIN (queue[p] \o jobs) :
             \/ \E m \in DOMAIN queue[p] : (queue[p] \o jobs)[n] = queue[p][m]
             \/ \E m \in DOMAIN jobs : (queue[p] \o jobs)[n] = jobs[m]
      BY <1>2, ConcatElements
    <3>3. \/ \E m \in DOMAIN jobs : j = jobs[m]
          \/ \E m \in DOMAIN queue[p] : j = queue[p][m]
      <4>1. CASE queue'[p] = jobs \o queue[p]
        <5>1. i \in DOMAIN (jobs \o queue[p]) /\ j = (jobs \o queue[p])[i]
          BY <1>4, <4>1
        <5>. QED BY <3>1, <5>1, Zenon
      <4>2. CASE queue'[p] = queue[p] \o jobs
        <5>1. i \in DOMAIN (queue[p] \o jobs) /\ j = (queue[p] \o jobs)[i]
          BY <1>4, <4>2
        <5>. QED BY <3>2, <5>1, Zenon
      <4>. QED BY <2>2, <4>1, <4>2
    <3>4. \A m \in DOMAIN jobs : jobs[m].pass = ca[c].pass
      BY <1>1 DEF ChunksFor
    <3>5. \A m \in DOMAIN queue[p] : queue[p][m] \in JobsIn(p)
      BY DEF JobsIn
    <3>. QED BY <1>1, <2>2, <3>3, <3>4, <3>5
  <2>. QED BY <1>1, <2>1, <2>2 DEF EnqueueEffect
<1>. QED BY <1>3, <1>4 DEF JobsIn

\* The calls of a pass that waits for its tensors: all lookahead of a split comes
\* before its wait, and the other calls are about the split itself.
Shape(ops, split) ==
    \A i \in DOMAIN ops :
        /\ ops[i][1] # "node"
        /\ ops[i][1] # "tensor" => ops[i][2] = split
        /\ ops[i][1] = "tensor" => i + 1 \in DOMAIN ops /\ ops[i + 1][1] \in {"tensor", "wait"}

\* The calls that are left keep the shape.
LEMMA ShapeTail ==
    ASSUME NEW ops \in Seq(Op), ops # <<>>, NEW split, Shape(ops, split)
    PROVE  Shape(Tail(ops), split)
<1>1. /\ Tail(ops) \in Seq(Op) /\ Len(Tail(ops)) = Len(ops) - 1 /\ Len(ops) \in Nat
      /\ DOMAIN Tail(ops) = 1..Len(ops) - 1 /\ DOMAIN ops = 1..Len(ops)
      /\ \A i \in 1..Len(ops) - 1 : Tail(ops)[i] = ops[i + 1]
  OBVIOUS
<1> SUFFICES ASSUME NEW i \in 1..Len(ops) - 1
             PROVE  /\ ops[i + 1][1] # "node"
                    /\ ops[i + 1][1] # "tensor" => ops[i + 1][2] = split
                    /\ ops[i + 1][1] = "tensor" =>
                          i + 1 \in 1..Len(ops) - 1 /\ Tail(ops)[i + 1][1] \in {"tensor", "wait"}
  BY <1>1 DEF Shape
<1>2. i + 1 \in DOMAIN ops
  BY <1>1
<1>3. /\ ops[i + 1][1] # "node"
      /\ ops[i + 1][1] # "tensor" => ops[i + 1][2] = split
      /\ ops[i + 1][1] = "tensor" =>
            (i + 1) + 1 \in DOMAIN ops /\ ops[(i + 1) + 1][1] \in {"tensor", "wait"}
  BY <1>2 DEF Shape
<1>4. (i + 1) + 1 \in DOMAIN ops => i + 1 \in 1..Len(ops) - 1
  BY <1>1
<1>. QED BY <1>1, <1>3, <1>4

\* SplitOps gives a pass that waits calls of that shape, and begins before the wait.
LEMMA ShapeSplit ==
    ASSUME NEW w \in Tensors
    PROVE  /\ Shape(SplitOps("offload", w), w)
           /\ SplitOps("offload", w) \in Seq(Op)
           /\ SplitOps("offload", w) # <<>>
           /\ Head(SplitOps("offload", w))[1] \in {"tensor", "wait"}
<1>1. PICK s \in Seq(Op) : s = AheadOf(w) /\ \A i \in DOMAIN s : s[i][1] = "tensor"
  <2>1. CASE w = 1
    <3> DEFINE n == IF Ahead < NTensors THEN Ahead ELSE NTensors
    <3>1. n \in Nat /\ \A k \in 1..n : <<"tensor", k>> \in Op
      BY ConstantsAssumption DEF Op, Tensors
    <3>2. AheadOf(w) = [k \in 1..n |-> <<"tensor", k>>]
      BY <2>1 DEF AheadOf
    <3> HIDE DEF n
    <3>3. AheadOf(w) \in Seq(Op) /\ \A i \in DOMAIN AheadOf(w) : AheadOf(w)[i][1] = "tensor"
      BY <3>1, <3>2
    <3>. QED BY <3>3
  <2>2. CASE w # 1 /\ Ahead > 0 /\ w + Ahead - 1 <= NTensors
    <3>1. PICK v \in Tensors : v = w + Ahead - 1
      BY <2>2, ConstantsAssumption DEF Tensors
    <3>2. AheadOf(w) = << <<"tensor", v>> >> /\ <<"tensor", v>> \in Op
      BY <2>2, <3>1 DEF AheadOf, Op
    <3>3. AheadOf(w) \in Seq(Op) /\ \A i \in DOMAIN AheadOf(w) : AheadOf(w)[i][1] = "tensor"
      BY <3>2
    <3>. QED BY <3>3
  <2>3. CASE w # 1 /\ ~(Ahead > 0 /\ w + Ahead - 1 <= NTensors)
    <3>1. AheadOf(w) = <<>>
      BY <2>3 DEF AheadOf
    <3>2. <<>> \in Seq(Op) /\ \A i \in DOMAIN <<>> : FALSE
      OBVIOUS
    <3>. QED BY <3>1, <3>2, Zenon
  <2>. QED BY <2>1, <2>2, <2>3
<1>2. PICK a \in Op, b \in Op, d \in Op : a = <<"wait", w>> /\ b = <<"eval", w>> /\ d = <<"cold", w>>
  BY DEF Op
<1> DEFINE x == (s \o <<a>>) \o <<b, d>>
<1>3. SplitOps("offload", w) = x
  BY <1>1, <1>2 DEF SplitOps
<1>4. /\ s \o <<a>> \in Seq(Op) /\ Len(s \o <<a>>) = Len(s) + 1 /\ Len(s) \in Nat
      /\ \A i \in 1..Len(s) : (s \o <<a>>)[i] = s[i]
      /\ (s \o <<a>>)[Len(s) + 1] = a
  OBVIOUS
<1>5. /\ x \in Seq(Op) /\ Len(x) = Len(s) + 3
      /\ \A i \in 1..Len(s) + 1 : x[i] = (s \o <<a>>)[i]
      /\ x[Len(s) + 2] = b /\ x[Len(s) + 3] = d
  BY <1>4
<1>6. /\ Len(s) \in Nat /\ DOMAIN s = 1..Len(s) /\ DOMAIN x = 1..Len(s) + 3 /\ x \in Seq(Op)
      /\ \A i \in 1..Len(s) : x[i] = s[i]
      /\ x[Len(s) + 1] = <<"wait", w>>
      /\ x[Len(s) + 2] = <<"eval", w>>
      /\ x[Len(s) + 3] = <<"cold", w>>
  BY <1>2, <1>4, <1>5
<1> HIDE DEF x
<1>7. ASSUME NEW i \in 1..Len(s) + 3
      PROVE  /\ x[i][1] # "node"
             /\ x[i][1] # "tensor" => x[i][2] = w
             /\ x[i][1] = "tensor" =>
                   i + 1 \in 1..Len(s) + 3 /\ x[i + 1][1] \in {"tensor", "wait"}
  <2>1. CASE i < Len(s)
    <3>1. i \in 1..Len(s) /\ i + 1 \in 1..Len(s)
      BY <1>6, <2>1
    <3>. QED BY <1>1, <1>6, <3>1
  <2>2. CASE i = Len(s)
    BY <1>1, <1>6, <2>2
  <2>3. CASE i = Len(s) + 1
    BY <1>6, <2>3
  <2>4. CASE i = Len(s) + 2
    BY <1>6, <2>4
  <2>5. CASE i = Len(s) + 3
    BY <1>6, <2>5
  <2>6. i < Len(s) \/ i = Len(s) \/ i = Len(s) + 1 \/ i = Len(s) + 2 \/ i = Len(s) + 3
    <3>1. Len(s) \in Nat
      BY <1>6
    <3>. QED BY <3>1
  <2>. QED BY <2>1, <2>2, <2>3, <2>4, <2>5, <2>6, Zenon
<1>8. Shape(x, w)
  BY <1>6, <1>7 DEF Shape
<1>9. x # <<>> /\ Head(x) = x[1]
  BY <1>6
<1>10. x[1][1] \in {"tensor", "wait"}
  <2>1. CASE Len(s) = 0
    BY <1>6, <2>1
  <2>2. CASE Len(s) > 0
    BY <1>1, <1>6, <2>2
  <2>. QED BY <1>6, <2>1, <2>2
<1>. QED BY <1>3, <1>6, <1>8, <1>9, <1>10

\* The part of a caller that only its own steps change.
Keeps(d) ==
    /\ ca'[d].kind = ca[d].kind /\ ca'[d].split = ca[d].split /\ ca'[d].ops = ca[d].ops
    /\ ca'[d].pass = ca[d].pass /\ ca'[d].held = ca[d].held
    /\ ca'[d].pc = ca[d].pc \/ (ca[d].pc = "asleep" /\ ca'[d].pc = "check")

\* Workers and the replacement of the pool only wake callers.
LEMMA QuietStep ==
    ASSUME IInv, [Next]_vars, ~\E c \in Callers : NewEpoch(c) \/ CallerStep(c)
    PROVE  /\ \A d \in Callers : Keeps(d)
           /\ epoch' = epoch
           /\ \/ UNCHANGED <<pool, mgr>>
              \/ /\ mgr # "done"
                 /\ (pool' = 2 /\ mgr' = "done") \/ (pool' = pool /\ mgr' = "joining")
<1>0. ca \in [Callers -> Caller]
  BY DEF IInv, Typed, CallersTyped
<1>1. CASE \E p \in Pools, k \in Workers : WorkerStep(p, k)
  <2>1. PICK p \in Pools, k \in Workers : WorkerStep(p, k)
    BY <1>1
  <2>2. UNCHANGED <<pool, mgr, epoch>>
    BY <2>1 DEF WorkerStep, WorkerTake, WorkerExit, WorkerRun, WorkerSettle
  <2>3. ASSUME NEW d \in Callers PROVE Keeps(d)
    <3>1. ca'[d] = ca[d] \/ (ca[d].pc = "asleep" /\ ca'[d] = [ca[d] EXCEPT !.pc = "check"])
      BY <1>0, <2>1 DEF WorkerStep, WorkerTake, WorkerExit, WorkerRun, WorkerSettle
    <3>2. ca[d] \in Caller
      BY <1>0
    <3>. QED BY <3>1, <3>2 DEF Keeps, Caller
  <2>. QED BY <2>2, <2>3
<1>2. CASE ResetPool \/ StartPool
  BY <1>2 DEF ResetPool, StartPool, Keeps, poolVars
<1>3. CASE UNCHANGED vars
  BY <1>3 DEF vars, Keeps
<1>. QED BY <1>1, <1>2, <1>3 DEF Next

\* What a step of a pass does to its caller: it goes on to the next split, begins
\* a call, moves inside a call, evaluates the split, or leaves the call.
CallerMove(c) ==
    \/ /\ ca[c].pc = "idle" /\ ca[c].ops = <<>> /\ ca[c].split < NTensors
       /\ ca'[c].pc = "idle" /\ ca'[c].held = ca[c].held /\ ca'[c].split = ca[c].split + 1
       /\ ca'[c].ops = SplitOps(ca[c].kind, ca[c].split + 1)
    \/ /\ ca[c].pc = "idle" /\ ca[c].ops # <<>> /\ Head(ca[c].ops)[1] # "eval"
       /\ ca'[c].pc = Head(ca[c].ops)[1] /\ ca'[c].held = pool
       /\ ca'[c].split = ca[c].split /\ ca'[c].ops = ca[c].ops
    \/ /\ ca[c].pc # "idle"
       /\ ca'[c].held = ca[c].held /\ ca'[c].split = ca[c].split /\ ca'[c].ops = ca[c].ops
       /\ \/ ca[c].pc = "wait" /\ ca'[c].pc = "check"
          \/ ca[c].pc = "check" /\ ca'[c].pc = "asleep"
          \/ ca[c].pc = "return" /\ ca'[c].pc = "join"
          \/ ca[c].pc \in {"tensor", "node", "cold"} /\ ca'[c].pc = "return"
          \/ WaitLookup(c) /\ ca'[c].pc = "return"
          \/ WaitCheck(c) /\ ca'[c].pc = "return"
    \/ /\ ca[c].pc = "idle" /\ ca[c].ops # <<>> /\ Head(ca[c].ops)[1] = "eval"
       /\ ca'[c].pc = "idle" /\ ca'[c].held = ca[c].held
       /\ \/ ca'[c].ops = Tail(ca[c].ops) /\ ca'[c].split = ca[c].split
          \/ ca'[c].ops = <<>> /\ ca'[c].split = NTensors
    \/ /\ ca[c].pc \in {"return", "join"} /\ ca'[c].pc = "idle" /\ ca'[c].held = NoPool
       /\ ca'[c].ops = Tail(ca[c].ops) /\ ca'[c].split = ca[c].split

\* Every step of a pass is one of those moves, and leaves the other callers alone.
LEMMA CallerMoved ==
    ASSUME IInv, NEW c \in Callers, CallerStep(c)
    PROVE  /\ CallerMove(c) /\ ca'[c].kind = ca[c].kind /\ ca'[c].pass = ca[c].pass
           /\ \A d \in Callers : d # c => ca'[d] = ca[d]
           /\ UNCHANGED <<epoch, pool, mgr>>
<1>0. ca \in [Callers -> Caller] /\ ca[c] \in Caller
  BY DEF IInv, Typed, CallersTyped
<1>1. UNCHANGED <<epoch, pool, mgr>>
  BY DEF CallerStep, NextSplit, TakePool, Enqueue, WaitLookup, WaitCheck, Cold, Eval, DropPool,
         CallerJoin
<1>2. ASSUME NEW pc, ca' = [ca EXCEPT ![c].pc = pc]
      PROVE  /\ ca'[c].pc = pc /\ ca'[c].held = ca[c].held /\ ca'[c].split = ca[c].split
             /\ ca'[c].ops = ca[c].ops /\ ca'[c].kind = ca[c].kind /\ ca'[c].pass = ca[c].pass
             /\ \A d \in Callers : d # c => ca'[d] = ca[d]
  BY <1>0, <1>2 DEF Caller
<1>3. ASSUME ca' = [ca EXCEPT ![c].pc = "idle", ![c].ops = Tail(ca[c].ops), ![c].held = NoPool]
      PROVE  /\ ca'[c].pc = "idle" /\ ca'[c].held = NoPool /\ ca'[c].split = ca[c].split
             /\ ca'[c].ops = Tail(ca[c].ops) /\ ca'[c].kind = ca[c].kind
             /\ ca'[c].pass = ca[c].pass
             /\ \A d \in Callers : d # c => ca'[d] = ca[d]
  BY <1>0, <1>3 DEF Caller
<1>4. CASE NextSplit(c)
  BY <1>0, <1>1, <1>4 DEF NextSplit, Caller, CallerMove
<1>5. CASE TakePool(c)
  BY <1>0, <1>1, <1>5 DEF TakePool, Caller, CallerMove
<1>6. CASE Enqueue(c) \/ Cold(c)
  <2>1. ca' = [ca EXCEPT ![c].pc = "return"] /\ ca[c].pc \in {"tensor", "node", "cold"}
    BY <1>6 DEF Enqueue, Cold, Return
  <2>. QED BY <1>1, <1>2, <2>1 DEF CallerMove
<1>7. CASE WaitLookup(c)
  <2>1. ca[c].pc = "wait" /\ (Return(c) \/ ca' = [ca EXCEPT ![c].pc = "check"])
    BY <1>7 DEF WaitLookup
  <2>. QED BY <1>1, <1>2, <1>7, <2>1 DEF CallerMove, Return
<1>8. CASE WaitCheck(c)
  <2>1. ca[c].pc = "check" /\ (Return(c) \/ ca' = [ca EXCEPT ![c].pc = "asleep"])
    BY <1>8 DEF WaitCheck
  <2>. QED BY <1>1, <1>2, <1>8, <2>1 DEF CallerMove, Return
<1>9. CASE Eval(c)
  BY <1>0, <1>1, <1>9 DEF Eval, Caller, CallerMove
<1>10. CASE DropPool(c) \/ CallerJoin(c)
  <2>1. /\ ca[c].pc \in {"return", "join"}
        /\ \/ ca' = [ca EXCEPT ![c].pc = "idle", ![c].ops = Tail(ca[c].ops), ![c].held = NoPool]
           \/ ca[c].pc = "return" /\ ca' = [ca EXCEPT ![c].pc = "join"]
    BY <1>10 DEF DropPool, CallerJoin
  <2>. QED BY <1>1, <1>2, <1>3, <2>1 DEF CallerMove
<1>. QED BY <1>4, <1>5, <1>6, <1>7, <1>8, <1>9, <1>10 DEF CallerStep

\* The call a caller is in is the first of the calls it has to make.
FlowOf(c) ==
    /\ ca[c].pc \in {"tensor", "node", "wait", "cold"} => Head(ca[c].ops)[1] = ca[c].pc
    /\ ca[c].pc \in {"check", "asleep"} => Head(ca[c].ops)[1] = "wait"
    /\ ca[c].kind = "offload" => Shape(ca[c].ops, ca[c].split)
FlowInv == \A c \in Callers : FlowOf(c)

\* A new pass begins with an epoch of its own and without calls.
LEMMA NewEpochEffect ==
    ASSUME IInv, NEW c \in Callers, NewEpoch(c)
    PROVE  /\ ca[c].pc = "idle" /\ epoch' = epoch + 1 /\ UNCHANGED <<pool, mgr, poolVars>>
           /\ ca'[c].pc = "idle" /\ ca'[c].split = 0 /\ ca'[c].ops = <<>> /\ ca'[c].held = NoPool
           /\ ca'[c].pass = epoch + 1
           /\ \A d \in Callers : d # c => ca'[d] = ca[d]
BY DEF NewEpoch, IInv, Typed, CallersTyped

\* Every step keeps a caller in the first of its calls.
LEMMA FlowStep == IInv /\ FlowInv /\ [Next]_vars => FlowInv'
<1> SUFFICES ASSUME IInv, FlowInv, [Next]_vars, NEW d \in Callers PROVE FlowOf(d)'
  BY DEF FlowInv
<1>0. /\ FlowOf(d) /\ ca[d] \in Caller /\ ca[d].ops \in Seq(Op) /\ ca[d].split \in 0..NTensors
      /\ ca[d].kind \in Kinds /\ (ca[d].pc # "idle" => ca[d].ops # <<>>)
  BY DEF FlowInv, IInv, Typed, CallersTyped, Caller
<1>1. CASE Keeps(d)
  BY <1>0, <1>1 DEF Keeps, FlowOf
<1>2. CASE ca'[d] = ca[d]
  BY <1>0, <1>2 DEF FlowOf
<1>3. CASE NewEpoch(d)
  <2>1. ca'[d].pc = "idle" /\ ca'[d].ops = <<>>
    BY <1>3, NewEpochEffect
  <2>. QED BY <2>1 DEF FlowOf, Shape
<1>4. CASE CallerStep(d)
  <2>1. CallerMove(d) /\ ca'[d].kind = ca[d].kind
    BY <1>4, CallerMoved
  <2>2. CASE /\ ca'[d].pc = "idle" /\ ca'[d].split = ca[d].split + 1 /\ ca[d].split < NTensors
             /\ ca'[d].ops = SplitOps(ca[d].kind, ca[d].split + 1)
    <3>1. ca[d].split + 1 \in Tensors
      BY <1>0, <2>2, ConstantsAssumption DEF Tensors
    <3>2. Shape(SplitOps("offload", ca[d].split + 1), ca[d].split + 1)
      BY <3>1, ShapeSplit
    <3>. QED BY <2>1, <2>2, <3>2 DEF FlowOf
  <2>3. CASE /\ ca'[d].pc = Head(ca[d].ops)[1]
             /\ ca'[d].split = ca[d].split /\ ca'[d].ops = ca[d].ops /\ ca[d].ops # <<>>
    <3>1. Head(ca[d].ops) \in Op
      BY <1>0, <2>3
    <3>2. ca'[d].pc \notin {"check", "asleep"}
      BY <2>3, <3>1 DEF Op
    <3>. QED BY <1>0, <2>1, <2>3, <3>2 DEF FlowOf
  <2>4. CASE /\ ca[d].pc # "idle" /\ ca'[d].split = ca[d].split /\ ca'[d].ops = ca[d].ops
             /\ \/ ca[d].pc = "wait" /\ ca'[d].pc = "check"
                \/ ca[d].pc = "check" /\ ca'[d].pc = "asleep"
                \/ ca'[d].pc \in {"return", "join"}
    BY <1>0, <2>1, <2>4 DEF FlowOf
  <2>5. CASE /\ ca[d].ops # <<>> /\ ca'[d].pc = "idle" /\ ca'[d].ops = Tail(ca[d].ops)
             /\ ca'[d].split = ca[d].split
    <3>1. ca[d].kind = "offload" => Shape(Tail(ca[d].ops), ca[d].split)
      BY <1>0, <2>5, ShapeTail DEF FlowOf
    <3>. QED BY <2>1, <2>5, <3>1 DEF FlowOf
  <2>6. CASE ca'[d].pc = "idle" /\ ca'[d].ops = <<>>
    BY <2>6 DEF FlowOf, Shape
  <2>. QED BY <1>0, <2>1, <2>2, <2>3, <2>4, <2>5, <2>6 DEF CallerMove
<1>5. CASE \E c \in Callers : (NewEpoch(c) \/ CallerStep(c)) /\ c # d
  BY <1>2, <1>5, NewEpochEffect, CallerMoved
<1>6. CASE ~\E c \in Callers : NewEpoch(c) \/ CallerStep(c)
  BY <1>1, <1>6, QuietStep
<1>. QED BY <1>3, <1>4, <1>5, <1>6

\* A pass has a number of its own, and its jobs carry it.  Before the pool is
\* replaced the second one has no jobs, and a caller that still uses the first has
\* put none in the second.
PassInv ==
    /\ \A c \in Callers : ca[c].pass <= epoch
    /\ \A c \in Callers : ca[c].pass = 0 => ca[c].ops = <<>> /\ ca[c].split = NTensors
    /\ \A c, d \in Callers : c # d /\ ca[c].pass = ca[d].pass => ca[c].pass = 0
    /\ \A p \in Pools : \A j \in JobsIn(p) : 0 < j.pass /\ j.pass <= epoch
    /\ mgr # "done" => JobsIn(2) = {}
    /\ \A c \in Callers : \A j \in JobsIn(2) : j.pass = ca[c].pass => ca[c].held # 1

\* What is queued or being read is a job.
LEMMA JobsInType ==
    ASSUME IInv, NEW p \in Pools, NEW j \in JobsIn(p)
    PROVE  j \in Job /\ j.pass \in Nat
<1>1. j \in Job
  <2>0. /\ queue[p] \in Seq(Job)
        /\ \A k \in Workers : wk[p][k].pc = "run" => wk[p][k].job \in Job
    BY DEF IInv, Typed, QueuesTyped, WorkersTyped
  <2>1. \A i \in DOMAIN queue[p] : queue[p][i] \in Job
    BY <2>0
  <2>. QED BY <2>0, <2>1 DEF JobsIn
<1>. QED BY <1>1 DEF Job

\* Every step keeps the numbers of passes apart and the second pool empty before its time.
LEMMA PassStep == IInv /\ PassInv /\ [Next]_vars => PassInv'
<1> SUFFICES ASSUME IInv, PassInv, [Next]_vars PROVE PassInv'
  OBVIOUS
<1>0. /\ epoch \in Nat /\ pool \in Pools /\ Succession
      /\ \A c \in Callers : /\ ca[c].pass \in Nat /\ ca[c].split \in 0..NTensors
                            /\ (ca[c].pc # "idle" => ca[c].ops # <<>>)
  BY DEF IInv, Typed, EngineTyped, CallersTyped, Caller
<1>a. 1 \in Pools /\ 2 \in Pools /\ NoPool # 1
  BY DEF Pools, NoPool
<1>1. ASSUME NEW c \in Callers, NewEpoch(c) PROVE PassInv'
  <2>1. /\ epoch' = epoch + 1 /\ UNCHANGED <<pool, mgr, poolVars>>
        /\ ca'[c].split = 0 /\ ca'[c].held = NoPool /\ ca'[c].pass = epoch + 1
        /\ \A d \in Callers : d # c => ca'[d] = ca[d]
    BY <1>1, NewEpochEffect
  <2>2. \A p \in Pools : JobsIn(p)' = JobsIn(p)
    BY <2>1 DEF JobsIn, poolVars
  <2>3. \A d \in Callers : ca'[d].pass <= epoch'
    BY <1>0, <2>1 DEF PassInv
  <2>4. \A d \in Callers : ca'[d].pass = 0 => ca'[d].ops = <<>> /\ ca'[d].split = NTensors
    BY <1>0, <2>1 DEF PassInv
  <2>5. \A b, d \in Callers : b # d /\ ca'[b].pass = ca'[d].pass => ca'[b].pass = 0
    BY <1>0, <2>1 DEF PassInv
  <2>6. \A p \in Pools : \A j \in JobsIn(p)' : 0 < j.pass /\ j.pass <= epoch'
    BY <1>0, <2>1, <2>2, JobsInType DEF PassInv
  <2>7. \A d \in Callers : \A j \in JobsIn(2)' : j.pass = ca'[d].pass => ca'[d].held # 1
    BY <1>a, <2>1, <2>2 DEF PassInv
  <2>. QED BY <1>a, <2>1, <2>2, <2>3, <2>4, <2>5, <2>6, <2>7 DEF PassInv
<1>2. ASSUME NEW c \in Callers, CallerStep(c) PROVE PassInv'
  <2>1. /\ CallerMove(c) /\ ca'[c].pass = ca[c].pass
        /\ \A d \in Callers : d # c => ca'[d] = ca[d]
        /\ UNCHANGED <<epoch, pool, mgr>>
    BY <1>2, CallerMoved
  <2>2. \A d \in Callers : ca'[d].pass = ca[d].pass
    BY <2>1
  <2>3. ca[c].pass # 0
    <3>1. ca[c].ops # <<>> \/ ca[c].split < NTensors
      BY <1>0, <2>1 DEF CallerMove
    <3>. QED BY <1>0, <3>1, ConstantsAssumption DEF PassInv
  <2>4. ca'[c].held = ca[c].held \/ ca'[c].held \in {pool, NoPool}
    BY <2>1 DEF CallerMove
  <2>5. \A d \in Callers : ca'[d].pass <= epoch'
    BY <2>1, <2>2 DEF PassInv
  <2>6. \A d \in Callers : ca'[d].pass = 0 => ca'[d].ops = <<>> /\ ca'[d].split = NTensors
    BY <2>1, <2>2, <2>3 DEF PassInv
  <2>7. \A b, d \in Callers : b # d /\ ca'[b].pass = ca'[d].pass => ca'[b].pass = 0
    BY <2>2 DEF PassInv
  <2>8. CASE Enqueue(c)
    <3>0. ca'[c].held = ca[c].held
      BY <2>1, <2>8 DEF CallerMove, Enqueue
    <3>1. \A p \in Pools : \A j \in JobsIn(p)' :
             j \in JobsIn(p) \/ (p = ca[c].held /\ j.pass = ca[c].pass)
      BY <2>8, JobsGrow
    <3>2. \A p \in Pools : \A j \in JobsIn(p)' : 0 < j.pass /\ j.pass <= epoch'
      BY <1>0, <2>1, <2>3, <3>1 DEF PassInv
    <3>3. mgr' # "done" => JobsIn(2)' = {}
      BY <1>0, <1>a, <2>1, <3>1 DEF PassInv, Succession
    <3>4. \A d \in Callers : \A j \in JobsIn(2)' : j.pass = ca'[d].pass => ca'[d].held # 1
      BY <1>0, <1>a, <2>1, <2>2, <2>3, <3>0, <3>1 DEF PassInv
    <3>. QED BY <2>5, <2>6, <2>7, <3>2, <3>3, <3>4 DEF PassInv
  <2>9. CASE ~\E d \in Callers : Enqueue(d)
    <3>1. \A p \in Pools : JobsIn(p)' \subseteq JobsIn(p)
      BY <2>9, JobsShrink
    <3>2. \A p \in Pools : \A j \in JobsIn(p)' : 0 < j.pass /\ j.pass <= epoch'
      BY <2>1, <3>1 DEF PassInv
    <3>3. mgr' # "done" => JobsIn(2)' = {}
      BY <1>a, <2>1, <3>1 DEF PassInv
    <3>4. \A d \in Callers : \A j \in JobsIn(2)' : j.pass = ca'[d].pass => ca'[d].held # 1
      <4>1. pool = 1 => JobsIn(2) = {}
        BY <1>0 DEF PassInv, Succession
      <4>. QED BY <1>a, <2>1, <2>2, <2>4, <3>1, <4>1 DEF PassInv
    <3>. QED BY <2>5, <2>6, <2>7, <3>2, <3>3, <3>4 DEF PassInv
  <2>10. CASE \E d \in Callers : d # c /\ Enqueue(d)
    <3>1. PICK d \in Callers : d # c /\ Enqueue(d)
      BY <2>10
    <3>2. CallerStep(d)
      BY <3>1 DEF CallerStep
    <3>3. ca'[c] = ca[c] /\ ca'[d] = ca[d]
      BY <2>1, <3>1, <3>2, CallerMoved
    <3>4. CallerMove(d)
      BY <3>2, CallerMoved
    <3>. QED BY <3>1, <3>3, <3>4 DEF CallerMove, Enqueue
  <2>. QED BY <2>8, <2>9, <2>10
<1>3. CASE ~\E c \in Callers : NewEpoch(c) \/ CallerStep(c)
  <2>1. /\ \A d \in Callers : Keeps(d)
        /\ epoch' = epoch
        /\ (mgr' # "done" => mgr # "done")
    BY <1>3, QuietStep
  <2>2. ~\E c \in Callers : Enqueue(c)
    BY <1>3 DEF CallerStep
  <2>3. \A p \in Pools : JobsIn(p)' \subseteq JobsIn(p)
    BY <2>2, JobsShrink
  <2>4. \A d \in Callers : /\ ca'[d].pass = ca[d].pass /\ ca'[d].ops = ca[d].ops
                           /\ ca'[d].split = ca[d].split /\ ca'[d].held = ca[d].held
    BY <2>1 DEF Keeps
  <2>. QED BY <1>a, <2>1, <2>3, <2>4 DEF PassInv
<1>. QED BY <1>1, <1>2, <1>3

\* A ticket that was never made counts nothing.
KnownInv == \A p \in Pools, w \in Tensors : ~tickets[p][w].known => tickets[p][w].pending = 0

\* A caller past the wait of its split.
AfterWait(c) ==
    /\ ca[c].kind = "offload" /\ ca[c].ops # <<>>
    /\ \/ Head(ca[c].ops)[1] \in {"eval", "cold"}
       \/ Head(ca[c].ops)[1] = "wait" /\ ca[c].pc \in {"return", "join"}
Covered(c) == \A j \in JobsIn(pool) : ~(j.w = ca[c].split /\ j.pass = ca[c].pass)
CoverInv == \A c \in Callers : AfterWait(c) => Covered(c)

\* A ticket at zero has no jobs, and so the caller that finds it has none of its
\* pass in the pool in use, whichever pool it holds.
LEMMA WaitReturned ==
    ASSUME IInv, CountInv, FlowInv, PassInv, NEW c \in Callers, ca[c].kind = "offload",
           WaitLookup(c) \/ WaitCheck(c), tickets[ca[c].held][Arg(c)].pending <= 0
    PROVE  Covered(c)
<1>0. /\ ca[c].held \in Pools /\ ca[c].pc \in {"wait", "check"} /\ CallersTyped
      /\ ca[c].ops \in Seq(Op) /\ ca[c].ops # <<>> /\ Succession /\ pool \in Pools
  BY DEF WaitLookup, WaitCheck, IInv, Typed, CallersTyped, Caller, EngineTyped
<1>1. Arg(c) = ca[c].split /\ Arg(c) \in Tensors
  <2>1. /\ 1 \in DOMAIN ca[c].ops /\ Head(ca[c].ops) = ca[c].ops[1]
    BY <1>0
  <2>2. ca[c].ops[1][1] = "wait" /\ Shape(ca[c].ops, ca[c].split)
    BY <1>0, <2>1 DEF FlowInv, FlowOf
  <2>3. ca[c].ops[1][2] = ca[c].split
    BY <2>1, <2>2 DEF Shape
  <2>. QED BY <1>0, <2>1, <2>3, ArgType DEF Arg
<1>2. CASE ca[c].held = pool
  <2>1. PICK w \in Tensors : w = Arg(c)
    BY <1>1
  <2>2. /\ Exact(pool, w) /\ queue[pool] \in Seq(Job) /\ tickets[pool][w].pending <= 0
        /\ QueuesTyped
    BY <1>0, <1>2, <2>1 DEF CountInv, IInv, Typed, QueuesTyped
  <2>3. Count(queue[pool], JobsOf(w)) \in Nat /\ Cardinality(At_work(pool, w)) \in Nat
    BY <1>0, <2>2, CountType, AtWorkType
  <2>4. Count(queue[pool], JobsOf(w)) = 0 /\ Cardinality(At_work(pool, w)) = 0
    BY <2>2, <2>3 DEF Exact
  <2>5. At_work(pool, w) = {}
    BY <1>0, <2>4, AtWorkType, FS_EmptySet
  <2>6. At(queue[pool], JobsOf(w)) = {}
    <3>1. IsFiniteSet(At(queue[pool], JobsOf(w)))
      BY <2>2, CountType
    <3>. QED BY <2>4, <3>1, FS_EmptySet DEF Count
  <2>7. \A i \in DOMAIN queue[pool] : queue[pool][i] \in Job
    BY <2>2
  <2>8. \A i \in DOMAIN queue[pool] : queue[pool][i].w # w
    BY <2>6, <2>7 DEF At, JobsOf
  <2>9. \A k \in Workers : wk[pool][k].pc = "run" => wk[pool][k].job.w # w
    BY <2>5 DEF At_work
  <2>. QED BY <1>1, <2>1, <2>8, <2>9 DEF Covered, JobsIn
<1>3. CASE ca[c].held # pool
  <2>1. pool = 2 /\ ca[c].held = 1
    BY <1>0, <1>3 DEF Pools, Succession
  <2>. QED BY <2>1 DEF Covered, PassInv
<1>. QED BY <1>2, <1>3

\* A ticket is made before it counts anything.
LEMMA KnownStep == IInv /\ CountInv /\ KnownInv /\ [Next]_vars => KnownInv'
<1> SUFFICES ASSUME IInv, CountInv, KnownInv, [Next]_vars,
                    NEW p \in Pools, NEW w \in Tensors, ~tickets'[p][w].known
             PROVE  tickets'[p][w].pending = 0
  BY DEF KnownInv
<1>0. IInv' /\ CountInv'
  BY NextIInv, StepCount
<1>1. tickets'[p][w].pending \in Nat
  <2>0. PendingExact'
    BY <1>0, CountsExact, PTL
  <2>1. TypeOK'
    BY <2>0 DEF PendingExact
  <2>2. tickets'[p][w] \in [known : BOOLEAN, pending : Nat, epoch : Nat, track_reads : BOOLEAN,
                            read_chunks : SUBSET (Chunks \X Nat)]
    BY <2>1 DEF TypeOK
  <2>. QED BY <2>2
<1>2. tickets[p][w] \in Ticket
  BY DEF IInv, Typed, TicketsTyped
<1>3. CASE ~\E c \in Callers : Enqueue(c)
  <2>1. TicketKept(p, w)
    BY <1>3, ShrinkSteps
  <2>2. tickets[p][w].pending = 0 /\ tickets'[p][w].pending <= tickets[p][w].pending
    BY <2>1 DEF TicketKept, KnownInv
  <2>. QED BY <1>1, <2>2
<1>4. ASSUME NEW c \in Callers, Enqueue(c) PROVE tickets'[p][w].pending = 0
  <2>1. /\ ca[c].held \in Pools /\ Arg(c) \in Tensors /\ ca[c].pc \in {"tensor", "node"}
        /\ tickets \in [Pools -> [Tensors -> Ticket]]
    BY <1>4, ArgType DEF Enqueue, IInv, Typed, CallersTyped, TicketsTyped
  <2>2. ~shutdown[ca[c].held]
    BY <2>1 DEF IInv, StoppedUnused
  <2>3. PICK h \in Pools, v \in Tensors : h = ca[c].held /\ v = Arg(c)
    BY <2>1
  <2>4. PICK b \in BOOLEAN : b = (tickets[h][v].known \/ ~shutdown[h])
    OBVIOUS
  <2>5. /\ tickets'[h][v].known
        /\ h # p \/ v # w => tickets'[p][w] = tickets[p][w]
    <3>0. b = TRUE
      BY <2>2, <2>3, <2>4
    <3>1. CASE shutdown[h] \/ AlreadyDone(c) \/ Dropped(c)
      <4>1. tickets' = [tickets EXCEPT ![h][v].known = b]
        BY <1>4, <2>3, <2>4, <3>1 DEF Enqueue
      <4>. QED BY <2>1, <3>0, <4>1 DEF Ticket
    <3>2. CASE ~(shutdown[h] \/ AlreadyDone(c) \/ Dropped(c))
      <4> DEFINE new == [known |-> TRUE, pending |-> tickets[h][v].pending + NChunks,
                         epoch |-> ca[c].seen, track_reads |-> ca[c].pc = "tensor",
                         read_chunks |-> {}]
      <4>1. tickets' = [tickets EXCEPT ![h][v] = new]
        BY <1>4, <2>3, <3>2 DEF Enqueue, Counted
      <4>2. new.known = TRUE
        OBVIOUS
      <4> HIDE DEF new
      <4>. QED BY <2>1, <4>1, <4>2
    <3>. QED BY <3>1, <3>2
  <2>6. h # p \/ v # w
    BY <2>5
  <2>7. tickets'[p][w] = tickets[p][w]
    BY <2>5, <2>6
  <2>. QED BY <2>7 DEF KnownInv
<1>. QED BY <1>3, <1>4

\* The wait of a split is the only way past it, and what it finds stays true: no
\* other pass adds jobs of this one, and this one adds none before its next split.
LEMMA CoverStep ==
    IInv /\ CountInv /\ KnownInv /\ FlowInv /\ PassInv /\ CoverInv /\ [Next]_vars => CoverInv'
<1> SUFFICES ASSUME IInv, CountInv, KnownInv, FlowInv, PassInv, CoverInv, [Next]_vars,
                    NEW d \in Callers, AfterWait(d)', NEW j \in JobsIn(pool)'
             PROVE  ~(j.w = ca'[d].split /\ j.pass = ca'[d].pass)
  BY DEF CoverInv, Covered
<1>0. /\ ca[d] \in Caller /\ ca[d].ops \in Seq(Op) /\ pool \in Pools /\ Succession /\ epoch \in Nat
      /\ (ca[d].pc # "idle" => ca[d].ops # <<>>) /\ FlowOf(d) /\ ca[d].split \in 0..NTensors
      /\ ca[d].pass \in Nat
  BY DEF IInv, Typed, CallersTyped, EngineTyped, Caller, FlowInv
<1>1. ASSUME UNCHANGED pool, ~\E c \in Callers : Enqueue(c)
      PROVE  j \in JobsIn(pool)
  BY <1>0, <1>1, JobsShrink DEF JobsIn
<1>2. CASE NewEpoch(d)
  BY <1>2, NewEpochEffect DEF AfterWait
<1>3. CASE CallerStep(d)
  <2>1. /\ CallerMove(d) /\ ca'[d].kind = ca[d].kind /\ ca'[d].pass = ca[d].pass
        /\ \A c \in Callers : c # d => ca'[c] = ca[c]
        /\ UNCHANGED <<epoch, pool, mgr>>
    BY <1>3, CallerMoved
  <2>2. ca[d].kind = "offload" /\ ca'[d].ops # <<>> /\ Shape(ca[d].ops, ca[d].split)
    BY <1>0, <2>1 DEF AfterWait, FlowOf
  <2>3. ca[d].ops # <<>>
    <3>1. ASSUME ca[d].ops = <<>> PROVE FALSE
      <4>1. /\ ca'[d].pc = "idle" /\ ca[d].split < NTensors
            /\ ca'[d].ops = SplitOps("offload", ca[d].split + 1)
        BY <1>0, <2>1, <2>2, <3>1 DEF CallerMove
      <4>2. ca[d].split + 1 \in Tensors
        BY <1>0, <4>1, ConstantsAssumption DEF Tensors
      <4>3. Head(ca'[d].ops)[1] \in {"tensor", "wait"}
        BY <4>1, <4>2, ShapeSplit
      <4>. QED BY <4>1, <4>3 DEF AfterWait
    <3>. QED BY <3>1
  <2>4. 1 \in DOMAIN ca[d].ops /\ Head(ca[d].ops) = ca[d].ops[1]
    BY <1>0, <2>3
  <2>5. Head(ca[d].ops)[1] # "tensor"
    <3>1. ASSUME Head(ca[d].ops)[1] = "tensor" PROVE FALSE
      <4>1. 1 + 1 \in DOMAIN ca[d].ops /\ ca[d].ops[1 + 1][1] \in {"tensor", "wait"}
        BY <2>2, <2>4, <3>1 DEF Shape
      <4>2. Tail(ca[d].ops) # <<>> /\ Head(Tail(ca[d].ops)) = ca[d].ops[1 + 1]
        <5>1. PICK s \in Seq(Op) : s = ca[d].ops
          BY <1>0
        <5>2. 2 \in DOMAIN s
          BY <4>1, <5>1
        <5>3. Tail(s) \in Seq(Op) /\ Len(Tail(s)) >= 1 /\ Tail(s)[1] = s[2]
          BY <5>2
        <5>4. PICK t \in Seq(Op) : t = Tail(s)
          BY <5>3
        <5>5. t # <<>> /\ Head(t) = t[1]
          BY <5>3, <5>4
        <5>. QED BY <5>1, <5>3, <5>4, <5>5
      <4>3. CASE ca'[d].ops = ca[d].ops
        BY <3>1, <4>3 DEF AfterWait
      <4>4. CASE ca'[d].pc = "idle" /\ ca'[d].ops = Tail(ca[d].ops)
        BY <4>1, <4>2, <4>4 DEF AfterWait
      <4>. QED BY <2>1, <2>2, <2>3, <4>3, <4>4 DEF CallerMove
    <3>. QED BY <3>1
  <2>6. ~\E c \in Callers : Enqueue(c)
    <3>1. ASSUME NEW c \in Callers, Enqueue(c) PROVE FALSE
      <4>1. CallerStep(c) /\ ca[c].pc \in {"tensor", "node"}
        BY <3>1 DEF CallerStep, Enqueue
      <4>2. CallerMove(c)
        BY <4>1, CallerMoved
      <4>3. c = d
        BY <2>1, <4>1, <4>2 DEF CallerMove
      <4>4. Head(ca[d].ops)[1] # "node"
        BY <2>2, <2>4 DEF Shape
      <4>. QED BY <1>0, <2>5, <4>1, <4>3, <4>4 DEF FlowOf
    <3>. QED BY <3>1
  <2>7. j \in JobsIn(pool)
    BY <1>1, <2>1, <2>6
  <2>8. ca'[d].split = ca[d].split
    BY <2>1, <2>2, <2>3 DEF CallerMove
  <2>9. CASE AfterWait(d)
    BY <2>1, <2>7, <2>8, <2>9 DEF CoverInv, Covered
  <2>10. CASE ~AfterWait(d)
    <3>1. Head(ca[d].ops)[1] = "wait" /\ ca[d].pc \notin {"return", "join"}
      <4>1. Head(ca[d].ops) \in Op
        BY <1>0, <2>3
      <4>2. Head(ca[d].ops)[1] \in {"tensor", "node", "wait", "cold", "eval"}
        BY <4>1 DEF Op
      <4>3. Head(ca[d].ops)[1] # "node"
        BY <2>2, <2>4 DEF Shape
      <4>. QED BY <2>2, <2>3, <2>5, <2>10, <4>2, <4>3 DEF AfterWait
    <3>2. ca'[d].ops = ca[d].ops
      BY <2>1, <2>3, <3>1 DEF CallerMove
    <3>3. ca'[d].pc \in {"return", "join"}
      BY <3>1, <3>2 DEF AfterWait
    <3>4. ca'[d].pc = "return" /\ (WaitLookup(d) \/ WaitCheck(d))
      BY <1>0, <2>1, <2>3, <3>1, <3>3 DEF CallerMove, FlowOf
    <3>5. tickets[ca[d].held][Arg(d)].pending <= 0
      <4>0. ca[d].pc \in {"wait", "check"}
        BY <3>4 DEF WaitLookup, WaitCheck
      <4>1. ca[d].held \in Pools /\ Arg(d) \in Tensors
        BY <4>0, ArgType DEF IInv, Typed, CallersTyped
      <4>2. ~shutdown[ca[d].held]
        BY <4>0, <4>1 DEF IInv, StoppedUnused
      <4>3. \/ ~tickets[ca[d].held][Arg(d)].known
            \/ tickets[ca[d].held][Arg(d)].pending <= 0
        <5>1. ca \in [Callers -> Caller]
          BY DEF IInv, Typed, CallersTyped
        <5>2. ASSUME NEW pc, ca' = [ca EXCEPT ![d].pc = pc] PROVE pc = "return"
          BY <1>0, <3>4, <5>1, <5>2 DEF Caller
        <5>. QED BY <3>4, <4>2, <5>2 DEF WaitLookup, WaitCheck
      <4>. QED BY <4>1, <4>3 DEF KnownInv
    <3>6. Covered(d)
      BY <2>2, <3>4, <3>5, WaitReturned
    <3>. QED BY <2>1, <2>7, <2>8, <3>6 DEF Covered
  <2>. QED BY <2>9, <2>10
<1>4. ASSUME NEW c \in Callers, c # d, NewEpoch(c) PROVE ~(j.w = ca'[d].split /\ j.pass = ca'[d].pass)
  <2>1. ca'[d] = ca[d] /\ UNCHANGED <<pool, poolVars>>
    BY <1>4, NewEpochEffect
  <2>2. j \in JobsIn(pool) /\ AfterWait(d)
    BY <2>1 DEF JobsIn, poolVars, AfterWait
  <2>. QED BY <2>1, <2>2 DEF CoverInv, Covered
<1>5. ASSUME NEW c \in Callers, c # d, CallerStep(c)
      PROVE  ~(j.w = ca'[d].split /\ j.pass = ca'[d].pass)
  <2>1. ca'[d] = ca[d] /\ UNCHANGED pool
    BY <1>5, CallerMoved
  <2>2. AfterWait(d) /\ Covered(d)
    BY <2>1 DEF AfterWait, CoverInv
  <2>3. CASE ~\E b \in Callers : Enqueue(b)
    <3>1. j \in JobsIn(pool)
      BY <1>1, <2>1, <2>3
    <3>. QED BY <2>1, <2>2, <3>1 DEF Covered
  <2>4. ASSUME NEW b \in Callers, Enqueue(b) PROVE ~(j.w = ca'[d].split /\ j.pass = ca'[d].pass)
    <3>1. CallerStep(b) /\ ca[b].pc # "idle" /\ CallerMove(b)
      BY <2>4, CallerMoved DEF CallerStep, Enqueue
    <3>2. CASE b = d
      BY <2>1, <2>4, <3>1, <3>2 DEF CallerMove, Enqueue
    <3>3. CASE b # d
      <4>1. j \in JobsIn(pool) \/ j.pass = ca[b].pass
        BY <1>0, <2>1, <2>4, JobsGrow DEF JobsIn
      <4>2. ca[b].pass # ca[d].pass
        <5>1. ca[b].ops # <<>>
          BY <3>1 DEF IInv, Typed, CallersTyped
        <5>. QED BY <3>3, <5>1 DEF PassInv
      <4>. QED BY <2>1, <2>2, <4>1, <4>2 DEF Covered
    <3>. QED BY <3>2, <3>3
  <2>. QED BY <2>3, <2>4
<1>6. CASE ~\E c \in Callers : NewEpoch(c) \/ CallerStep(c)
  <2>1. /\ Keeps(d)
        /\ \/ UNCHANGED <<pool, mgr>>
           \/ /\ mgr # "done"
              /\ (pool' = 2 /\ mgr' = "done") \/ (pool' = pool /\ mgr' = "joining")
    BY <1>6, QuietStep
  <2>2. ~\E c \in Callers : Enqueue(c)
    BY <1>6 DEF CallerStep
  <2>3. CASE UNCHANGED pool
    <3>1. j \in JobsIn(pool)
      BY <1>1, <2>2, <2>3
    <3>2. AfterWait(d)
      BY <2>1 DEF AfterWait, Keeps
    <3>. QED BY <2>1, <3>1, <3>2 DEF CoverInv, Covered, Keeps
  <2>4. CASE pool' = 2 /\ mgr # "done"
    <3>1. JobsIn(2)' \subseteq JobsIn(2)
      BY <2>2, JobsShrink DEF Pools
    <3>2. JobsIn(2) = {}
      BY <2>4 DEF PassInv
    <3>. QED BY <2>4, <3>1, <3>2 DEF JobsIn
  <2>. QED BY <2>1, <2>3, <2>4
<1>. QED BY <1>2, <1>3, <1>4, <1>5, <1>6

\* All of these hold when the library is loaded.
LEMMA CoverInit == Init => KnownInv /\ FlowInv /\ PassInv /\ CoverInv
<1> SUFFICES ASSUME Init PROVE KnownInv /\ FlowInv /\ PassInv /\ CoverInv
  OBVIOUS
<1>1. \A p \in Pools : JobsIn(p) = {}
  BY DEF Init, JobsIn
<1>2. pool \in Pools /\ 2 \in Pools
  BY DEF Init, Pools
<1>3. KnownInv
  BY DEF Init, KnownInv
<1>4. FlowInv
  BY DEF Init, FlowInv, FlowOf
<1>5. PassInv
  BY <1>1, <1>2 DEF Init, PassInv
<1>6. CoverInv
  BY <1>1, <1>2 DEF CoverInv, Covered
<1>. QED BY <1>3, <1>4, <1>5, <1>6

\* The invariant in the words of WaitCovers.
LEMMA CoverSays == IInv /\ FlowInv /\ CoverInv => WaitCovers
<1> SUFFICES ASSUME IInv, FlowInv, CoverInv, NEW c \in Callers,
                    ca[c].kind = "offload", ca[c].pc = "cold", NEW j \in JobsIn(pool)
             PROVE  ~(j.w = Arg(c) /\ j.pass = ca[c].pass)
  BY DEF WaitCovers, JobsIn
<1>1. ca[c].ops \in Seq(Op) /\ ca[c].ops # <<>> /\ FlowOf(c)
  BY DEF IInv, Typed, CallersTyped, Caller, FlowInv
<1>2. 1 \in DOMAIN ca[c].ops /\ Head(ca[c].ops) = ca[c].ops[1]
  BY <1>1
<1>3. ca[c].ops[1][1] = "cold" /\ Shape(ca[c].ops, ca[c].split)
  BY <1>1, <1>2 DEF FlowOf
<1>4. Arg(c) = ca[c].split
  BY <1>2, <1>3 DEF Shape, Arg
<1>5. AfterWait(c)
  BY <1>1, <1>2, <1>3 DEF AfterWait
<1>. QED BY <1>4, <1>5 DEF CoverInv, Covered

\* Once a pass that waits for its tensors is past the wait of a split, none of its
\* jobs for that tensor is queued or being read in the pool in use, for any
\* contexts beside it, whatever kinds of passes they run, and however the pool is
\* replaced between the calls.
THEOREM WaitCoversThm == Spec => []WaitCovers
<1>1. Spec => []KnownInv
  BY CoverInit, KnownStep, IInvHolds, CountsHold, PTL DEF Spec
<1>2. Spec => []FlowInv
  BY CoverInit, FlowStep, IInvHolds, PTL DEF Spec
<1>3. Spec => []PassInv
  BY CoverInit, PassStep, IInvHolds, PTL DEF Spec
<1>4. Spec => []CoverInv
  BY <1>1, <1>2, <1>3, CoverInit, CoverStep, IInvHolds, CountsHold, PTL DEF Spec
<1>. QED BY <1>2, <1>4, CoverSays, IInvHolds, PTL
=============================================================================
