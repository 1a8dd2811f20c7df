----------------------------- MODULE MoePrefetch -----------------------------
(***************************************************************************)
(* The expert prefetch engine of ggml/src/ggml-moe-prefetch.cpp, driven by *)
(* the scheduler passes of ggml-backend.cpp.  A pass enqueues the chunks   *)
(* of the weight tensors it is going to read; a pool of workers brings     *)
(* them into memory; the pass may wait for a tensor, and afterwards marks  *)
(* as cold the chunks the workers had to read.  Passes of several contexts *)
(* run in threads of their own and share the engine, and another context   *)
(* may replace the pool by one of another size.                            *)
(*                                                                         *)
(* The mutex of a pool makes an action of every critical section.  Workers *)
(* waiting on cv_work are a guard: every enqueue and the shutdown notify   *)
(* all of them under the mutex.  Waiting on cv_done is modelled.           *)
(***************************************************************************)
EXTENDS Integers, Sequences, FiniteSets

CONSTANTS
    Callers,        \* threads that execute graphs
    Workers,        \* worker threads of a pool
    NTensors,       \* weight tensors of a graph, one per split, in order
    NChunks,        \* chunks of one tensor
    Ahead,          \* moe_ahead: splits that are streamed ahead
    MaxQueue,       \* GGML_MOE_PREFETCH_MAX_QUEUE
    PassKinds,      \* the kinds of passes in a run
    Replaces,       \* whether another context may replace the pool
    MaxPasses       \* bound: passes of one caller

Tensors == 1..NTensors
Chunks == 1..NChunks
Pools == {1, 2}
NoPool == 0

ASSUME ConstantsAssumption ==
    /\ NTensors \in Nat /\ Ahead \in Nat /\ NChunks \in Nat \ {0}
    /\ MaxQueue \in Nat /\ MaxPasses \in Nat /\ IsFiniteSet(Workers)
    /\ PassKinds \subseteq {"offload", "host", "multi", "decode"}
    /\ Replaces \in BOOLEAN

VARIABLES
    queue, shutdown, tickets, wk,   \* of every pool
    pool,       \* prefetch_state::pool
    mgr,        \* ggml_moe_prefetch_set_n_threads: "run", "joining" or "done"
    epoch,
    ca          \* the callers

poolVars == <<queue, shutdown, tickets, wk>>
vars == <<poolVars, pool, mgr, epoch, ca>>

\* A job carries the epoch and the pass it was enqueued for and whether it is
\* lookahead (only to state properties).
Job == [w : Tensors, i : Chunks, e : Nat, pass : Nat, ahead : BOOLEAN]
Jobs(w, e, pass, ahead) ==
    [i \in Chunks |-> [w |-> w, i |-> i, e |-> e, pass |-> pass, ahead |-> ahead]]
NoJob == [w |-> 0, i |-> 0, e |-> 0, pass |-> 0, ahead |-> FALSE]

\* The engine calls around split w of a pass.  Before split w the tensors up to
\* Ahead splits on are streamed, unless the pass is for few tokens ("decode") or
\* its splits hold several layers ("multi").  The split waits for a tensor it
\* copies to the device ("offload"), or enqueues the experts that it computes on
\* the host; the kernel of a host node enqueues them once more.  After its
\* evaluation a batch marks the tensor cold.
AheadOf(w) ==
    IF w = 1 THEN [k \in 1..(IF Ahead < NTensors THEN Ahead ELSE NTensors) |-> <<"tensor", k>>]
    ELSE IF Ahead > 0 /\ w + Ahead - 1 <= NTensors THEN << <<"tensor", w + Ahead - 1>> >>
    ELSE <<>>

SplitOps(kind, w) ==
    (IF kind \in {"offload", "host"} THEN AheadOf(w) ELSE <<>>)
    \o (IF kind = "offload" THEN << <<"wait", w>> >>
        ELSE IF kind = "multi" THEN << <<"node", w>> >>
        ELSE << <<"node", w>>, <<"node", w>> >>)
    \o (IF kind = "decode" THEN << <<"eval", w>> >> ELSE << <<"eval", w>>, <<"cold", w>> >>)

Init ==
    /\ queue = [p \in Pools |-> <<>>] /\ shutdown = [p \in Pools |-> FALSE]
    /\ tickets = [p \in Pools |-> [w \in Tensors |->
           [known |-> FALSE, pending |-> 0, epoch |-> 0, track_reads |-> FALSE,
            read_chunks |-> {}]]]
    /\ wk = [p \in Pools |-> [k \in Workers |->
           [pc |-> "wait", job |-> NoJob, left |-> 0, done_read |-> FALSE]]]
    /\ pool = 1 /\ mgr = "run" /\ epoch = 1
    /\ ca = [c \in Callers |-> [pc |-> "idle", kind |-> "decode", split |-> NTensors,
                                ops |-> <<>>, held |-> NoPool, seen |-> 0, pass |-> 0,
                                passes |-> 0]]

-----------------------------------------------------------------------------
(* Pools                                                                    *)

\* Queued jobs of a tensor.
QueuedOf(p, w) == Cardinality({i \in DOMAIN queue[p] : queue[p][i].w = w})

\* Mutant: the queue is cleared, the tickets are left.
StopPoolForgets(p) ==
    /\ shutdown' = [shutdown EXCEPT ![p] = TRUE]
    /\ queue' = [queue EXCEPT ![p] = <<>>]
    /\ UNCHANGED tickets

\* stop(), run by the destructor when the last reference is dropped: queued
\* jobs are given up, their tickets completed.
StopPool(p) ==
    /\ shutdown' = [shutdown EXCEPT ![p] = TRUE]
    /\ tickets' = [tickets EXCEPT ![p] =
           [w \in Tensors |-> [tickets[p][w] EXCEPT !.pending = @ - QueuedOf(p, w)]]]
    /\ queue' = [queue EXCEPT ![p] = <<>>]

Joined(p) == \A k \in Workers : wk[p][k].pc = "exited"

\* Mutants: only prefetch_state counts; an idle worker is not asked to end.
HeldByOthersNot(p, c) == pool = p
WorkerExitNever(p, k) == FALSE

\* Who holds a reference: prefetch_state and the callers in a call.
HeldByOthers(p, c) == pool = p \/ \E d \in Callers \ {c} : ca[d].held = p

-----------------------------------------------------------------------------
(* Workers: prefetch_pool::run                                              *)

WorkerTake(p, k) ==
    /\ wk[p][k].pc = "wait" /\ ~shutdown[p] /\ queue[p] # <<>>
    /\ wk' = [wk EXCEPT ![p][k] = [pc |-> "run", job |-> Head(queue[p]), left |-> 0,
                                   done_read |-> FALSE]]
    /\ queue' = [queue EXCEPT ![p] = Tail(@)]
    /\ UNCHANGED <<shutdown, tickets, pool, mgr, epoch, ca>>

WorkerExit(p, k) ==
    /\ wk[p][k].pc = "wait" /\ shutdown[p]
    /\ wk' = [wk EXCEPT ![p][k].pc = "exited"]
    /\ UNCHANGED <<queue, shutdown, tickets, pool, mgr, epoch, ca>>

\* The chunk is read, unless the kernel says that it is resident or the read
\* fails.  The ticket is counted down before the mutex is taken.
WorkerRun(p, k) ==
    /\ wk[p][k].pc = "run"
    /\ LET job == wk[p][k].job IN
       /\ \E done_read \in BOOLEAN :
             wk' = [wk EXCEPT ![p][k] = [pc |-> "settle", job |-> job,
                                         left |-> tickets[p][job.w].pending,
                                         done_read |-> done_read]]
       /\ tickets' = [tickets EXCEPT ![p][job.w].pending = @ - 1]
    /\ UNCHANGED <<queue, shutdown, pool, mgr, epoch, ca>>

\* Mutant: only the worker that found nothing left to do wakes the waiters.
WorkerSettleLate(p, k) ==
    /\ wk[p][k].pc = "settle"
    /\ wk' = [wk EXCEPT ![p][k] = [pc |-> "wait", job |-> NoJob, left |-> 0, done_read |-> FALSE]]
    /\ ca' = IF wk[p][k].left = 0
             THEN [c \in Callers |-> IF ca[c].pc = "asleep" /\ ca[c].held = p
                                     THEN [ca[c] EXCEPT !.pc = "check"] ELSE ca[c]]
             ELSE ca
    /\ UNCHANGED <<queue, shutdown, tickets, pool, mgr, epoch>>

\* Under the mutex: the chunk is noted if the ticket tracks reads (now), and
\* the worker that counted the ticket down to zero wakes the waiters.
WorkerSettle(p, k) ==
    /\ wk[p][k].pc = "settle"
    /\ LET me == wk[p][k] IN
       /\ tickets' = IF me.done_read /\ tickets[p][me.job.w].track_reads
                     THEN [tickets EXCEPT ![p][me.job.w].read_chunks =
                              @ \cup {<<me.job.i, me.job.e>>}]
                     ELSE tickets
       /\ ca' = IF me.left = 1
                THEN [c \in Callers |-> IF ca[c].pc = "asleep" /\ ca[c].held = p
                                        THEN [ca[c] EXCEPT !.pc = "check"] ELSE ca[c]]
                ELSE ca
    /\ wk' = [wk EXCEPT ![p][k] = [pc |-> "wait", job |-> NoJob, left |-> 0, done_read |-> FALSE]]
    /\ UNCHANGED <<queue, shutdown, pool, mgr, epoch>>

WorkerStep(p, k) ==
    WorkerTake(p, k) \/ WorkerExit(p, k) \/ WorkerRun(p, k) \/ WorkerSettle(p, k)

-----------------------------------------------------------------------------
(* Callers                                                                  *)

\* ggml_moe_prefetch_new_epoch at the start of a pass.
NewEpoch(c) ==
    /\ ca[c].pc = "idle" /\ ca[c].ops = <<>> /\ ca[c].split = NTensors
    /\ ca[c].passes < MaxPasses /\ mgr # "joining"
    /\ epoch' = epoch + 1
    /\ \E kind \in PassKinds :
          ca' = [ca EXCEPT ![c] = [pc |-> "idle", kind |-> kind, split |-> 0, ops |-> <<>>,
                                   held |-> NoPool, seen |-> 0, pass |-> epoch + 1,
                                   passes |-> ca[c].passes + 1]]
    /\ UNCHANGED <<poolVars, pool, mgr>>

NextSplit(c) ==
    /\ ca[c].pc = "idle" /\ ca[c].ops = <<>> /\ ca[c].split < NTensors
    /\ ca' = [ca EXCEPT ![c].split = @ + 1, ![c].ops = SplitOps(ca[c].kind, ca[c].split + 1)]
    /\ UNCHANGED <<poolVars, pool, mgr, epoch>>

\* Every call first copies the pointer to the pool, under pool_mtx (held by
\* set_n_threads while it joins the old workers), and an enqueue reads the
\* epoch before it takes the pool's mutex.
TakePool(c) ==
    /\ ca[c].pc = "idle" /\ ca[c].ops # <<>> /\ Head(ca[c].ops)[1] # "eval" /\ mgr # "joining"
    /\ ca' = [ca EXCEPT ![c].pc = Head(ca[c].ops)[1], ![c].held = pool, ![c].seen = epoch]
    /\ UNCHANGED <<poolVars, pool, mgr, epoch>>

Arg(c) == Head(ca[c].ops)[2]
Return(c) == ca' = [ca EXCEPT ![c].pc = "return"]

\* Mutants: the epoch is not marked; the depth of the queue is not looked at;
\* the jobs are not counted.
AlreadyDoneNever(c) == FALSE
DroppedNever(c) == FALSE
CountedLess(n) == n - 1

AlreadyDone(c) == tickets[ca[c].held][Arg(c)].epoch = ca[c].seen

\* Lookahead beyond the queue depth is dropped, without marking the epoch.
Dropped(c) == ca[c].pc = "tensor" /\ Len(queue[ca[c].held]) > MaxQueue

\* pending.fetch_add(jobs.size())
Counted(n) == n

\* enqueue_ranges: ggml_moe_prefetch_tensor (to the back) or
\* ggml_moe_prefetch_node (urgent, to the front).
Enqueue(c) ==
    /\ ca[c].pc \in {"tensor", "node"}
    /\ LET p == ca[c].held
           w == Arg(c)
           ahead == ca[c].pc = "tensor"
           jobs == Jobs(w, ca[c].seen, ca[c].pass, ahead)
       IN  IF shutdown[p] \/ AlreadyDone(c) \/ Dropped(c)
           THEN /\ tickets' = [tickets EXCEPT ![p][w].known = @ \/ ~shutdown[p]]
                /\ UNCHANGED queue
           ELSE /\ tickets' = [tickets EXCEPT ![p][w] =
                       [known |-> TRUE, pending |-> @.pending + Counted(NChunks),
                        epoch |-> ca[c].seen, track_reads |-> ahead, read_chunks |-> {}]]
                /\ queue' = [queue EXCEPT ![p] = IF ahead THEN @ \o jobs ELSE jobs \o @]
    /\ Return(c)
    /\ UNCHANGED <<shutdown, wk, pool, mgr, epoch>>

\* ggml_moe_prefetch_wait: the first look at the ticket, without the mutex ...
WaitLookup(c) ==
    /\ ca[c].pc = "wait"
    /\ LET tk == tickets[ca[c].held][Arg(c)]
       IN  IF ~tk.known \/ tk.pending <= 0
           THEN Return(c)
           ELSE ca' = [ca EXCEPT ![c].pc = "check"]
    /\ UNCHANGED <<poolVars, pool, mgr, epoch>>

\* ... and the predicate of cv_done.wait.
WaitCheck(c) ==
    /\ ca[c].pc = "check"
    /\ IF shutdown[ca[c].held] \/ tickets[ca[c].held][Arg(c)].pending <= 0
       THEN Return(c)
       ELSE ca' = [ca EXCEPT ![c].pc = "asleep"]
    /\ UNCHANGED <<poolVars, pool, mgr, epoch>>

\* ggml_moe_prefetch_cold takes the noted chunks, for the kernel to reclaim.
Cold(c) ==
    /\ ca[c].pc = "cold"
    /\ LET p == ca[c].held IN
       tickets' = IF tickets[p][Arg(c)].track_reads
                  THEN [tickets EXCEPT ![p][Arg(c)].read_chunks = {}]
                  ELSE tickets
    /\ Return(c)
    /\ UNCHANGED <<queue, shutdown, wk, pool, mgr, epoch>>

\* The split is evaluated; a failure ends the pass.
Eval(c) ==
    /\ ca[c].pc = "idle" /\ ca[c].ops # <<>> /\ Head(ca[c].ops)[1] = "eval"
    /\ \/ ca' = [ca EXCEPT ![c].ops = Tail(@)]
       \/ ca' = [ca EXCEPT ![c].ops = <<>>, ![c].split = NTensors]
    /\ UNCHANGED <<poolVars, pool, mgr, epoch>>

\* The call returns and drops its reference; the last one stops the pool.
DropPool(c) ==
    /\ ca[c].pc = "return"
    /\ LET p == ca[c].held IN
       IF HeldByOthers(p, c)
       THEN /\ ca' = [ca EXCEPT ![c].pc = "idle", ![c].ops = Tail(@), ![c].held = NoPool]
            /\ UNCHANGED <<queue, shutdown, tickets>>
       ELSE /\ StopPool(p)
            /\ ca' = [ca EXCEPT ![c].pc = "join"]
    /\ UNCHANGED <<wk, pool, mgr, epoch>>

CallerJoin(c) ==
    /\ ca[c].pc = "join" /\ Joined(ca[c].held)
    /\ ca' = [ca EXCEPT ![c].pc = "idle", ![c].ops = Tail(@), ![c].held = NoPool]
    /\ UNCHANGED <<poolVars, pool, mgr, epoch>>

CallerStep(c) ==
    \/ NextSplit(c) \/ TakePool(c) \/ Enqueue(c) \/ WaitLookup(c) \/ WaitCheck(c) \/ Cold(c)
    \/ Eval(c) \/ DropPool(c) \/ CallerJoin(c)

-----------------------------------------------------------------------------
(* ggml_moe_prefetch_set_n_threads, with another number of threads          *)

ResetPool ==
    /\ Replaces /\ mgr = "run"
    /\ IF \E c \in Callers : ca[c].held = pool
       THEN pool' = 2 /\ mgr' = "done" /\ UNCHANGED <<queue, shutdown, tickets>>
       ELSE StopPool(pool) /\ mgr' = "joining" /\ UNCHANGED pool
    /\ UNCHANGED <<wk, epoch, ca>>

StartPool ==
    /\ mgr = "joining" /\ Joined(pool)
    /\ pool' = 2 /\ mgr' = "done"
    /\ UNCHANGED <<poolVars, epoch, ca>>

Next ==
    \/ \E p \in Pools, k \in Workers : WorkerStep(p, k)
    \/ \E c \in Callers : NewEpoch(c) \/ CallerStep(c)
    \/ ResetPool \/ StartPool

Spec == Init /\ [][Next]_vars

\* Threads keep running; when a pass starts is not fair.
FairSpec ==
    /\ Spec
    /\ \A p \in Pools, k \in Workers : WF_vars(WorkerStep(p, k))
    /\ \A c \in Callers : WF_vars(CallerStep(c))
    /\ WF_vars(StartPool)

-----------------------------------------------------------------------------
(* Properties                                                               *)

RunningOf(p, w) == Cardinality({k \in Workers : wk[p][k].pc = "run" /\ wk[p][k].job.w = w})

\* Type invariant.
TypeOK ==
    /\ queue \in [Pools -> Seq(Job)] /\ shutdown \in [Pools -> BOOLEAN]
    /\ tickets \in [Pools -> [Tensors ->
           [known : BOOLEAN, pending : Nat, epoch : Nat, track_reads : BOOLEAN,
            read_chunks : SUBSET (Chunks \X Nat)]]]
    /\ wk \in [Pools -> [Workers -> [pc : {"wait", "run", "settle", "exited"},
                                     job : Job \cup {NoJob}, left : Nat,
                                     done_read : BOOLEAN]]]
    /\ pool \in Pools /\ mgr \in {"run", "joining", "done"}
    /\ epoch \in Nat
    /\ \A c \in Callers :
          /\ ca[c].pc \in {"idle", "tensor", "node", "wait", "check", "asleep", "cold",
                           "return", "join"}
          /\ ca[c].held \in Pools \cup {NoPool}
          /\ ca[c].pc # "idle" => ca[c].held \in Pools /\ ca[c].ops # <<>>

\* A ticket counts the jobs of its tensor that are queued or being read, no
\* more (a waiter would hang) and no less (it would return early), also when
\* jobs of two epochs overlap and when a pool is stopped.
PendingExact ==
    /\ TypeOK
    /\ \A p \in Pools, w \in Tensors :
        tickets[p][w].pending = QueuedOf(p, w) + RunningOf(p, w)

\* A caller that sleeps on a ticket that has reached zero is about to be woken
\* by the worker that counted it down: the count-down without the mutex loses
\* no wake-up.
NoLostWakeup ==
    \A c \in Callers : ca[c].pc = "asleep" =>
        LET p == ca[c].held IN
        \/ tickets[p][Arg(c)].pending > 0 /\ ~shutdown[p]
        \/ \E k \in Workers : wk[p][k].pc = "settle" /\ wk[p][k].left = 1

\* "block until all pending prefetch jobs for tensor w are complete": once a
\* pass that waits for its tensors is past its wait for w, none of its jobs for w
\* is queued or running in the pool in use.
WaitCovers ==
    \A c \in Callers :
        ca[c].kind = "offload" /\ ca[c].pc = "cold" /\ ca[c].held = pool =>
            \A j \in {queue[pool][i] : i \in DOMAIN queue[pool]}
                     \cup {wk[pool][k].job : k \in {q \in Workers : wk[pool][q].pc = "run"}} :
                ~(j.w = Arg(c) /\ j.pass = ca[c].pass)

\* A stalled pool does not accumulate lookahead: never more than the queue
\* depth and one tensor.
LookaheadBounded ==
    \A p \in Pools :
        Cardinality({i \in DOMAIN queue[p] : queue[p][i].ahead}) <= MaxQueue + NChunks

\* No chunk is queued twice for the same epoch, however the lookahead, the
\* scheduler and the kernel hook of one context's passes follow each other, so
\* that the bound on lookahead is one on chunks to read.  (A second context
\* overwrites the epoch of a ticket, and the first may queue its chunks again.)
NoDuplicateJobs ==
    /\ LookaheadBounded
    /\ \A p \in Pools : \A i, j \in DOMAIN queue[p] :
        i # j => <<queue[p][i].w, queue[p][i].i, queue[p][i].e>>
                 # <<queue[p][j].w, queue[p][j].i, queue[p][j].e>>

\* A pool is stopped only when nobody uses it, and its workers then end.
StoppedUnused ==
    \A p \in Pools : shutdown[p] =>
        /\ queue[p] = <<>> /\ (pool = p => mgr = "joining")
        /\ \A c \in Callers : ca[c].held = p => ca[c].pc = "join"

\* Every wait returns, also when the pool is replaced meanwhile.
WaitReturns == \A c \in Callers : ca[c].pc = "wait" ~> ca[c].pc = "idle"

\* Replacing the pool completes.
ReplaceCompletes == mgr = "joining" ~> mgr = "done"

-----------------------------------------------------------------------------
(* Statements of the code's comments that the runs refute                   *)

\* "chunks the workers actually read from storage this epoch": the noted
\* chunks of a ticket were read for the epoch of the ticket.
ReadsOfThisEpoch ==
    \A p \in Pools, w \in Tensors : \A r \in tickets[p][w].read_chunks :
        r[2] = tickets[p][w].epoch

\* "per-tensor enqueues are idempotent within one graph execution": a pass
\* does not queue a chunk twice.
IdempotentInPass ==
    \A p \in Pools : \A i, j \in DOMAIN queue[p] :
        i # j => <<queue[p][i].w, queue[p][i].i, queue[p][i].pass>>
                 # <<queue[p][j].w, queue[p][j].i, queue[p][j].pass>>
=============================================================================
