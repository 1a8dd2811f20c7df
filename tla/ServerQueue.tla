----------------------------- MODULE ServerQueue -----------------------------
(***************************************************************************)
(* The task queue (server_queue) and the result queue (server_response) of *)
(* the HTTP server, as operators on their data: examples/server/           *)
(* server-queue.cpp.  Every operator is one critical section, under        *)
(* mutex_tasks or mutex_results; the threads that call them, and the       *)
(* condition variables they signal, are the subject of ServerLoop.         *)
(***************************************************************************)
EXTENDS Naturals, Sequences, FiniteSets, SequencesExt

\* server_task, reduced to what the queue and the loop read: its type, its
\* id, and for a CANCEL task the id it targets.  The ids that post() gives to
\* CANCEL and NEXT_RESPONSE tasks are fresh and never looked up: NoId here.
NoId == 0

Work(t, type) == [type |-> type, id |-> t, id_target |-> NoId]
Cancel(t)     == [type |-> "CANCEL", id |-> NoId, id_target |-> t]
NextResponse  == [type |-> "NEXT_RESPONSE", id |-> NoId, id_target |-> NoId]

\* A result: the id of its task and whether it is a streaming chunk, a stop
\* result or an error (server_task_result::is_stop, is_error).
Result(t, kind) == [id |-> t, kind |-> kind]

-----------------------------------------------------------------------------
(* server_queue                                                             *)

\* post(task): one task, to the back.
Post(queue, task) == Append(queue, task)

\* cleanup_pending_task, on one of the two deques, for every target of one
\* call of post(tasks): the tasks that stay keep their order.
CleanupPendingTask(queue, targets) ==
    LET Kept[i \in 0..Len(queue)] ==
            IF i = 0 THEN <<>>
            ELSE IF queue[i].id \in targets THEN Kept[i - 1]
            ELSE Append(Kept[i - 1], queue[i])
    IN  Kept[Len(queue)]

\* post(tasks, front): the tasks go to the back in order, or are pushed to
\* the front one by one, which reverses them.
PostAll(queue, tasks, front) ==
    IF front THEN Reverse(tasks) \o queue ELSE queue \o tasks

\* defer(task)
Defer(deferred, task) == Append(deferred, task)

\* notify_slot_changed(): every deferred task returns to the back of the
\* queue, in the order it was deferred.
NotifySlotChanged(queue, deferred) == queue \o deferred

-----------------------------------------------------------------------------
(* server_response                                                          *)

\* send(result): a result nobody waits for is dropped.
Send(results, waiting, result) ==
    IF result.id \in waiting THEN Append(results, result) ELSE results

\* The positions recv(id) and recv_with_timeout(ids) look for; they take the
\* first one and erase it.
Mine(results, ids) == {i \in DOMAIN results : results[i].id \in ids}

FirstMine(results, ids) ==
    CHOOSE i \in Mine(results, ids) : \A j \in Mine(results, ids) : i <= j
=============================================================================
