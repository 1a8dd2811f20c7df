------------------------------ MODULE ServerLoop ------------------------------
(***************************************************************************)
(* The HTTP server's request path (examples/server): the main thread runs  *)
(* server_queue::start_loop, whose callbacks process_single_task and       *)
(* update_slots own the slots; HTTP threads post tasks and read results    *)
(* through server_response_reader (completions, embeddings, decisions) or  *)
(* through the blocking recv (metrics, slot files, LoRA, control vectors). *)
(*                                                                         *)
(* One action is one critical section of a thread, or a stretch of the     *)
(* main thread that no other thread can observe.  The control of the slots *)
(* is complete; token contents, sampling and the KV cache are abstracted   *)
(* to the outcomes that change it.                                         *)
(***************************************************************************)
EXTENDS ServerQueue, Integers

CONSTANTS
    NSlots,         \* --parallel: slots are numbered 1..NSlots here
    Readers,        \* HTTP requests served through server_response_reader
    TasksOf,        \* TasksOf[r]: the ids of r's tasks, in index order
    Streams,        \* the readers whose request has "stream": true
    Admins,         \* task ids of the requests served through recv()
    AdminType,      \* AdminType[a]: METRICS, SLOT_OP or SET_LORA
    IdSlot,         \* IdSlot[t]: the "id_slot" of task t, -1 if none given
    SystemPrompt,   \* the tasks that carry a "system_prompt"
    MayClose,       \* the readers whose client may disconnect
    MayTerminate,   \* whether the server may be asked to stop
    Faults,         \* the failures that can happen in a run
    MaxChunks,      \* bound: batches one prompt may take
    MaxTokens,      \* bound: tokens one slot may generate
    MaxResults,     \* bound: results stored when a loading slot fails again
    cont_batching   \* params.cont_batching

Slots == 1..NSlots
NoSlot == -1
Ids(r) == Range(TasksOf[r])
ReaderTasks == UNION {Ids(r) : r \in Readers}
OwnerOf(t) == CHOOSE r \in Readers : t \in Ids(r)
AllFaults == {"sysprompt", "launch", "empty", "ctx_exceeded", "image",
              "ctx_full", "kv_full", "sampling", "held", "restore",
              "embd_large"}

\* get_new_id gives every task an id of its own.
ASSUME ConstantsAssumption ==
    /\ NSlots \in Nat \ {0} /\ MaxChunks \in Nat \ {0} /\ MaxTokens \in Nat \ {0}
    /\ MaxResults \in Nat
    /\ \A r \in Readers : TasksOf[r] \in Seq(Nat \ {NoId}) /\ IsInjective(TasksOf[r])
    /\ \A r, q \in Readers : Ids(r) \cap Ids(q) # {} => r = q
    /\ Admins \subseteq Nat \ {NoId} /\ ReaderTasks \cap Admins = {}
    /\ \A a \in Admins : AdminType[a] \in {"METRICS", "SLOT_OP", "SET_LORA"}
    /\ Streams \subseteq Readers /\ MayClose \subseteq Readers
    /\ Faults \subseteq AllFaults
    /\ cont_batching \in BOOLEAN /\ MayTerminate \in BOOLEAN

VARIABLES
    queue_tasks, queue_tasks_deferred, running,         \* server_queue
    waiting_task_ids, queue_results, queue_results_legacy,  \* server_response
    slots,                  \* server_context::slots
    stop_internal_decode,   \* the flag of llama_decode_stop / _reset
    loop, hand, cur,        \* main thread: where it is, task popped, slot index
    batch,                  \* whether the batch has tokens
    rd,                     \* the server_response_reader of each request
    closed,                 \* is_connection_closed of each request
    admin                   \* where each recv()-style handler is

queueVars == <<queue_tasks, queue_tasks_deferred, running>>
resultVars == <<waiting_task_ids, queue_results, queue_results_legacy>>
mainVars == <<slots, hand, cur, batch>>
vars == <<queueVars, resultVars, mainVars, stop_internal_decode, loop, rd,
          closed, admin>>

-----------------------------------------------------------------------------
(* Slots                                                                    *)

Slot == [state : {"IDLE", "PROCESSING"},
         command : {"NONE", "LOAD_PROMPT", "RELEASE"},
         id_task : ReaderTasks \cup {NoId},
         tokenized : BOOLEAN,           \* n_prompt_tokens # 0
         left : 0..MaxChunks,           \* batches of prompt still to add
         n_decoded : 0..MaxTokens]

Available(slot)  == slot.state = "IDLE" /\ slot.command = "NONE"
Loading(slot)    == slot.state = "IDLE" /\ slot.command = "LOAD_PROMPT"
Processing(slot) == slot.state = "PROCESSING"
IsProcessing(slot) == Loading(slot) \/ Processing(slot)

\* server_slot::release(): only a PROCESSING slot is released.  The flag is
\* reset in every case; callers set stop_internal_decode' = FALSE with it.
Release(slot) ==
    IF Processing(slot) THEN [slot EXCEPT !.state = "IDLE", !.command = "RELEASE"]
                        ELSE slot

\* slot.state = PROCESSING; slot.command = NONE; slot.release();
ForceRelease(slot) == [slot EXCEPT !.state = "IDLE", !.command = "RELEASE"]

\* server_slot::reset() and the assignment of id_task before the launch
Reset(slot, t) ==
    [slot EXCEPT !.id_task = t, !.tokenized = FALSE, !.left = 0]

\* What launch_slot_with_task changes when it succeeds.
LoadPrompt(slot) == [slot EXCEPT !.command = "LOAD_PROMPT"]

Init ==
    /\ queue_tasks = <<>> /\ queue_tasks_deferred = <<>> /\ running = TRUE
    /\ waiting_task_ids = {} /\ queue_results = <<>> /\ queue_results_legacy = <<>>
    /\ slots = [s \in Slots |-> [state |-> "IDLE", command |-> "NONE", id_task |-> NoId,
                                 tokenized |-> FALSE, left |-> 0, n_decoded |-> 0]]
    /\ stop_internal_decode = FALSE
    /\ loop = "pop" /\ hand = NextResponse /\ cur = 1 /\ batch = FALSE
    /\ rd = [r \in Readers |-> [pc |-> "init", received |-> 0, results |-> {},
                                first |-> TRUE, cancelled |-> FALSE]]
    /\ closed = [r \in Readers |-> FALSE]
    /\ admin = [a \in Admins |-> "init"]

\* Mutant: the notification is forgotten.
NotifyForgotten == loop' = loop

\* condition_tasks.notify_one(), as seen by the only thread that waits on it
Notify == loop' = IF loop = "asleep" THEN "woken" ELSE loop

SendResult(t, kind) ==
    queue_results' = Send(queue_results, waiting_task_ids, Result(t, kind))

-----------------------------------------------------------------------------
(* Main thread: server_queue::start_loop                                    *)

PopTask ==
    /\ loop = "pop"
    /\ IF queue_tasks = <<>>
       THEN loop' = "update" /\ UNCHANGED <<queue_tasks, hand>>
       ELSE /\ hand' = Head(queue_tasks)
            /\ queue_tasks' = Tail(queue_tasks)
            /\ loop' = "handle"
    /\ UNCHANGED <<queue_tasks_deferred, running, resultVars, slots, cur, batch,
                   stop_internal_decode, rd, closed, admin>>

\* The wait at the bottom of the loop, and the exit.
WaitForTask ==
    /\ loop = "wait"
    /\ loop' = IF queue_tasks # <<>> THEN "pop"
               ELSE IF running THEN "asleep" ELSE "exited"
    /\ UNCHANGED <<queueVars, resultVars, mainVars, stop_internal_decode, rd,
                   closed, admin>>

\* condition_tasks.wait's predicate, evaluated after a notification
WakeUp ==
    /\ loop = "woken"
    /\ loop' = IF queue_tasks # <<>> \/ ~running THEN "pop" ELSE "asleep"
    /\ UNCHANGED <<queueVars, resultVars, mainVars, stop_internal_decode, rd,
                   closed, admin>>

-----------------------------------------------------------------------------
(* Main thread: process_single_task                                         *)

\* Mutant: a slot whose state is IDLE counts as available, whatever its command.
CandidatesIdleOnly(t) ==
    {s \in Slots : slots[s].state = "IDLE" /\ IdSlot[t] \in {NoSlot, s}}

\* The slots a completion task may be launched on now: the one it asks for,
\* or any that get_available_slot may pick (similarity, then LRU).
Candidates(t) ==
    {s \in Slots : Available(slots[s]) /\ IdSlot[t] \in {NoSlot, s}}

DeferHand ==
    /\ queue_tasks_deferred' = Defer(queue_tasks_deferred, hand)
    /\ UNCHANGED <<queue_results, queue_results_legacy, slots, stop_internal_decode>>

\* The system prompt of a task releases every slot, whatever it is doing.
AfterSystemPrompt(t) ==
    IF t \in SystemPrompt THEN [s \in Slots |-> Release(slots[s])] ELSE slots

LaunchOn(s, t) ==
    LET old == AfterSystemPrompt(t) IN
    \/ /\ t \in SystemPrompt /\ "sysprompt" \in Faults
       /\ SendResult(t, "error")
       /\ UNCHANGED <<slots, stop_internal_decode>>
    \/ /\ stop_internal_decode' = (t \notin SystemPrompt /\ stop_internal_decode)
       /\ \/ /\ slots' = [old EXCEPT ![s] = LoadPrompt(Reset(old[s], t))]
             /\ UNCHANGED queue_results
          \/ /\ "launch" \in Faults
             /\ slots' = [old EXCEPT ![s] = Reset(old[s], t)]
             /\ SendResult(t, "error")

HandleCompletion ==
    /\ hand.type = "COMPLETION"
    /\ IF Candidates(hand.id) = {}
       THEN DeferHand
       ELSE /\ \E s \in Candidates(hand.id) : LaunchOn(s, hand.id)
            /\ UNCHANGED <<queue_tasks_deferred, queue_results_legacy>>

\* CANCEL: the first slot linked with the target, if any, is released.
Linked(t) == {s \in Slots : slots[s].id_task = t}
FirstLinked(t) == CHOOSE s \in Linked(t) : \A q \in Linked(t) : s <= q

HandleCancel ==
    /\ hand.type = "CANCEL"
    /\ IF Linked(hand.id_target) = {}
       THEN UNCHANGED <<slots, stop_internal_decode>>
       ELSE LET s == FirstLinked(hand.id_target) IN
            /\ slots' = [slots EXCEPT ![s] = Release(@)]
            /\ stop_internal_decode' = FALSE
    /\ UNCHANGED <<queue_tasks_deferred, queue_results, queue_results_legacy>>

HandleNextResponse ==
    /\ hand.type = "NEXT_RESPONSE"
    /\ UNCHANGED <<queue_tasks_deferred, queue_results, queue_results_legacy,
                   slots, stop_internal_decode>>

\* Mutant: the answer goes to the result queue of the readers.
AnswerWrongQueue ==
    /\ SendResult(hand.id, "final")
    /\ UNCHANGED <<queue_tasks_deferred, queue_results_legacy, slots, stop_internal_decode>>

\* METRICS, SET_LORA and the control vector tasks answer on the legacy queue.
Answer ==
    /\ queue_results_legacy' =
           Send(queue_results_legacy, waiting_task_ids, Result(hand.id, "final"))
    /\ UNCHANGED <<queue_tasks_deferred, queue_results, slots, stop_internal_decode>>

HandleAlways == hand.type \in {"METRICS", "SET_LORA"} /\ Answer

\* SLOT_SAVE, SLOT_RESTORE, SLOT_ERASE: an unknown slot or an unreadable file
\* is an error, a busy slot defers the task.  send_error always uses the
\* result queue of the readers.
HandleSlotOp ==
    /\ hand.type = "SLOT_OP"
    /\ LET id_slot == IdSlot[hand.id] IN
       \/ /\ \/ id_slot \notin Slots
             \/ "restore" \in Faults /\ Available(slots[id_slot])
          /\ SendResult(hand.id, "error")
          /\ UNCHANGED <<queue_tasks_deferred, queue_results_legacy, slots,
                         stop_internal_decode>>
       \/ id_slot \in Slots /\ ~Available(slots[id_slot]) /\ DeferHand
       \/ id_slot \in Slots /\ Available(slots[id_slot]) /\ Answer

ProcessSingleTask ==
    /\ loop = "handle"
    /\ loop' = "pop" /\ hand' = NextResponse
    /\ \/ HandleCompletion \/ HandleCancel \/ HandleNextResponse
       \/ HandleAlways \/ HandleSlotOp
    /\ UNCHANGED <<queue_tasks, running, waiting_task_ids, cur, batch, rd,
                   closed, admin>>

-----------------------------------------------------------------------------
(* Main thread: update_slots                                                *)

\* The counters of the last prompt are dead in a free slot: cleared, so that
\* equivalent states are equal.
Freed(slot) ==
    [slot EXCEPT !.command = "NONE", !.tokenized = FALSE, !.left = 0, !.n_decoded = 0]

\* Mutants: the deferred tasks stay deferred, too, are dropped, or are not moved.
RequeueTwice ==
    /\ queue_tasks' = NotifySlotChanged(queue_tasks, queue_tasks_deferred)
    /\ UNCHANGED queue_tasks_deferred
RequeueLost == UNCHANGED queue_tasks /\ queue_tasks_deferred' = <<>>
RequeueNothing == UNCHANGED <<queue_tasks, queue_tasks_deferred>>

\* queue_tasks.notify_slot_changed()
RequeueDeferred ==
    /\ queue_tasks' = NotifySlotChanged(queue_tasks, queue_tasks_deferred)
    /\ queue_tasks_deferred' = <<>>

\* release_slots(), then slots_idle(): with every slot idle the pass is over.
ReleaseSlots ==
    /\ loop = "update"
    /\ LET done == {s \in Slots : slots[s].command = "RELEASE"}
       IN  /\ slots' = [s \in Slots |-> IF s \in done
                                        THEN Freed(slots[s])
                                        ELSE slots[s]]
           /\ IF done = {}
              THEN UNCHANGED <<queue_tasks, queue_tasks_deferred>>
              ELSE RequeueDeferred
    /\ loop' = IF \A s \in Slots : Available(slots'[s]) THEN "wait" ELSE "next"
    /\ UNCHANGED <<running, resultVars, hand, cur, batch, stop_internal_decode,
                   rd, closed, admin>>

\* Mutant: update_slots does not post the task that brings the loop back to it.
PostNothing ==
    /\ loop = "next"
    /\ loop' = "shift" /\ cur' = 1
    /\ UNCHANGED <<queueVars, resultVars, slots, hand, batch, stop_internal_decode,
                   rd, closed, admin>>

\* The NEXT_RESPONSE task that keeps the loop running while a slot is busy.
PostNextResponse ==
    /\ loop = "next"
    /\ queue_tasks' = Post(queue_tasks, NextResponse)
    /\ loop' = "shift" /\ cur' = 1
    /\ UNCHANGED <<queue_tasks_deferred, running, resultVars, slots, hand, batch,
                   stop_internal_decode, rd, closed, admin>>

\* The loops over the slots of one pass: cur is the slot index, and the last
\* slot's step moves on to the next phase.
Advance(next) ==
    IF cur = NSlots THEN loop' = next /\ cur' = 1
                    ELSE loop' = loop /\ cur' = cur + 1

\* context_shift() on one slot.  With the context full and context shift off
\* the slot gets an error; release() has no effect while it is loading.
ContextShift ==
    /\ loop = "shift"
    /\ \/ UNCHANGED <<slots, queue_results, stop_internal_decode>>
       \/ /\ "ctx_full" \in Faults /\ IsProcessing(slots[cur])
          /\ slots[cur].tokenized /\ Len(queue_results) < MaxResults
          /\ slots' = [slots EXCEPT ![cur] = Release(@)]
          /\ SendResult(slots[cur].id_task, "error")
          /\ stop_internal_decode' = FALSE
    /\ Advance("sampled")
    /\ UNCHANGED <<queueVars, waiting_task_ids, queue_results_legacy, hand, batch,
                   rd, closed, admin>>

\* common_batch_clear(), then add_sampled_tokens(): one row, or a draft, for
\* every generating slot.  Without continuous batching no prompt joins them.
AddSampledTokens ==
    /\ loop = "sampled"
    /\ batch' = (\E s \in Slots : Processing(slots[s]))
    /\ loop' = IF cont_batching \/ ~batch' THEN "prompt" ELSE "decode"
    /\ UNCHANGED <<queueVars, resultVars, slots, hand, cur, stop_internal_decode,
                   rd, closed, admin>>

\* batch_pending_prompt() on one slot.  Tokenizing decides how many batches
\* the prompt takes; three checks of it end the slot's turn early.
PromptRejected(slot) ==
    /\ ~slot.tokenized
    /\ \/ /\ "empty" \in Faults
          /\ slots' = [slots EXCEPT ![cur] = ForceRelease(@)]
          /\ SendResult(slot.id_task, "final")
       \/ /\ "embd_large" \in Faults
          /\ slots' = [slots EXCEPT ![cur] = ForceRelease(@)]
          /\ SendResult(slot.id_task, "error")
       \/ /\ "ctx_exceeded" \in Faults
          /\ slots' = [slots EXCEPT ![cur] =
                          Release([@ EXCEPT !.tokenized = TRUE, !.left = MaxChunks])]
          /\ SendResult(slot.id_task, "error")
    /\ stop_internal_decode' = FALSE
    /\ UNCHANGED batch
    /\ Advance("decode")

ImageFailed(slot) ==
    /\ "image" \in Faults /\ Len(queue_results) < MaxResults
    /\ \E n \in (IF slot.tokenized THEN {slot.left} ELSE 1..MaxChunks) :
          slots' = [slots EXCEPT ![cur] =
                       Release([@ EXCEPT !.tokenized = TRUE, !.left = n])]
    /\ SendResult(slot.id_task, "error")
    /\ stop_internal_decode' = FALSE
    /\ UNCHANGED batch
    /\ Advance("decode")

\* One more batch of the prompt; the last one starts the generation.  A batch
\* that does not finish the prompt is full (the other slots wait for the next
\* pass) or was cut short for a checkpoint.
PromptChunk(slot) ==
    /\ \E n \in (IF slot.tokenized THEN {slot.left} ELSE 1..MaxChunks) :
          LET more == [slot EXCEPT !.tokenized = TRUE, !.left = n - 1] IN
          /\ slots' = [slots EXCEPT ![cur] =
                IF n = 1 THEN [more EXCEPT !.state = "PROCESSING", !.command = "NONE",
                                           !.n_decoded = 0]
                         ELSE more]
          /\ \/ Advance("decode")
             \/ n > 1 /\ loop' = "decode" /\ cur' = 1
    /\ batch' = TRUE
    /\ UNCHANGED <<queue_results, stop_internal_decode>>

BatchPendingPrompt ==
    /\ loop = "prompt"
    /\ IF Loading(slots[cur])
       THEN LET slot == slots[cur]
            IN PromptRejected(slot) \/ ImageFailed(slot) \/ PromptChunk(slot)
       ELSE /\ Advance("decode")
            /\ UNCHANGED <<slots, queue_results, batch, stop_internal_decode>>
    /\ UNCHANGED <<queueVars, waiting_task_ids, queue_results_legacy, hand, rd,
                   closed, admin>>

\* process_batch_tokens(): the decode.  With no tokens the pass is over.  The
\* flag, read after every micro-batch, aborts it with -3: every slot is forced
\* out, and nothing is sent to anyone.  Any other failure is reported to all.
Decode ==
    /\ loop = "decode"
    /\ IF batch /\ stop_internal_decode
       THEN /\ slots' = [s \in Slots |-> ForceRelease(slots[s])]
            /\ stop_internal_decode' = FALSE
            /\ loop' = "wait"
       ELSE /\ loop' \in (IF ~batch THEN {"wait"}
                          ELSE {"sample"} \cup (IF "kv_full" \in Faults THEN {"fail"} ELSE {}))
            /\ UNCHANGED <<slots, stop_internal_decode>>
    /\ UNCHANGED <<queueVars, resultVars, hand, cur, batch, rd, closed, admin>>

\* The error branch after a failed decode, one slot at a time, idle ones too.
DecodeFailed ==
    /\ loop = "fail"
    /\ slots' = [slots EXCEPT ![cur] = ForceRelease(@)]
    /\ SendResult(slots[cur].id_task, "error")
    /\ stop_internal_decode' = FALSE
    /\ Advance("wait")
    /\ UNCHANGED <<queueVars, waiting_task_ids, queue_results_legacy, hand, batch,
                   rd, closed, admin>>

\* What process_token sends of a token in streaming mode: a partial result,
\* unless the text ends in the middle of a character (fault "held").
Streamed(t, results) ==
    IF OwnerOf(t) \in Streams
    THEN {Send(results, waiting_task_ids, Result(t, "partial"))}
         \cup (IF "held" \in Faults THEN {results} ELSE {})
    ELSE {results}

\* Mutant: the check of the token budget is missing.
GeneratesForever(slot) ==
    /\ slots' = [slots EXCEPT ![cur].n_decoded = @ + 1]
    /\ queue_results' \in Streamed(slot.id_task, queue_results)
    /\ UNCHANGED stop_internal_decode

\* process_token returns true: the slot goes on, within its budget.
Generates(slot) ==
    /\ slot.n_decoded + 1 < MaxTokens
    /\ slots' = [slots EXCEPT ![cur].n_decoded = @ + 1]
    /\ queue_results' \in Streamed(slot.id_task, queue_results)
    /\ UNCHANGED stop_internal_decode

\* Mutant: the slot is not released after its final response.
FinishesUnreleased(slot) ==
    /\ slots' = [slots EXCEPT ![cur] = [slot EXCEPT !.n_decoded = @ + 1]]
    /\ \E q \in Streamed(slot.id_task, queue_results) :
          queue_results' = Send(q, waiting_task_ids, Result(slot.id_task, "final"))
    /\ stop_internal_decode' = FALSE

\* send_final_response and release_slot_after_final_response: the stop token,
\* the stop string, the budget; also send_embedding and send_decision.
Finishes(slot) ==
    /\ slots' = [slots EXCEPT ![cur] = Release([slot EXCEPT !.n_decoded = @ + 1])]
    /\ \E q \in Streamed(slot.id_task, queue_results) :
          queue_results' = Send(q, waiting_task_ids, Result(slot.id_task, "final"))
    /\ stop_internal_decode' = FALSE

SamplingFails(slot) ==
    /\ "sampling" \in Faults
    /\ slots' = [slots EXCEPT ![cur] = Release(@)]
    /\ SendResult(slot.id_task, "error")
    /\ stop_internal_decode' = FALSE

SampleSlot ==
    /\ loop = "sample"
    /\ IF Processing(slots[cur])
       THEN LET slot == slots[cur]
            IN Generates(slot) \/ Finishes(slot) \/ SamplingFails(slot)
       ELSE UNCHANGED <<slots, queue_results, stop_internal_decode>>
    /\ Advance("wait")
    /\ UNCHANGED <<queueVars, waiting_task_ids, queue_results_legacy, hand, batch,
                   rd, closed, admin>>

MainStep ==
    \/ PopTask \/ ProcessSingleTask \/ WaitForTask \/ WakeUp
    \/ ReleaseSlots \/ PostNextResponse \/ ContextShift \/ AddSampledTokens
    \/ BatchPendingPrompt \/ Decode \/ DecodeFailed \/ SampleSlot

-----------------------------------------------------------------------------
(* HTTP threads: server_response_reader                                     *)

HasNext(r) == ~rd[r].cancelled /\ rd[r].received < Len(TasksOf[r])
AnyTaskOnSlot(r) ==
    \E s \in Slots : IsProcessing(slots[s]) /\ slots[s].id_task \in Ids(r)

Goto(r, pc) == rd' = [rd EXCEPT ![r].pc = pc]

\* post_tasks: the ids are registered before the tasks are posted.
AddWaitingTasks(r) ==
    /\ rd[r].pc = "init"
    /\ waiting_task_ids' = waiting_task_ids \cup Ids(r)
    /\ Goto(r, "post")
    /\ UNCHANGED <<queueVars, queue_results, queue_results_legacy, mainVars,
                   stop_internal_decode, loop, closed, admin>>

PostTasks(r) ==
    /\ rd[r].pc = "post"
    /\ queue_tasks' = PostAll(queue_tasks,
           [i \in DOMAIN TasksOf[r] |-> Work(TasksOf[r][i], "COMPLETION")], FALSE)
    /\ Notify
    /\ Goto(r, "recv")
    /\ UNCHANGED <<queue_tasks_deferred, running, resultVars, mainVars,
                   stop_internal_decode, closed, admin>>

\* next() with a result.  An error ends the request.  A request that is not
\* streamed ends when has_next() is false (wait_for_all); a stream checks that
\* only from its second result on, and also ends when a write fails.
AfterResult(r, res, received) ==
    LET over == ~rd[r].cancelled /\ received >= Len(TasksOf[r]) IN
    IF res.kind = "error" THEN {"stop"}
    ELSE IF r \notin Streams THEN {IF over THEN "stop" ELSE "recv"}
    ELSE {IF over /\ ~rd[r].first THEN "stop" ELSE "recv"}
         \cup (IF closed[r] THEN {"stop"} ELSE {})

Receive(r) ==
    /\ rd[r].pc = "recv" /\ Mine(queue_results, Ids(r)) # {}
    /\ LET i == FirstMine(queue_results, Ids(r))
           res == queue_results[i]
           stops == IF res.kind = "final" THEN 1 ELSE 0
           received == rd[r].received + stops
       IN  /\ queue_results' = RemoveAt(queue_results, i)
           /\ \E pc \in AfterResult(r, res, received) :
                 rd' = [rd EXCEPT ![r].pc = pc, ![r].received = received,
                                  ![r].results = IF stops = 1 THEN @ \cup {res.id} ELSE @,
                                  ![r].first = FALSE]
    /\ UNCHANGED <<queueVars, waiting_task_ids, queue_results_legacy, mainVars,
                   stop_internal_decode, loop, closed, admin>>

\* recv_with_timeout returned nullptr and should_stop() holds.  A timeout may
\* race with a result that has just arrived.  A stream past its first result
\* goes to on_complete() without looking at the slots.
Timeout(r) ==
    /\ rd[r].pc = "recv" /\ closed[r]
    /\ Goto(r, IF r \in Streams /\ ~rd[r].first THEN "stop" ELSE "gone")
    /\ UNCHANGED <<queueVars, resultVars, mainVars, stop_internal_decode, loop,
                   closed, admin>>

\* if (rd->any_task_on_slot()) ...
CheckSlots(r) ==
    /\ rd[r].pc = "gone"
    /\ Goto(r, IF AnyTaskOnSlot(r) THEN "decode_stop" ELSE "stop")
    /\ UNCHANGED <<queueVars, resultVars, mainVars, stop_internal_decode, loop,
                   closed, admin>>

\* ... llama_decode_stop();
DecodeStop(r) ==
    /\ rd[r].pc = "decode_stop"
    /\ stop_internal_decode' = TRUE
    /\ Goto(r, "stop")
    /\ UNCHANGED <<queueVars, resultVars, mainVars, loop, closed, admin>>

\* stop(): nobody waits for these tasks any more ...
Stop(r) ==
    /\ rd[r].pc = "stop"
    /\ waiting_task_ids' = waiting_task_ids \ Ids(r)
    /\ Goto(r, IF HasNext(r) THEN "cancel" ELSE "done")
    /\ UNCHANGED <<queueVars, queue_results, queue_results_legacy, mainVars,
                   stop_internal_decode, loop, closed, admin>>

\* ... and the ones without a final result are cancelled, before anything else
\* in the queue.
CancelTasks(r) ==
    /\ rd[r].pc = "cancel"
    /\ queue_tasks' = PostAll(CleanupPendingTask(queue_tasks, Ids(r)),
           [i \in DOMAIN TasksOf[r] |-> Cancel(TasksOf[r][i])], TRUE)
    /\ queue_tasks_deferred' = CleanupPendingTask(queue_tasks_deferred, Ids(r))
    /\ Notify
    /\ rd' = [rd EXCEPT ![r].pc = "done", ![r].cancelled = TRUE]
    /\ UNCHANGED <<running, resultVars, mainVars, stop_internal_decode, closed, admin>>

ReaderStep(r) ==
    \/ PostTasks(r) \/ Receive(r) \/ Timeout(r) \/ CheckSlots(r)
    \/ DecodeStop(r) \/ Stop(r) \/ CancelTasks(r)

-----------------------------------------------------------------------------
(* HTTP threads: the handlers that block in recv()                          *)

RegistersFirst(a) == AdminType[a] = "METRICS"

\* add_waiting_task_id: before the post for health, slots, metrics and memory,
\* after it for slot files, LoRA and control vectors.
AdminRegister(a) ==
    /\ admin[a] = IF RegistersFirst(a) THEN "init" ELSE "second"
    /\ waiting_task_ids' = waiting_task_ids \cup {a}
    /\ admin' = [admin EXCEPT ![a] = IF RegistersFirst(a) THEN "second" ELSE "recv"]
    /\ UNCHANGED <<queueVars, queue_results, queue_results_legacy, mainVars,
                   stop_internal_decode, loop, rd, closed>>

AdminPost(a) ==
    /\ admin[a] = IF RegistersFirst(a) THEN "second" ELSE "init"
    /\ queue_tasks' = Post(queue_tasks, Work(a, AdminType[a]))
    /\ Notify
    /\ admin' = [admin EXCEPT ![a] = IF RegistersFirst(a) THEN "recv" ELSE "second"]
    /\ UNCHANGED <<queue_tasks_deferred, running, resultVars, mainVars,
                   stop_internal_decode, rd, closed>>

\* recv(id), then remove_waiting_task_id(id)
AdminRecv(a) ==
    /\ admin[a] = "recv" /\ Mine(queue_results_legacy, {a}) # {}
    /\ queue_results_legacy' =
           RemoveAt(queue_results_legacy, FirstMine(queue_results_legacy, {a}))
    /\ waiting_task_ids' = waiting_task_ids \ {a}
    /\ admin' = [admin EXCEPT ![a] = "done"]
    /\ UNCHANGED <<queueVars, queue_results, mainVars, stop_internal_decode, loop,
                   rd, closed>>

AdminStep(a) == AdminRegister(a) \/ AdminPost(a) \/ AdminRecv(a)

-----------------------------------------------------------------------------
(* Environment                                                              *)

CloseConnection(r) ==
    /\ r \in MayClose /\ ~closed[r] /\ rd[r].pc = "recv"
    /\ closed' = [closed EXCEPT ![r] = TRUE]
    /\ UNCHANGED <<queueVars, resultVars, mainVars, stop_internal_decode, loop, rd, admin>>

\* Mutant: terminate() does not wake the loop.
TerminateQuietly ==
    /\ MayTerminate /\ running /\ running' = FALSE
    /\ UNCHANGED <<queue_tasks, queue_tasks_deferred, resultVars, mainVars, loop,
                   stop_internal_decode, rd, closed, admin>>

\* The signal handler: server_queue::terminate().
Terminate ==
    /\ MayTerminate /\ running /\ running' = FALSE
    /\ Notify
    /\ UNCHANGED <<queue_tasks, queue_tasks_deferred, resultVars, mainVars,
                   stop_internal_decode, rd, closed, admin>>

Next ==
    \/ MainStep
    \/ \E r \in Readers : AddWaitingTasks(r) \/ ReaderStep(r) \/ CloseConnection(r)
    \/ \E a \in Admins : AdminStep(a)
    \/ Terminate

Spec == Init /\ [][Next]_vars

\* The main thread and the threads of accepted requests keep running.  When a
\* request arrives, when a client disconnects and when the server is asked to
\* stop is up to the environment.
FairSpec ==
    /\ Spec
    /\ WF_vars(MainStep)
    /\ \A r \in Readers : WF_vars(ReaderStep(r))
    /\ \A a \in Admins : WF_vars(admin[a] # "init" /\ AdminStep(a))

-----------------------------------------------------------------------------
(* Properties                                                               *)

TaskTypes == {"COMPLETION", "CANCEL", "NEXT_RESPONSE", "METRICS", "SLOT_OP", "SET_LORA"}
TaskIds == ReaderTasks \cup Admins \cup {NoId}
Task == [type : TaskTypes, id : TaskIds, id_target : ReaderTasks \cup {NoId}]
ResultRec == [id : ReaderTasks \cup Admins, kind : {"partial", "final", "error"}]

\* Type invariant of the queues, the slots, the main thread and the handlers.
TypeOK ==
    /\ queue_tasks \in Seq(Task) /\ queue_tasks_deferred \in Seq(Task)
    /\ running \in BOOLEAN /\ waiting_task_ids \subseteq ReaderTasks \cup Admins
    /\ queue_results \in Seq(ResultRec) /\ queue_results_legacy \in Seq(ResultRec)
    /\ slots \in [Slots -> Slot]
    /\ stop_internal_decode \in BOOLEAN /\ batch \in BOOLEAN
    /\ loop \in {"pop", "handle", "update", "next", "shift", "sampled", "prompt",
                 "decode", "fail", "sample", "wait", "asleep", "woken", "exited"}
    /\ hand \in Task /\ cur \in Slots
    /\ rd \in [Readers -> [pc : {"init", "post", "recv", "gone", "decode_stop",
                                 "stop", "cancel", "done"},
                           received : Nat, results : SUBSET ReaderTasks,
                           first : BOOLEAN, cancelled : BOOLEAN]]
    /\ closed \in [Readers -> BOOLEAN]
    /\ admin \in [Admins -> {"init", "second", "recv", "done"}]

Places(t) ==
    {<<"queue", i>> : i \in {j \in DOMAIN queue_tasks : queue_tasks[j].id = t}}
    \cup {<<"deferred", i>> : i \in {j \in DOMAIN queue_tasks_deferred :
                                        queue_tasks_deferred[j].id = t}}
    \cup {<<"slot", s>> : s \in {q \in Slots : IsProcessing(slots[q])
                                               /\ slots[q].id_task = t}}
    \cup (IF hand.id = t THEN {<<"hand", 0>>} ELSE {})

\* A task is in at most one place: waiting in the queue, deferred, in the main
\* thread's hands or on one slot.  Deferring, re-queueing, cancelling and
\* launching never duplicate it.
OnePlace ==
    /\ TypeOK
    /\ \A t \in ReaderTasks \cup Admins : Cardinality(Places(t)) <= 1

\* GGML_ASSERT(batch_res.results[idx] == nullptr && "duplicate result
\* received") in wait_for_all never fires: every stop result a reader counts
\* is of another of its tasks.
NoDuplicateResult == \A r \in Readers : rd[r].received = Cardinality(rd[r].results)

\* Of one task nothing but an error is ever queued behind its final result, so
\* a client never sees text after the end of its answer.
NothingAfterFinal ==
    \A i, j \in DOMAIN queue_results :
        i < j /\ queue_results[i].id = queue_results[j].id
              /\ queue_results[i].kind = "final" => queue_results[j].kind = "error"

\* notify_slot_changed is the only way out of the deferred queue, and it is
\* called only when a slot is released: whenever a task is deferred there is a
\* slot in use (unless it asks for a slot that does not exist).
DeferredHasBusySlot ==
    (\E i \in DOMAIN queue_tasks_deferred :
        IdSlot[queue_tasks_deferred[i].id] \in Slots \cup {NoSlot})
    => \E s \in Slots : ~Available(slots[s])

\* The main thread sleeps, or has left its loop, only with nothing to do: all
\* slots are free, so that by DeferredHasBusySlot no task is deferred.
SleepsOnlyWhenIdle ==
    /\ DeferredHasBusySlot
    /\ loop \in {"asleep", "exited"} => \A s \in Slots : Available(slots[s])

\* A request that waits for results has not been forgotten: each of its tasks
\* is queued, deferred, in hand or on a slot, or its stop result or an error
\* is stored for the reader, or was already received.
NoLostRequest ==
    \A r \in Readers : rd[r].pc = "recv" => \A t \in Ids(r) :
        \/ t \in rd[r].results \/ Places(t) # {}
        \/ \E i \in DOMAIN queue_results :
              queue_results[i].id \in Ids(r) /\ queue_results[i].kind = "error"
        \/ \E i \in DOMAIN queue_results : queue_results[i] = Result(t, "final")

\* A slot in use is never handed to another task: process_single_task launches
\* on available slots only, and a released slot becomes available only in
\* update_slots.
SlotNotStolen ==
    [][\A s \in Slots : ~Available(slots[s]) => slots'[s].id_task = slots[s].id_task]_vars

\* A request whose client stays connected is eventually answered.
ReadersAnswered == \A r \in Readers : rd[r].pc = "post" ~> rd[r].pc = "done"

\* A request that registers before it posts (health, metrics, slots, memory)
\* is eventually answered, whatever happens to the slots.
MetricsAnswered ==
    \A a \in Admins : RegistersFirst(a) => (admin[a] = "second" ~> admin[a] = "done")

\* Every slot that is taken is eventually free again, whoever disconnects.
SlotsDrain == \A s \in Slots : ~Available(slots[s]) ~> Available(slots[s])

\* terminate() ends start_loop once the work in progress is done.
LoopEnds == ~running ~> loop = "exited"

-----------------------------------------------------------------------------
(* Statements of the code's comments that the runs refute                   *)

\* "release slot linked with the task id": after a CANCEL no slot works for
\* its target.
CancelReleasesSlot ==
    [][loop = "handle" /\ hand.type = "CANCEL" =>
        ~\E s \in Slots : IsProcessing(slots'[s]) /\ slots'[s].id_task = hand.id_target]_vars

\* "if this is cancel task make sure to clean up pending tasks": the tasks of
\* a request that cancelled them are no longer pending.
CancelledNotPending ==
    \A r \in Readers : rd[r].cancelled =>
        \A t \in Ids(r), i \in DOMAIN queue_tasks_deferred : queue_tasks_deferred[i].id # t

\* "stop only if OUR task is the active decode": a decode that is about to be
\* aborted carries only tasks of disconnected clients.
StopsOnlyOurs ==
    loop = "decode" /\ batch /\ stop_internal_decode =>
        \A s \in Slots : IsProcessing(slots[s]) => closed[OwnerOf(slots[s].id_task)]

\* "This function blocks the thread until there is a response for this
\* id_task": a handler that blocks in recv while the main thread sleeps has its
\* response in the queue it reads.
RecvHasResponse ==
    \A a \in Admins : admin[a] = "recv" /\ loop = "asleep" =>
        Mine(queue_results_legacy, {a}) # {}

\* "if (result.error) res_err(...)" after recv(): the error of a request that
\* blocks in recv is in the queue recv reads.
ErrorsReachRecv ==
    \A a \in Admins : admin[a] = "recv" => Mine(queue_results, {a}) = {}

\* "no more data, go to on_complete()": a reader that has received everything
\* does not wait for more.
NoWaitWithoutNext == \A r \in Readers : rd[r].pc = "recv" => HasNext(r)
=============================================================================
