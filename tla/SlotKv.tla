------------------------------- MODULE SlotKv -------------------------------
(***************************************************************************)
(* The slots of the server and the KV cache they share                     *)
(* (examples/server/server-context.cpp over src/llama.cpp).  A slot keeps  *)
(* cache_tokens, its own idea of what its sequence holds in the KV cache,  *)
(* and reuses the common prefix with the next prompt on the strength of it.*)
(* Everything here runs on the main loop's thread: tasks are processed     *)
(* between two passes of update_slots, a pass builds one batch and decodes *)
(* it in views.  Speculative drafts, images, self-extend and string bans   *)
(* are left out.                                                           *)
(***************************************************************************)
EXTENDS KvCache, SequencesExt

CONSTANTS Toks,       \* token values
          Sampled,    \* tokens the model may sample
          NCtx,       \* context of one slot (n_ctx / n_parallel)
          NKeep,      \* params.n_keep
          NBatch,     \* llama_n_batch
          MaxStates,  \* prompts the prompt cache may hold
          Confs       \* configurations: number of slots, n_ubatch, system prompt length,
                      \* the prompts clients send, and what is enabled

ASSUME SlotKvAssumption ==
  /\ NCtx \in Nat /\ NCtx > 3 /\ NKeep \in 0 .. NCtx - 4 /\ NBatch \in Nat \ {0} /\ MaxStates \in Nat
  /\ Sampled \subseteq Toks
  /\ \A c \in Confs : /\ c.n_slots \in Nat \ {0} /\ c.n_slots * NCtx <= Size
                      /\ c.n_ubatch \in Nat \ {0} /\ c.sys \in Nat
                      /\ \A p \in c.prompts : p \in Seq(Toks) /\ Len(p) \in 1 .. NCtx - 1

VARIABLES conf,    \* the configuration, fixed at start
          kv,      \* the shared KV cache
          slot,    \* slot[s]: st, cache (cache_tokens), prompt, n (n_past_prompt)
          batch,   \* what is left of the batch of this pass
          n_batch, \* view size, halved when a view finds no room
          refused, \* the last pass gave up with "KV cache is full"
          states,  \* the prompt cache: tokens and saved state
          file,    \* the last saved slot file, or NoFile
          clean    \* clean_kv_cache
vars == <<conf, kv, slot, batch, n_batch, refused, states, file, clean>>

NoFile == [toks |-> <<>>, blob |-> <<>>]

Slots == 0 .. conf.n_slots - 1

SysTok == "sys"

FreeSlot == [st |-> "idle", cache |-> <<>>, prompt |-> <<>>, n |-> 0]

\* system_prompt_update: system tokens decoded for sequence 0, then shared
\* with the sequences 1 .. n_parallel
SystemPrompt(k, c) ==
  LET toks == [i \in 1 .. c.sys |-> [tok |-> SysTok, pos |-> i - 1, seq |-> 0]]
      Share[i \in 0 .. c.n_slots] ==
        IF i = 0 THEN Decode(k, toks, c.n_ubatch).kv ELSE SeqCp(Share[i - 1], 0, i, -1, -1)
  IN IF c.sys = 0 THEN k ELSE Share[c.n_slots]

Init ==
  /\ conf \in Confs
  /\ kv = SystemPrompt(EmptyKv, conf)
  /\ slot = [s \in Slots |-> FreeSlot]
  /\ batch = <<>> /\ n_batch = NBatch /\ refused = FALSE
  /\ states = <<>> /\ file = NoFile
  /\ clean = (conf.sys = 0)

Idle(s) == slot[s].st = "idle"

\* A task is processed between two passes.  The first pass over idle slots runs
\* before any task, unless the task was queued before the loop started.
TasksTurn == batch = <<>> /\ (conf.early \/ ~clean)

Lcp(a, b) == Max({n \in 0 .. Min({Len(a), Len(b)}) : SubSeq(a, 1, n) = SubSeq(b, 1, n)})

(***************************************************************************)
(* The prompt cache, as get_available_slot uses it.                        *)
(***************************************************************************)

\* server_prompt_cache::alloc and prompt_save
PromptSave(sts, toks, blob) ==
  LET kept == {i \in DOMAIN sts : Lcp(sts[i].toks, toks) # Len(sts[i].toks)}
  IN IF \E i \in DOMAIN sts : Lcp(sts[i].toks, toks) = Len(toks) THEN sts
     ELSE Append([k \in 1 .. Cardinality(kept) |-> sts[Nth(kept, k)]],
                 [toks |-> toks, blob |-> blob])

\* server_prompt_cache::update: the oldest prompts go first, one always stays
PromptEvict(sts) == SubSeq(sts, Max({1, Len(sts) - Max({1, MaxStates}) + 1}), Len(sts))

\* the similarity 2 * lcp / (a + b), compared by cross multiplication
MoreSimilar(a, b, p) ==
  Lcp(a, p) * (Len(b) + Len(p)) > Lcp(b, p) * (Len(a) + Len(p))

\* server_prompt_cache::load: the first of the most similar prompts that keep
\* half of their tokens and beat what the slot holds; 0 if there is none
BestState(sts, held, p) ==
  LET good == {i \in DOMAIN sts : /\ 2 * Lcp(sts[i].toks, p) >= Len(sts[i].toks)
                                  /\ MoreSimilar(sts[i].toks, held, p)}
      best == {i \in good : \A j \in good : ~MoreSimilar(sts[j].toks, sts[i].toks, p)}
  IN IF good = {} THEN 0 ELSE Min(best)

\* What get_available_slot leaves: the cache, the slot's tokens, the prompts.
\* A state that finds no room has already removed the slot's cells.
ReusePrompt(s, p) ==
  LET held == slot[s].cache
      lose == held # <<>> /\ 2 * Lcp(held, p) < Len(held)
      sts == IF lose THEN PromptSave(states, held, SeqState(kv, s)) ELSE states
      b == IF sts = <<>> THEN 0 ELSE BestState(sts, held, p)
      set == SetSeqState(kv, s, sts[b].blob)
  IN IF b = 0 THEN [kv |-> kv, cache |-> held, states |-> IF sts = <<>> THEN sts ELSE PromptEvict(sts)]
     ELSE IF ~set.ok THEN [kv |-> set.kv, cache |-> held, states |-> PromptEvict(sts)]
     ELSE [kv |-> set.kv, cache |-> sts[b].toks, states |-> PromptEvict(RemoveAt(sts, b))]

(***************************************************************************)
(* Tasks.                                                                  *)
(***************************************************************************)

\* get_available_slot: the first of the most similar slots; if no slot has anything
\* in common with the prompt the least recently used one, which may be any.
PickedFor(s, p) ==
  LET near == {t \in Slots : Idle(t) /\ Lcp(slot[t].cache, p) > 0}
      best == {t \in near : \A u \in near : ~MoreSimilar(slot[u].cache, slot[t].cache, p)}
  IN s \in (IF near = {} THEN Slots ELSE {Min(best)})

\* A completion asks for its slot or lets the server pick one; only a picked slot
\* goes through the prompt cache.
Launch(s, p, picked) ==
  /\ TasksTurn /\ Idle(s)
  /\ picked => PickedFor(s, p)
  /\ LET r == IF picked /\ conf.prompt_cache THEN ReusePrompt(s, p)
              ELSE [kv |-> kv, cache |-> slot[s].cache, states |-> states]
     IN /\ kv' = r.kv /\ states' = r.states
        /\ slot' = [slot EXCEPT ![s] = [st |-> "load", cache |-> r.cache, prompt |-> p, n |-> -1]]
  /\ UNCHANGED <<conf, batch, n_batch, refused, file, clean>>

\* SERVER_TASK_TYPE_CANCEL: release() acts on a generating slot only.
Cancel(s) ==
  /\ TasksTurn /\ slot[s].st = "gen"
  /\ slot' = [slot EXCEPT ![s] = [FreeSlot EXCEPT !.cache = slot[s].cache]]
  /\ UNCHANGED <<conf, kv, batch, n_batch, refused, states, file, clean>>

\* Mutant: the cells go, the tokens stay.
EraseKvOnly(s) ==
  /\ TasksTurn /\ Idle(s)
  /\ kv' = SeqRm(kv, s, -1, -1)
  /\ UNCHANGED <<conf, slot, batch, n_batch, refused, states, file, clean>>

\* SERVER_TASK_TYPE_SLOT_ERASE
Erase(s) ==
  /\ TasksTurn /\ Idle(s)
  /\ kv' = SeqRm(kv, s, -1, -1)
  /\ slot' = [slot EXCEPT ![s].cache = <<>>]
  /\ UNCHANGED <<conf, batch, n_batch, refused, states, file, clean>>

\* SERVER_TASK_TYPE_SLOT_SAVE
Save(s) ==
  /\ TasksTurn /\ Idle(s) /\ conf.files
  /\ file' = [toks |-> slot[s].cache, blob |-> SeqState(kv, s)]
  /\ UNCHANGED <<conf, kv, slot, batch, n_batch, refused, states, clean>>

\* SERVER_TASK_TYPE_SLOT_RESTORE
Restore(s) ==
  /\ TasksTurn /\ Idle(s) /\ conf.files /\ file # NoFile
  /\ LET set == SetSeqState(kv, s, file.blob)
     IN /\ kv' = set.kv
        /\ slot' = [slot EXCEPT ![s].cache = IF set.ok THEN file.toks ELSE <<>>]
  /\ UNCHANGED <<conf, batch, n_batch, refused, states, file, clean>>

(***************************************************************************)
(* update_slots: context_shift, add_sampled_tokens, batch_pending_prompt.  *)
(* A pass works on p = [kv, slot, batch].                                  *)
(***************************************************************************)

\* discard_n_kv_and_cache_tokens and server_tokens::discard_n_tokens
Discard(p, s, keep, n) ==
  LET toks == p.slot[s].cache
      len == Len(toks)
      moved == SeqAdd(SeqRm(p.kv, s, keep, keep + n), s, keep + n, len, -n)
  IN [p EXCEPT !.kv = moved,
               !.slot[s].cache = IF n <= 0 \/ keep + n >= len THEN @
                                 ELSE SubSeq(@, 1, keep) \o SubSeq(@, keep + n + 1, len)]

\* Mutant: the limit is off by one.
ShiftSlotLate(p, s) ==
  LET n_past == Len(p.slot[s].cache)
      n_discard == (conf.sys + n_past - NKeep) \div 2
  IN IF p.slot[s].st # "gen" \/ conf.sys + n_past < NCtx + 1 THEN p ELSE Discard(p, s, NKeep, n_discard)

\* context_shift: a slot at its limit gives up half of what follows the kept prefix;
\* a slot that still loads its prompt is below the limit
ShiftSlot(p, s) ==
  LET n_past == Len(p.slot[s].cache)
      n_discard == (conf.sys + n_past - NKeep) \div 2
  IN IF p.slot[s].st # "gen" \/ conf.sys + n_past < NCtx - 1 \/ n_discard <= 0 THEN p
     ELSE Discard(p, s, NKeep, n_discard)

AddToken(p, s, tok, pos) ==
  [p EXCEPT !.batch = Append(@, [tok |-> tok, pos |-> pos, seq |-> s]),
            !.slot[s].cache = Append(@, tok)]

\* add_sampled_tokens, without drafts
AddSampled(p, s, sampled) ==
  IF p.slot[s].st # "gen" THEN p ELSE AddToken(p, s, sampled[s], Len(p.slot[s].cache))

\* batch_pending_prompt, first visit: how much of the cache the prompt reuses;
\* at least one token is evaluated again
ReusedPrefix(sl) == LET n == Lcp(sl.cache, sl.prompt) IN IF n = Len(sl.prompt) /\ n > 0 THEN n - 1 ELSE n

\* Mutant: what follows the common part stays in the cache.
PendingPromptKeeps(p, s) ==
  LET sl == p.slot[s]
      n_past == IF sl.n = -1 THEN ReusedPrefix(sl) ELSE Len(sl.cache)
      from == IF sl.n = -1 THEN n_past ELSE sl.n
      more == Min({Len(sl.prompt) - from, NBatch - Len(p.batch)})
      Add[k \in 0 .. more] ==
        IF k = 0 THEN [p EXCEPT !.slot[s].cache = SubSeq(@, 1, n_past)]
        ELSE LET q == Add[k - 1]
             IN AddToken(q, s, sl.prompt[from + k], conf.sys + Len(q.slot[s].cache))
      done == from + more = Len(sl.prompt)
  IN IF sl.st # "load" \/ Len(p.batch) >= NBatch THEN p
     ELSE [Add[more] EXCEPT !.slot[s] = [st |-> IF done THEN "gen" ELSE "load", cache |-> @.cache,
                                         prompt |-> IF done THEN <<>> ELSE sl.prompt,
                                         n |-> IF done THEN 0 ELSE from + more]]

\* batch_pending_prompt: keep the common part, drop the rest from the cache, add
\* prompt tokens while there is room
PendingPrompt(p, s) ==
  LET sl == p.slot[s]
      n_past == IF sl.n = -1 THEN ReusedPrefix(sl) ELSE Len(sl.cache)
      from == IF sl.n = -1 THEN n_past ELSE sl.n
      more == Min({Len(sl.prompt) - from, NBatch - Len(p.batch)})
      Add[k \in 0 .. more] ==
        IF k = 0 THEN [p EXCEPT !.kv = SeqRm(@, s, conf.sys + n_past, -1),
                                !.slot[s].cache = SubSeq(@, 1, n_past)]
        ELSE LET q == Add[k - 1]
             IN AddToken(q, s, sl.prompt[from + k], conf.sys + Len(q.slot[s].cache))
      done == from + more = Len(sl.prompt)
  IN IF sl.st # "load" \/ Len(p.batch) >= NBatch THEN p
     ELSE [Add[more] EXCEPT !.slot[s] = [st |-> IF done THEN "gen" ELSE "load", cache |-> @.cache,
                                         prompt |-> IF done THEN <<>> ELSE sl.prompt,
                                         n |-> IF done THEN 0 ELSE from + more]]

\* the loops over the slots, in slot order
ContextShift(p) ==
  LET Shifted[i \in 0 .. conf.n_slots] == IF i = 0 THEN p ELSE ShiftSlot(Shifted[i - 1], i - 1)
  IN Shifted[conf.n_slots]

AddSampledTokens(p, sampled) ==
  LET Added[i \in 0 .. conf.n_slots] == IF i = 0 THEN p ELSE AddSampled(Added[i - 1], i - 1, sampled)
  IN Added[conf.n_slots]

BatchPendingPrompt(p) ==
  LET Filled[i \in 0 .. conf.n_slots] == IF i = 0 THEN p ELSE PendingPrompt(Filled[i - 1], i - 1)
  IN Filled[conf.n_slots]

Pass(sampled) ==
  BatchPendingPrompt(AddSampledTokens(ContextShift([kv |-> kv, slot |-> slot, batch |-> <<>>]), sampled))

Generating == {s \in Slots : slot[s].st = "gen"}

UpdateSlots ==
  /\ batch = <<>>
  /\ \E s \in Slots : ~Idle(s)
  /\ \E sampled \in [Generating -> Sampled] :
       LET p == Pass(sampled)
       IN kv' = p.kv /\ slot' = p.slot /\ batch' = p.batch
  /\ refused' = FALSE
  /\ UNCHANGED <<conf, n_batch, states, file, clean>>

\* slots_idle: the one time the cache is cleared because all slots are idle
IdlePass ==
  /\ batch = <<>> /\ \A s \in Slots : Idle(s)
  /\ clean
  /\ kv' = Clear(kv) /\ clean' = FALSE
  /\ UNCHANGED <<conf, slot, batch, n_batch, refused, states, file>>

(***************************************************************************)
(* process_batch_tokens, one view.  fin are the slots whose generation     *)
(* ends with a token of this view.                                         *)
(***************************************************************************)
ViewLen == Min({n_batch, Len(batch)})

\* slots that sample from this view: the last token of theirs in the batch
SamplesIn(view) ==
  {s \in Generating : \E i \in DOMAIN view :
       /\ view[i].seq = s
       /\ \A j \in ViewLen + 1 .. Len(batch) : batch[j].seq # s}

\* a defragmentation is queued when the cells up to the last one in use are not
\* all in use (defrag_thold = 0, the padding of kv_self.n left out)
Fragmented(k) == conf.defrag /\ k.used < CellMax(k)

DecodeView(fin) ==
  /\ batch # <<>>
  /\ LET view == SubSeq(batch, 1, ViewLen)
         r == Decode(kv, view, conf.n_ubatch)
     IN /\ fin \subseteq SamplesIn(view)
        /\ r.ok
        /\ kv' = [r.kv EXCEPT !.do_defrag = @ \/ Fragmented(r.kv)]
        /\ slot' = [s \in Slots |-> IF s \in fin THEN [FreeSlot EXCEPT !.cache = slot[s].cache] ELSE slot[s]]
        /\ batch' = SubSeq(batch, ViewLen + 1, Len(batch))
        /\ n_batch' = IF batch' = <<>> THEN NBatch ELSE n_batch
  /\ UNCHANGED <<conf, refused, states, file, clean>>

\* llama_decode_stop, called by a handler whose client went away, ends a decode
\* with -3 after k micro-batches: every slot is released and keeps the tokens up to
\* the last position of its sequence (0 for an empty one).
StopDecode(k) ==
  /\ batch # <<>> /\ conf.stop
  /\ LET view == SubSeq(batch, 1, ViewLen)
         r == Decode(kv, SubSeq(view, 1, Min({k * conf.n_ubatch, Len(view)})), conf.n_ubatch)
         kept(s) == Min({SeqPosMax(r.kv, s) + 1, Len(slot[s].cache)})
     IN /\ r.ok /\ (k - 1) * conf.n_ubatch < Len(view)
        /\ kv' = r.kv
        /\ slot' = [s \in Slots |-> [FreeSlot EXCEPT !.cache = SubSeq(slot[s].cache, 1, kept(s))]]
  /\ batch' = <<>> /\ n_batch' = NBatch
  /\ UNCHANGED <<conf, refused, states, file, clean>>

\* Mutant: no second try with a smaller view.
DecodeGivesUp ==
  /\ batch # <<>>
  /\ LET r == Decode(kv, SubSeq(batch, 1, ViewLen), conf.n_ubatch)
     IN ~r.ok /\ kv' = r.kv
  /\ refused' = TRUE /\ n_batch' = NBatch /\ batch' = <<>>
  /\ slot' = [s \in Slots |-> [FreeSlot EXCEPT !.cache = slot[s].cache]]
  /\ UNCHANGED <<conf, states, file, clean>>

\* no room for the view: try again with half of it; no room for a single token:
\* every slot is released with an error
DecodeFails ==
  /\ batch # <<>>
  /\ LET r == Decode(kv, SubSeq(batch, 1, ViewLen), conf.n_ubatch)
     IN ~r.ok /\ kv' = r.kv
  /\ refused' = (n_batch = 1)
  /\ n_batch' = IF refused' THEN NBatch ELSE n_batch \div 2
  /\ batch' = IF refused' THEN <<>> ELSE batch
  /\ slot' = IF refused' THEN [s \in Slots |-> [FreeSlot EXCEPT !.cache = slot[s].cache]] ELSE slot
  /\ UNCHANGED <<conf, states, file, clean>>

Next ==
  \/ \E s \in Slots, p \in conf.prompts, picked \in BOOLEAN : Launch(s, p, picked)
  \/ \E s \in Slots : Cancel(s) \/ Erase(s) \/ Save(s) \/ Restore(s)
  \/ UpdateSlots \/ IdlePass
  \/ \E fin \in SUBSET Slots : DecodeView(fin)
  \/ \E k \in 1 .. NBatch : StopDecode(k)
  \/ DecodeFails

Spec == Init /\ [][Next]_vars

(***************************************************************************)
(* Servers two of the theorems are about: no system prompt, no task queued *)
(* before the first pass, micro-batches of one token or of a whole view,   *)
(* and one slot only where decodes are stopped or the prompt cache is on.  *)
(* Without any one of these the slots lose track of the cache.             *)
(***************************************************************************)
SafeServer(c) ==
  /\ c.sys = 0 /\ ~c.early
  /\ c.n_ubatch = 1 \/ c.n_ubatch >= NBatch
  /\ c.stop \/ c.prompt_cache => c.n_slots = 1

-----------------------------------------------------------------------------
Row == [tok : Toks \cup {NoTok, SysTok}, rope : Int]

\* The types of the cache, the slots and the batch.
TypeOK ==
  /\ conf \in Confs
  /\ kv.cells \in [Cells -> [pos : -1 .. Size, seqs : SUBSET (0 .. conf.n_slots), delta : Int]]
  /\ kv.rows \in [Cells -> Row]
  /\ kv.head \in 0 .. Size /\ kv.used \in 0 .. Size
  /\ \A s \in Slots : /\ slot[s].st \in {"idle", "load", "gen"}
                      /\ slot[s].cache \in Seq(Toks) /\ Len(slot[s].cache) <= NCtx
  /\ n_batch \in 1 .. NBatch

\* `used` counts the cells in use, a cell has a position exactly while a sequence
\* owns it: the two facts find_slot and defrag rely on (defrag asserts nf == nh,
\* "this can only happen if n_used is not accurate, which would be a bug").  So
\* find_slot refuses a batch exactly when no run of free cells is long enough.
UsedExact ==
  /\ \A n \in 1 .. Size :
       ScanFrom(kv, n).ok <=> \E h \in 0 .. Size - n : UsedIn(kv, h, n) = {}
  /\ kv.used = Cardinality(InUse(kv))
  /\ \A i \in Cells : (kv.cells[i].pos >= 0) <=> (kv.cells[i].seqs # {})

\* A K row in use is rotated to its cell's position once the pending shift is
\* applied, whatever shifts, defragmentations, restores and reuses came between.
RowsFollowCells ==
  \A i \in InUse(kv) : /\ kv.rows[i].rope + kv.cells[i].delta = kv.cells[i].pos
                       /\ kv.cells[i].delta # 0 => kv.has_shift

\* The tokens of slot s that the cache should hold now: cache_tokens without what
\* is still in the batch.
Decoded(s) == SubSeq(slot[s].cache, 1, Len(slot[s].cache) - Cardinality({i \in DOMAIN batch : batch[i].seq = s}))

\* "reuse any previously computed tokens that are common with the new prompt": the
\* tokens a slot counts as computed are in the KV cache, each once, at its position,
\* and while it generates its sequence holds no row of an earlier prompt beyond them.
CacheTokensInKv ==
  \A s \in Slots :
    /\ \A k \in 1 .. Len(Decoded(s)) :
         \E i \in Held(kv, s) :
            /\ kv.cells[i].pos = conf.sys + k - 1 /\ kv.rows[i].tok = Decoded(s)[k]
            /\ \A j \in Held(kv, s) \ {i} : kv.cells[j].pos # kv.cells[i].pos
    /\ slot[s].st = "gen" =>
         \A i \in Held(kv, s) : kv.cells[i].pos < conf.sys + Len(slot[s].cache)

\* Within the context of the slots a batch is never refused: halving the view down
\* to single tokens finds the free cells however scattered they are.
NeverRefused == TypeOK /\ ~refused

\* With one sequence, cells_disordered is set whenever the order of the cells is
\* not the order of the positions ("index-based SWA attention windowing must not be
\* used").
OrderFlagged ==
  conf.n_slots = 1 /\ ~kv.disordered =>
     \A i, j \in InUse(kv) : i < j => kv.cells[i].pos < kv.cells[j].pos
=============================================================================
