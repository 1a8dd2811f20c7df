----------------------------- MODULE Generation -----------------------------
(***************************************************************************)
(* A slot that generates (examples/server/server-context.cpp): every pass  *)
(* of update_slots decodes the last token, samples one or, with a draft,   *)
(* several, and hands them to the reply.  Banned phrases hold tokens back  *)
(* in token_buffer and take them back with rewind_context; stop strings    *)
(* hold text back in process_token; the reasoning budget follows the       *)
(* tokens the sampler accepts.  One slot is modelled, from its first       *)
(* sampled token to its release.                                           *)
(***************************************************************************)
EXTENDS ReasoningBudget, FiniteSetsExt

CONSTANTS Eog,         \* the end-of-generation token
          Prompt,      \* the prompt: at least two tokens
          NCtxTrain,   \* llama_n_ctx_train
          AutoRewinds, \* rewinds always allowed when rewind_count_max = -1
          Confs        \* requests: vocabulary, ban phrases, stop strings, limits, drafts, reasoning tags

NoTok == "none"

Tokens == DOMAIN Piece

Chars == UNION {ToSet(Piece[t]) : t \in Tokens}

ASSUME GenerationAssumption ==
  /\ \A t \in Tokens : Piece[t] \in Seq(Chars)
  /\ NoTok \notin Tokens
  /\ Prompt \in Seq(Tokens) /\ Len(Prompt) >= 2
  /\ NCtxTrain \in Nat /\ AutoRewinds \in Nat
  /\ \A c \in Confs :
       /\ c.toks \subseteq Tokens /\ c.toks # {}
       /\ IsFiniteSet(c.phrases) /\ \A w \in c.phrases \cup c.stops : Len(w) \in Nat \ {0}
       /\ {c.n_predict, c.rewind_max, c.banned_n, c.banbuffer, c.budget} \subseteq Int
       /\ c.draft \in Nat /\ {c.saturate, c.recurrent, c.fails} \subseteq BOOLEAN
       /\ {c.start, c.end, c.forced, c.prefill} \subseteq Seq(Tokens)
       /\ c.start # <<>> => c.forced # <<>>

VARIABLES conf, \* the request, fixed at start
          slot, \* server_slot: st, cache (cache_tokens), sampled, buffer (token_buffer), bans
                \* (positional_bans), rewinds (rewind_count), n_decoded, n_remaining, text
                \* (generated_text), n_sent (n_sent_text), the stop flags, the text streamed
                \* so far and the tokens replied so far
          mem,  \* the KV rows of the slot, the recurrent state, the rewind checkpoints
          rb    \* the reasoning budget sampler
vars == <<conf, slot, mem, rb>>

Text(toks) == FlattenSeq([i \in DOMAIN toks |-> Piece[toks[i]]])

\* 0-based places where w occurs in text
Occurs(text, w) == {i \in 0 .. Len(text) - Len(w) : SubSeq(text, i + 1, i + Len(w)) = w}

\* validate_utf8
Valid(text) == IF text # <<>> /\ Last(text) = Lead THEN Len(text) - 1 ELSE Len(text)

\* the buffer length launch_slot_with_task derives from the phrases
NBuffer == IF conf.phrases = {} THEN 0
           ELSE IF conf.banbuffer > 0 THEN conf.banbuffer
           ELSE Max({Len(w) : w \in conf.phrases}) + 1

Rows(toks, from) == [i \in DOMAIN toks |-> [pos |-> from + i - 1, tok |-> toks[i]]]

RowsRm(rows, p) ==
  LET Kept[k \in 0 .. Len(rows)] ==
        IF k = 0 THEN <<>>
        ELSE IF rows[k].pos < p THEN Append(Kept[k - 1], rows[k]) ELSE Kept[k - 1]
  IN Kept[Len(rows)]

PosMax(rows) == Max({rows[i].pos : i \in DOMAIN rows} \cup {-1})

\* create_rewind_checkpoint: cells and recurrent state under the last position
SaveRewind(m) ==
  IF ~conf.recurrent \/ NBuffer = 0 THEN m
  ELSE [m EXCEPT !.saved = {x \in @ : x.pos # PosMax(m.rows)}
                           \cup {[pos |-> PosMax(m.rows), rows |-> m.rows, rs |-> m.rs]}]

\* llama_rewind_ckpt_discard of what n_buffer no longer needs
DropOld(m, n_past) == [m EXCEPT !.saved = {x \in @ : x.pos >= n_past - NBuffer - 3}]

Init ==
  /\ conf \in Confs
  /\ slot = [st |-> "processing", cache |-> Prompt, sampled |-> NoTok, buffer |-> <<>>, bans |-> {},
             rewinds |-> 0, n_decoded |-> 0, n_remaining |-> -1, text |-> <<>>, n_sent |-> 0,
             next |-> TRUE, word |-> FALSE, eos |-> FALSE, limit |-> FALSE,
             stream |-> <<>>, replied |-> <<>>]
  /\ mem = LET before == SaveRewind([rows |-> Rows(Front(Prompt), 0), rs |-> Front(Prompt), saved |-> {}])
           IN [before EXCEPT !.rows = Rows(Prompt, 0), !.rs = Prompt]
  /\ rb = BudgetAcceptAll(conf, NewBudget(conf), conf.prefill)

(***************************************************************************)
(* The reply.                                                              *)
(***************************************************************************)

HasBudgetLate(n) == conf.n_predict = -1 \/ conf.n_predict - n >= 0

\* has_budget
HasBudget(n) == conf.n_predict = -1 \/ conf.n_predict - n > 0

Remaining(s) == IF conf.n_predict = -1 THEN s.n_remaining ELSE conf.n_predict - s.n_decoded

TrainLimit(s) == conf.n_predict < 1 /\ Len(Prompt) + s.n_decoded >= NCtxTrain

HasNextToken(s, tok) == HasBudget(s.n_decoded) /\ tok # Eog /\ ~TrainLimit(s)

\* find_stopping_strings: where the first full stop string starts, or -1
FullStop(text, last) ==
  LET at == {i \in 0 .. Len(text) : \E w \in conf.stops :
               i \in Occurs(text, w) /\ i >= Len(text) - Len(w) - last}
  IN IF at = {} THEN -1 ELSE Min(at)

PartialStopShort(text) == \E w \in conf.stops : \E k \in 1 .. Len(w) - 2 : IsSuffix(SubSeq(w, 1, k), text)

\* string_find_partial_stop: text ends with the beginning of a stop string
PartialStop(text) == \E w \in conf.stops : \E k \in 1 .. Len(w) : IsSuffix(SubSeq(w, 1, k), text)

\* process_token: the text with the token, and what of it is not sent yet
WithToken(s, tok) ==
  LET str == IF tok = Eog THEN <<>> ELSE Piece[tok]
      all == s.text \o str
  IN [all |-> all, len |-> Len(str), cut |-> Valid(all) < Len(all),
      tested |-> SubSeq(all, s.n_sent + 1, Len(all))]

\* process_token: stop strings and limits, given w of WithToken
Checked(s, tok, w) ==
  LET stop  == IF w.cut THEN -1 ELSE FullStop(w.tested, w.len)
      limit == (stop < 0 /\ ~HasBudget(s.n_decoded)) \/ TrainLimit(s)
  IN [stop |-> stop, limit |-> limit, cut |-> w.cut, next |-> stop < 0 /\ ~limit /\ tok # Eog,
      text |-> IF stop >= 0 THEN SubSeq(w.all, 1, s.n_sent + stop) ELSE w.all,
      hold |-> w.cut \/ (stop < 0 /\ tok # Eog /\ PartialStop(w.tested))]

\* process_token: what is sent and what is held back, given c of Checked; the
\* last token of a reply releases what was held
Sending(s, tok, last, c) ==
  LET sent   == IF c.hold THEN s.n_sent ELSE Len(c.text)
      end    == IF c.cut THEN Valid(c.text) ELSE Len(c.text)
      late   == IF c.cut /\ last /\ ~c.next
                THEN FullStop(SubSeq(c.text, sent + 1, end), end - sent) ELSE -1
      stopat == IF late >= 0 THEN sent + late ELSE end
      free   == last /\ ~c.next /\ sent < stopat
      chunk  == IF c.cut \/ tok = Eog THEN <<>> ELSE SubSeq(c.text, s.n_sent + 1, sent)
      held   == IF free THEN SubSeq(c.text, sent + 1, stopat) ELSE <<>>
  IN [s EXCEPT !.sampled = tok, !.next = c.next, !.replied = Append(@, tok),
               !.text = IF late >= 0 THEN SubSeq(c.text, 1, stopat) ELSE c.text,
               !.n_sent = IF free THEN stopat ELSE sent,
               !.stream = @ \o chunk \o held,
               !.n_remaining = IF c.stop < 0 THEN Remaining(s) ELSE @,
               !.word = @ \/ c.stop >= 0 \/ late >= 0,
               !.eos = @ \/ tok = Eog,
               !.limit = @ \/ c.limit]

\* process_token for a streaming request
ProcessToken(s, tok, last) == Sending(s, tok, last, Checked(s, tok, WithToken(s, tok)))

\* send_final_response and release_slot_after_final_response, once there is no
\* next token
Finish(s) == [s EXCEPT !.st = IF s.next THEN @ ELSE "done"]

LimitOnlyNever(s) == FALSE

\* the limit alone does not end the sending: the buffered tokens are within it
LimitOnly(s) == s.limit /\ ~s.eos /\ ~s.word

\* send_token_results, one token of the buffer: p is the slot after process_token
Processed(acc, p, first, n) ==
  [s |-> [p EXCEPT !.bans = {x \in @ : x.pos # first + acc.count}],
   count |-> acc.count + 1,
   on |-> IF p.next THEN n = 0 \/ acc.count + 1 < n ELSE LimitOnly(p)]

\* send_token_results after its loop, which ended in r
LeftOver(s, r) ==
  Finish([r.s EXCEPT !.sampled = Last(s.buffer), !.buffer = SubSeq(@, r.count + 1, Len(s.buffer))])

\* send_token_results, the k-th token of the buffer, unless the loop has ended
SendToken(s, n, acc, k) ==
  IF ~acc.on THEN acc
  ELSE Processed(acc, ProcessToken(acc.s, s.buffer[k], k = Len(s.buffer)),
                 Len(s.cache) - Len(s.buffer) + 1, n)

\* send_token_results: the first n tokens of the buffer (0: all of them); once
\* the limit is reached the rest follows whatever n is
SendTokenResults(s, n) ==
  LET Sent[k \in 0 .. Len(s.buffer)] ==
        IF k = 0 THEN [s |-> s, count |-> 0, on |-> TRUE] ELSE SendToken(s, n, Sent[k - 1], k)
  IN LeftOver(s, Sent[Len(s.buffer)])

(***************************************************************************)
(* Banned phrases.                                                         *)
(***************************************************************************)

\* check_ban_phrase: the position of the token the first banned phrase starts
\* in, or -1
CheckBanPhrase(s) ==
  LET at == UNION {Occurs(Text(s.buffer), w) : w \in conf.phrases}
      Off(k) == Len(Text(SubSeq(s.buffer, 1, k - 1)))
      hit == {k \in DOMAIN s.buffer : Off(k) <= Min(at) /\ Min(at) < Off(k + 1)}
  IN IF at = {} THEN -1 ELSE Len(s.cache) - Len(s.buffer) + Min(hit)

AllowRewindZero(s) == s.rewinds < conf.rewind_max

\* rewind_count_max: -1 is a heuristic, 0 no limit
AllowRewind(s) ==
  CASE conf.rewind_max = -1 -> s.rewinds < AutoRewinds \/ s.rewinds <= 2 * Cardinality(conf.phrases)
    [] conf.rewind_max > 0  -> s.rewinds < conf.rewind_max
    [] OTHER                -> TRUE

KeepCacheBanned(s, m, ban_pos) == ban_pos

\* how many tokens rewind_context keeps in the cache: the token before the ban
\* is decoded again; a recurrent model goes back to its last checkpoint
KeepCache(s, m, ban_pos) ==
  LET keep  == Max({0, ban_pos - 1})
      older == {x.pos : x \in {y \in m.saved : y.pos <= keep - 1}}
  IN IF conf.recurrent /\ older # {} THEN Max(older) + 1 ELSE keep

\* rewind_context on the slot, but for the count
TakenBack(s, m, ban_pos) ==
  LET kept   == ban_pos - (Len(s.cache) - Len(s.buffer) + 1)
      taken  == SubSeq(s.buffer, kept + 1, Len(s.buffer))
      banned == IF conf.banned_n < 0 THEN taken
                ELSE SubSeq(taken, 1, Min({conf.banned_n, Len(taken)}))
      n      == KeepCache(s, m, ban_pos)
  IN [s EXCEPT !.bans = @ \cup {[pos |-> ban_pos, tok |-> t] : t \in ToSet(banned)},
               !.sampled = IF n < Len(s.cache) THEN s.cache[n + 1] ELSE NoTok,
               !.cache = SubSeq(@, 1, n),
               !.buffer = SubSeq(@, 1, kept),
               !.n_decoded = IF conf.saturate THEN Max({0, @ - (Len(s.cache) + 1 - ban_pos)}) ELSE @]

RewindSlotUncounted(s, m, ban_pos) == TakenBack(s, m, ban_pos)

RewindSlot(s, m, ban_pos) == [TakenBack(s, m, ban_pos) EXCEPT !.rewinds = @ + 1]

RewindMemLeaves(s, m, ban_pos) == m

\* rewind_context on the KV cache: cells removed, or cells and recurrent state
\* of the checkpoint brought back
RewindMem(s, m, ban_pos) ==
  LET n  == KeepCache(s, m, ban_pos)
      at == {x \in m.saved : x.pos = n - 1}
  IN IF ~conf.recurrent THEN [m EXCEPT !.rows = RowsRm(@, n)]
     ELSE [rows  |-> IF at = {} THEN m.rows ELSE RowsRm((CHOOSE x \in at : TRUE).rows, n),
           rs    |-> IF at = {} THEN m.rs ELSE (CHOOSE x \in at : TRUE).rs,
           saved |-> {x \in m.saved : x.pos < n}]

\* buffer_and_check_string_ban
BufferAndCheck(s0, m, tok) ==
  LET s    == [s0 EXCEPT !.buffer = Append(@, tok), !.n_remaining = Remaining(s0)]
      next == HasNextToken(s, tok)
      ban  == CheckBanPhrase(s)
      calm == [s EXCEPT !.rewinds = 0]
  IN IF ban >= 0 /\ AllowRewind(s)
     THEN [s |-> RewindSlot(s, m, ban), m |-> RewindMem(s, m, ban), rewound |-> TRUE]
     ELSE [m |-> m, rewound |-> FALSE,
           s |-> IF next /\ Len(s.buffer) < NBuffer THEN [s EXCEPT !.sampled = tok]
                 ELSE SendTokenResults(calm, IF next THEN 1 ELSE 0)]

(***************************************************************************)
(* One pass of update_slots.                                               *)
(***************************************************************************)

\* tokens the sampler may return at position p: a banned token only when
\* nothing else is left
Candidates(b, bans, p) ==
  LET all  == BudgetApply(conf, b, conf.toks)
      free == {t \in all : [pos |-> p, tok |-> t] \notin bans}
  IN IF free = {} THEN all ELSE free

\* add_sampled_tokens and llama_decode, when there is a sampled token
Feed == IF slot.sampled = NoTok THEN <<>> ELSE <<slot.sampled>>

Fed == [slot EXCEPT !.cache = @ \o Feed]

Decoded(m, toks, from) ==
  [m EXCEPT !.rows = @ \o Rows(toks, from), !.rs = IF conf.recurrent THEN @ \o toks ELSE @]

\* a pass without a draft
Generate ==
  /\ slot.st = "processing"
  /\ LET n == Len(Fed.cache)
         m == Decoded(mem, Feed, Len(slot.cache))
         kept == IF slot.n_decoded > 0 THEN DropOld(m, n) ELSE m
     IN \E tok \in Candidates(rb, slot.bans, n) :
          LET s == [Fed EXCEPT !.n_decoded = @ + 1]
              r == IF NBuffer = 0
                   THEN [s |-> SendTokenResults([s EXCEPT !.buffer = <<tok>>], 0), m |-> m]
                   ELSE BufferAndCheck(s, SaveRewind(kept), tok)
          IN /\ rb' = BudgetAccept(conf, rb, tok)
             /\ slot' = r.s
             /\ mem' = r.m
  /\ UNCHANGED conf

\* get_n_draft_max
NDraftMax == IF slot.n_remaining > 0 THEN Min({conf.draft, slot.n_remaining - 1}) ELSE conf.draft

\* common_sampler_sample_and_accept_n: ids agree with the draft except for the last one
Accepted == {ids \in BoundedSeq(conf.toks \cup ToSet(conf.forced), NDraftMax + 1) :
               /\ ids # <<>>
               /\ \A i \in DOMAIN ids :
                    ids[i] \in Candidates(BudgetAcceptAll(conf, rb, SubSeq(ids, 1, i - 1)),
                                          slot.bans, Len(Fed.cache) + i - 1)}

\* the loop of speculative_decoding_accept over the accepted tokens, the i-th of them
ReplyWith(acc, ids, i) ==
  LET s == [acc.s EXCEPT !.n_decoded = @ + 1, !.cache = IF i > 1 THEN Append(@, ids[i - 1]) ELSE @]
  IN IF acc.s.st = "done" \/ acc.rewound THEN acc
     ELSE IF NBuffer > 0 THEN BufferAndCheck(s, acc.m, ids[i])
     ELSE [acc EXCEPT !.s = Finish(ProcessToken(s, ids[i], TRUE))]

ReplyWithAll(s, m, ids) ==
  LET Replied[i \in 0 .. Len(ids)] ==
        IF i = 0 THEN [s |-> s, m |-> m, rewound |-> FALSE] ELSE ReplyWith(Replied[i - 1], ids, i)
  IN Replied[Len(ids)]

\* a pass with a draft: drafted tokens are decoded with the sampled one, the
\* rejected ones removed again by common_speculative_commit
Speculate ==
  /\ slot.st = "processing" /\ slot.sampled # NoTok /\ NDraftMax > 0
  /\ \E ids \in Accepted :
       LET before == SaveRewind(DropOld(mem, Len(slot.cache)))
           m == Decoded(before, Feed \o Front(ids), Len(slot.cache))
           r == ReplyWithAll(Fed, m, ids)
       IN /\ rb' = BudgetAcceptAll(conf, rb, ids)
          /\ slot' = r.s
          /\ mem' = r.m
  /\ UNCHANGED conf

\* a sampler that throws: send_error and release
SamplingFails ==
  /\ slot.st = "processing" /\ conf.fails
  /\ slot' = [Fed EXCEPT !.st = "error"]
  /\ mem' = Decoded(mem, Feed, Len(slot.cache))
  /\ UNCHANGED <<conf, rb>>

\* the slot is free for other requests
Released == slot.st # "processing" /\ UNCHANGED vars

Next == Generate \/ Speculate \/ SamplingFails \/ Released

\* Weak fairness of a pass, with its enabling condition written out: a pass is
\* enabled exactly while the slot is processing and always changes the state (a
\* token more or a rewind more); update_slots posts itself another pass for as
\* long as a slot is processing.
PassesGoOn == []<>(slot.st # "processing") \/ []<><<slot.st = "processing">>_vars

Spec == Init /\ [][Next]_vars /\ PassesGoOn

-----------------------------------------------------------------------------
(***************************************************************************)
(* Requests two of the theorems are about.                                 *)
(***************************************************************************)

\* No recurrent model drafts and bans at once: a draft takes no rewind checkpoint
\* between its tokens, so that a rewind into it cannot restore the recurrent state.
SafeRequests(confs) == \A c \in confs : c.recurrent /\ c.draft > 0 => c.phrases = {}

\* tokens the sampler can return
Sampled(c) == c.toks \cup ToSet(c.forced)

\* No stop string ends in a token that ends inside a character: process_token does
\* not search such a token, and the next search only reaches back over its own token.
SafeStops(confs) ==
  \A c \in confs : \A t \in Sampled(c) :
    (Piece[t] # <<>> /\ Last(Piece[t]) = Lead) =>
      \A w \in c.stops : w[Len(w)] \notin ToSet(Piece[t])

-----------------------------------------------------------------------------
(***************************************************************************)
(* Properties.                                                             *)
(***************************************************************************)

Reply == slot.replied \o slot.buffer

\* The types of the slot and of the budget: no index past its tag or message, and a
\* token to decode in every pass but the first.
TypeOK ==
  /\ conf \in Confs
  /\ slot.st \in {"processing", "done", "error"}
  /\ slot.cache \in Seq(Tokens) /\ slot.buffer \in Seq(Tokens) /\ slot.replied \in Seq(Tokens)
  /\ slot.sampled \in Tokens \cup (IF slot.n_decoded = 0 THEN {NoTok} ELSE {})
  /\ slot.rewinds \in Nat /\ slot.n_decoded \in Nat /\ slot.n_sent \in 0 .. Len(slot.text)
  /\ \A x \in slot.bans : x.pos \in Nat /\ x.tok \in Tokens
  /\ rb.st \in {"IDLE", "COUNTING", "WAITING_UTF8", "FORCING", "DONE"}
  /\ rb.start \in 0 .. Len(conf.start) /\ rb.end \in 0 .. Len(conf.end)
  /\ rb.force_pos \in 0 .. Len(conf.forced)

\* The context the next token is sampled from is the prompt followed by exactly
\* the tokens the client gets: rewind_context cuts cache_tokens, the sampled
\* token and token_buffer at the same place, for drafts as for single tokens.
\* The KV rows and the recurrent state are those of cache_tokens, with nothing
\* left of rejected drafts or rewound tokens; a released slot keeps at least the
\* rows cache_tokens promises to the next prompt.
ContextMatchesReply ==
  /\ TypeOK
  /\ slot.st = "processing" => /\ slot.cache \o Feed = Prompt \o Reply
                               /\ mem.rows = Rows(slot.cache, 0)
                               /\ conf.recurrent => mem.rs = slot.cache
  /\ IsPrefix(Rows(slot.cache, 0), mem.rows)

\* With unlimited rewinds and the derived buffer length a banned phrase never
\* reaches the reply, whatever tokens it is cut into (common.h:396).
NoBannedText ==
  (conf.rewind_max = 0 /\ conf.banbuffer = 0) =>
    \A w \in conf.phrases : Occurs(slot.text, w) = {}

\* The weaker promise that the buffer makes: what it holds between two passes is
\* free of banned phrases, so that a phrase is only sent when a rewind has brought
\* its beginning, sent before, next to its end.
BufferClean ==
  (conf.rewind_max = 0 /\ conf.banbuffer = 0 /\ slot.st = "processing") =>
    \A w \in conf.phrases : Occurs(Text(slot.buffer), w) = {}

\* A stop string is never streamed, not even over several chunks.
StopNeverStreamed == \A w \in conf.stops : Occurs(slot.stream, w) = {}

\* The client's text is the generated text up to n_sent_text, and all complete
\* characters of it once the reply has ended by a limit or a stop string.
StreamFollowsText ==
  ~slot.eos => /\ slot.stream = SubSeq(slot.text, 1, slot.n_sent)
               /\ slot.st = "done" => slot.n_sent >= Valid(slot.text)

\* Text held back for a stop string that was not completed is sent when the
\* generation ends, also when it ends with an end-of-generation token
\* (server-context.cpp:2363).
HeldTextSent ==
  slot.st = "done" => Len(slot.stream) >= Valid(slot.text)

\* n_decoded counts at least the tokens of the reply, exactly those under
\* saturate_predict, and the reply is never longer than n_predict.
LimitHolds ==
  /\ slot.n_decoded >= Len(Reply)
  /\ (conf.saturate /\ slot.st = "processing") => slot.n_decoded = Len(Reply)
  /\ conf.n_predict >= 1 => Len(slot.replied) <= conf.n_predict

\* ends of the occurrences of the tag in toks
TagEnds(toks, tag) == {j \in Len(tag) .. Len(toks) : SubSeq(toks, j - Len(tag) + 1, j) = tag}

\* tokens of the reasoning block toks is in, not counting those that end
\* inside a character
OpenBlock(toks) ==
  LET closed == Max(TagEnds(toks, conf.end) \cup {0})
      starts == {j \in TagEnds(toks, conf.start) : j > closed}
  IN IF starts = {} THEN 0
     ELSE Cardinality({j \in Min(starts) + 1 .. Len(toks) :
                         LET t == Text(SubSeq(toks, 1, j)) IN Valid(t) = Len(t)})

\* A reasoning block of the reply is never longer than the budget and the
\* forced message and end tag, and what has been forced stands at the end of the
\* reply, in order and complete.
ReasoningBounded ==
  /\ conf.start # <<>> => OpenBlock(conf.prefill \o Reply) <= conf.budget + Len(conf.forced)
  /\ (slot.st = "processing" /\ rb.st = "FORCING") =>
       IsSuffix(SubSeq(conf.forced, 1, rb.force_pos), Reply)

\* The budget waits only while a character is incomplete.
WaitsForCharacter ==
  rb.st = "WAITING_UTF8" => LET t == Text(Reply) IN Valid(t) < Len(t)

\* A request with a token limit and a limit on rewinds ends.
GenerationEnds == <>(slot.st # "processing")
=============================================================================
