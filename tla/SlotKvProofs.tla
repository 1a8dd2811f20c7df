---------------------------- MODULE SlotKvProofs ----------------------------
(***************************************************************************)
(* The shared KV cache stays exact under everything the server does with   *)
(* it: for any number of slots and cells, any prompts, any view and        *)
(* micro-batch sizes.  The invariant says that the cache is good in the    *)
(* sense of KvCacheProofs, that a K-shift is pending only while the batch  *)
(* that will apply it is not decoded, and that every saved state was taken *)
(* with no shift pending.  On top of it a second invariant says what the   *)
(* cache holds: for every slot, together with the batch, its cache_tokens. *)
(***************************************************************************)
EXTENDS SlotKv, KvCacheProofs

RowToks == Toks \cup {NoTok, SysTok}

\* A slot; one that loads its prompt has evaluated a part of it, or nothing (-1).
SlotRec == {sl \in [st : {"idle", "load", "gen"}, cache : Seq(Toks), prompt : Seq(Toks), n : Int] :
              sl.st = "load" => sl.n \in -1..Len(sl.prompt)}

\* A prompt of the prompt cache, or a slot file.
Saved == [toks : Seq(Toks), blob : Seq(SavedCell(RowToks))]

\* A shift queued by context_shift is applied by the decode of the same pass, so
\* that between two passes, where states are saved and restored, none is pending.
SlotInv ==
    /\ conf \in Confs
    /\ kv \in GoodKv(RowToks)
    /\ batch = <<>> => ~kv.has_shift
    /\ slot \in [Slots -> SlotRec]
    /\ batch \in Seq(KvTok(RowToks))
    /\ n_batch \in 1..NBatch
    /\ states \in Seq(Saved)
    /\ file \in Saved

-----------------------------------------------------------------------------
(* Configurations and prompts                                               *)

\* What a configuration promises.
LEMMA ConfFacts ==
    ASSUME NEW c \in Confs
    PROVE  /\ c.n_slots \in Nat \ {0} /\ c.n_ubatch \in Nat \ {0} /\ c.sys \in Nat
           /\ \A p \in c.prompts : p \in Seq(Toks) /\ Len(p) >= 1
BY SlotKvAssumption

\* The tokens of the rows.
LEMMA RowTokFacts == NoTok \in RowToks /\ SysTok \in RowToks /\ Toks \subseteq RowToks
BY DEF RowToks

\* The common prefix is no longer than either sequence.
LEMMA LcpFacts ==
    ASSUME NEW a \in Seq(Toks), NEW b \in Seq(Toks)
    PROVE  Lcp(a, b) \in Nat /\ Lcp(a, b) <= Len(a) /\ Lcp(a, b) <= Len(b)
<1> DEFINE m == Min({Len(a), Len(b)})
           D == {n \in 0..m : SubSeq(a, 1, n) = SubSeq(b, 1, n)}
<1>1. Len(a) \in Nat /\ Len(b) \in Nat
  OBVIOUS
<1>2. m \in Nat /\ m <= Len(a) /\ m <= Len(b)
  BY <1>1, MinPair
<1> HIDE DEF m
<1>3. SubSeq(a, 1, 0) = <<>> /\ SubSeq(b, 1, 0) = <<>>
  OBVIOUS
<1>4. 0 \in D
  BY <1>2, <1>3
<1>5. IsFiniteSet(D) /\ D \subseteq Int
  <2>1. IsFiniteSet(0..m)
    BY <1>2, FS_Interval
  <2>2. D \subseteq 0..m /\ D \subseteq Int
    OBVIOUS
  <2> HIDE DEF D
  <2>. QED BY <2>1, <2>2, FS_Subset
<1>6. Max(D) \in D
  BY <1>4, <1>5, MinMax
<1>7. Lcp(a, b) = Max(D)
  BY DEF Lcp, m
<1>. QED BY <1>1, <1>2, <1>6, <1>7

\* Products keep their order under a positive factor, and only then.
LEMMA Scaled ==
    ASSUME NEW x \in Nat, NEW y \in Nat, NEW d \in Nat, d >= 1
    PROVE  x > y <=> x * d > y * d
<1>1. ASSUME x > y PROVE x * d > y * d
  <2>1. PICK e \in Nat : x = y + e /\ e >= 1
    <3>1. x - y \in Nat /\ x = y + (x - y) /\ x - y >= 1
      BY <1>1
    <3>. QED BY <3>1
  <2>2. x * d = y * d + e * d /\ e * d >= 1 /\ y * d \in Nat /\ e * d \in Nat
    BY <2>1
  <2>. QED BY <2>2
<1>2. ASSUME ~(x > y) PROVE ~(x * d > y * d)
  <2>1. PICK e \in Nat : y = x + e
    <3>1. y - x \in Nat /\ y = x + (y - x)
      BY <1>2
    <3>. QED BY <3>1
  <2>2. y * d = x * d + e * d /\ e * d >= 0 /\ x * d \in Nat /\ e * d \in Nat
    BY <2>1
  <2>. QED BY <2>2
<1>. QED BY <1>1, <1>2

\* The similarity of prompts is a strict order.
LEMMA SimilarOrder ==
    ASSUME NEW p \in Seq(Toks), Len(p) >= 1, NEW a \in Seq(Toks), NEW b \in Seq(Toks), NEW c \in Seq(Toks)
    PROVE  /\ ~MoreSimilar(a, a, p)
           /\ MoreSimilar(a, b, p) /\ MoreSimilar(b, c, p) => MoreSimilar(a, c, p)
<1> DEFINE la == Lcp(a, p)
           lb == Lcp(b, p)
           lc == Lcp(c, p)
           da == Len(a) + Len(p)
           db == Len(b) + Len(p)
           dc == Len(c) + Len(p)
<1>1. la \in Nat /\ lb \in Nat /\ lc \in Nat
  BY LcpFacts
<1>2. da \in Nat /\ da >= 1 /\ db \in Nat /\ db >= 1 /\ dc \in Nat /\ dc >= 1
  OBVIOUS
<1>3. /\ MoreSimilar(a, a, p) <=> la * da > la * da
      /\ MoreSimilar(a, b, p) <=> la * db > lb * da
      /\ MoreSimilar(b, c, p) <=> lb * dc > lc * db
      /\ MoreSimilar(a, c, p) <=> la * dc > lc * da
  BY DEF MoreSimilar
<1> HIDE DEF la, lb, lc, da, db, dc
<1>4. la * da \in Nat /\ la * db \in Nat /\ lb * da \in Nat /\ lb * dc \in Nat
      /\ lc * db \in Nat /\ la * dc \in Nat /\ lc * da \in Nat
  BY <1>1, <1>2
<1>5. ASSUME la * db > lb * da, lb * dc > lc * db PROVE la * dc > lc * da
  <2>1. (la * db) * dc > (lb * da) * dc
    BY <1>2, <1>4, <1>5, Scaled
  <2>2. (lb * dc) * da > (lc * db) * da
    BY <1>2, <1>4, <1>5, Scaled
  <2>3. /\ (la * db) * dc = (la * dc) * db /\ (lb * da) * dc = (lb * dc) * da
        /\ (lc * db) * da = (lc * da) * db
        /\ (la * db) * dc \in Nat /\ (lb * dc) * da \in Nat /\ (lc * db) * da \in Nat
    BY <1>1, <1>2
  <2>4. (la * dc) * db > (lc * da) * db
    BY <2>1, <2>2, <2>3
  <2>. QED BY <1>2, <1>4, <2>4, Scaled
<1>. QED BY <1>3, <1>4, <1>5

\* server_prompt_cache::load returns a prompt of the cache or none.
LEMMA BestStateIn ==
    ASSUME NEW sts \in Seq(Saved), NEW held \in Seq(Toks), NEW p \in Seq(Toks), Len(p) >= 1
    PROVE  BestState(sts, held, p) \in {0} \cup DOMAIN sts
<1> DEFINE n == Len(sts)
           good == {i \in DOMAIN sts : /\ 2 * Lcp(sts[i].toks, p) >= Len(sts[i].toks)
                                       /\ MoreSimilar(sts[i].toks, held, p)}
           More(j, i) == MoreSimilar(sts[j].toks, sts[i].toks, p)
           best == {i \in good : \A j \in good : ~More(j, i)}
           S == {m \in 0..n : (\E i \in good : i <= m) =>
                                \E i \in good : i <= m /\ \A j \in good : j <= m => ~More(j, i)}
<1>0. n \in Nat /\ DOMAIN sts = 1..n /\ good \subseteq 1..n
  OBVIOUS
<1>1. \A i \in good : sts[i].toks \in Seq(Toks)
  <2>1. \A i \in 1..n : sts[i] \in Saved
    OBVIOUS
  <2> HIDE DEF good
  <2>. QED BY <1>0, <2>1 DEF Saved
<1>2. BestState(sts, held, p) = IF good = {} THEN 0 ELSE Min(best)
  BY DEF BestState
<1> HIDE DEF good
<1>3. \A i, j, k \in good : ~More(i, i) /\ (More(i, j) /\ More(j, k) => More(i, k))
  BY <1>1, SimilarOrder
<1> HIDE DEF More
<1>4. 0 \in S
  BY <1>0
<1>5. ASSUME NEW m \in 1..n, m - 1 \in S PROVE m \in S
  <2>0. \A i \in good : i <= m <=> (i <= m - 1 \/ i = m)
    BY <1>0
  <2>1. CASE m \notin good
    BY <1>5, <2>0, <2>1
  <2>2. CASE m \in good /\ ~\E i \in good : i <= m - 1
    BY <1>3, <2>0, <2>2
  <2>3. CASE m \in good /\ \E i \in good : i <= m - 1
    <3>1. PICK i \in good : i <= m - 1 /\ \A j \in good : j <= m - 1 => ~More(j, i)
      BY <1>5, <2>3
    <3>2. CASE ~More(m, i)
      BY <2>0, <3>1, <3>2
    <3>3. CASE More(m, i)
      <4>1. \A j \in good : j <= m => ~More(j, m)
        BY <1>3, <2>0, <2>3, <3>1, <3>3
      <4>. QED BY <2>0, <2>3, <4>1
    <3>. QED BY <3>2, <3>3
  <2>. QED BY <2>1, <2>2, <2>3
<1>6. n \in S
  <2> HIDE DEF S, n
  <2>1. 0..n \subseteq S
    BY <1>0, <1>4, <1>5, UpTo
  <2>. QED BY <1>0, <2>1
<1>7. good # {} => best # {}
  BY <1>0, <1>6
<1>8. best \subseteq 1..n /\ best \subseteq Int /\ IsFiniteSet(best)
  <2>1. best \subseteq 1..n /\ best \subseteq Int
    <3>1. best \subseteq good
      OBVIOUS
    <3> HIDE DEF best, n
    <3>. QED BY <1>0, <3>1
  <2>2. IsFiniteSet(1..n)
    BY <1>0, FS_Interval
  <2> HIDE DEF best, n
  <2>. QED BY <2>1, <2>2, FS_Subset
<1>9. good # {} => Min(best) \in best
  BY <1>7, <1>8, MinMax
<1>. QED BY <1>0, <1>2, <1>8, <1>9

\* The prompts that stay are prompts that were there, or the new one.
LEMMA PromptSaveIn ==
    ASSUME NEW Z, NEW sts \in Seq(Z), NEW toks, NEW blob, [toks |-> toks, blob |-> blob] \in Z
    PROVE  PromptSave(sts, toks, blob) \in Seq(Z)
<1> DEFINE kept == {i \in DOMAIN sts : Lcp(sts[i].toks, toks) # Len(sts[i].toks)}
           n == Cardinality(kept)
           left == [k \in 1..n |-> sts[Nth(kept, k)]]
           new == [toks |-> toks, blob |-> blob]
<1>1. kept \subseteq DOMAIN sts /\ kept \subseteq Int /\ DOMAIN sts = 1..Len(sts) /\ Len(sts) \in Nat
  OBVIOUS
<1>2. PromptSave(sts, toks, blob) = IF \E i \in DOMAIN sts : Lcp(sts[i].toks, toks) = Len(toks) THEN sts
                                    ELSE Append(left, new)
  BY DEF PromptSave
<1> HIDE DEF kept
<1>3. IsFiniteSet(kept) /\ n \in Nat
  <2>1. IsFiniteSet(1..Len(sts))
    BY <1>1, FS_Interval
  <2>. QED BY <1>1, <2>1, FS_Subset, FS_CardinalityType
<1>4. ASSUME NEW k \in 1..n PROVE sts[Nth(kept, k)] \in Z
  <2>1. Nth(kept, k) \in kept
    BY <1>1, <1>3, NthIn
  <2>. QED BY <1>1, <2>1
<1> HIDE DEF n
<1>5. left \in Seq(Z)
  BY <1>3, <1>4
<1>6. new \in Z
  OBVIOUS
<1> HIDE DEF left, new
<1>. QED BY <1>2, <1>5, <1>6

\* Evicting drops the oldest prompts.
LEMMA PromptEvictIn ==
    ASSUME NEW Z, NEW sts \in Seq(Z)
    PROVE  PromptEvict(sts) \in Seq(Z)
<1> DEFINE m == Max({1, MaxStates})
           a == Max({1, Len(sts) - m + 1})
<1>1. \A x, y \in Int : Max({x, y}) \in {x, y} /\ x <= Max({x, y})
  <2> TAKE x, y \in Int
  <2>1. \E z \in {x, y} : \A w \in {x, y} : z >= w
    OBVIOUS
  <2>. QED BY <2>1 DEF Max
<1>2. m \in Int
  <2>1. 1 \in Int /\ MaxStates \in Int
    BY SlotKvAssumption
  <2>. QED BY <1>1, <2>1
<1> HIDE DEF m
<1>3. Len(sts) - m + 1 \in Int /\ Len(sts) \in Int
  BY <1>2
<1>4. a \in Int /\ 1 <= a
  BY <1>1, <1>3
<1>5. PromptEvict(sts) = SubSeq(sts, a, Len(sts))
  BY DEF PromptEvict, m
<1> HIDE DEF a
<1>. QED BY <1>3, <1>4, <1>5, PartOf

\* Removing a prompt leaves the others.
LEMMA RemoveIn ==
    ASSUME NEW Z, NEW sts \in Seq(Z), NEW b \in DOMAIN sts
    PROVE  RemoveAt(sts, b) \in Seq(Z)
<1>1. b \in 1..Len(sts) /\ Len(sts) \in Nat
  OBVIOUS
<1>2. SubSeq(sts, 1, b - 1) \in Seq(Z) /\ SubSeq(sts, b + 1, Len(sts)) \in Seq(Z)
  BY <1>1, PartOf
<1>. QED BY <1>2 DEF RemoveAt

ReuseResult == [kv : {k \in GoodKv(RowToks) : ~k.has_shift}, cache : Seq(Toks), states : Seq(Saved)]

\* get_available_slot: whether a saved prompt is found, fits or does not fit, the
\* cache stays good.
LEMMA ReusePromptGood ==
    ASSUME SlotInv, batch = <<>>, NEW s \in Slots, NEW p \in conf.prompts
    PROVE  ReusePrompt(s, p) \in ReuseResult
<1> DEFINE held == slot[s].cache
           lose == held # <<>> /\ 2 * Lcp(held, p) < Len(held)
           sts == IF lose THEN PromptSave(states, held, SeqState(kv, s)) ELSE states
           b == IF sts = <<>> THEN 0 ELSE BestState(sts, held, p)
           set == SetSeqState(kv, s, sts[b].blob)
<1>0. /\ kv \in GoodKv(RowToks) /\ ~kv.has_shift /\ states \in Seq(Saved) /\ held \in Seq(Toks)
      /\ p \in Seq(Toks) /\ Len(p) >= 1 /\ s \in Int /\ NoTok \in RowToks
  BY ConfFacts, RowTokFacts, SMTT(60) DEF SlotInv, SlotRec, Slots
<1>1. ReusePrompt(s, p) =
        IF b = 0 THEN [kv |-> kv, cache |-> held, states |-> IF sts = <<>> THEN sts ELSE PromptEvict(sts)]
        ELSE IF ~set.ok THEN [kv |-> set.kv, cache |-> held, states |-> PromptEvict(sts)]
        ELSE [kv |-> set.kv, cache |-> sts[b].toks, states |-> PromptEvict(RemoveAt(sts, b))]
  BY DEF ReusePrompt
<1>2. sts \in Seq(Saved)
  <2>1. SeqState(kv, s) \in Seq(SavedCell(RowToks))
    BY <1>0, SeqStateGood
  <2> HIDE DEF held
  <2>2. PromptSave(states, held, SeqState(kv, s)) \in Seq(Saved)
    <3>1. [toks |-> held, blob |-> SeqState(kv, s)] \in Saved
      BY <1>0, <2>1 DEF Saved
    <3>. QED BY <1>0, <3>1, PromptSaveIn
  <2>. QED BY <1>0, <2>2
<1> HIDE DEF held, sts
<1>3. b \in {0} \cup DOMAIN sts /\ PromptEvict(sts) \in Seq(Saved)
  BY <1>0, <1>2, BestStateIn, PromptEvictIn
<1> HIDE DEF b
<1>4. CASE b = 0
  <2>1. (IF sts = <<>> THEN sts ELSE PromptEvict(sts)) \in Seq(Saved)
    BY <1>2, <1>3
  <2>. QED BY <1>0, <1>1, <1>4, <2>1 DEF ReuseResult
<1>5. CASE b # 0
  <2>1. b \in DOMAIN sts /\ sts[b] \in Saved
    BY <1>2, <1>3, <1>5
  <2>2. sts[b].toks \in Seq(Toks) /\ sts[b].blob \in Seq(SavedCell(RowToks))
    BY <2>1 DEF Saved
  <2>3. set \in [ok : BOOLEAN, kv : GoodKv(RowToks)] /\ ~set.kv.has_shift
    BY <1>0, <2>2, SetSeqStateGood
  <2>4. PromptEvict(RemoveAt(sts, b)) \in Seq(Saved)
    BY <1>2, <2>1, RemoveIn, PromptEvictIn
  <2> HIDE DEF set
  <2>. QED BY <1>0, <1>1, <1>3, <1>5, <2>2, <2>3, <2>4 DEF ReuseResult
<1>. QED BY <1>4, <1>5

-----------------------------------------------------------------------------
(* A pass of update_slots                                                   *)

PassState == [kv : GoodKv(RowToks), slot : [Slots -> SlotRec], batch : Seq(KvTok(RowToks))]

\* The state of no slot changes.
SameStates(f, g) == \A t \in Slots : f[t].st = g[t].st

\* Other tokens in a slot.
LEMMA CacheOnly ==
    ASSUME NEW f \in [Slots -> SlotRec], NEW s \in Slots, NEW c \in Seq(Toks),
           NEW g, g = [f EXCEPT ![s].cache = c]
    PROVE  /\ g \in [Slots -> SlotRec] /\ SameStates(g, f)
           /\ g[s].cache = c /\ g[s].prompt = f[s].prompt
<1> DEFINE x == [f[s] EXCEPT !.cache = c]
<1>1. f[s] \in SlotRec
  OBVIOUS
<1>2. x \in SlotRec /\ x.st = f[s].st /\ x.cache = c /\ x.prompt = f[s].prompt
  BY <1>1 DEF SlotRec
<1>3. g = [f EXCEPT ![s] = x]
  OBVIOUS
<1> HIDE DEF x
<1>4. g \in [Slots -> SlotRec] /\ g[s] = x /\ \A t \in Slots \ {s} : g[t] = f[t]
  BY <1>2, <1>3
<1>5. SameStates(g, f)
  BY <1>2, <1>4 DEF SameStates
<1>. QED BY <1>2, <1>4, <1>5

\* discard_n_kv_and_cache_tokens: cells and tokens are discarded.
LEMMA DiscardGood ==
    ASSUME NEW p \in PassState, NEW s \in Slots, conf \in Confs, NEW keep \in Nat, NEW n \in Int
    PROVE  /\ Discard(p, s, keep, n) \in PassState
           /\ SameStates(Discard(p, s, keep, n).slot, p.slot)
           /\ Discard(p, s, keep, n).batch = p.batch
<1> DEFINE toks == p.slot[s].cache
           len == Len(toks)
           rm == SeqRm(p.kv, s, keep, keep + n)
           moved == SeqAdd(rm, s, keep + n, len, -n)
           c == IF n <= 0 \/ keep + n >= len THEN toks
                ELSE SubSeq(toks, 1, keep) \o SubSeq(toks, keep + n + 1, len)
           g == [p.slot EXCEPT ![s].cache = c]
<1>0. /\ p.kv \in GoodKv(RowToks) /\ p.slot \in [Slots -> SlotRec] /\ p.batch \in Seq(KvTok(RowToks))
      /\ s \in Int /\ NoTok \in RowToks
  BY ConfFacts, RowTokFacts DEF PassState, Slots
<1>1. toks \in Seq(Toks) /\ len \in Nat
  <2>1. p.slot[s] \in SlotRec
    BY <1>0
  <2>. QED BY <2>1 DEF SlotRec
<1>2. Discard(p, s, keep, n) = [p EXCEPT !.kv = moved, !.slot = g]
  BY DEF Discard
<1> HIDE DEF toks
<1>3. moved \in GoodKv(RowToks)
  <2>1. rm \in GoodKv(RowToks)
    BY <1>0, SeqRmGood
  <2> HIDE DEF rm
  <2>2. -n \in Int
    OBVIOUS
  <2>. QED BY <1>0, <2>1, <2>2, SeqAddGood
<1>4. c \in Seq(Toks)
  <2>1. CASE n <= 0 \/ keep + n >= len
    BY <1>1, <2>1
  <2>2. CASE ~(n <= 0 \/ keep + n >= len)
    <3>1. 1 <= keep + n + 1 /\ keep <= len /\ keep + n + 1 \in Int /\ keep \in Int
      BY <1>1, <2>2
    <3>2. SubSeq(toks, 1, keep) \in Seq(Toks) /\ SubSeq(toks, keep + n + 1, len) \in Seq(Toks)
      BY <1>1, <3>1, PartOf
    <3>. QED BY <2>2, <3>2
  <2>. QED BY <2>1, <2>2
<1> HIDE DEF c, moved
<1>5. g \in [Slots -> SlotRec] /\ SameStates(g, p.slot)
  <2>1. g = [p.slot EXCEPT ![s].cache = c]
    OBVIOUS
  <2> HIDE DEF g
  <2>. QED BY <1>0, <1>4, <2>1, CacheOnly
<1> HIDE DEF g
<1>6. /\ [p EXCEPT !.kv = moved, !.slot = g] \in PassState
      /\ [p EXCEPT !.kv = moved, !.slot = g].slot = g
      /\ [p EXCEPT !.kv = moved, !.slot = g].batch = p.batch
  BY <1>0, <1>3, <1>5 DEF PassState
<1>. QED BY <1>2, <1>5, <1>6

\* A K-shift is queued for a generating slot only.
LEMMA ShiftSlotGood ==
    ASSUME NEW p \in PassState, NEW s \in Slots, conf \in Confs
    PROVE  /\ ShiftSlot(p, s) \in PassState
           /\ SameStates(ShiftSlot(p, s).slot, p.slot)
           /\ ShiftSlot(p, s).batch = p.batch
           /\ p.slot[s].st # "gen" => ShiftSlot(p, s) = p
<1> DEFINE n_past == Len(p.slot[s].cache)
           d == (conf.sys + n_past - NKeep) \div 2
<1>1. conf.sys \in Nat /\ NKeep \in Nat
  BY ConfFacts, SlotKvAssumption
<1>2. n_past \in Nat
  <2>1. p.slot[s] \in SlotRec
    BY DEF PassState
  <2>. QED BY <2>1 DEF SlotRec
<1>3. ShiftSlot(p, s) = IF p.slot[s].st # "gen" \/ conf.sys + n_past < NCtx - 1 \/ d <= 0 THEN p
                        ELSE Discard(p, s, NKeep, d)
  BY DEF ShiftSlot
<1> HIDE DEF n_past
<1>4. d \in Int
  BY <1>1, <1>2
<1> HIDE DEF d
<1>5. /\ Discard(p, s, NKeep, d) \in PassState /\ SameStates(Discard(p, s, NKeep, d).slot, p.slot)
      /\ Discard(p, s, NKeep, d).batch = p.batch
  BY <1>1, <1>4, DiscardGood
<1>6. SameStates(p.slot, p.slot)
  BY DEF SameStates
<1>. QED BY <1>3, <1>5, <1>6

\* A token goes to the batch and to the slot's tokens.
LEMMA AddTokenGood ==
    ASSUME NEW p \in PassState, NEW s \in Slots, conf \in Confs, NEW tok \in Toks, NEW pos \in Nat
    PROVE  LET q == AddToken(p, s, tok, pos)
           IN /\ q \in PassState /\ SameStates(q.slot, p.slot) /\ q.kv = p.kv /\ q.batch # <<>>
              /\ q.slot[s].prompt = p.slot[s].prompt
<1> DEFINE e == [tok |-> tok, pos |-> pos, seq |-> s]
           b == Append(p.batch, e)
           c == Append(p.slot[s].cache, tok)
           g == [p.slot EXCEPT ![s].cache = c]
<1>0. /\ p.kv \in GoodKv(RowToks) /\ p.slot \in [Slots -> SlotRec] /\ p.batch \in Seq(KvTok(RowToks))
      /\ s \in Int /\ tok \in RowToks
  BY ConfFacts, RowTokFacts DEF PassState, Slots
<1>1. e \in KvTok(RowToks)
  BY <1>0 DEF KvTok
<1>2. c \in Seq(Toks)
  <2>1. p.slot[s] \in SlotRec
    BY <1>0
  <2>2. p.slot[s].cache \in Seq(Toks)
    BY <2>1 DEF SlotRec
  <2>. QED BY <2>2
<1>3. AddToken(p, s, tok, pos) = [p EXCEPT !.batch = b, !.slot = g]
  BY DEF AddToken
<1> HIDE DEF e
<1>4. b \in Seq(KvTok(RowToks)) /\ b # <<>>
  BY <1>0, <1>1
<1> HIDE DEF c, b
<1>5. g \in [Slots -> SlotRec] /\ SameStates(g, p.slot) /\ g[s].prompt = p.slot[s].prompt
  <2>1. g = [p.slot EXCEPT ![s].cache = c]
    OBVIOUS
  <2> HIDE DEF g
  <2>. QED BY <1>0, <1>2, <2>1, CacheOnly
<1> HIDE DEF g
<1> DEFINE q == [p EXCEPT !.batch = b, !.slot = g]
<1>6. q \in PassState /\ q.slot = g /\ q.batch = b /\ q.kv = p.kv
  BY <1>0, <1>4, <1>5 DEF PassState
<1> HIDE DEF q
<1>7. AddToken(p, s, tok, pos) = q
  BY <1>3 DEF q
<1>. QED BY <1>4, <1>5, <1>6, <1>7

\* The reused prefix is a part of the tokens and of the prompt.
LEMMA ReusedFacts ==
    ASSUME NEW sl \in SlotRec
    PROVE  /\ ReusedPrefix(sl) \in Nat
           /\ ReusedPrefix(sl) <= Len(sl.cache) /\ ReusedPrefix(sl) <= Len(sl.prompt)
<1> DEFINE n == Lcp(sl.cache, sl.prompt)
<1>1. sl.cache \in Seq(Toks) /\ sl.prompt \in Seq(Toks)
  BY DEF SlotRec
<1>2. n \in Nat /\ n <= Len(sl.cache) /\ n <= Len(sl.prompt) /\ Len(sl.cache) \in Nat /\ Len(sl.prompt) \in Nat
  BY <1>1, LcpFacts
<1>3. ReusedPrefix(sl) = IF n = Len(sl.prompt) /\ n > 0 THEN n - 1 ELSE n
  BY DEF ReusedPrefix
<1> HIDE DEF n
<1>. QED BY <1>2, <1>3

Truncated(p, s, n) ==
    [p EXCEPT !.kv = SeqRm(@, s, conf.sys + n, -1), !.slot[s].cache = SubSeq(@, 1, n)]

\* Where a prompt begins: the cells and tokens behind the reused prefix go.
LEMMA TruncateGood ==
    ASSUME NEW p \in PassState, NEW s \in Slots, conf \in Confs, NEW n \in Nat, n <= Len(p.slot[s].cache),
           NEW q, q = Truncated(p, s, n)
    PROVE  /\ q \in PassState /\ q.kv.has_shift = p.kv.has_shift /\ q.batch = p.batch
           /\ q.slot[s].prompt = p.slot[s].prompt
<1> DEFINE k == SeqRm(p.kv, s, conf.sys + n, -1)
           e == SubSeq(p.slot[s].cache, 1, n)
           g == [p.slot EXCEPT ![s].cache = e]
<1>0. /\ p.kv \in GoodKv(RowToks) /\ p.slot \in [Slots -> SlotRec] /\ p.batch \in Seq(KvTok(RowToks))
      /\ s \in Int /\ NoTok \in RowToks
  BY ConfFacts, RowTokFacts DEF PassState, Slots
<1>1. q = [p EXCEPT !.kv = k, !.slot = g]
  BY DEF Truncated
<1>2. k \in GoodKv(RowToks) /\ k.has_shift = p.kv.has_shift
  BY <1>0, SeqRmGood
<1>3. e \in Seq(Toks)
  <2>1. p.slot[s] \in SlotRec
    BY <1>0
  <2>2. p.slot[s].cache \in Seq(Toks)
    BY <2>1 DEF SlotRec
  <2>. QED BY <2>2, PartOf
<1> HIDE DEF k, e
<1>4. g \in [Slots -> SlotRec] /\ g[s].prompt = p.slot[s].prompt
  <2>1. g = [p.slot EXCEPT ![s].cache = e]
    OBVIOUS
  <2> HIDE DEF g
  <2>. QED BY <1>0, <1>3, <2>1, CacheOnly, SMTT(40)
<1> HIDE DEF g
<1>5. q \in PassState /\ q.kv = k /\ q.slot = g /\ q.batch = p.batch
  BY <1>0, <1>1, <1>2, <1>4 DEF PassState
<1>. QED BY <1>2, <1>4, <1>5

\* How a slot leaves batch_pending_prompt: with m tokens evaluated, or generating.
LeftWith(sl, pr, done, m) ==
    [st |-> IF done THEN "gen" ELSE "load", cache |-> sl.cache,
     prompt |-> IF done THEN <<>> ELSE pr, n |-> IF done THEN 0 ELSE m]

Left(p, s, x) == [p EXCEPT !.slot[s] = x]

\* It is a slot again.
LEMMA LeftWithGood ==
    ASSUME NEW sl \in SlotRec, NEW done \in BOOLEAN, NEW pr \in Seq(Toks), NEW m \in Nat, m <= Len(pr)
    PROVE  LeftWith(sl, pr, done, m) \in SlotRec
<1>0. sl.cache \in Seq(Toks)
  BY DEF SlotRec
<1>1. CASE done
  <2>1. LeftWith(sl, pr, done, m) = [st |-> "gen", cache |-> sl.cache, prompt |-> <<>>, n |-> 0]
    BY <1>1 DEF LeftWith
  <2>2. <<>> \in Seq(Toks)
    OBVIOUS
  <2>. QED BY <1>0, <2>1, <2>2 DEF SlotRec
<1>2. CASE ~done
  <2>1. LeftWith(sl, pr, done, m) = [st |-> "load", cache |-> sl.cache, prompt |-> pr, n |-> m]
    BY <1>2 DEF LeftWith
  <2>2. m \in -1..Len(pr) /\ m \in Int
    OBVIOUS
  <2>. QED BY <1>0, <2>1, <2>2 DEF SlotRec
<1>. QED BY <1>1, <1>2

\* It changes its slot only.
LEMMA LeaveGood ==
    ASSUME NEW p \in PassState, NEW s \in Slots, NEW x \in SlotRec
    PROVE  Left(p, s, x) \in PassState /\ Left(p, s, x).kv = p.kv /\ Left(p, s, x).batch = p.batch
<1> DEFINE g == [p.slot EXCEPT ![s] = x]
<1>1. Left(p, s, x) = [p EXCEPT !.slot = g]
  BY DEF Left
<1>2. g \in [Slots -> SlotRec]
  BY DEF PassState
<1> HIDE DEF g
<1>. QED BY <1>1, <1>2 DEF PassState

\* batch_pending_prompt: the tokens it adds are tokens of the prompt, and a shift
\* that is pending stays so.
LEMMA PendingGood ==
    ASSUME NEW p \in PassState, NEW s \in Slots, conf \in Confs
    PROVE  /\ PendingPrompt(p, s) \in PassState
           /\ PendingPrompt(p, s).kv.has_shift = p.kv.has_shift
           /\ p.batch # <<>> => PendingPrompt(p, s).batch # <<>>
<1> DEFINE sl == p.slot[s]
           n_past == IF sl.n = -1 THEN ReusedPrefix(sl) ELSE Len(sl.cache)
           from == IF sl.n = -1 THEN n_past ELSE sl.n
           more == Min({Len(sl.prompt) - from, NBatch - Len(p.batch)})
           init == [p EXCEPT !.kv = SeqRm(@, s, conf.sys + n_past, -1),
                             !.slot[s].cache = SubSeq(@, 1, n_past)]
           Step(q, k) == AddToken(q, s, sl.prompt[from + k], conf.sys + Len(q.slot[s].cache))
           done == from + more = Len(sl.prompt)
           X == {q \in PassState : /\ q.kv.has_shift = p.kv.has_shift /\ q.slot[s].prompt = sl.prompt
                                   /\ p.batch # <<>> => q.batch # <<>>}
           G == [x \in X \X (1..more) |-> Step(x[1], x[2])]
           Is(f) == f = [k \in 0..more |-> IF k = 0 THEN init ELSE Step(f[k - 1], k)]
           Add == CHOOSE f : Is(f)
           z == Add[more]
           last == [z EXCEPT !.slot[s] = [st |-> IF done THEN "gen" ELSE "load", cache |-> @.cache,
                                          prompt |-> IF done THEN <<>> ELSE sl.prompt,
                                          n |-> IF done THEN 0 ELSE from + more]]
           Fine(q) == /\ q \in PassState /\ q.kv.has_shift = p.kv.has_shift
                      /\ p.batch # <<>> => q.batch # <<>>
<1> SUFFICES Fine(PendingPrompt(p, s))
  OBVIOUS
<1>1. PendingPrompt(p, s) = IF sl.st # "load" \/ Len(p.batch) >= NBatch THEN p ELSE last
  BY DEF PendingPrompt
<1> HIDE DEF last, sl
<1> SUFFICES ASSUME ~(sl.st # "load" \/ Len(p.batch) >= NBatch)
             PROVE  Fine(last)
  <2>1. Fine(p)
    OBVIOUS
  <2> HIDE DEF Fine
  <2>. QED BY <1>1, <2>1
<1> USE DEF sl
<1>2. /\ p.kv \in GoodKv(RowToks) /\ p.slot \in [Slots -> SlotRec] /\ p.batch \in Seq(KvTok(RowToks))
      /\ s \in Int /\ NoTok \in RowToks /\ conf.sys \in Nat /\ NBatch \in Nat
  BY ConfFacts, RowTokFacts, SlotKvAssumption DEF PassState, Slots
<1>3. sl \in SlotRec /\ sl.cache \in Seq(Toks) /\ sl.prompt \in Seq(Toks) /\ sl.n \in -1..Len(sl.prompt)
  <2>1. sl \in SlotRec
    BY <1>2
  <2>. QED BY <2>1 DEF SlotRec
<1> HIDE DEF sl
<1>4. n_past \in Nat /\ n_past <= Len(sl.cache) /\ from \in Nat /\ from <= Len(sl.prompt)
  <2>1. /\ ReusedPrefix(sl) \in Nat
        /\ ReusedPrefix(sl) <= Len(sl.cache) /\ ReusedPrefix(sl) <= Len(sl.prompt)
    BY <1>3, ReusedFacts
  <2>. QED BY <1>3, <2>1
<1> HIDE DEF n_past, from
<1>0. more \in Nat /\ from + more <= Len(sl.prompt)
  <2>1. Len(sl.prompt) - from \in Nat /\ NBatch - Len(p.batch) \in Nat /\ Len(sl.prompt) \in Nat
    BY <1>2, <1>3, <1>4
  <2>2. more = IF Len(sl.prompt) - from <= NBatch - Len(p.batch) THEN Len(sl.prompt) - from
               ELSE NBatch - Len(p.batch)
    BY <2>1, MinPair
  <2>. QED BY <1>4, <2>1, <2>2
<1> HIDE DEF more
<1>5. init \in X
  <2>1. init = Truncated(p, s, n_past)
    BY DEF Truncated
  <2>2. n_past <= Len(p.slot[s].cache)
    BY <1>4 DEF sl
  <2> HIDE DEF init, z, last, Is, Add, G, Step
  <2>3. /\ init \in PassState /\ init.kv.has_shift = p.kv.has_shift /\ init.batch = p.batch
        /\ init.slot[s].prompt = p.slot[s].prompt
    BY <1>4, <2>1, <2>2, TruncateGood
  <2>. QED BY <2>3 DEF sl
<1> HIDE DEF init
<1>6. ASSUME NEW q \in X, NEW k \in 1..more PROVE Step(q, k) \in X
  <2> DEFINE t == sl.prompt[from + k]
             m == conf.sys + Len(q.slot[s].cache)
             y == AddToken(q, s, t, m)
  <2>1. q \in PassState /\ q.slot[s] \in SlotRec
    BY DEF PassState
  <2>2. m \in Nat
    BY <1>2, <2>1, SMTT(40) DEF SlotRec
  <2>3. t \in Toks
    <3>1. from + k \in 1..Len(sl.prompt)
      BY <1>0, <1>3, <1>4
    <3>. QED BY <1>3, <3>1
  <2> HIDE DEF t, m
  <2>4. /\ y \in PassState /\ y.kv = q.kv /\ y.batch # <<>>
        /\ y.slot[s].prompt = q.slot[s].prompt
    BY <2>1, <2>2, <2>3, AddTokenGood
  <2>5. Step(q, k) = y
    BY DEF t, m
  <2> HIDE DEF y, Step
  <2>. QED BY <2>4, <2>5
<1> HIDE DEF Step, X
<1>8. StaysIn(X, G, more)
  BY <1>6 DEF StaysIn
<1>9. \E f : Is(f)
  <2>1. PICK f \in [0..more -> X] : Solution(f, init, G, more)
    <3> HIDE DEF G, Is, Add
    <3>. QED BY <1>0, <1>5, <1>8, Recursion
  <2>2. ASSUME NEW k \in 1..more PROVE f[k] = Step(f[k - 1], k)
    <3>1. k - 1 \in 0..more
      BY <1>0
    <3>2. <<f[k - 1], k>> \in X \X (1..more)
      BY <3>1
    <3>3. G[<<f[k - 1], k>>] = Step(f[k - 1], k)
      BY <3>2
    <3>. QED BY <2>1, <3>3 DEF Solution
  <2>3. ASSUME NEW k \in 0..more PROVE f[k] = IF k = 0 THEN init ELSE Step(f[k - 1], k)
    <3>1. k # 0 => k \in 1..more
      BY <1>0
    <3>. QED BY <2>1, <2>2, <3>1 DEF Solution
  <2>4. Is(f)
    BY <2>3
  <2>. QED BY <2>4
<1>10. Is(Add)
  <2> HIDE DEF Is
  <2>. QED BY <1>9
<1> HIDE DEF Add, G
<1>11. Add[0] = init /\ \A k \in 1..more : Add[k] = Step(Add[k - 1], k)
  <2>1. ASSUME NEW k \in 0..more PROVE Add[k] = IF k = 0 THEN init ELSE Step(Add[k - 1], k)
    BY <1>10
  <2>2. 0 \in 0..more /\ \A k \in 1..more : k \in 0..more /\ k # 0
    BY <1>0
  <2>. QED BY <2>1, <2>2
<1>12. z \in X
  <2>1. Add[0] \in X /\ \A k \in 1..more : Add[k - 1] \in X => Add[k] \in X
    BY <1>5, <1>6, <1>11
  <2>2. \A k \in 0..more : Add[k] \in X
    <3> HIDE DEF Is
    <3>. QED BY <1>0, <2>1, Throughout
  <2>. QED BY <1>0, <2>2
<1> HIDE DEF z, Is
<1>13. /\ z \in PassState /\ z.kv.has_shift = p.kv.has_shift /\ z.slot[s].prompt = sl.prompt
       /\ p.batch # <<>> => z.batch # <<>>
  BY <1>12 DEF X
<1>14. from + more \in Nat /\ from + more <= Len(sl.prompt) /\ done \in BOOLEAN
  BY <1>0, <1>4
<1> HIDE DEF done
<1> DEFINE x == LeftWith(z.slot[s], sl.prompt, done, from + more)
<1>15. last = Left(z, s, x)
  BY Zenon DEF last, Left, LeftWith
<1>16. x \in SlotRec
  <2>1. z.slot[s] \in SlotRec
    BY <1>13 DEF PassState
  <2>. QED BY <1>3, <1>14, <2>1, LeftWithGood
<1> HIDE DEF x
<1>17. last \in PassState /\ last.kv = z.kv /\ last.batch = z.batch
  BY <1>13, <1>15, <1>16, LeaveGood
<1>. QED BY <1>13, <1>17

\* Slot i - 1 is the i-th slot.
LEMMA SlotAt == ASSUME conf \in Confs, NEW i \in 1..conf.n_slots PROVE i - 1 \in Slots
<1>1. conf.n_slots \in Nat
  BY ConfFacts
<1>. QED BY <1>1 DEF Slots

\* context_shift: a shift is pending afterwards only if some slot generates.
LEMMA ContextShiftGood ==
    ASSUME SlotInv, NEW p \in PassState, SameStates(p.slot, slot), ~p.kv.has_shift
    PROVE  /\ ContextShift(p) \in PassState
           /\ SameStates(ContextShift(p).slot, slot)
           /\ ContextShift(p).batch = p.batch
           /\ ContextShift(p).kv.has_shift => \E s \in Slots : slot[s].st = "gen"
<1> DEFINE n == conf.n_slots
           X == {q \in PassState : /\ SameStates(q.slot, slot) /\ q.batch = p.batch
                                   /\ q.kv.has_shift => \E s \in Slots : slot[s].st = "gen"}
           G == [x \in X \X (1..n) |-> ShiftSlot(x[1], x[2] - 1)]
           Is(f) == f = [i \in 0..n |-> IF i = 0 THEN p ELSE ShiftSlot(f[i - 1], i - 1)]
           Shifted == CHOOSE f : Is(f)
<1>c. conf \in Confs
  BY DEF SlotInv
<1>6. ContextShift(p) = Shifted[n]
  BY DEF ContextShift
<1>7. ASSUME NEW q \in X, NEW k \in 1..n PROVE ShiftSlot(q, k - 1) \in X
  <2> DEFINE y == ShiftSlot(q, k - 1)
  <2>1. k - 1 \in Slots
    BY <1>c, SlotAt
  <2>2. /\ y \in PassState /\ SameStates(y.slot, q.slot) /\ y.batch = q.batch
        /\ q.slot[k - 1].st # "gen" => y = q
    BY <1>c, <2>1, ShiftSlotGood
  <2> HIDE DEF y
  <2>3. SameStates(y.slot, slot)
    BY <2>2 DEF SameStates
  <2>4. y.kv.has_shift => \E s \in Slots : slot[s].st = "gen"
    BY <2>1, <2>2 DEF SameStates
  <2>. QED BY <2>2, <2>3, <2>4 DEF y
<1>0. n \in Nat /\ p \in X
  BY <1>c, ConfFacts
<1> HIDE DEF n, X
<1>1. StaysIn(X, G, n)
  BY <1>7 DEF StaysIn
<1>2. \E f : Is(f)
  <2>1. PICK f \in [0..n -> X] : Solution(f, p, G, n)
    <3> HIDE DEF G, Is, Shifted
    <3>. QED BY <1>0, <1>1, Recursion
  <2>2. ASSUME NEW k \in 1..n PROVE f[k] = ShiftSlot(f[k - 1], k - 1)
    <3>1. k - 1 \in 0..n
      BY <1>0
    <3>2. <<f[k - 1], k>> \in X \X (1..n)
      BY <3>1
    <3>3. G[<<f[k - 1], k>>] = ShiftSlot(f[k - 1], k - 1)
      BY <3>2
    <3>. QED BY <2>1, <3>3 DEF Solution
  <2>3. ASSUME NEW k \in 0..n PROVE f[k] = IF k = 0 THEN p ELSE ShiftSlot(f[k - 1], k - 1)
    <3>1. k # 0 => k \in 1..n
      BY <1>0
    <3>. QED BY <2>1, <2>2, <3>1 DEF Solution
  <2>4. Is(f)
    BY <2>3
  <2>. QED BY <2>4
<1>3. Is(Shifted)
  <2> HIDE DEF Is
  <2>. QED BY <1>2
<1> HIDE DEF Shifted, G
<1>4. Shifted[0] = p /\ \A k \in 1..n : Shifted[k] = ShiftSlot(Shifted[k - 1], k - 1)
  <2>1. ASSUME NEW k \in 0..n PROVE Shifted[k] = IF k = 0 THEN p ELSE ShiftSlot(Shifted[k - 1], k - 1)
    BY <1>3
  <2>2. 0 \in 0..n /\ \A k \in 1..n : k \in 0..n /\ k # 0
    BY <1>0
  <2>. QED BY <2>1, <2>2
<1>5. Shifted[n] \in X
  <2>1. Shifted[0] \in X /\ \A k \in 1..n : Shifted[k - 1] \in X => Shifted[k] \in X
    BY <1>0, <1>4, <1>7
  <2>2. \A k \in 0..n : Shifted[k] \in X
    <3> HIDE DEF Is
    <3>. QED BY <1>0, <2>1, Throughout
  <2>. QED BY <1>0, <2>2
<1>. QED BY <1>5, <1>6 DEF X

\* add_sampled_tokens: every slot that generates puts a token into the batch.
LEMMA AddSampledTokensGood ==
    ASSUME SlotInv, NEW p \in PassState, SameStates(p.slot, slot), NEW sampled \in [Generating -> Sampled]
    PROVE  /\ AddSampledTokens(p, sampled) \in PassState
           /\ AddSampledTokens(p, sampled).kv = p.kv
           /\ (\E s \in Slots : slot[s].st = "gen") => AddSampledTokens(p, sampled).batch # <<>>
<1> DEFINE n == conf.n_slots
           X == {q \in PassState : SameStates(q.slot, slot) /\ q.kv = p.kv}
           G == [x \in X \X (1..n) |-> AddSampled(x[1], x[2] - 1, sampled)]
           Is(f) == f = [i \in 0..n |-> IF i = 0 THEN p ELSE AddSampled(f[i - 1], i - 1, sampled)]
           Added == CHOOSE f : Is(f)
<1>c. conf \in Confs
  BY DEF SlotInv
<1>6. AddSampledTokens(p, sampled) = Added[n]
  BY DEF AddSampledTokens
<1>7. ASSUME NEW q \in X, NEW k \in 1..n
      PROVE  /\ AddSampled(q, k - 1, sampled) \in X
             /\ q.batch # <<>> => AddSampled(q, k - 1, sampled).batch # <<>>
             /\ slot[k - 1].st = "gen" => AddSampled(q, k - 1, sampled).batch # <<>>
  <2> DEFINE s == k - 1
             y == AddToken(q, s, sampled[s], Len(q.slot[s].cache))
  <2>1. s \in Slots
    BY <1>c, SlotAt
  <2> HIDE DEF s
  <2>2. AddSampled(q, s, sampled) = IF q.slot[s].st # "gen" THEN q ELSE y
    BY DEF AddSampled
  <2>3. q.slot[s].st = slot[s].st
    BY <2>1 DEF SameStates
  <2>4. CASE slot[s].st # "gen"
    BY <2>2, <2>3, <2>4 DEF s
  <2>5. CASE slot[s].st = "gen"
    <3>1. sampled[s] \in Toks
      BY <2>1, <2>5, SlotKvAssumption DEF Generating
    <3>2. Len(q.slot[s].cache) \in Nat
      <4>1. q.slot[s] \in SlotRec
        BY <2>1 DEF PassState
      <4>. QED BY <4>1 DEF SlotRec
    <3>3. y \in PassState /\ SameStates(y.slot, q.slot) /\ y.kv = q.kv /\ y.batch # <<>>
      BY <1>c, <2>1, <3>1, <3>2, AddTokenGood
    <3>4. AddSampled(q, s, sampled) = y
      BY <2>2, <2>3, <2>5
    <3> HIDE DEF y
    <3>5. SameStates(y.slot, slot)
      BY <3>3 DEF SameStates
    <3>. QED BY <3>3, <3>4, <3>5 DEF s
  <2>. QED BY <2>4, <2>5
<1>0. n \in Nat /\ p \in X
  BY <1>c, ConfFacts
<1> HIDE DEF n, X
<1>1. StaysIn(X, G, n)
  BY <1>7 DEF StaysIn
<1>2. \E f : Is(f)
  <2>1. PICK f \in [0..n -> X] : Solution(f, p, G, n)
    <3> HIDE DEF G, Is, Added
    <3>. QED BY <1>0, <1>1, Recursion
  <2>2. ASSUME NEW k \in 1..n PROVE f[k] = AddSampled(f[k - 1], k - 1, sampled)
    <3>1. k - 1 \in 0..n
      BY <1>0
    <3>2. <<f[k - 1], k>> \in X \X (1..n)
      BY <3>1
    <3>3. G[<<f[k - 1], k>>] = AddSampled(f[k - 1], k - 1, sampled)
      BY <3>2
    <3>. QED BY <2>1, <3>3 DEF Solution
  <2>3. ASSUME NEW k \in 0..n PROVE f[k] = IF k = 0 THEN p ELSE AddSampled(f[k - 1], k - 1, sampled)
    <3>1. k # 0 => k \in 1..n
      BY <1>0
    <3>. QED BY <2>1, <2>2, <3>1 DEF Solution
  <2>4. Is(f)
    BY <2>3
  <2>. QED BY <2>4
<1>3. Is(Added)
  <2> HIDE DEF Is
  <2>. QED BY <1>2
<1> HIDE DEF Added, G
<1>4. Added[0] = p /\ \A k \in 1..n : Added[k] = AddSampled(Added[k - 1], k - 1, sampled)
  <2>1. ASSUME NEW k \in 0..n PROVE Added[k] = IF k = 0 THEN p ELSE AddSampled(Added[k - 1], k - 1, sampled)
    BY <1>3
  <2>2. 0 \in 0..n /\ \A k \in 1..n : k \in 0..n /\ k # 0
    BY <1>0
  <2>. QED BY <2>1, <2>2
<1> DEFINE S == {k \in 0..n : Added[k] \in X /\ ((\E s \in 0..(k - 1) : slot[s].st = "gen") => Added[k].batch # <<>>)}
<1>8. 0 \in S
  BY <1>0, <1>4
<1>9. ASSUME NEW k \in 1..n, k - 1 \in S PROVE k \in S
  <2>1. Added[k] = AddSampled(Added[k - 1], k - 1, sampled) /\ Added[k - 1] \in X
    BY <1>4, <1>9
  <2>2. \A s \in 0..(k - 1) : s = k - 1 \/ s \in 0..((k - 1) - 1)
    BY <1>0
  <2>. QED BY <1>7, <1>9, <2>1, <2>2
<1>10. n \in S
  <2> HIDE DEF S, Is
  <2>1. \A k \in 1..n : k - 1 \in S => k \in S
    BY <1>9
  <2>2. 0..n \subseteq S
    BY <1>0, <1>8, <2>1, UpTo
  <2>. QED BY <1>0, <2>2
<1>11. Slots = 0..(n - 1)
  BY DEF Slots, n
<1>. QED BY <1>6, <1>10, <1>11 DEF X

\* batch_pending_prompt for all slots.
LEMMA BatchPendingPromptGood ==
    ASSUME conf \in Confs, NEW p \in PassState, p.kv.has_shift => p.batch # <<>>
    PROVE  /\ BatchPendingPrompt(p) \in PassState
           /\ BatchPendingPrompt(p).kv.has_shift => BatchPendingPrompt(p).batch # <<>>
<1> DEFINE n == conf.n_slots
           X == {q \in PassState : q.kv.has_shift => q.batch # <<>>}
           G == [x \in X \X (1..n) |-> PendingPrompt(x[1], x[2] - 1)]
           Is(f) == f = [i \in 0..n |-> IF i = 0 THEN p ELSE PendingPrompt(f[i - 1], i - 1)]
           Filled == CHOOSE f : Is(f)
<1>6. BatchPendingPrompt(p) = Filled[n]
  BY DEF BatchPendingPrompt
<1>7. ASSUME NEW q \in X, NEW k \in 1..n PROVE PendingPrompt(q, k - 1) \in X
  <2>1. k - 1 \in Slots
    BY SlotAt
  <2>2. /\ PendingPrompt(q, k - 1) \in PassState
        /\ PendingPrompt(q, k - 1).kv.has_shift = q.kv.has_shift
        /\ q.batch # <<>> => PendingPrompt(q, k - 1).batch # <<>>
    BY <2>1, PendingGood
  <2>. QED BY <2>2
<1>0. n \in Nat /\ p \in X
  BY ConfFacts
<1> HIDE DEF n, X
<1>1. StaysIn(X, G, n)
  BY <1>7 DEF StaysIn
<1>2. \E f : Is(f)
  <2>1. PICK f \in [0..n -> X] : Solution(f, p, G, n)
    <3> HIDE DEF G, Is, Filled
    <3>. QED BY <1>0, <1>1, Recursion
  <2>2. ASSUME NEW k \in 1..n PROVE f[k] = PendingPrompt(f[k - 1], k - 1)
    <3>1. k - 1 \in 0..n
      BY <1>0
    <3>2. <<f[k - 1], k>> \in X \X (1..n)
      BY <3>1
    <3>3. G[<<f[k - 1], k>>] = PendingPrompt(f[k - 1], k - 1)
      BY <3>2
    <3>. QED BY <2>1, <3>3 DEF Solution
  <2>3. ASSUME NEW k \in 0..n PROVE f[k] = IF k = 0 THEN p ELSE PendingPrompt(f[k - 1], k - 1)
    <3>1. k # 0 => k \in 1..n
      BY <1>0
    <3>. QED BY <2>1, <2>2, <3>1 DEF Solution
  <2>4. Is(f)
    BY <2>3
  <2>. QED BY <2>4
<1>3. Is(Filled)
  <2> HIDE DEF Is
  <2>. QED BY <1>2
<1> HIDE DEF Filled, G
<1>4. Filled[0] = p /\ \A k \in 1..n : Filled[k] = PendingPrompt(Filled[k - 1], k - 1)
  <2>1. ASSUME NEW k \in 0..n PROVE Filled[k] = IF k = 0 THEN p ELSE PendingPrompt(Filled[k - 1], k - 1)
    BY <1>3
  <2>2. 0 \in 0..n /\ \A k \in 1..n : k \in 0..n /\ k # 0
    BY <1>0
  <2>. QED BY <2>1, <2>2
<1>5. Filled[n] \in X
  <2>1. Filled[0] \in X /\ \A k \in 1..n : Filled[k - 1] \in X => Filled[k] \in X
    BY <1>0, <1>4, <1>7
  <2>2. \A k \in 0..n : Filled[k] \in X
    <3> HIDE DEF Is
    <3>. QED BY <1>0, <2>1, Throughout
  <2>. QED BY <1>0, <2>2
<1>. QED BY <1>5, <1>6 DEF X

\* A pass of update_slots: a shift it queues has tokens to be decoded with.
LEMMA PassGood ==
    ASSUME SlotInv, batch = <<>>, NEW sampled \in [Generating -> Sampled]
    PROVE  /\ Pass(sampled) \in PassState
           /\ Pass(sampled).kv.has_shift => Pass(sampled).batch # <<>>
<1> DEFINE p == [kv |-> kv, slot |-> slot, batch |-> <<>>]
           c == ContextShift(p)
           a == AddSampledTokens(c, sampled)
<1>1. conf \in Confs /\ kv \in GoodKv(RowToks) /\ ~kv.has_shift /\ slot \in [Slots -> SlotRec]
  BY DEF SlotInv
<1>2. p \in PassState /\ SameStates(p.slot, slot) /\ ~p.kv.has_shift
  <2>1. <<>> \in Seq(KvTok(RowToks))
    OBVIOUS
  <2>. QED BY <1>1, <2>1 DEF PassState, SameStates
<1>3. Pass(sampled) = BatchPendingPrompt(a)
  BY DEF Pass
<1> HIDE DEF p
<1>4. /\ c \in PassState /\ SameStates(c.slot, slot)
      /\ c.kv.has_shift => \E s \in Slots : slot[s].st = "gen"
  BY <1>2, ContextShiftGood
<1> HIDE DEF c
<1>5. a \in PassState /\ (a.kv.has_shift => a.batch # <<>>)
  BY <1>4, AddSampledTokensGood
<1> HIDE DEF a
<1>. QED BY <1>1, <1>3, <1>5, BatchPendingPromptGood

-----------------------------------------------------------------------------
(* The invariant                                                            *)

\* system_prompt_update: the shared prefix.
LEMMA SystemPromptGood ==
    ASSUME NEW c \in Confs
    PROVE  SystemPrompt(EmptyKv, c) \in GoodKv(RowToks) /\ ~SystemPrompt(EmptyKv, c).has_shift
<1> DEFINE n == c.n_slots
           toks == [i \in 1..c.sys |-> [tok |-> SysTok, pos |-> i - 1, seq |-> 0]]
           first == Decode(EmptyKv, toks, c.n_ubatch).kv
           X == {k \in GoodKv(RowToks) : ~k.has_shift}
           G == [x \in X \X (1..n) |-> SeqCp(x[1], 0, x[2], -1, -1)]
           Is(f) == f = [i \in 0..n |-> IF i = 0 THEN first ELSE SeqCp(f[i - 1], 0, i, -1, -1)]
           Share == CHOOSE f : Is(f)
<1>0. n \in Nat /\ c.sys \in Nat /\ c.n_ubatch \in Nat \ {0} /\ NoTok \in RowToks /\ SysTok \in RowToks
  BY ConfFacts, RowTokFacts
<1>1. SystemPrompt(EmptyKv, c) = IF c.sys = 0 THEN EmptyKv ELSE Share[n]
  BY DEF SystemPrompt
<1>e. EmptyKv \in GoodKv(RowToks) /\ ~EmptyKv.has_shift
  BY <1>0, EmptyGood
<1>2. c.sys # 0 => first \in X
  <2>1. ASSUME NEW i \in 1..c.sys PROVE [tok |-> SysTok, pos |-> i - 1, seq |-> 0] \in KvTok(RowToks)
    <3>1. i - 1 \in Nat
      BY <1>0
    <3>. QED BY <1>0, <3>1 DEF KvTok
  <2>2. toks \in Seq(KvTok(RowToks)) /\ Len(toks) = c.sys
    BY <1>0, <2>1
  <2> HIDE DEF toks
  <2>3. /\ Decode(EmptyKv, toks, c.n_ubatch) \in [ok : BOOLEAN, kv : GoodKv(RowToks)]
        /\ Len(toks) >= 1 => ~Decode(EmptyKv, toks, c.n_ubatch).kv.has_shift
    BY <1>0, <1>e, <2>2, DecodeGood
  <2>. QED BY <1>0, <2>2, <2>3
<1> SUFFICES ASSUME c.sys # 0 PROVE Share[n] \in X
  BY <1>1, <1>e
<1> HIDE DEF first
<1>7. ASSUME NEW q \in X, NEW k \in 1..n PROVE SeqCp(q, 0, k, -1, -1) \in X
  <2>1. k \in Int
    BY <1>0
  <2>. QED BY <1>0, <2>1, SeqCpGood
<1> HIDE DEF n, X
<1>3. StaysIn(X, G, n)
  BY <1>7 DEF StaysIn
<1>4. \E f : Is(f)
  <2>1. PICK f \in [0..n -> X] : Solution(f, first, G, n)
    <3> HIDE DEF G, Is, Share
    <3>. QED BY <1>0, <1>2, <1>3, Recursion
  <2>2. ASSUME NEW k \in 1..n PROVE f[k] = SeqCp(f[k - 1], 0, k, -1, -1)
    <3>1. k - 1 \in 0..n
      BY <1>0
    <3>2. <<f[k - 1], k>> \in X \X (1..n)
      BY <3>1
    <3>3. G[<<f[k - 1], k>>] = SeqCp(f[k - 1], 0, k, -1, -1)
      BY <3>2
    <3>. QED BY <2>1, <3>3 DEF Solution
  <2>3. ASSUME NEW k \in 0..n PROVE f[k] = IF k = 0 THEN first ELSE SeqCp(f[k - 1], 0, k, -1, -1)
    <3>1. k # 0 => k \in 1..n
      BY <1>0
    <3>. QED BY <2>1, <2>2, <3>1 DEF Solution
  <2>4. Is(f)
    BY <2>3
  <2>. QED BY <2>4
<1>5. Is(Share)
  <2> HIDE DEF Is
  <2>. QED BY <1>4
<1> HIDE DEF Share, G
<1>6. Share[0] = first /\ \A k \in 1..n : Share[k] = SeqCp(Share[k - 1], 0, k, -1, -1)
  <2>1. ASSUME NEW k \in 0..n PROVE Share[k] = IF k = 0 THEN first ELSE SeqCp(Share[k - 1], 0, k, -1, -1)
    BY <1>5
  <2>2. 0 \in 0..n /\ \A k \in 1..n : k \in 0..n /\ k # 0
    BY <1>0
  <2>. QED BY <2>1, <2>2
<1>8. Share[0] \in X /\ \A k \in 1..n : Share[k - 1] \in X => Share[k] \in X
  BY <1>2, <1>6, <1>7
<1>9. \A k \in 0..n : Share[k] \in X
  <2> HIDE DEF Is
  <2>. QED BY <1>0, <1>8, Throughout
<1>. QED BY <1>0, <1>9

\* The first state.
LEMMA SlotInvInit == Init => SlotInv
<1> SUFFICES ASSUME Init PROVE SlotInv
  OBVIOUS
<1>1. /\ conf \in Confs /\ kv = SystemPrompt(EmptyKv, conf) /\ slot = [s \in Slots |-> FreeSlot]
      /\ batch = <<>> /\ n_batch = NBatch /\ states = <<>> /\ file = NoFile
  BY DEF Init
<1>2. kv \in GoodKv(RowToks) /\ ~kv.has_shift
  BY <1>1, SystemPromptGood
<1>3. FreeSlot \in SlotRec
  <2>1. <<>> \in Seq(Toks)
    OBVIOUS
  <2>. QED BY <2>1 DEF FreeSlot, SlotRec
<1>4. NoFile \in Saved /\ NBatch \in 1..NBatch
  <2>1. <<>> \in Seq(Toks) /\ <<>> \in Seq(SavedCell(RowToks))
    OBVIOUS
  <2>. QED BY <2>1, SlotKvAssumption DEF NoFile, Saved
<1>5. batch \in Seq(KvTok(RowToks)) /\ states \in Seq(Saved)
  BY <1>1
<1>. QED BY <1>1, <1>2, <1>3, <1>4, <1>5 DEF SlotInv

\* A slot that is released keeps its tokens.
LEMMA ReleasedSlot ==
    ASSUME NEW c \in Seq(Toks)
    PROVE  [FreeSlot EXCEPT !.cache = c] \in SlotRec
<1>1. <<>> \in Seq(Toks)
  OBVIOUS
<1> DEFINE y == [st |-> "idle", cache |-> c, prompt |-> <<>>, n |-> 0]
<1>2. [FreeSlot EXCEPT !.cache = c] = y
  BY DEF FreeSlot
<1>3. y \in SlotRec
  BY <1>1 DEF SlotRec
<1> HIDE DEF y
<1>. QED BY <1>2, <1>3

\* What a decode of a non-empty view leaves.
LEMMA ViewGood ==
    ASSUME SlotInv, NEW v \in Seq(KvTok(RowToks)), Len(v) >= 1
    PROVE  /\ Decode(kv, v, conf.n_ubatch) \in [ok : BOOLEAN, kv : GoodKv(RowToks)]
           /\ ~Decode(kv, v, conf.n_ubatch).kv.has_shift
<1>1. kv \in GoodKv(RowToks) /\ conf.n_ubatch \in Nat \ {0} /\ NoTok \in RowToks
  BY ConfFacts, RowTokFacts DEF SlotInv
<1>. QED BY <1>1, DecodeGood

\* A view is a non-empty part of the batch.
LEMMA ViewFacts ==
    ASSUME SlotInv, batch # <<>>
    PROVE  /\ ViewLen \in 1..Len(batch)
           /\ SubSeq(batch, 1, ViewLen) \in Seq(KvTok(RowToks)) /\ Len(SubSeq(batch, 1, ViewLen)) = ViewLen
           /\ SubSeq(batch, ViewLen + 1, Len(batch)) \in Seq(KvTok(RowToks))
<1>1. batch \in Seq(KvTok(RowToks)) /\ n_batch \in 1..NBatch /\ NBatch \in Nat
  BY SlotKvAssumption DEF SlotInv
<1>2. Len(batch) \in Nat /\ Len(batch) >= 1
  BY <1>1
<1>3. ViewLen = IF n_batch <= Len(batch) THEN n_batch ELSE Len(batch)
  <2>1. n_batch \in Int /\ Len(batch) \in Int
    BY <1>1, <1>2
  <2>. QED BY <2>1, MinPair DEF ViewLen
<1>4. ViewLen \in 1..Len(batch)
  BY <1>1, <1>2, <1>3
<1>5. ViewLen \in Int /\ ViewLen + 1 \in Int /\ 1 <= ViewLen + 1 /\ ViewLen <= Len(batch) /\ 1 <= ViewLen
  BY <1>2, <1>4
<1>. QED BY <1>1, <1>2, <1>4, <1>5, PartOf

\* Every step of the server keeps the invariant.
LEMMA SlotInvNext == SlotInv /\ [Next]_vars => SlotInv'
<1> SUFFICES ASSUME SlotInv, [Next]_vars PROVE SlotInv'
  OBVIOUS
<1>0. /\ conf \in Confs /\ kv \in GoodKv(RowToks) /\ (batch = <<>> => ~kv.has_shift)
      /\ slot \in [Slots -> SlotRec] /\ batch \in Seq(KvTok(RowToks)) /\ n_batch \in 1..NBatch
      /\ states \in Seq(Saved) /\ file \in Saved
  BY DEF SlotInv
<1>a. /\ NoTok \in RowToks /\ NBatch \in Nat \ {0} /\ (\A s \in Slots : s \in Int)
      /\ \A s \in Slots : slot[s].cache \in Seq(Toks)
  <2>1. \A s \in Slots : slot[s] \in SlotRec
    BY <1>0
  <2>2. \A s \in Slots : s \in Int
    BY <1>0, ConfFacts DEF Slots
  <2>. QED BY <2>1, <2>2, RowTokFacts, SlotKvAssumption DEF SlotRec
<1>b. ASSUME conf' = conf, kv' \in GoodKv(RowToks), batch' = <<>> => ~kv'.has_shift,
             slot' \in [Slots -> SlotRec], batch' \in Seq(KvTok(RowToks)), n_batch' \in 1..NBatch,
             states' \in Seq(Saved), file' \in Saved
      PROVE  SlotInv'
  <2>1. Slots' = Slots
    BY <1>b DEF Slots
  <2>. QED BY <1>0, <1>b, <2>1 DEF SlotInv
<1>1. ASSUME NEW s \in Slots, NEW p \in conf.prompts, NEW picked \in BOOLEAN, Launch(s, p, picked)
      PROVE  SlotInv'
  <2> DEFINE r == IF picked /\ conf.prompt_cache THEN ReusePrompt(s, p)
                  ELSE [kv |-> kv, cache |-> slot[s].cache, states |-> states]
             x == [st |-> "load", cache |-> r.cache, prompt |-> p, n |-> -1]
  <2>1. /\ batch = <<>> /\ kv' = r.kv /\ states' = r.states /\ slot' = [slot EXCEPT ![s] = x]
        /\ conf' = conf /\ batch' = batch /\ n_batch' = n_batch /\ file' = file
    BY <1>1 DEF Launch, TasksTurn
  <2>2. r \in ReuseResult
    <3>1. ReusePrompt(s, p) \in ReuseResult
      BY <2>1, ReusePromptGood
    <3>2. [kv |-> kv, cache |-> slot[s].cache, states |-> states] \in ReuseResult
      BY <1>0, <1>a, <2>1 DEF ReuseResult
    <3>. QED BY <3>1, <3>2
  <2> HIDE DEF r
  <2>3. r.kv \in GoodKv(RowToks) /\ ~r.kv.has_shift /\ r.cache \in Seq(Toks) /\ r.states \in Seq(Saved)
    BY <2>2 DEF ReuseResult
  <2>4. x \in SlotRec
    <3>1. p \in Seq(Toks) /\ -1 \in -1..Len(p) /\ -1 \in Int
      BY <1>0, ConfFacts
    <3>. QED BY <2>3, <3>1 DEF SlotRec
  <2> HIDE DEF x
  <2>5. slot' \in [Slots -> SlotRec]
    BY <1>0, <2>1, <2>4
  <2>. QED BY <1>0, <1>b, <2>1, <2>3, <2>5
<1>2. ASSUME NEW s \in Slots, Cancel(s) PROVE SlotInv'
  <2>1. /\ slot' = [slot EXCEPT ![s] = [FreeSlot EXCEPT !.cache = slot[s].cache]]
        /\ UNCHANGED <<conf, kv, batch, n_batch, states, file>>
    BY <1>2 DEF Cancel
  <2>2. [FreeSlot EXCEPT !.cache = slot[s].cache] \in SlotRec
    BY <1>a, ReleasedSlot
  <2>3. slot' \in [Slots -> SlotRec]
    BY <1>0, <2>1, <2>2
  <2>. QED BY <1>0, <1>b, <2>1, <2>3
<1>3. ASSUME NEW s \in Slots, Erase(s) PROVE SlotInv'
  <2>1. /\ batch = <<>> /\ kv' = SeqRm(kv, s, -1, -1) /\ slot' = [slot EXCEPT ![s].cache = <<>>]
        /\ UNCHANGED <<conf, batch, n_batch, states, file>>
    BY <1>3 DEF Erase, TasksTurn
  <2>2. SeqRm(kv, s, -1, -1) \in GoodKv(RowToks) /\ SeqRm(kv, s, -1, -1).has_shift = kv.has_shift
    BY <1>0, <1>a, SeqRmGood
  <2>3. slot' \in [Slots -> SlotRec]
    <3>1. <<>> \in Seq(Toks)
      OBVIOUS
    <3>. QED BY <1>0, <2>1, <3>1, CacheOnly
  <2>. QED BY <1>0, <1>b, <2>1, <2>2, <2>3
<1>4. ASSUME NEW s \in Slots, Save(s) PROVE SlotInv'
  <2>1. /\ batch = <<>> /\ file' = [toks |-> slot[s].cache, blob |-> SeqState(kv, s)]
        /\ UNCHANGED <<conf, kv, slot, batch, n_batch, states>>
    BY <1>4 DEF Save, TasksTurn
  <2>2. SeqState(kv, s) \in Seq(SavedCell(RowToks))
    BY <1>0, <2>1, SeqStateGood
  <2>3. file' \in Saved
    BY <1>a, <2>1, <2>2 DEF Saved
  <2>. QED BY <1>0, <1>b, <2>1, <2>3
<1>5. ASSUME NEW s \in Slots, Restore(s) PROVE SlotInv'
  <2> DEFINE set == SetSeqState(kv, s, file.blob)
             c == IF set.ok THEN file.toks ELSE <<>>
  <2>1. /\ batch = <<>> /\ kv' = set.kv /\ slot' = [slot EXCEPT ![s].cache = c]
        /\ UNCHANGED <<conf, batch, n_batch, states, file>>
    BY <1>5 DEF Restore, TasksTurn
  <2>2. file.toks \in Seq(Toks) /\ file.blob \in Seq(SavedCell(RowToks))
    BY <1>0 DEF Saved
  <2>3. set \in [ok : BOOLEAN, kv : GoodKv(RowToks)] /\ ~set.kv.has_shift
    BY <1>0, <1>a, <2>1, <2>2, SetSeqStateGood
  <2> HIDE DEF set
  <2>4. c \in Seq(Toks)
    BY <2>2
  <2> HIDE DEF c
  <2>5. slot' \in [Slots -> SlotRec]
    BY <1>0, <2>1, <2>4, CacheOnly
  <2>. QED BY <1>0, <1>b, <2>1, <2>3, <2>5
<1>6. CASE UpdateSlots
  <2>1. PICK sampled \in [Generating -> Sampled] :
          kv' = Pass(sampled).kv /\ slot' = Pass(sampled).slot /\ batch' = Pass(sampled).batch
    BY <1>6 DEF UpdateSlots
  <2>2. batch = <<>> /\ UNCHANGED <<conf, n_batch, states, file>>
    BY <1>6 DEF UpdateSlots
  <2>3. Pass(sampled) \in PassState /\ (Pass(sampled).kv.has_shift => Pass(sampled).batch # <<>>)
    BY <2>2, PassGood
  <2>4. kv' \in GoodKv(RowToks) /\ slot' \in [Slots -> SlotRec] /\ batch' \in Seq(KvTok(RowToks))
    BY <2>1, <2>3 DEF PassState
  <2>. QED BY <1>0, <1>b, <2>1, <2>2, <2>3, <2>4
<1>7. CASE IdlePass
  <2>1. batch = <<>> /\ kv' = Clear(kv) /\ UNCHANGED <<conf, slot, batch, n_batch, states, file>>
    BY <1>7 DEF IdlePass
  <2>2. Clear(kv) \in GoodKv(RowToks) /\ Clear(kv).has_shift = kv.has_shift
    BY <1>0, <1>a, ClearGood
  <2>. QED BY <1>0, <1>b, <2>1, <2>2
<1>8. ASSUME NEW fin \in SUBSET Slots, DecodeView(fin) PROVE SlotInv'
  <2> DEFINE view == SubSeq(batch, 1, ViewLen)
             r == Decode(kv, view, conf.n_ubatch)
             f == r.kv.do_defrag \/ Fragmented(r.kv)
  <2>1. /\ batch # <<>> /\ kv' = [r.kv EXCEPT !.do_defrag = f]
        /\ slot' = [s \in Slots |-> IF s \in fin THEN [FreeSlot EXCEPT !.cache = slot[s].cache] ELSE slot[s]]
        /\ batch' = SubSeq(batch, ViewLen + 1, Len(batch))
        /\ n_batch' = IF batch' = <<>> THEN NBatch ELSE n_batch
        /\ UNCHANGED <<conf, states, file>>
    BY <1>8 DEF DecodeView
  <2>2. view \in Seq(KvTok(RowToks)) /\ Len(view) >= 1 /\ batch' \in Seq(KvTok(RowToks))
    BY <1>0, <2>1, ViewFacts
  <2> HIDE DEF view
  <2>3. r \in [ok : BOOLEAN, kv : GoodKv(RowToks)] /\ ~r.kv.has_shift
    BY <2>2, ViewGood
  <2> HIDE DEF r
  <2>4. f \in BOOLEAN
    OBVIOUS
  <2> HIDE DEF f
  <2>5. kv' \in GoodKv(RowToks) /\ ~kv'.has_shift
    BY <2>1, <2>3, <2>4, FlagOnly
  <2>6. slot' \in [Slots -> SlotRec]
    <3>1. \A s \in Slots : [FreeSlot EXCEPT !.cache = slot[s].cache] \in SlotRec /\ slot[s] \in SlotRec
      BY <1>0, <1>a, ReleasedSlot
    <3>. QED BY <2>1, <3>1
  <2>7. n_batch' \in 1..NBatch
    BY <1>0, <1>a, <2>1
  <2>. QED BY <1>0, <1>b, <2>1, <2>2, <2>5, <2>6, <2>7
<1>9. ASSUME NEW k \in 1..NBatch, StopDecode(k) PROVE SlotInv'
  <2> DEFINE view == SubSeq(batch, 1, ViewLen)
             u == conf.n_ubatch
             m == Min({k * u, Len(view)})
             part == SubSeq(view, 1, m)
             r == Decode(kv, part, u)
             kept(s) == Min({SeqPosMax(r.kv, s) + 1, Len(slot[s].cache)})
  <2>1. /\ batch # <<>> /\ kv' = r.kv
        /\ slot' = [s \in Slots |-> [FreeSlot EXCEPT !.cache = SubSeq(slot[s].cache, 1, kept(s))]]
        /\ batch' = <<>> /\ n_batch' = NBatch /\ UNCHANGED <<conf, states, file>>
    BY <1>9 DEF StopDecode
  <2>2. view \in Seq(KvTok(RowToks)) /\ Len(view) \in Nat /\ Len(view) >= 1
    BY <1>0, <2>1, ViewFacts
  <2> HIDE DEF view
  <2>3. part \in Seq(KvTok(RowToks)) /\ Len(part) >= 1
    <3>1. u \in Nat /\ u >= 1 /\ k \in Nat /\ k >= 1
      BY <1>0, <1>a, ConfFacts
    <3> DEFINE j == k * u
    <3>2. j \in Nat /\ j >= 1
      <4>1. k * u = (k - 1) * u + u /\ (k - 1) * u \in Nat
        BY <3>1
      <4>. QED BY <3>1, <4>1
    <3> HIDE DEF j
    <3>3. Min({j, Len(view)}) = IF j <= Len(view) THEN j ELSE Len(view)
      BY <2>2, <3>2, MinPair
    <3>4. m \in Int /\ 1 <= m /\ m <= Len(view)
      BY <2>2, <3>2, <3>3 DEF j
    <3> HIDE DEF m
    <3>. QED BY <2>2, <3>4, PartOf
  <2> HIDE DEF part
  <2>4. r \in [ok : BOOLEAN, kv : GoodKv(RowToks)] /\ ~r.kv.has_shift
    BY <2>3, ViewGood
  <2> HIDE DEF r
  <2>5. ASSUME NEW s \in Slots PROVE SubSeq(slot[s].cache, 1, kept(s)) \in Seq(Toks)
    <3> DEFINE P == {0} \cup {r.kv.cells[i].pos : i \in Held(r.kv, s)}
    <3>1. r.kv \in Kv(RowToks) /\ slot[s].cache \in Seq(Toks) /\ Len(slot[s].cache) \in Nat
      BY <1>a, <2>4 DEF GoodKv
    <3>2. P \subseteq Int
      BY <3>1, CellTyped DEF Held
    <3>3. IsFiniteSet(P)
      <4>1. Held(r.kv, s) \subseteq Cells
        BY DEF Held
      <4>2. IsFiniteSet(Held(r.kv, s))
        BY <4>1, CellSets
      <4>3. IsFiniteSet({r.kv.cells[i].pos : i \in Held(r.kv, s)})
        <5> DEFINE f == [i \in Held(r.kv, s) |-> r.kv.cells[i].pos]
                   Q == {r.kv.cells[i].pos : i \in Held(r.kv, s)}
        <5>1. f \in [Held(r.kv, s) -> Q] /\ \A t \in Q : \E i \in Held(r.kv, s) : f[i] = t
          OBVIOUS
        <5> HIDE DEF f, Q
        <5>2. f \in Surjection(Held(r.kv, s), Q)
          BY <5>1 DEF Surjection
        <5>3. IsFiniteSet(Q)
          BY <4>2, <5>2, FS_Surjection
        <5>. QED BY <5>3 DEF Q
      <4>. QED BY <4>3, FS_Union, FS_Singleton
    <3>4. Max(P) \in Int
      <4> HIDE DEF P
      <4>1. P # {}
        BY DEF P
      <4>. QED BY <3>2, <3>3, <4>1, MinMax
    <3>5. SeqPosMax(r.kv, s) = Max(P)
      BY DEF SeqPosMax
    <3>6. SeqPosMax(r.kv, s) + 1 \in Int /\ Len(slot[s].cache) \in Int
      BY <3>1, <3>4, <3>5
    <3>7. kept(s) \in Int /\ kept(s) <= Len(slot[s].cache)
      BY <3>6, MinPair, SMTT(30)
    <3> HIDE DEF kept
    <3>. QED BY <3>1, <3>7, PartOf
  <2> HIDE DEF kept
  <2>6. slot' \in [Slots -> SlotRec]
    <3>1. \A s \in Slots : [FreeSlot EXCEPT !.cache = SubSeq(slot[s].cache, 1, kept(s))] \in SlotRec
      BY <2>5, ReleasedSlot
    <3>. QED BY <2>1, <3>1
  <2>7. n_batch' \in 1..NBatch /\ batch' \in Seq(KvTok(RowToks))
    BY <1>a, <2>1
  <2>. QED BY <1>0, <1>b, <2>1, <2>4, <2>6, <2>7
<1>10. CASE DecodeFails
  <2> DEFINE view == SubSeq(batch, 1, ViewLen)
             r == Decode(kv, view, conf.n_ubatch)
  <2>1. /\ batch # <<>> /\ kv' = r.kv /\ refused' = (n_batch = 1)
        /\ n_batch' = IF refused' THEN NBatch ELSE n_batch \div 2
        /\ batch' = IF refused' THEN <<>> ELSE batch
        /\ slot' = IF refused' THEN [s \in Slots |-> [FreeSlot EXCEPT !.cache = slot[s].cache]] ELSE slot
        /\ UNCHANGED <<conf, states, file>>
    BY <1>10 DEF DecodeFails
  <2>2. view \in Seq(KvTok(RowToks)) /\ Len(view) >= 1
    BY <1>0, <2>1, ViewFacts
  <2> HIDE DEF view
  <2>3. r \in [ok : BOOLEAN, kv : GoodKv(RowToks)] /\ ~r.kv.has_shift
    BY <2>2, ViewGood
  <2> HIDE DEF r
  <2>4. slot' \in [Slots -> SlotRec]
    <3>1. \A s \in Slots : [FreeSlot EXCEPT !.cache = slot[s].cache] \in SlotRec
      BY <1>a, ReleasedSlot
    <3>. QED BY <1>0, <2>1, <3>1
  <2>5. n_batch' \in 1..NBatch
    <3>1. n_batch # 1 => n_batch \div 2 \in 1..NBatch
      BY <1>0, <1>a
    <3>2. CASE n_batch = 1
      <4>1. n_batch' = NBatch
        BY <2>1, <3>2
      <4>. QED BY <1>a, <4>1
    <3>3. CASE n_batch # 1
      <4>1. n_batch' = n_batch \div 2
        BY <2>1, <3>3
      <4>. QED BY <3>1, <3>3, <4>1
    <3>. QED BY <3>2, <3>3
  <2>6. batch' \in Seq(KvTok(RowToks))
    BY <1>0, <2>1
  <2>. QED BY <1>0, <1>b, <2>1, <2>3, <2>4, <2>5, <2>6
<1>11. CASE UNCHANGED vars
  BY <1>0, <1>11, <1>b DEF vars
<1>. QED BY <1>1, <1>2, <1>3, <1>4, <1>5, <1>6, <1>7, <1>8, <1>9, <1>10, <1>11 DEF Next

\* The invariant holds in every reachable state.
THEOREM SlotCorrect == Spec => []SlotInv
BY SlotInvInit, SlotInvNext, PTL DEF Spec

\* A good cache is exact: the counter, the cells and the search of find_slot.
LEMMA ExactGood ==
    ASSUME SlotInv PROVE UsedExact
<1>1. kv \in Kv(RowToks) /\ CellsExact(kv)
  BY DEF SlotInv, GoodKv
<1>2. ASSUME NEW n \in 1..Size
      PROVE  ScanFrom(kv, n).ok <=> \E h \in 0..(Size - n) : UsedIn(kv, h, n) = {}
  <2> DEFINE t == ScanFrom(kv, n)
  <2>0. Size \in Nat /\ n \in Nat
    BY KvCacheAssumption
  <2>1. t \in ScanState /\ ScanRight(kv, n, t)
    BY <1>1, ScanCorrect
  <2> HIDE DEF t
  <2>2. t.head \in 0..Size /\ t.ok \in BOOLEAN
    BY <2>1 DEF ScanState
  <2>3. CASE t.ok
    <3>1. t.head + n <= Size /\ UsedIn(kv, t.head, n) = {}
      BY <2>1, <2>3 DEF ScanRight
    <3>2. t.head \in 0..(Size - n)
      BY <2>0, <2>2, <3>1
    <3>. QED BY <2>3, <3>1, <3>2 DEF t
  <2>4. CASE ~t.ok
    <3>1. \A g \in 0..Size : NoRunAt(kv, n, g)
      BY <2>1, <2>4 DEF ScanRight
    <3>2. ASSUME NEW h \in 0..(Size - n) PROVE UsedIn(kv, h, n) # {}
      <4>1. h \in 0..Size /\ h + n <= Size
        BY <2>0
      <4>. QED BY <3>1, <4>1 DEF NoRunAt
    <3>. QED BY <2>4, <3>2 DEF t
  <2>. QED BY <2>2, <2>3, <2>4
<1>. QED BY <1>1, <1>2 DEF UsedExact, CellsExact

\* `used` counts the cells in use, a cell has a position exactly while a sequence
\* owns it, and find_slot finds a run of free cells whenever there is one, for every
\* cache size and every sequence of requests, decodes, shifts and restores.
THEOREM UsedIsExact == Spec => []UsedExact
BY SlotCorrect, ExactGood, PTL

\* A K row in use is rotated to the position of its cell but for the shift that is
\* noted as pending, whatever was shifted, moved, saved or restored before.
THEOREM RowsFollow == Spec => []RowsFollowCells
<1>1. SlotInv => RowsFollowCells
  BY DEF SlotInv, GoodKv, RowsAt, ShiftNoted, RowsFollowCells, InUse
<1>. QED BY <1>1, SlotCorrect, PTL

-----------------------------------------------------------------------------
(* The tokens of a slot                                                     *)

\* The sequence of tokens c has t at position p.
Has(c, p, t) == p \in 0..(Len(c) - 1) /\ t = c[p + 1]

\* One more token.
LEMMA HasAppend ==
    ASSUME NEW c \in Seq(Toks), NEW tok \in Toks, NEW p, NEW t
    PROVE  Has(Append(c, tok), p, t) <=> Has(c, p, t) \/ (p = Len(c) /\ t = tok)
<1> DEFINE n == Len(c)
           d == Append(c, tok)
<1>1. n \in Nat /\ Len(d) = n + 1 /\ d[n + 1] = tok /\ \A i \in 1..n : d[i] = c[i]
  OBVIOUS
<1> HIDE DEF n, d
<1>2. ASSUME p \in 0..(n - 1) PROVE p + 1 \in 1..n /\ d[p + 1] = c[p + 1] /\ p # n /\ p \in 0..(n + 1 - 1)
  BY <1>1, <1>2
<1>3. p \in 0..(n + 1 - 1) <=> p \in 0..(n - 1) \/ p = n
  BY <1>1
<1>4. Has(d, p, t) <=> p \in 0..(n + 1 - 1) /\ t = d[p + 1]
  BY <1>1 DEF Has
<1>5. Has(c, p, t) <=> p \in 0..(n - 1) /\ t = c[p + 1]
  BY DEF Has, n
<1>6. Has(d, p, t) <=> Has(c, p, t) \/ (p = n /\ t = tok)
  BY <1>1, <1>2, <1>3, <1>4, <1>5
<1>. QED BY <1>6 DEF d, n

\* The first n tokens.
LEMMA HasPrefix ==
    ASSUME NEW c \in Seq(Toks), NEW n \in Nat, n <= Len(c)
    PROVE  /\ SubSeq(c, 1, n) \in Seq(Toks) /\ Len(SubSeq(c, 1, n)) = n
           /\ \A p, t : Has(SubSeq(c, 1, n), p, t) <=> Has(c, p, t) /\ p < n
<1> DEFINE d == SubSeq(c, 1, n)
<1>1. Len(c) \in Nat /\ d \in Seq(Toks) /\ Len(d) = n /\ \A i \in 1..n : d[i] = c[i]
  OBVIOUS
<1> HIDE DEF d
<1>2. ASSUME NEW p, NEW t PROVE Has(d, p, t) <=> Has(c, p, t) /\ p < n
  <2>1. p \in 0..(n - 1) <=> p \in 0..(Len(c) - 1) /\ p < n
    BY <1>1
  <2>2. p \in 0..(n - 1) => p + 1 \in 1..n
    BY <1>1
  <2>. QED BY <1>1, <2>1, <2>2 DEF Has
<1>. QED BY <1>1, <1>2 DEF d

\* Discarding n tokens behind the first k moves the rest down.
LEMMA HasCut ==
    ASSUME NEW c \in Seq(Toks), NEW k \in Nat, NEW n \in Nat, n >= 1, k + n < Len(c)
    PROVE  LET d == SubSeq(c, 1, k) \o SubSeq(c, k + n + 1, Len(c))
           IN /\ d \in Seq(Toks) /\ Len(d) = Len(c) - n
              /\ \A t : \A p \in Int : Has(d, p, t) <=> (p < k /\ Has(c, p, t)) \/ (p >= k /\ Has(c, p + n, t))
<1> DEFINE l == Len(c)
           a == SubSeq(c, 1, k)
           b == SubSeq(c, k + n + 1, l)
           d == a \o b
<1>0. l \in Nat /\ k + n < l
  OBVIOUS
<1>1. /\ a \in Seq(Toks) /\ Len(a) = k /\ \A i \in 1..k : a[i] = c[i]
  BY <1>0
<1>2. /\ b \in Seq(Toks) /\ Len(b) = l - (k + n) /\ \A i \in 1..(l - (k + n)) : b[i] = c[k + n + i]
  <2>1. k + n + 1 \in Int /\ 1 <= k + n + 1 /\ k + n + 1 <= l /\ l <= Len(c) /\ l - (k + n + 1) + 1 = l - (k + n)
    BY <1>0
  <2>2. \A i \in 1..(l - (k + n)) : k + n + 1 + i - 1 = k + n + i
    BY <1>0
  <2>. QED BY <2>1, <2>2
<1> HIDE DEF a, b
<1>3. /\ d \in Seq(Toks) /\ Len(d) = l - n
      /\ \A i \in 1..k : d[i] = c[i]
      /\ \A i \in (k + 1)..(l - n) : d[i] = c[i + n]
  <2>0. k + (l - (k + n)) = l - n
    BY <1>0
  <2>1. d \in Seq(Toks) /\ Len(d) = l - n
    <3>0. a \in Seq(Toks) /\ b \in Seq(Toks)
      BY <1>1, <1>2
    <3>1. d \in Seq(Toks) /\ Len(d) = Len(a) + Len(b)
      BY <3>0, ConcatProperties
    <3>. QED BY <1>1, <1>2, <2>0, <3>1
  <2>2. ASSUME NEW i \in 1..k PROVE d[i] = c[i]
    BY <1>0, <1>1, <1>2
  <2>3. ASSUME NEW i \in (k + 1)..(l - n) PROVE d[i] = c[i + n]
    <3>1. i - k \in 1..(l - (k + n)) /\ k + n + (i - k) = i + n
      BY <1>0
    <3>2. d[i] = b[i - k]
      BY <1>0, <1>1, <1>2, <3>1
    <3>. QED BY <1>2, <3>1, <3>2
  <2>. QED BY <2>1, <2>2, <2>3
<1> HIDE DEF d, l
<1>4. ASSUME NEW t, NEW p \in Int
      PROVE  Has(d, p, t) <=> (p < k /\ Has(c, p, t)) \/ (p >= k /\ Has(c, p + n, t))
  <2>0. /\ Has(c, p, t) <=> p \in 0..(l - 1) /\ t = c[p + 1]
        /\ Has(c, p + n, t) <=> p + n \in 0..(l - 1) /\ t = c[p + n + 1]
        /\ Has(d, p, t) <=> p \in 0..(l - n - 1) /\ t = d[p + 1]
    BY <1>3 DEF Has, l
  <2>1. CASE p < k
    <3>1. p \in 0..(l - 1) <=> p \in 0..(l - n - 1)
      BY <1>0, <2>1
    <3>2. p \in 0..(l - 1) => p + 1 \in 1..k
      BY <1>0, <2>1
    <3>. QED BY <1>3, <2>0, <2>1, <3>1, <3>2
  <2>2. CASE p >= k
    <3>1. p + n \in 0..(l - 1) <=> p \in 0..(l - n - 1)
      BY <1>0, <2>2
    <3>2. p \in 0..(l - n - 1) => p + 1 \in (k + 1)..(l - n) /\ p + 1 + n = p + n + 1
      BY <1>0, <2>2
    <3>. QED BY <1>3, <2>0, <2>2, <3>1, <3>2
  <2>. QED BY <2>1, <2>2
<1>. QED BY <1>3, <1>4 DEF d, a, b, l

-----------------------------------------------------------------------------
(* The slots and what the cache and the batch hold for them                 *)

\* The batch continues what the cache holds, in the order of positions.
Ahead(k, b) ==
    /\ \A i \in 1..Len(b) : \A p, t : Holds(k, b[i].seq, p, t) => p < b[i].pos
    /\ \A i, j \in 1..Len(b) : i < j /\ b[i].seq = b[j].seq => b[i].pos < b[j].pos

\* The cache and the batch together hold the tokens c for sequence s and no others.
Full(k, b, s, c) == \A p, t : Holds(k, s, p, t) \/ Brings(b, s, p, t) <=> Has(c, p, t)

\* Cache, slots and batch agree: for every slot the cache and the batch together hold its
\* cache_tokens, each at its position, and nothing else.
Linked(k, f, b) ==
    /\ Apart(k, Slots) /\ Ahead(k, b)
    /\ \A i \in 1..Len(b) : b[i].seq \in Slots
    /\ \A s \in Slots : Full(k, b, s, f[s].cache)

\* Such a batch is new to the cache.
LEMMA LinkedFresh ==
    ASSUME NEW k \in GoodKv(RowToks), NEW f, NEW b \in Seq(KvTok(RowToks)), Linked(k, f, b)
    PROVE  Fresh(k, b, Slots)
<1>1. ASSUME NEW i \in 1..Len(b) PROVE b[i].pos \in Int
  <2>1. b[i] \in KvTok(RowToks)
    OBVIOUS
  <2>. QED BY <2>1 DEF KvTok
<1>2. ASSUME NEW i \in 1..Len(b), NEW t PROVE ~Holds(k, b[i].seq, b[i].pos, t)
  <2>1. Holds(k, b[i].seq, b[i].pos, t) => b[i].pos < b[i].pos
    BY DEF Linked, Ahead
  <2>. QED BY <1>1, <2>1
<1>3. ASSUME NEW i \in 1..Len(b), NEW j \in 1..Len(b), b[i].seq = b[j].seq, b[i].pos = b[j].pos PROVE i = j
  <2>1. i \in Int /\ j \in Int /\ b[i].pos \in Int /\ b[j].pos \in Int
    BY <1>1
  <2>2. i < j => b[i].pos < b[j].pos
    BY <1>3 DEF Linked, Ahead
  <2>3. j < i => b[j].pos < b[i].pos
    BY <1>3 DEF Linked, Ahead
  <2>. QED BY <1>3, <2>1, <2>2, <2>3
<1>. QED BY <1>2, <1>3 DEF Fresh, Linked

\* Decoding the first m tokens moves them from the batch to the cache.
LEMMA DecodedLinked ==
    ASSUME NEW k \in GoodKv(RowToks), NEW f, NEW b \in Seq(KvTok(RowToks)), Linked(k, f, b),
           NEW m \in 0..Len(b), NEW j, Adds(j, k, First(b, m), Slots)
    PROVE  Linked(j, f, SubSeq(b, m + 1, Len(b)))
<1> DEFINE n == Len(b)
           d == SubSeq(b, m + 1, n)
<1>0. n \in Nat /\ m \in Nat /\ m <= n /\ n \in 0..Len(b) /\ m \in 0..n
  OBVIOUS
<1>1. /\ d \in Seq(KvTok(RowToks)) /\ Len(d) = n - m /\ \A i \in 1..(n - m) : d[i] = b[m + i]
      /\ \A s, p, t : Brings(d, s, p, t) <=> \E i \in (m + 1)..n : b[i].seq = s /\ b[i].pos = p /\ b[i].tok = t
  <2>1. \A h \in 0..Len(b) : m <= h =>
          /\ SubSeq(b, m + 1, h) \in Seq(KvTok(RowToks)) /\ Len(SubSeq(b, m + 1, h)) = h - m
          /\ \A i \in 1..(h - m) : SubSeq(b, m + 1, h)[i] = b[m + i]
          /\ \A s, p, t : Brings(SubSeq(b, m + 1, h), s, p, t) <=>
                \E i \in (m + 1)..h : b[i].seq = s /\ b[i].pos = p /\ b[i].tok = t
    BY BringsPart
  <2>. QED BY <1>0, <2>1
<1>2. \A s, p, t : Brings(First(b, m), s, p, t) <=> \E i \in 1..m : b[i].seq = s /\ b[i].pos = p /\ b[i].tok = t
  BY <1>0, FirstPart
<1>3. \A s, p, t : Brings(b, s, p, t) <=> \E i \in 1..n : b[i].seq = s /\ b[i].pos = p /\ b[i].tok = t
  BY DEF Brings
<1>4. ASSUME NEW i \in 1..(n - m) PROVE m + i \in 1..n /\ m + i > m /\ m + i \in Int
  BY <1>0
<1> HIDE DEF d, n
<1>5. Apart(j, Slots) /\ \A s, p, t : Holds(j, s, p, t) <=> Holds(k, s, p, t) \/ Brings(First(b, m), s, p, t)
  BY DEF Adds
<1>6. ASSUME NEW i \in 1..(n - m), NEW p, NEW t, Holds(j, d[i].seq, p, t) PROVE p < d[i].pos
  <2>1. d[i] = b[m + i] /\ m + i \in 1..Len(b) /\ m + i > m
    BY <1>1, <1>4 DEF n
  <2>2. CASE Holds(k, b[m + i].seq, p, t)
    BY <2>1, <2>2 DEF Linked, Ahead
  <2>3. CASE Brings(First(b, m), b[m + i].seq, p, t)
    <3>1. PICK h \in 1..m : b[h].seq = b[m + i].seq /\ b[h].pos = p
      BY <1>2, <2>3
    <3>2. h \in 1..Len(b) /\ h < m + i
      BY <1>0, <2>1 DEF n
    <3>. QED BY <2>1, <3>1, <3>2 DEF Linked, Ahead
  <2>. QED BY <1>5, <1>6, <2>1, <2>2, <2>3
<1>7. ASSUME NEW i \in 1..(n - m), NEW h \in 1..(n - m), i < h, d[i].seq = d[h].seq PROVE d[i].pos < d[h].pos
  <2>1. d[i] = b[m + i] /\ d[h] = b[m + h] /\ m + i \in 1..Len(b) /\ m + h \in 1..Len(b)
    BY <1>1, <1>4 DEF n
  <2>2. m + i < m + h
    BY <1>0, <1>7
  <2>. QED BY <1>7, <2>1, <2>2 DEF Linked, Ahead
<1>8. ASSUME NEW i \in 1..(n - m) PROVE d[i].seq \in Slots
  BY <1>1, <1>4 DEF Linked, n
<1>9. ASSUME NEW s \in Slots, NEW p, NEW t
      PROVE  Holds(j, s, p, t) \/ Brings(d, s, p, t) <=> Has(f[s].cache, p, t)
  <2>1. Holds(k, s, p, t) \/ Brings(b, s, p, t) <=> Has(f[s].cache, p, t)
    BY DEF Linked, Full
  <2>2. \A i : i \in 1..n <=> i \in 1..m \/ i \in (m + 1)..n
    BY <1>0
  <2>3. Brings(b, s, p, t) <=> Brings(First(b, m), s, p, t) \/ Brings(d, s, p, t)
    BY <1>1, <1>2, <1>3, <2>2
  <2>. QED BY <1>5, <2>1, <2>3
<1>. QED BY <1>1, <1>5, <1>6, <1>7, <1>8, <1>9 DEF Linked, Ahead, Full, d, n

\* The tokens of a slot matter, nothing else of it.
LEMMA LinkedTokens ==
    ASSUME NEW k, NEW f, NEW b, Linked(k, f, b), NEW g, \A s \in Slots : g[s].cache = f[s].cache
    PROVE  Linked(k, g, b)
BY DEF Linked

\* Only what the cache holds matters.
LEMMA LinkedSame ==
    ASSUME NEW k, NEW f, NEW b, Linked(k, f, b), NEW j, Same(j, k, Slots)
    PROVE  Linked(j, f, b)
<1>1. Apart(j, Slots) /\ \A s, p, t : Holds(j, s, p, t) <=> Holds(k, s, p, t)
  BY DEF Same
<1>2. Ahead(j, b)
  BY <1>1 DEF Linked, Ahead
<1>3. \A s \in Slots : Full(j, b, s, f[s].cache)
  BY <1>1 DEF Linked, Full
<1>. QED BY <1>1, <1>2, <1>3 DEF Linked

\* Tokens of sequence s in the batch.
InBatch(b, s) == {i \in 1..Len(b) : b[i].seq = s}

\* Position p is in the batch or below all that is.
LEMMA BatchOnTop ==
    ASSUME NEW k \in GoodKv(RowToks), NEW f, NEW b \in Seq(KvTok(RowToks)), Linked(k, f, b),
           NEW s \in Slots, f[s].cache \in Seq(Toks)
    PROVE  LET c == f[s].cache
               m == Cardinality(InBatch(b, s))
           IN /\ m \in Nat /\ m <= Len(c)
              /\ \A p \in 0..(Len(c) - m - 1) : Holds(k, s, p, c[p + 1])
<1> DEFINE c == f[s].cache
           B == InBatch(b, s)
           n == Len(c)
           m == Cardinality(B)
<1>0. n \in Nat /\ Full(k, b, s, c)
  BY DEF Linked
<1>1. IsFiniteSet(B) /\ m \in Nat /\ B \subseteq 1..Len(b)
  <2>1. IsFiniteSet(1..Len(b)) /\ B \subseteq 1..Len(b)
    BY FS_Interval DEF InBatch
  <2>. QED BY <2>1, FS_Subset, FS_CardinalityType
<1>2. ASSUME NEW i \in B PROVE b[i].seq = s /\ b[i].pos \in 0..(n - 1) /\ b[i].tok = c[b[i].pos + 1]
  <2>1. i \in 1..Len(b) /\ b[i].seq = s
    BY DEF InBatch
  <2>2. Brings(b, s, b[i].pos, b[i].tok)
    BY <2>1 DEF Brings
  <2>3. Has(c, b[i].pos, b[i].tok)
    BY <1>0, <2>2 DEF Full
  <2>. QED BY <2>1, <2>3 DEF Has
<1>3. ASSUME NEW i \in B, NEW j \in B, b[i].pos = b[j].pos PROVE i = j
  <2>1. Fresh(k, b, Slots)
    BY LinkedFresh
  <2>2. i \in 1..Len(b) /\ j \in 1..Len(b) /\ b[i].seq = b[j].seq
    BY <1>2 DEF InBatch
  <2>. QED BY <1>3, <2>1, <2>2 DEF Fresh
<1> HIDE DEF B, n, c, m
<1>4. IsFiniteSet(0..(n - 1)) /\ Cardinality(0..(n - 1)) = n
  <2>1. n - 1 \in Int /\ 0 \in Int
    BY <1>0
  <2>2. /\ IsFiniteSet(0..(n - 1))
        /\ Cardinality(0..(n - 1)) = IF 0 > n - 1 THEN 0 ELSE (n - 1) - 0 + 1
    BY <2>1, FS_Interval
  <2>. QED BY <1>0, <2>2
<1>5. m <= n
  <2> DEFINE g == [i \in B |-> b[i].pos]
  <2>1. g \in [B -> 0..(n - 1)] /\ \A i, j \in B : g[i] = g[j] => i = j
    BY <1>2, <1>3
  <2> HIDE DEF g
  <2>2. g \in Injection(B, 0..(n - 1))
    BY <2>1 DEF Injection, IsInjective
  <2>3. m <= Cardinality(0..(n - 1))
    BY <1>4, <2>2, FS_Injection DEF m
  <2>. QED BY <1>4, <2>3
<1>6. ASSUME NEW p \in 0..(n - m - 1) PROVE Holds(k, s, p, c[p + 1])
  <2>0. p \in Nat /\ p < n - m /\ p \in 0..(n - 1)
    BY <1>0, <1>1
  <2>1. SUFFICES ASSUME ~Holds(k, s, p, c[p + 1]) PROVE FALSE
    OBVIOUS
  <2>2. ASSUME NEW q \in p..(n - 1) PROVE \E i \in B : b[i].pos = q
    <3>1. q \in 0..(n - 1)
      BY <1>0, <2>0
    <3>2. Has(c, p, c[p + 1]) /\ Has(c, q, c[q + 1])
      BY <2>0, <3>1 DEF Has, n
    <3>3. PICK i \in 1..Len(b) : b[i].seq = s /\ b[i].pos = p
      <4>1. Brings(b, s, p, c[p + 1])
        BY <1>0, <2>1, <3>2 DEF Full
      <4>. QED BY <4>1 DEF Brings
    <3>4. ~Holds(k, s, q, c[q + 1])
      <4>1. Holds(k, s, q, c[q + 1]) => q < p
        BY <3>3 DEF Linked, Ahead
      <4>2. ~(q < p)
        BY <2>0, <3>1
      <4>. QED BY <4>1, <4>2
    <3>5. Brings(b, s, q, c[q + 1])
      BY <1>0, <3>2, <3>4 DEF Full
    <3>6. PICK j \in 1..Len(b) : b[j].seq = s /\ b[j].pos = q
      BY <3>5 DEF Brings
    <3>. QED BY <3>6 DEF B, InBatch
  <2> DEFINE P == p..(n - 1)
             g == [q \in P |-> CHOOSE i \in B : b[i].pos = q]
  <2>3. ASSUME NEW q \in P PROVE g[q] \in B /\ b[g[q]].pos = q
    BY <2>2
  <2> HIDE DEF g
  <2>4. IsFiniteSet(P) /\ Cardinality(P) = n - p
    <3>1. p \in Int /\ n - 1 \in Int
      BY <1>0, <2>0
    <3>2. IsFiniteSet(p..(n - 1)) /\ Cardinality(p..(n - 1)) = IF p > n - 1 THEN 0 ELSE (n - 1) - p + 1
      BY <3>1, FS_Interval
    <3>. QED BY <1>0, <2>0, <3>2
  <2> HIDE DEF P
  <2>5. g \in [P -> B]
    BY <2>3 DEF g
  <2>6. Cardinality(B) < Cardinality(P)
    BY <1>0, <1>1, <2>0, <2>4 DEF m
  <2>7. PICK x, y \in P : x # y /\ g[x] = g[y]
    BY <1>1, <2>4, <2>5, <2>6, FS_PigeonHole
  <2>. QED BY <2>3, <2>7
<1>. QED BY <1>1, <1>5, <1>6 DEF m, n, c, B

\* The tokens a slot counts as computed are in the cache.
LEMMA LinkedInKv ==
    ASSUME SlotInv, Linked(kv, slot, batch), conf.sys = 0
    PROVE  CacheTokensInKv
<1>0. /\ kv \in GoodKv(RowToks) /\ kv \in Kv(RowToks) /\ batch \in Seq(KvTok(RowToks)) /\ slot \in [Slots -> SlotRec]
  BY DEF SlotInv, GoodKv
<1> SUFFICES ASSUME NEW s \in Slots
             PROVE  /\ \A k \in 1 .. Len(Decoded(s)) :
                         \E i \in Held(kv, s) :
                            /\ kv.cells[i].pos = conf.sys + k - 1 /\ kv.rows[i].tok = Decoded(s)[k]
                            /\ \A j \in Held(kv, s) \ {i} : kv.cells[j].pos # kv.cells[i].pos
                    /\ slot[s].st = "gen" =>
                         \A i \in Held(kv, s) : kv.cells[i].pos < conf.sys + Len(slot[s].cache)
  BY DEF CacheTokensInKv
<1> DEFINE c == slot[s].cache
           m == Cardinality(InBatch(batch, s))
           n == Len(c) - m
<1>1. c \in Seq(Toks) /\ Len(c) \in Nat
  <2>1. slot[s] \in SlotRec
    BY <1>0
  <2>. QED BY <2>1 DEF SlotRec
<1>2. m \in Nat /\ m <= Len(c) /\ \A p \in 0..(n - 1) : Holds(kv, s, p, c[p + 1])
  BY <1>0, <1>1, BatchOnTop
<1>3. Decoded(s) = SubSeq(c, 1, n)
  <2>1. DOMAIN batch = 1..Len(batch)
    BY <1>0
  <2>. QED BY <2>1 DEF Decoded, InBatch
<1> HIDE DEF c, m
<1>4. n \in Nat /\ n <= Len(c)
  BY <1>1, <1>2
<1> HIDE DEF n
<1>5. Len(Decoded(s)) = n /\ \A k \in 1..n : Decoded(s)[k] = c[k]
  BY <1>1, <1>3, <1>4
<1>6. ASSUME NEW i \in Held(kv, s)
      PROVE  /\ i \in InUse(kv) /\ i \in Cells /\ kv.cells[i].seqs = {s} /\ kv.cells[i].pos < Len(c)
             /\ kv.cells[i].pos \in Nat
  <2>1. i \in InUse(kv) /\ i \in Cells /\ kv.cells[i].seqs = {s}
    BY HeldAlone DEF Linked
  <2>2. Holds(kv, s, kv.cells[i].pos, kv.rows[i].tok)
    BY <2>1 DEF Holds, Bears
  <2>3. Has(c, kv.cells[i].pos, kv.rows[i].tok)
    BY <2>2 DEF Linked, Full, c
  <2>. QED BY <1>1, <2>1, <2>3 DEF Has
<1>7. ASSUME NEW k \in 1..n
      PROVE  \E i \in Held(kv, s) :
               /\ kv.cells[i].pos = conf.sys + k - 1 /\ kv.rows[i].tok = Decoded(s)[k]
               /\ \A j \in Held(kv, s) \ {i} : kv.cells[j].pos # kv.cells[i].pos
  <2>1. k - 1 \in 0..(n - 1) /\ (k - 1) + 1 = k /\ conf.sys + k - 1 = k - 1
    BY <1>4
  <2>2. Holds(kv, s, k - 1, c[k])
    BY <1>2, <2>1 DEF n
  <2>3. PICK i \in Cells : Bears(kv, i, s, k - 1, c[k])
    BY <2>2 DEF Holds
  <2>4. i \in Held(kv, s) /\ kv.cells[i].pos = k - 1 /\ kv.rows[i].tok = c[k]
    BY <2>3 DEF Bears, Held
  <2>5. \A j \in Held(kv, s) \ {i} : kv.cells[j].pos # kv.cells[i].pos
    BY <1>6, <2>4 DEF Linked, Apart
  <2>. QED BY <1>5, <2>1, <2>4, <2>5
<1>8. \A i \in Held(kv, s) : kv.cells[i].pos < conf.sys + Len(slot[s].cache)
  BY <1>1, <1>6 DEF c
<1>. QED BY <1>5, <1>7, <1>8

\* The contexts of the slots fit into the cache, with a cell to spare for each slot.
LEMMA RoomLeft ==
    ASSUME conf \in Confs, NEW k \in GoodKv(RowToks), Apart(k, Slots),
           \A s \in Slots : \A p, t : Holds(k, s, p, t) => p \in 0..(NCtx - 2)
    PROVE  k.used < Size
<1> DEFINE P == 0..(NCtx - 2)
           N == conf.n_slots
           C == NCtx - 1
           Owner(i) == CHOOSE s \in Slots : k.cells[i].seqs = {s}
           g == [i \in InUse(k) |-> <<Owner(i), k.cells[i].pos>>]
<1>0. /\ N \in Nat /\ N >= 1 /\ C \in Nat /\ C >= 3 /\ N * NCtx <= Size /\ NCtx = C + 1 /\ Size \in Nat
  BY SlotKvAssumption, KvCacheAssumption
<1>1. IsFiniteSet(Slots) /\ Cardinality(Slots) = N /\ IsFiniteSet(P) /\ Cardinality(P) = C
  <2>0. 0 \in Int /\ N - 1 \in Int /\ NCtx - 2 \in Int
    BY <1>0
  <2>1. IsFiniteSet(0..(N - 1)) /\ Cardinality(0..(N - 1)) = IF 0 > N - 1 THEN 0 ELSE (N - 1) - 0 + 1
    BY <2>0, FS_Interval
  <2>2. IsFiniteSet(0..(NCtx - 2)) /\ Cardinality(0..(NCtx - 2)) = IF 0 > NCtx - 2 THEN 0 ELSE (NCtx - 2) - 0 + 1
    BY <2>0, FS_Interval
  <2>. QED BY <1>0, <2>1, <2>2 DEF Slots
<1> HIDE DEF P
<1>2. IsFiniteSet(Slots \X P) /\ Cardinality(Slots \X P) = N * C
  BY <1>1, FS_Product
<1>3. ASSUME NEW i \in InUse(k)
      PROVE  Owner(i) \in Slots /\ k.cells[i].seqs = {Owner(i)} /\ k.cells[i].pos \in P
  <2>1. \E s \in Slots : k.cells[i].seqs = {s}
    BY DEF Apart
  <2>2. Owner(i) \in Slots /\ k.cells[i].seqs = {Owner(i)}
    BY <2>1
  <2> HIDE DEF Owner
  <2>3. Holds(k, Owner(i), k.cells[i].pos, k.rows[i].tok)
    BY <2>2 DEF Holds, Bears, InUse
  <2>. QED BY <2>2, <2>3 DEF P
<1> HIDE DEF Owner
<1>4. g \in [InUse(k) -> Slots \X P] /\ \A i, j \in InUse(k) : g[i] = g[j] => i = j
  <2>1. g \in [InUse(k) -> Slots \X P]
    BY <1>3
  <2>2. ASSUME NEW i \in InUse(k), NEW j \in InUse(k), g[i] = g[j] PROVE i = j
    <3>1. Owner(i) = Owner(j) /\ k.cells[i].pos = k.cells[j].pos
      BY <2>2
    <3>. QED BY <1>3, <3>1 DEF Apart
  <2>. QED BY <2>1, <2>2
<1> HIDE DEF g
<1>5. g \in Injection(InUse(k), Slots \X P)
  BY <1>4 DEF Injection, IsInjective
<1>6. Cardinality(InUse(k)) <= N * C
  BY <1>2, <1>5, FS_Injection
<1>7. k.used = Cardinality(InUse(k)) /\ k.used \in Nat
  <2>1. Cardinality(InUse(k)) \in 0..Size
    BY InUseFinite
  <2>. QED BY <2>1 DEF GoodKv, CellsExact
<1>8. N * NCtx = N * C + N /\ N * C \in Nat
  BY <1>0
<1>. QED BY <1>0, <1>6, <1>7, <1>8

-----------------------------------------------------------------------------
(* A pass keeps slots, cache and batch together                             *)

\* The batch has no token of s.
NoneOf(b, s) == \A i \in 1..Len(b) : b[i].seq # s

\* Other tokens in a slot leave the rest of it and the other slots.
LEMMA CacheRest ==
    ASSUME NEW f \in [Slots -> SlotRec], NEW s \in Slots, NEW c \in Seq(Toks),
           NEW g, g = [f EXCEPT ![s].cache = c]
    PROVE  /\ g[s].cache = c /\ g[s].st = f[s].st /\ g[s].prompt = f[s].prompt /\ g[s].n = f[s].n
           /\ \A t \in Slots \ {s} : g[t] = f[t]
<1> DEFINE x == [f[s] EXCEPT !.cache = c]
<1>1. f[s] \in SlotRec
  OBVIOUS
<1>2. x.st = f[s].st /\ x.cache = c /\ x.prompt = f[s].prompt /\ x.n = f[s].n
  BY <1>1 DEF SlotRec
<1>3. g = [f EXCEPT ![s] = x]
  OBVIOUS
<1> HIDE DEF x
<1>4. g[s] = x /\ \A t \in Slots \ {s} : g[t] = f[t]
  BY <1>3
<1>. QED BY <1>2, <1>4

\* A token more in the batch.
LEMMA BringsMore ==
    ASSUME NEW T, NEW b \in Seq(KvTok(T)), NEW e \in KvTok(T)
    PROVE  /\ Append(b, e) \in Seq(KvTok(T)) /\ Len(Append(b, e)) = Len(b) + 1
           /\ Append(b, e)[Len(b) + 1] = e /\ \A i \in 1..Len(b) : Append(b, e)[i] = b[i]
           /\ \A s, p, t : Brings(Append(b, e), s, p, t) <=>
                             Brings(b, s, p, t) \/ (s = e.seq /\ p = e.pos /\ t = e.tok)
<1> DEFINE d == Append(b, e)
           n == Len(b)
<1>1. /\ n \in Nat /\ d \in Seq(KvTok(T)) /\ Len(d) = n + 1 /\ d[n + 1] = e
      /\ \A i \in 1..n : d[i] = b[i]
  OBVIOUS
<1> HIDE DEF d, n
<1>2. \A i : i \in 1..(n + 1) <=> i \in 1..n \/ i = n + 1
  BY <1>1
<1>3. ASSUME NEW s, NEW p, NEW t
      PROVE  Brings(d, s, p, t) <=> Brings(b, s, p, t) \/ (s = e.seq /\ p = e.pos /\ t = e.tok)
  <2>1. Brings(d, s, p, t) <=> \E i \in 1..(n + 1) : d[i].seq = s /\ d[i].pos = p /\ d[i].tok = t
    BY <1>1 DEF Brings
  <2>2. Brings(b, s, p, t) <=> \E i \in 1..n : b[i].seq = s /\ b[i].pos = p /\ b[i].tok = t
    BY DEF Brings, n
  <2>. QED BY <1>1, <1>2, <2>1, <2>2
<1>. QED BY <1>1, <1>3 DEF d, n

\* What AddToken makes of a pass.
LEMMA AddTokenParts ==
    ASSUME NEW p \in PassState, NEW s \in Slots, conf \in Confs, NEW tok \in Toks, NEW pos \in Nat,
           NEW q, q = AddToken(p, s, tok, pos)
    PROVE  /\ q.kv = p.kv /\ q.batch = Append(p.batch, [tok |-> tok, pos |-> pos, seq |-> s])
           /\ [tok |-> tok, pos |-> pos, seq |-> s] \in KvTok(RowToks)
           /\ p.slot[s].cache \in Seq(Toks)
           /\ q.slot[s].cache = Append(p.slot[s].cache, tok)
           /\ q.slot[s].st = p.slot[s].st /\ q.slot[s].prompt = p.slot[s].prompt /\ q.slot[s].n = p.slot[s].n
           /\ \A t \in Slots \ {s} : q.slot[t] = p.slot[t]
<1> DEFINE e == [tok |-> tok, pos |-> pos, seq |-> s]
           b == Append(p.batch, e)
           c == Append(p.slot[s].cache, tok)
           g == [p.slot EXCEPT ![s].cache = c]
<1>0. /\ p.kv \in GoodKv(RowToks) /\ p.slot \in [Slots -> SlotRec] /\ p.batch \in Seq(KvTok(RowToks))
      /\ s \in Int /\ tok \in RowToks
  BY ConfFacts, RowTokFacts DEF PassState, Slots
<1>1. e \in KvTok(RowToks)
  BY <1>0 DEF KvTok
<1>2. p.slot[s].cache \in Seq(Toks) /\ c \in Seq(Toks)
  <2>1. p.slot[s] \in SlotRec
    BY <1>0
  <2>2. p.slot[s].cache \in Seq(Toks)
    BY <2>1 DEF SlotRec
  <2>. QED BY <2>2
<1>3. q = [p EXCEPT !.batch = b, !.slot = g]
  BY DEF AddToken
<1> HIDE DEF e, c
<1>5. /\ g[s].cache = c /\ g[s].st = p.slot[s].st /\ g[s].prompt = p.slot[s].prompt /\ g[s].n = p.slot[s].n
      /\ \A t \in Slots \ {s} : g[t] = p.slot[t]
  <2>1. g = [p.slot EXCEPT ![s].cache = c]
    OBVIOUS
  <2> HIDE DEF g
  <2>. QED BY <1>0, <1>2, <2>1, CacheRest
<1> HIDE DEF g, b
<1>6. q.slot = g /\ q.batch = b /\ q.kv = p.kv
  BY <1>3 DEF PassState
<1>. QED BY <1>1, <1>2, <1>5, <1>6 DEF b, e, c

\* A token added at the end of the slot's tokens comes last in the batch.
LEMMA AddLinked ==
    ASSUME NEW p \in PassState, NEW s \in Slots, conf \in Confs, NEW tok \in Toks,
           Linked(p.kv, p.slot, p.batch), NEW q, q = AddToken(p, s, tok, Len(p.slot[s].cache))
    PROVE  Linked(q.kv, q.slot, q.batch)
<1> DEFINE c == p.slot[s].cache
           e == [tok |-> tok, pos |-> Len(c), seq |-> s]
           b == p.batch
           d == q.batch
           n == Len(b)
<1>0. p.kv \in GoodKv(RowToks) /\ b \in Seq(KvTok(RowToks)) /\ p.slot \in [Slots -> SlotRec]
  BY DEF PassState
<1>1. c \in Seq(Toks) /\ Len(c) \in Nat
  <2>1. p.slot[s] \in SlotRec
    BY <1>0
  <2>. QED BY <2>1 DEF SlotRec
<1>2. /\ q.kv = p.kv /\ d = Append(b, e) /\ e \in KvTok(RowToks)
      /\ q.slot[s].cache = Append(c, tok)
      /\ \A t \in Slots \ {s} : q.slot[t] = p.slot[t]
  <2>1. \A pos \in Nat : q = AddToken(p, s, tok, pos) =>
          /\ q.kv = p.kv /\ q.batch = Append(p.batch, [tok |-> tok, pos |-> pos, seq |-> s])
          /\ [tok |-> tok, pos |-> pos, seq |-> s] \in KvTok(RowToks)
          /\ q.slot[s].cache = Append(p.slot[s].cache, tok)
          /\ \A t \in Slots \ {s} : q.slot[t] = p.slot[t]
    BY AddTokenParts, SMTT(60)
  <2>. QED BY <1>1, <2>1
<1>3. e.tok = tok /\ e.pos = Len(c) /\ e.seq = s
  OBVIOUS
<1> HIDE DEF c, e, d, b
<1>4. /\ Len(d) = n + 1 /\ d[n + 1] = e /\ (\A i \in 1..n : d[i] = b[i])
      /\ \A x, y, t : Brings(d, x, y, t) <=> Brings(b, x, y, t) \/ (x = s /\ y = Len(c) /\ t = tok)
  BY <1>0, <1>2, <1>3, BringsMore
<1>5. n \in Nat /\ \A i \in 1..(n + 1) : i \in 1..n \/ i = n + 1
  BY <1>0
<1> HIDE DEF n
<1>6. Linked(p.kv, p.slot, b) /\ Full(p.kv, b, s, c)
  BY DEF Linked, b, c
<1>7. ASSUME NEW y, NEW t, Holds(p.kv, s, y, t) \/ Brings(b, s, y, t) PROVE y < Len(c)
  <2>1. Has(c, y, t)
    BY <1>6, <1>7 DEF Full
  <2>. QED BY <1>1, <2>1 DEF Has
<1>8. ASSUME NEW i \in 1..n, b[i].seq = s PROVE b[i].pos < Len(c)
  <2>1. Brings(b, s, b[i].pos, b[i].tok)
    BY <1>8 DEF Brings, n
  <2>. QED BY <1>7, <2>1
<1>9. ASSUME NEW i \in 1..(n + 1), NEW y, NEW t, Holds(q.kv, d[i].seq, y, t) PROVE y < d[i].pos
  <2>1. CASE i \in 1..n
    <3>1. Holds(p.kv, b[i].seq, y, t)
      BY <1>2, <1>4, <1>9, <2>1
    <3>2. y < b[i].pos
      BY <1>6, <2>1, <3>1 DEF Linked, Ahead, n
    <3>. QED BY <1>4, <2>1, <3>2
  <2>2. CASE i = n + 1
    BY <1>2, <1>3, <1>4, <1>7, <1>9, <2>2
  <2>. QED BY <1>5, <2>1, <2>2
<1>10. ASSUME NEW i \in 1..(n + 1), NEW j \in 1..(n + 1), i < j, d[i].seq = d[j].seq PROVE d[i].pos < d[j].pos
  <2>1. i \in 1..n
    BY <1>5, <1>10
  <2>2. CASE j \in 1..n
    <3>1. b[i].pos < b[j].pos
      BY <1>4, <1>6, <1>10, <2>1, <2>2 DEF Linked, Ahead, n
    <3>. QED BY <1>4, <2>1, <2>2, <3>1
  <2>3. CASE j = n + 1
    BY <1>3, <1>4, <1>8, <1>10, <2>1, <2>3
  <2>. QED BY <1>5, <2>2, <2>3
<1>11. Ahead(q.kv, d)
  BY <1>4, <1>9, <1>10 DEF Ahead
<1>12. \A i \in 1..Len(d) : d[i].seq \in Slots
  BY <1>3, <1>4, <1>5, <1>6 DEF Linked, n
<1>13. ASSUME NEW x \in Slots PROVE Full(q.kv, d, x, q.slot[x].cache)
  <2>1. CASE x = s
    <3>1. \A y, t : Has(Append(c, tok), y, t) <=> Has(c, y, t) \/ (y = Len(c) /\ t = tok)
      BY <1>1, HasAppend
    <3>2. ASSUME NEW y, NEW t
          PROVE  Holds(p.kv, s, y, t) \/ Brings(d, s, y, t) <=> Has(Append(c, tok), y, t)
      <4>1. Holds(p.kv, s, y, t) \/ Brings(b, s, y, t) <=> Has(c, y, t)
        BY <1>6 DEF Full
      <4>2. Brings(d, s, y, t) <=> Brings(b, s, y, t) \/ (y = Len(c) /\ t = tok)
        BY <1>4
      <4>. QED BY <3>1, <4>1, <4>2
    <3>. QED BY <1>2, <2>1, <3>2 DEF Full
  <2>2. CASE x # s
    <3>1. Full(p.kv, b, x, p.slot[x].cache)
      BY <1>6 DEF Linked
    <3>. QED BY <1>2, <1>4, <2>2, <3>1 DEF Full
  <2>. QED BY <2>1, <2>2
<1>14. Apart(q.kv, Slots)
  BY <1>2, <1>6 DEF Linked
<1>. QED BY <1>11, <1>12, <1>13, <1>14 DEF Linked, d

\* What follows the first n tokens of a slot without tokens in the batch goes from the
\* cache and from the slot.
LEMMA TruncLinked ==
    ASSUME NEW p \in PassState, NEW s \in Slots, conf \in Confs, conf.sys = 0,
           NEW n \in Nat, n <= Len(p.slot[s].cache),
           Linked(p.kv, p.slot, p.batch), NoneOf(p.batch, s), NEW q, q = Truncated(p, s, n)
    PROVE  /\ Linked(q.kv, q.slot, q.batch) /\ q.batch = p.batch
           /\ q.slot[s].cache = SubSeq(p.slot[s].cache, 1, n) /\ Len(q.slot[s].cache) = n
           /\ q.slot[s].st = p.slot[s].st /\ q.slot[s].prompt = p.slot[s].prompt /\ q.slot[s].n = p.slot[s].n
           /\ \A t \in Slots \ {s} : q.slot[t] = p.slot[t]
<1> DEFINE k == SeqRm(p.kv, s, conf.sys + n, -1)
           c == p.slot[s].cache
           e == SubSeq(c, 1, n)
           g == [p.slot EXCEPT ![s].cache = e]
           b == p.batch
<1>0. /\ p.kv \in GoodKv(RowToks) /\ p.slot \in [Slots -> SlotRec] /\ b \in Seq(KvTok(RowToks))
  BY DEF PassState
<1>1. q = [p EXCEPT !.kv = k, !.slot = g]
  BY DEF Truncated
<1>2. c \in Seq(Toks) /\ n <= Len(c)
  <2>1. p.slot[s] \in SlotRec
    BY <1>0
  <2>. QED BY <2>1 DEF SlotRec
<1> HIDE DEF c
<1>3. e \in Seq(Toks) /\ Len(e) = n /\ \A y, t : Has(e, y, t) <=> Has(c, y, t) /\ y < n
  BY <1>2, HasPrefix
<1>4. /\ Apart(k, Slots)
      /\ \A x, y, t : Holds(k, x, y, t) <=> Holds(p.kv, x, y, t) /\ ~(x = s /\ InRange(y, n, -1))
  <2>1. conf.sys + n = n /\ Apart(p.kv, Slots)
    BY DEF Linked
  <2>. QED BY <1>0, <2>1, SeqRmHolds
<1> HIDE DEF k, e
<1>5. /\ g[s].cache = e /\ g[s].st = p.slot[s].st /\ g[s].prompt = p.slot[s].prompt /\ g[s].n = p.slot[s].n
      /\ \A t \in Slots \ {s} : g[t] = p.slot[t]
  <2>1. g = [p.slot EXCEPT ![s].cache = e]
    OBVIOUS
  <2> HIDE DEF g
  <2>. QED BY <1>0, <1>3, <2>1, CacheRest
<1> HIDE DEF g
<1>6. q.slot = g /\ q.batch = b /\ q.kv = k
  BY <1>1 DEF PassState
<1> HIDE DEF b
<1>7. Linked(p.kv, p.slot, b) /\ NoneOf(b, s)
  BY DEF b
<1>8. Ahead(k, b)
  BY <1>4, <1>7 DEF Linked, Ahead
<1>9. ASSUME NEW x \in Slots PROVE Full(k, b, x, g[x].cache)
  <2>1. Full(p.kv, b, x, p.slot[x].cache)
    BY <1>7 DEF Linked
  <2>2. CASE x = s
    <3>1. \A y, t : ~Brings(b, s, y, t)
      BY <1>7 DEF NoneOf, Brings
    <3>2. ASSUME NEW y, NEW t PROVE Holds(k, s, y, t) <=> Has(e, y, t)
      <4>1. Holds(p.kv, s, y, t) <=> Has(c, y, t)
        BY <2>1, <2>2, <3>1 DEF Full, c
      <4>2. Has(c, y, t) => y \in Nat
        BY DEF Has
      <4>3. y \in Nat => (InRange(y, n, -1) <=> ~(y < n))
        BY DEF InRange
      <4>. QED BY <1>3, <1>4, <4>1, <4>2, <4>3
    <3>. QED BY <1>5, <2>2, <3>1, <3>2 DEF Full
  <2>3. CASE x # s
    BY <1>4, <1>5, <2>1, <2>3 DEF Full
  <2>. QED BY <2>2, <2>3
<1>10. Linked(k, g, b)
  BY <1>4, <1>7, <1>8, <1>9 DEF Linked
<1>. QED BY <1>3, <1>5, <1>6, <1>10 DEF b, e, c

\* discard_n_kv_and_cache_tokens: the slot and the cache lose the same tokens and move
\* the same ones down.
LEMMA DiscardLinked ==
    ASSUME NEW p \in PassState, NEW s \in Slots, conf \in Confs, Linked(p.kv, p.slot, p.batch), p.batch = <<>>,
           NEW keep \in Nat, NEW n \in Nat, n >= 1, keep + n < Len(p.slot[s].cache),
           NEW q, q = Discard(p, s, keep, n)
    PROVE  /\ Linked(q.kv, q.slot, q.batch) /\ q.batch = p.batch
           /\ Len(q.slot[s].cache) \in Nat /\ Len(q.slot[s].cache) < Len(p.slot[s].cache)
           /\ q.slot[s].st = p.slot[s].st /\ q.slot[s].prompt = p.slot[s].prompt /\ q.slot[s].n = p.slot[s].n
           /\ \A t \in Slots \ {s} : q.slot[t] = p.slot[t]
<1> DEFINE c == p.slot[s].cache
           l == Len(c)
           k == SeqRm(p.kv, s, keep, keep + n)
           j == SeqAdd(k, s, keep + n, l, -n)
           e == SubSeq(c, 1, keep) \o SubSeq(c, keep + n + 1, l)
           g == [p.slot EXCEPT ![s].cache = e]
<1>0. /\ p.kv \in GoodKv(RowToks) /\ p.slot \in [Slots -> SlotRec] /\ s \in Int /\ NoTok \in RowToks
  BY ConfFacts, RowTokFacts DEF PassState, Slots
<1>1. c \in Seq(Toks) /\ l \in Nat /\ keep + n < l
  <2>1. p.slot[s] \in SlotRec
    BY <1>0
  <2>. QED BY <2>1 DEF SlotRec
<1>2. q = [p EXCEPT !.kv = j, !.slot = g]
  <2>1. ~(n <= 0 \/ keep + n >= l)
    BY <1>1
  <2>. QED BY <2>1 DEF Discard
<1>3. /\ e \in Seq(Toks) /\ Len(e) = l - n
      /\ \A t : \A y \in Int : Has(e, y, t) <=> (y < keep /\ Has(c, y, t)) \/ (y >= keep /\ Has(c, y + n, t))
  BY <1>1, HasCut
<1> HIDE DEF c, l, e
<1>4. /\ Linked(p.kv, p.slot, <<>>) /\ Apart(p.kv, Slots)
      /\ \A x, y, t : ~Brings(<<>>, x, y, t)
  BY DEF Linked, Brings
<1>5. \A x \in Slots : \A y, t : Holds(p.kv, x, y, t) <=> Has(p.slot[x].cache, y, t)
  BY <1>4 DEF Linked, Full
<1>6. /\ k \in GoodKv(RowToks) /\ Apart(k, Slots)
      /\ \A x, y, t : Holds(k, x, y, t) <=> Holds(p.kv, x, y, t) /\ ~(x = s /\ InRange(y, keep, keep + n))
  BY <1>0, <1>4, SeqRmGood, SeqRmHolds
<1> HIDE DEF k
<1>7. ASSUME NEW y, NEW t, Holds(k, s, y, t) PROVE y \in Nat /\ y < l /\ Has(c, y, t) /\ ~InRange(y, keep, keep + n)
  <2>1. Has(c, y, t) /\ ~InRange(y, keep, keep + n)
    BY <1>5, <1>6, <1>7 DEF c
  <2>. QED BY <1>1, <2>1 DEF Has, l
<1>8. ASSUME NEW y \in Int, NEW a \in Nat, NEW b \in Nat PROVE InRange(y, a, b) <=> a <= y /\ y < b
  BY DEF InRange
<1>9. /\ j \in GoodKv(RowToks) /\ Apart(j, Slots)
      /\ \A x, t : \A y \in Int : Holds(j, x, y, t) <=>
            IF x = s /\ InRange(y - (-n), keep + n, l) THEN Holds(k, s, y - (-n), t)
            ELSE Holds(k, x, y, t) /\ ~(x = s /\ InRange(y, keep + n, l))
  <2>1. /\ keep + n \in Nat /\ l \in Nat /\ keep + n # l /\ -n \in Int /\ -n # 0 /\ keep + n + (-n) >= 0
    BY <1>1, SMTT(60)
  <2>2. ASSUME NEW y, NEW t, Holds(k, s, y, t), ~InRange(y, keep + n, l)
        PROVE  ~InRange(y - (-n), keep + n, l)
    <3>1. y \in Nat /\ y < l /\ ~InRange(y, keep, keep + n)
      BY <1>7, <2>2
    <3>2. y - (-n) \in Int /\ y - (-n) = y + n
      BY <3>1
    <3>3. ~(keep <= y /\ y < keep + n) /\ ~(keep + n <= y /\ y < l)
      BY <1>8, <2>1, <2>2, <3>1
    <3>4. ~(keep + n <= y + n /\ y + n < l)
      BY <1>1, <3>1, <3>3
    <3>. QED BY <1>8, <2>1, <3>2, <3>4
  <2>3. j \in GoodKv(RowToks)
    BY <1>0, <1>6, <2>1, SeqAddGood
  <2>4. /\ Apart(j, Slots)
        /\ \A x, t : \A y \in Int : Holds(j, x, y, t) <=>
              IF x = s /\ InRange(y - (-n), keep + n, l) THEN Holds(k, s, y - (-n), t)
              ELSE Holds(k, x, y, t) /\ ~(x = s /\ InRange(y, keep + n, l))
    BY <1>6, <2>1, <2>2, SeqAddHolds, SMTT(60)
  <2>. QED BY <2>3, <2>4
<1> HIDE DEF j
<1>10. /\ g[s].cache = e /\ g[s].st = p.slot[s].st /\ g[s].prompt = p.slot[s].prompt /\ g[s].n = p.slot[s].n
       /\ \A t \in Slots \ {s} : g[t] = p.slot[t]
  <2>1. g = [p.slot EXCEPT ![s].cache = e]
    OBVIOUS
  <2> HIDE DEF g
  <2>. QED BY <1>0, <1>3, <2>1, CacheRest
<1> HIDE DEF g
<1>11. q.slot = g /\ q.batch = p.batch /\ q.kv = j
  BY <1>2 DEF PassState
<1>12. ASSUME NEW x \in Slots, NEW y, NEW t PROVE Holds(j, x, y, t) <=> Has(g[x].cache, y, t)
  <2>1. /\ Holds(j, x, y, t) => y \in Int
        /\ Has(g[x].cache, y, t) => y \in Int
    <3>1. Holds(j, x, y, t) => y \in Nat
      BY <1>9, HoldsTyped
    <3>. QED BY <3>1 DEF Has
  <2>2. CASE y \in Int /\ x # s
    <3>1. Holds(j, x, y, t) <=> Holds(p.kv, x, y, t)
      BY <1>6, <1>9, <2>2
    <3>. QED BY <1>5, <1>10, <2>2, <3>1
  <2>3. CASE y \in Int /\ x = s
    <3>0. y - (-n) = y + n /\ y + n \in Int
      BY <2>3
    <3>1. Holds(j, s, y, t) <=> IF InRange(y + n, keep + n, l) THEN Holds(k, s, y + n, t)
                                ELSE Holds(k, s, y, t) /\ ~InRange(y, keep + n, l)
      BY <1>9, <2>3, <3>0
    <3>2. /\ InRange(y + n, keep + n, l) <=> keep <= y /\ y + n < l
          /\ InRange(y, keep + n, l) <=> keep + n <= y /\ y < l
          /\ InRange(y, keep, keep + n) <=> keep <= y /\ y < keep + n
          /\ InRange(y + n, keep, keep + n) <=> keep <= y + n /\ y + n < keep + n
      <4>1. keep + n \in Nat
        OBVIOUS
      <4>. QED BY <1>1, <1>8, <2>3, <3>0, <4>1
    <3>3. /\ Holds(k, s, y, t) <=> Has(c, y, t) /\ ~(keep <= y /\ y < keep + n)
          /\ Holds(k, s, y + n, t) <=> Has(c, y + n, t) /\ ~(keep <= y + n /\ y + n < keep + n)
      BY <1>5, <1>6, <3>2 DEF c
    <3>4. /\ Has(c, y, t) => 0 <= y /\ y < l
          /\ Has(c, y + n, t) => 0 <= y + n /\ y + n < l
      BY <1>1, <2>3, <3>0 DEF Has, l
    <3>5. Holds(j, s, y, t) <=> (y < keep /\ Has(c, y, t)) \/ (y >= keep /\ Has(c, y + n, t))
      <4>1. CASE keep <= y /\ y + n < l
        <5>1. ~(y + n < keep + n) /\ ~(y < keep)
          BY <2>3, <4>1
        <5>. QED BY <3>1, <3>2, <3>3, <4>1, <5>1
      <4>2. CASE ~(keep <= y /\ y + n < l)
        <5>1. Holds(j, s, y, t) <=> Has(c, y, t) /\ ~(keep <= y /\ y < keep + n) /\ ~(keep + n <= y /\ y < l)
          BY <3>1, <3>2, <3>3, <4>2
        <5>2. y >= keep => ~Has(c, y + n, t)
          BY <2>3, <3>4, <4>2
        <5>3. ~(keep <= y /\ y < keep + n) /\ ~(keep + n <= y /\ y < l) /\ y < l <=> y < keep
          BY <1>1, <2>3
        <5>. QED BY <3>4, <5>1, <5>2, <5>3
      <4>. QED BY <4>1, <4>2
    <3>6. Has(e, y, t) <=> (y < keep /\ Has(c, y, t)) \/ (y >= keep /\ Has(c, y + n, t))
      BY <1>3, <2>3
    <3>. QED BY <1>10, <2>3, <3>5, <3>6
  <2>. QED BY <2>1, <2>2, <2>3
<1>13. Linked(j, g, <<>>)
  BY <1>4, <1>9, <1>12 DEF Linked, Ahead, Full
<1>14. Len(e) \in Nat /\ Len(e) < l
  BY <1>1, <1>3
<1>. QED BY <1>10, <1>11, <1>13, <1>14 DEF l, c

\* What the steps of context_shift carry along the slots.
LEMMA ContextShiftWithin ==
    ASSUME conf \in Confs, NEW p, NEW X, p \in X[0],
           \A i \in 1..conf.n_slots : \A q \in X[i - 1] : ShiftSlot(q, i - 1) \in X[i]
    PROVE  ContextShift(p) \in X[conf.n_slots]
<1> DEFINE n == conf.n_slots
           Step(q, i) == ShiftSlot(q, i - 1)
           Is(f) == f = [i \in 0..n |-> IF i = 0 THEN p ELSE Step(f[i - 1], i)]
           Shifted == CHOOSE f : Is(f)
           Y == UNION {X[i] : i \in 0..n}
           G == [x \in Y \X (1..n) |-> Step(x[1], x[2])]
<1>0. n \in Nat
  BY ConfFacts
<1>1. ContextShift(p) = Shifted[n]
  BY DEF ContextShift
<1>2. ASSUME NEW i \in 1..n, NEW q \in X[i - 1] PROVE Step(q, i) \in X[i]
  OBVIOUS
<1> HIDE DEF Step, n
<1>3. ASSUME NEW i \in 1..n, NEW q \in X[i - 1] PROVE G[<<q, i>>] = Step(q, i)
  <2>1. i - 1 \in 0..n
    BY <1>0
  <2>2. q \in Y
    BY <2>1
  <2> HIDE DEF Y
  <2>. QED BY <2>2
<1> HIDE DEF Y, G
<1>4. PICK f : /\ f = [i \in 0..n |-> f[i]] /\ Solution(f, p, G, n) /\ \A i \in 0..n : f[i] \in X[i]
  <2>1. \A i \in 1..n : \A x \in X[i - 1] : G[<<x, i>>] \in X[i]
    BY <1>2, <1>3
  <2> HIDE DEF Is, Shifted
  <2>. QED BY <1>0, <2>1, FamilyRecursion
<1>5. ASSUME NEW i \in 0..n PROVE f[i] = IF i = 0 THEN p ELSE Step(f[i - 1], i)
  <2>1. CASE i = 0
    BY <1>4, <2>1 DEF Solution
  <2>2. CASE i # 0
    <3>1. i \in 1..n /\ i - 1 \in 0..n
      BY <1>0, <2>2
    <3>2. f[i] = G[<<f[i - 1], i>>] /\ f[i - 1] \in X[i - 1]
      BY <1>4, <3>1 DEF Solution
    <3>. QED BY <1>3, <2>2, <3>1, <3>2
  <2>. QED BY <2>1, <2>2
<1>6. Is(Shifted)
  <2>1. Is(f)
    BY <1>4, <1>5
  <2> HIDE DEF Is
  <2>. QED BY <2>1
<1> HIDE DEF Shifted
<1>7. ASSUME NEW i \in 0..n PROVE Shifted[i] = IF i = 0 THEN p ELSE Step(Shifted[i - 1], i)
  BY <1>6
<1> DEFINE S == {i \in 0..n : Shifted[i] \in X[i]}
<1>8. 0 \in S
  BY <1>0, <1>7
<1>9. ASSUME NEW i \in 1..n, i - 1 \in S PROVE i \in S
  <2>1. i \in 0..n /\ i # 0
    BY <1>0
  <2>2. Shifted[i] = Step(Shifted[i - 1], i)
    BY <1>7, <2>1
  <2>. QED BY <1>2, <1>9, <2>1, <2>2
<1> HIDE DEF S, Is
<1>10. n \in S
  <2>1. 0..n \subseteq S
    BY <1>0, <1>8, <1>9, UpTo
  <2>. QED BY <1>0, <2>1
<1>. QED BY <1>1, <1>10 DEF S, n

\* The same for add_sampled_tokens.
LEMMA AddSampledTokensWithin ==
    ASSUME conf \in Confs, NEW p, NEW sampled, NEW X, p \in X[0],
           \A i \in 1..conf.n_slots : \A q \in X[i - 1] : AddSampled(q, i - 1, sampled) \in X[i]
    PROVE  AddSampledTokens(p, sampled) \in X[conf.n_slots]
<1> DEFINE n == conf.n_slots
           Step(q, i) == AddSampled(q, i - 1, sampled)
           Is(f) == f = [i \in 0..n |-> IF i = 0 THEN p ELSE Step(f[i - 1], i)]
           Added == CHOOSE f : Is(f)
           Y == UNION {X[i] : i \in 0..n}
           G == [x \in Y \X (1..n) |-> Step(x[1], x[2])]
<1>0. n \in Nat
  BY ConfFacts
<1>1. AddSampledTokens(p, sampled) = Added[n]
  BY DEF AddSampledTokens
<1>2. ASSUME NEW i \in 1..n, NEW q \in X[i - 1] PROVE Step(q, i) \in X[i]
  OBVIOUS
<1> HIDE DEF Step, n
<1>3. ASSUME NEW i \in 1..n, NEW q \in X[i - 1] PROVE G[<<q, i>>] = Step(q, i)
  <2>1. i - 1 \in 0..n
    BY <1>0
  <2>2. q \in Y
    BY <2>1
  <2> HIDE DEF Y
  <2>. QED BY <2>2
<1> HIDE DEF Y, G
<1>4. PICK f : /\ f = [i \in 0..n |-> f[i]] /\ Solution(f, p, G, n) /\ \A i \in 0..n : f[i] \in X[i]
  <2>1. \A i \in 1..n : \A x \in X[i - 1] : G[<<x, i>>] \in X[i]
    BY <1>2, <1>3
  <2> HIDE DEF Is, Added
  <2>. QED BY <1>0, <2>1, FamilyRecursion
<1>5. ASSUME NEW i \in 0..n PROVE f[i] = IF i = 0 THEN p ELSE Step(f[i - 1], i)
  <2>1. CASE i = 0
    BY <1>4, <2>1 DEF Solution
  <2>2. CASE i # 0
    <3>1. i \in 1..n /\ i - 1 \in 0..n
      BY <1>0, <2>2
    <3>2. f[i] = G[<<f[i - 1], i>>] /\ f[i - 1] \in X[i - 1]
      BY <1>4, <3>1 DEF Solution
    <3>. QED BY <1>3, <2>2, <3>1, <3>2
  <2>. QED BY <2>1, <2>2
<1>6. Is(Added)
  <2>1. Is(f)
    BY <1>4, <1>5
  <2> HIDE DEF Is
  <2>. QED BY <2>1
<1> HIDE DEF Added
<1>7. ASSUME NEW i \in 0..n PROVE Added[i] = IF i = 0 THEN p ELSE Step(Added[i - 1], i)
  BY <1>6
<1> DEFINE S == {i \in 0..n : Added[i] \in X[i]}
<1>8. 0 \in S
  BY <1>0, <1>7
<1>9. ASSUME NEW i \in 1..n, i - 1 \in S PROVE i \in S
  <2>1. i \in 0..n /\ i # 0
    BY <1>0
  <2>2. Added[i] = Step(Added[i - 1], i)
    BY <1>7, <2>1
  <2>. QED BY <1>2, <1>9, <2>1, <2>2
<1> HIDE DEF S, Is
<1>10. n \in S
  <2>1. 0..n \subseteq S
    BY <1>0, <1>8, <1>9, UpTo
  <2>. QED BY <1>0, <2>1
<1>. QED BY <1>1, <1>10 DEF S, n

\* The same for batch_pending_prompt.
LEMMA BatchPendingPromptWithin ==
    ASSUME conf \in Confs, NEW p, NEW X, p \in X[0],
           \A i \in 1..conf.n_slots : \A q \in X[i - 1] : PendingPrompt(q, i - 1) \in X[i]
    PROVE  BatchPendingPrompt(p) \in X[conf.n_slots]
<1> DEFINE n == conf.n_slots
           Step(q, i) == PendingPrompt(q, i - 1)
           Is(f) == f = [i \in 0..n |-> IF i = 0 THEN p ELSE Step(f[i - 1], i)]
           Filled == CHOOSE f : Is(f)
           Y == UNION {X[i] : i \in 0..n}
           G == [x \in Y \X (1..n) |-> Step(x[1], x[2])]
<1>0. n \in Nat
  BY ConfFacts
<1>1. BatchPendingPrompt(p) = Filled[n]
  BY DEF BatchPendingPrompt
<1>2. ASSUME NEW i \in 1..n, NEW q \in X[i - 1] PROVE Step(q, i) \in X[i]
  OBVIOUS
<1> HIDE DEF Step, n
<1>3. ASSUME NEW i \in 1..n, NEW q \in X[i - 1] PROVE G[<<q, i>>] = Step(q, i)
  <2>1. i - 1 \in 0..n
    BY <1>0
  <2>2. q \in Y
    BY <2>1
  <2> HIDE DEF Y
  <2>. QED BY <2>2
<1> HIDE DEF Y, G
<1>4. PICK f : /\ f = [i \in 0..n |-> f[i]] /\ Solution(f, p, G, n) /\ \A i \in 0..n : f[i] \in X[i]
  <2>1. \A i \in 1..n : \A x \in X[i - 1] : G[<<x, i>>] \in X[i]
    BY <1>2, <1>3
  <2> HIDE DEF Is, Filled
  <2>. QED BY <1>0, <2>1, FamilyRecursion
<1>5. ASSUME NEW i \in 0..n PROVE f[i] = IF i = 0 THEN p ELSE Step(f[i - 1], i)
  <2>1. CASE i = 0
    BY <1>4, <2>1 DEF Solution
  <2>2. CASE i # 0
    <3>1. i \in 1..n /\ i - 1 \in 0..n
      BY <1>0, <2>2
    <3>2. f[i] = G[<<f[i - 1], i>>] /\ f[i - 1] \in X[i - 1]
      BY <1>4, <3>1 DEF Solution
    <3>. QED BY <1>3, <2>2, <3>1, <3>2
  <2>. QED BY <2>1, <2>2
<1>6. Is(Filled)
  <2>1. Is(f)
    BY <1>4, <1>5
  <2> HIDE DEF Is
  <2>. QED BY <2>1
<1> HIDE DEF Filled
<1>7. ASSUME NEW i \in 0..n PROVE Filled[i] = IF i = 0 THEN p ELSE Step(Filled[i - 1], i)
  BY <1>6
<1> DEFINE S == {i \in 0..n : Filled[i] \in X[i]}
<1>8. 0 \in S
  BY <1>0, <1>7
<1>9. ASSUME NEW i \in 1..n, i - 1 \in S PROVE i \in S
  <2>1. i \in 0..n /\ i # 0
    BY <1>0
  <2>2. Filled[i] = Step(Filled[i - 1], i)
    BY <1>7, <2>1
  <2>. QED BY <1>2, <1>9, <2>1, <2>2
<1> HIDE DEF S, Is
<1>10. n \in S
  <2>1. 0..n \subseteq S
    BY <1>0, <1>8, <1>9, UpTo
  <2>. QED BY <1>0, <2>1
<1>. QED BY <1>1, <1>10 DEF S, n

\* How much of the slot's tokens the next visit of batch_pending_prompt keeps.
KeptTokens(sl) == IF sl.n = -1 THEN ReusedPrefix(sl) ELSE Len(sl.cache)

\* Where in the prompt it goes on.
ResumeAt(sl) == IF sl.n = -1 THEN KeptTokens(sl) ELSE sl.n

\* How many tokens it adds.
TokensToAdd(p, s) == Min({Len(p.slot[s].prompt) - ResumeAt(p.slot[s]), NBatch - Len(p.batch)})

\* The three are within the prompt, the tokens of the slot and the batch.
LEMMA ToAddFacts ==
    ASSUME NEW p \in PassState, NEW s \in Slots, conf \in Confs, p.slot[s].st = "load", ~(Len(p.batch) >= NBatch)
    PROVE  LET sl == p.slot[s]
           IN /\ sl \in SlotRec /\ sl.cache \in Seq(Toks) /\ sl.prompt \in Seq(Toks)
              /\ KeptTokens(sl) \in Nat /\ KeptTokens(sl) <= Len(sl.cache)
              /\ ResumeAt(sl) \in Nat /\ ResumeAt(sl) <= Len(sl.prompt)
              /\ TokensToAdd(p, s) \in Nat /\ ResumeAt(sl) + TokensToAdd(p, s) <= Len(sl.prompt)
<1> DEFINE sl == p.slot[s]
<1>2. p.slot \in [Slots -> SlotRec] /\ p.batch \in Seq(KvTok(RowToks)) /\ NBatch \in Nat
  BY SlotKvAssumption DEF PassState
<1>3. sl \in SlotRec /\ sl.cache \in Seq(Toks) /\ sl.prompt \in Seq(Toks) /\ sl.n \in -1..Len(sl.prompt)
  <2>1. sl \in SlotRec
    BY <1>2
  <2>. QED BY <2>1 DEF SlotRec
<1>4. TokensToAdd(p, s) = Min({Len(sl.prompt) - ResumeAt(sl), NBatch - Len(p.batch)})
  BY DEF TokensToAdd
<1> HIDE DEF sl
<1>5. KeptTokens(sl) \in Nat /\ KeptTokens(sl) <= Len(sl.cache) /\ ResumeAt(sl) \in Nat /\ ResumeAt(sl) <= Len(sl.prompt)
  <2>1. /\ ReusedPrefix(sl) \in Nat
        /\ ReusedPrefix(sl) <= Len(sl.cache) /\ ReusedPrefix(sl) <= Len(sl.prompt)
    BY <1>3, ReusedFacts
  <2>. QED BY <1>3, <2>1 DEF KeptTokens, ResumeAt
<1>6. TokensToAdd(p, s) \in Nat /\ ResumeAt(sl) + TokensToAdd(p, s) <= Len(sl.prompt)
  <2>1. Len(sl.prompt) - ResumeAt(sl) \in Nat /\ NBatch - Len(p.batch) \in Nat /\ Len(sl.prompt) \in Nat
    <3>1. Len(p.batch) \in Nat /\ Len(sl.prompt) \in Nat
      BY <1>2, <1>3
    <3>. QED BY <1>2, <1>5, <3>1
  <2>2. Min({Len(sl.prompt) - ResumeAt(sl), NBatch - Len(p.batch)}) =
           IF Len(sl.prompt) - ResumeAt(sl) <= NBatch - Len(p.batch) THEN Len(sl.prompt) - ResumeAt(sl)
           ELSE NBatch - Len(p.batch)
    BY <2>1, MinPair
  <2>. QED BY <1>4, <1>5, <2>1, <2>2
<1>. QED BY <1>3, <1>5, <1>6 DEF sl

\* batch_pending_prompt of a slot: the loop over the tokens it adds.
LEMMA PendingWithin ==
    ASSUME NEW p \in PassState, NEW s \in Slots, conf \in Confs, p.slot[s].st = "load", ~(Len(p.batch) >= NBatch),
           NEW X, Truncated(p, s, KeptTokens(p.slot[s])) \in X[0],
           \A k \in 1..TokensToAdd(p, s) : \A q \in X[k - 1] :
              AddToken(q, s, p.slot[s].prompt[ResumeAt(p.slot[s]) + k], conf.sys + Len(q.slot[s].cache)) \in X[k]
    PROVE  \E z \in X[TokensToAdd(p, s)] : \E done \in BOOLEAN :
             PendingPrompt(p, s) = Left(z, s, LeftWith(z.slot[s], p.slot[s].prompt, done,
                                                       ResumeAt(p.slot[s]) + TokensToAdd(p, s)))
<1> DEFINE sl == p.slot[s]
           n_past == IF sl.n = -1 THEN ReusedPrefix(sl) ELSE Len(sl.cache)
           from == IF sl.n = -1 THEN n_past ELSE sl.n
           more == Min({Len(sl.prompt) - from, NBatch - Len(p.batch)})
           init == [p EXCEPT !.kv = SeqRm(@, s, conf.sys + n_past, -1),
                             !.slot[s].cache = SubSeq(@, 1, n_past)]
           Step(q, k) == AddToken(q, s, sl.prompt[from + k], conf.sys + Len(q.slot[s].cache))
           done == from + more = Len(sl.prompt)
           Is(f) == f = [k \in 0..more |-> IF k = 0 THEN init ELSE Step(f[k - 1], k)]
           Add == CHOOSE f : Is(f)
           z == Add[more]
           last == [z EXCEPT !.slot[s] = [st |-> IF done THEN "gen" ELSE "load", cache |-> @.cache,
                                          prompt |-> IF done THEN <<>> ELSE sl.prompt,
                                          n |-> IF done THEN 0 ELSE from + more]]
           Y == UNION {X[k] : k \in 0..more}
           G == [x \in Y \X (1..more) |-> Step(x[1], x[2])]
<1>1. PendingPrompt(p, s) = IF sl.st # "load" \/ Len(p.batch) >= NBatch THEN p ELSE last
  BY DEF PendingPrompt
<1> HIDE DEF last, sl
<1>a. PendingPrompt(p, s) = last
  <2>1. sl.st = "load"
    BY DEF sl
  <2>. QED BY <1>1, <2>1
<1>b. n_past = KeptTokens(sl) /\ from = ResumeAt(sl)
  BY DEF KeptTokens, ResumeAt
<1>c. more = TokensToAdd(p, s)
  BY <1>b DEF TokensToAdd, sl
<1>d. init = Truncated(p, s, n_past)
  BY DEF Truncated
<1>0. more \in Nat
  BY <1>c, ToAddFacts
<1> HIDE DEF n_past, from, more, init
<1>2. ASSUME NEW k \in 1..more, NEW q \in X[k - 1] PROVE Step(q, k) \in X[k]
  BY <1>b, <1>c DEF sl
<1>3. init \in X[0]
  BY <1>b, <1>d DEF sl
<1> HIDE DEF Step
<1>4. ASSUME NEW k \in 1..more, NEW q \in X[k - 1] PROVE G[<<q, k>>] = Step(q, k)
  <2>1. k - 1 \in 0..more
    BY <1>0
  <2>2. q \in Y
    BY <2>1
  <2> HIDE DEF Y
  <2>. QED BY <2>2
<1> HIDE DEF Y, G
<1>5. PICK f : /\ f = [k \in 0..more |-> f[k]] /\ Solution(f, init, G, more) /\ \A k \in 0..more : f[k] \in X[k]
  <2>1. \A k \in 1..more : \A x \in X[k - 1] : G[<<x, k>>] \in X[k]
    BY <1>2, <1>4
  <2> HIDE DEF Is, Add, z
  <2>. QED BY <1>0, <1>3, <2>1, FamilyRecursion
<1>6. ASSUME NEW k \in 0..more PROVE f[k] = IF k = 0 THEN init ELSE Step(f[k - 1], k)
  <2>1. CASE k = 0
    BY <1>5, <2>1 DEF Solution
  <2>2. CASE k # 0
    <3>1. k \in 1..more /\ k - 1 \in 0..more
      BY <1>0, <2>2
    <3>2. f[k] = G[<<f[k - 1], k>>] /\ f[k - 1] \in X[k - 1]
      BY <1>5, <3>1 DEF Solution
    <3>. QED BY <1>4, <2>2, <3>1, <3>2
  <2>. QED BY <2>1, <2>2
<1>7. Is(Add)
  <2>1. Is(f)
    BY <1>5, <1>6
  <2> HIDE DEF Is
  <2>. QED BY <2>1
<1> HIDE DEF Add
<1>8. ASSUME NEW k \in 0..more PROVE Add[k] = IF k = 0 THEN init ELSE Step(Add[k - 1], k)
  BY <1>7
<1> DEFINE S == {k \in 0..more : Add[k] \in X[k]}
<1>9. 0 \in S
  BY <1>0, <1>3, <1>8
<1>10. ASSUME NEW k \in 1..more, k - 1 \in S PROVE k \in S
  <2>1. k \in 0..more /\ k # 0
    BY <1>0
  <2>2. Add[k] = Step(Add[k - 1], k)
    BY <1>8, <2>1
  <2>. QED BY <1>2, <1>10, <2>1, <2>2
<1> HIDE DEF S, Is
<1>11. z \in X[more]
  <2>1. 0..more \subseteq S
    BY <1>0, <1>9, <1>10, UpTo
  <2>. QED BY <1>0, <2>1 DEF S
<1> HIDE DEF z
<1>12. last = Left(z, s, LeftWith(z.slot[s], sl.prompt, done, from + more))
  BY Zenon DEF last, Left, LeftWith
<1>13. \E d \in BOOLEAN : PendingPrompt(p, s) = Left(z, s, LeftWith(z.slot[s], sl.prompt, d, from + more))
  <2>1. done \in BOOLEAN
    OBVIOUS
  <2> HIDE DEF done
  <2>. QED BY <1>a, <1>12, <2>1, Zenon
<1>14. \E d \in BOOLEAN : PendingPrompt(p, s) = Left(z, s, LeftWith(z.slot[s], sl.prompt, d, ResumeAt(sl) + TokensToAdd(p, s)))
  BY <1>b, <1>c, <1>13
<1>. QED BY <1>c, <1>11, <1>14 DEF sl

\* A slot that loads its prompt has as many tokens as it has loaded, unless it has not
\* been visited yet.
Loading(sl) == sl.st = "load" => sl.prompt \in conf.prompts /\ (sl.n = -1 \/ sl.n = Len(sl.cache))

\* Every slot leaves the last cell of its context free.
InContext(f) == \A s \in Slots : Len(f[s].cache) <= NCtx - 1 /\ Loading(f[s])

\* What each part of a pass keeps.
Sound(p) == p \in PassState /\ Linked(p.kv, p.slot, p.batch) /\ InContext(p.slot)

\* A generating slot has room for a token.
Spare(sl) == sl.st = "gen" => Len(sl.cache) <= NCtx - 2

\* context_shift of one slot: a generating slot has room for a token afterwards.
LEMMA ShiftSlotSound ==
    ASSUME conf \in Confs, conf.sys = 0, NEW p, Sound(p), p.batch = <<>>, NEW s \in Slots,
           NEW q, q = ShiftSlot(p, s)
    PROVE  /\ Sound(q) /\ q.batch = <<>> /\ SameStates(q.slot, p.slot) /\ Spare(q.slot[s])
           /\ \A t \in Slots \ {s} : q.slot[t] = p.slot[t]
<1> DEFINE c == p.slot[s].cache
           l == Len(c)
           m == conf.sys + l
           d == conf.sys + l - NKeep
           n == d \div 2
<1>0. p \in PassState /\ Linked(p.kv, p.slot, p.batch) /\ InContext(p.slot)
  BY DEF Sound
<1>1. c \in Seq(Toks) /\ l \in Nat /\ l <= NCtx - 1
  <2>1. p.slot[s] \in SlotRec
    BY <1>0 DEF PassState
  <2>2. c \in Seq(Toks)
    BY <2>1 DEF SlotRec
  <2>. QED BY <1>0, <2>2 DEF InContext
<1>2. NCtx \in Nat /\ NCtx > 3 /\ NKeep \in Nat /\ NKeep <= NCtx - 4
  BY SlotKvAssumption
<1>3. q = IF p.slot[s].st # "gen" \/ m < NCtx - 1 \/ n <= 0 THEN p ELSE Discard(p, s, NKeep, n)
  BY DEF ShiftSlot
<1> HIDE DEF c
<1>4. m = l /\ d = l - NKeep
  BY <1>1, <1>2
<1> HIDE DEF m, d
<1>5. ASSUME l = NCtx - 1 PROVE n \in Nat /\ n >= 1 /\ NKeep + n < l
  BY <1>1, <1>2, <1>4, <1>5
<1>6. q = IF p.slot[s].st # "gen" \/ l < NCtx - 1 THEN p ELSE Discard(p, s, NKeep, n)
  <2>1. ~(l < NCtx - 1) => ~(n <= 0)
    BY <1>1, <1>2, <1>5
  <2> HIDE DEF l, n
  <2>. QED BY <1>3, <1>4, <2>1
<1>7. CASE p.slot[s].st # "gen" \/ l < NCtx - 1
  <2>1. q = p
    BY <1>6, <1>7
  <2>2. Spare(p.slot[s])
    BY <1>1, <1>2, <1>7 DEF Spare, c
  <2>. QED BY <2>1, <2>2 DEF SameStates
<1>8. CASE ~(p.slot[s].st # "gen" \/ l < NCtx - 1)
  <2>1. l = NCtx - 1
    BY <1>1, <1>2, <1>8
  <2>2. n \in Nat /\ n >= 1 /\ NKeep + n < l /\ q = Discard(p, s, NKeep, n)
    BY <1>5, <1>6, <1>8, <2>1
  <2> HIDE DEF n
  <2>3. /\ q \in PassState /\ SameStates(q.slot, p.slot) /\ q.batch = p.batch
    <3>1. /\ Discard(p, s, NKeep, n) \in PassState /\ SameStates(Discard(p, s, NKeep, n).slot, p.slot)
          /\ Discard(p, s, NKeep, n).batch = p.batch
      <4>1. n \in Int
        BY <2>2
      <4>. QED BY <1>0, <1>2, <4>1, DiscardGood
    <3>. QED BY <2>2, <3>1
  <2>4. /\ Linked(q.kv, q.slot, q.batch) /\ Len(q.slot[s].cache) \in Nat /\ Len(q.slot[s].cache) < l
        /\ q.slot[s].st = p.slot[s].st
        /\ \A t \in Slots \ {s} : q.slot[t] = p.slot[t]
    <3>1. NKeep + n < Len(p.slot[s].cache)
      BY <2>2 DEF c
    <3>2. /\ Linked(q.kv, q.slot, q.batch) /\ Len(q.slot[s].cache) \in Nat
          /\ Len(q.slot[s].cache) < Len(p.slot[s].cache)
          /\ q.slot[s].st = p.slot[s].st
          /\ \A t \in Slots \ {s} : q.slot[t] = p.slot[t]
      BY <1>0, <1>2, <2>2, <3>1, DiscardLinked
    <3>. QED BY <3>2 DEF c
  <2>5. Len(q.slot[s].cache) <= NCtx - 2
    BY <1>1, <1>2, <2>1, <2>2, <2>4, SMTT(60)
  <2>6. p.slot[s].st = "gen"
    BY <1>8
  <2>7. InContext(q.slot)
    <3>1. ASSUME NEW t \in Slots PROVE Len(q.slot[t].cache) <= NCtx - 1 /\ Loading(q.slot[t])
      <4>1. CASE t = s
        <5>1. Len(q.slot[s].cache) <= NCtx - 1
          BY <1>1, <1>2, <2>1, <2>2, <2>4
        <5>. QED BY <2>4, <2>6, <4>1, <5>1 DEF Loading
      <4>2. CASE t # s
        BY <1>0, <2>4, <4>2 DEF InContext
      <4>. QED BY <4>1, <4>2
    <3>. QED BY <3>1 DEF InContext
  <2>. QED BY <2>3, <2>4, <2>5, <2>7 DEF Sound, Spare
<1>. QED BY <1>7, <1>8

\* After context_shift every generating slot has room for a token.
LEMMA ContextShiftSound ==
    ASSUME conf \in Confs, conf.sys = 0, NEW p, Sound(p), p.batch = <<>>
    PROVE  LET q == ContextShift(p)
           IN Sound(q) /\ q.batch = <<>> /\ SameStates(q.slot, p.slot) /\ \A s \in Slots : Spare(q.slot[s])
<1> DEFINE N == conf.n_slots
           Part(i) == {q \in PassState : /\ Sound(q) /\ q.batch = <<>> /\ SameStates(q.slot, p.slot)
                                         /\ \A t \in Slots : t < i => Spare(q.slot[t])}
           X == [i \in 0..N |-> Part(i)]
<1>0. N \in Nat /\ Slots = 0..(N - 1)
  BY ConfFacts DEF Slots
<1>1. p \in X[0]
  <2>1. p \in PassState /\ SameStates(p.slot, p.slot) /\ \A t \in Slots : ~(t < 0)
    BY <1>0 DEF Sound, SameStates
  <2>2. p \in Part(0)
    BY <2>1
  <2>. QED BY <1>0, <2>2
<1>2. ASSUME NEW i \in 1..N, NEW q \in X[i - 1] PROVE ShiftSlot(q, i - 1) \in X[i]
  <2> DEFINE y == ShiftSlot(q, i - 1)
  <2>1. i - 1 \in Slots /\ i - 1 \in 0..N /\ i \in 0..N
    BY <1>0
  <2>2. /\ q \in PassState /\ Sound(q) /\ q.batch = <<>> /\ SameStates(q.slot, p.slot)
        /\ \A t \in Slots : t < i - 1 => Spare(q.slot[t])
    BY <2>1
  <2> HIDE DEF X
  <2>3. /\ Sound(y) /\ y.batch = <<>> /\ SameStates(y.slot, q.slot) /\ Spare(y.slot[i - 1])
        /\ \A t \in Slots \ {i - 1} : y.slot[t] = q.slot[t]
    BY <2>1, <2>2, ShiftSlotSound
  <2> HIDE DEF y
  <2>4. y \in PassState /\ SameStates(y.slot, p.slot)
    BY <2>2, <2>3 DEF Sound, SameStates
  <2>5. ASSUME NEW t \in Slots, t < i PROVE Spare(y.slot[t])
    <3>1. t = i - 1 \/ t < i - 1
      BY <1>0, <2>5
    <3>. QED BY <1>0, <2>2, <2>3, <3>1
  <2>6. y \in Part(i)
    BY <2>3, <2>4, <2>5
  <2>. QED BY <2>1, <2>6 DEF y, X
<1>3. ContextShift(p) \in X[N]
  <2> HIDE DEF X
  <2>. QED BY <1>1, <1>2, ContextShiftWithin
<1>4. ContextShift(p) \in Part(N)
  BY <1>0, <1>3
<1>5. \A t \in Slots : t < N
  BY <1>0
<1>. QED BY <1>4, <1>5

\* A generating slot with room for it takes its sampled token.
LEMMA AddSampledSound ==
    ASSUME conf \in Confs, NEW p, Sound(p), NEW s \in Slots, Spare(p.slot[s]),
           NEW sampled, p.slot[s].st = "gen" => sampled[s] \in Toks,
           NEW q, q = AddSampled(p, s, sampled)
    PROVE  /\ Sound(q) /\ SameStates(q.slot, p.slot)
           /\ \A t \in Slots \ {s} : /\ q.slot[t] = p.slot[t]
                                     /\ NoneOf(p.batch, t) => NoneOf(q.batch, t)
           /\ p.slot[s].st # "gen" => q = p
<1>0. p \in PassState /\ Linked(p.kv, p.slot, p.batch) /\ InContext(p.slot) /\ NCtx \in Nat
  BY SlotKvAssumption DEF Sound
<1>1. q = IF p.slot[s].st # "gen" THEN p ELSE AddToken(p, s, sampled[s], Len(p.slot[s].cache))
  BY DEF AddSampled
<1>2. CASE p.slot[s].st # "gen"
  BY <1>1, <1>2 DEF SameStates
<1>3. CASE p.slot[s].st = "gen"
  <2> DEFINE n == Len(p.slot[s].cache)
             e == [tok |-> sampled[s], pos |-> n, seq |-> s]
  <2>1. p.slot[s].cache \in Seq(Toks) /\ n \in Nat
    <3>1. p.slot[s] \in SlotRec
      BY <1>0 DEF PassState
    <3>. QED BY <3>1 DEF SlotRec
  <2>2. q = AddToken(p, s, sampled[s], n) /\ sampled[s] \in Toks
    BY <1>1, <1>3
  <2>3. Linked(q.kv, q.slot, q.batch)
    BY <1>0, <2>2, AddLinked
  <2>4. n <= NCtx - 2
    BY <1>3 DEF Spare
  <2> HIDE DEF n
  <2>5. q \in PassState /\ SameStates(q.slot, p.slot)
    BY <1>0, <2>1, <2>2, AddTokenGood
  <2>6. /\ q.batch = Append(p.batch, e) /\ e \in KvTok(RowToks)
        /\ q.slot[s].cache = Append(p.slot[s].cache, sampled[s])
        /\ q.slot[s].st = p.slot[s].st
        /\ \A t \in Slots \ {s} : q.slot[t] = p.slot[t]
    BY <1>0, <2>1, <2>2, AddTokenParts, SMTT(60)
  <2>7. Len(q.slot[s].cache) = n + 1
    <3>1. \A c \in Seq(Toks) : Len(Append(c, sampled[s])) = Len(c) + 1
      BY <2>2
    <3>. QED BY <2>1, <2>6, <3>1 DEF n
  <2>8. InContext(q.slot)
    <3>1. ASSUME NEW t \in Slots PROVE Len(q.slot[t].cache) <= NCtx - 1 /\ Loading(q.slot[t])
      <4>1. CASE t = s
        <5>1. Len(q.slot[s].cache) <= NCtx - 1
          BY <1>0, <2>1, <2>4, <2>7
        <5>. QED BY <1>3, <2>6, <4>1, <5>1 DEF Loading
      <4>2. CASE t # s
        BY <1>0, <2>6, <4>2 DEF InContext
      <4>. QED BY <4>1, <4>2
    <3>. QED BY <3>1 DEF InContext
  <2>9. ASSUME NEW t \in Slots \ {s}, NoneOf(p.batch, t) PROVE NoneOf(q.batch, t)
    <3>1. p.batch \in Seq(KvTok(RowToks)) /\ Len(p.batch) \in Nat
      BY <1>0 DEF PassState
    <3>2. /\ Len(q.batch) = Len(p.batch) + 1 /\ q.batch[Len(p.batch) + 1] = e
          /\ \A i \in 1..Len(p.batch) : q.batch[i] = p.batch[i]
      <4> HIDE DEF e
      <4>. QED BY <2>6, <3>1, BringsMore
    <3>3. e.seq # t
      OBVIOUS
    <3>4. ASSUME NEW i \in 1..(Len(p.batch) + 1) PROVE i \in 1..Len(p.batch) \/ i = Len(p.batch) + 1
      BY <3>1
    <3> HIDE DEF e
    <3>. QED BY <2>9, <3>2, <3>3, <3>4 DEF NoneOf
  <2>. QED BY <1>3, <2>3, <2>5, <2>6, <2>8, <2>9 DEF Sound
<1>. QED BY <1>2, <1>3

\* add_sampled_tokens: only generating slots have a token in the batch.
LEMMA AddSampledTokensSound ==
    ASSUME SlotInv, NEW p, Sound(p), p.batch = <<>>, SameStates(p.slot, slot), \A s \in Slots : Spare(p.slot[s]),
           NEW sampled \in [Generating -> Sampled]
    PROVE  LET q == AddSampledTokens(p, sampled)
           IN /\ Sound(q) /\ SameStates(q.slot, slot)
              /\ \A s \in Slots : slot[s].st = "load" => NoneOf(q.batch, s)
<1> DEFINE N == conf.n_slots
           Part(i) == {q \in PassState : /\ Sound(q) /\ SameStates(q.slot, slot)
                                         /\ \A t \in Slots : slot[t].st = "load" => NoneOf(q.batch, t)
                                         /\ \A t \in Slots : t >= i => Spare(q.slot[t])}
           X == [i \in 0..N |-> Part(i)]
<1>c. conf \in Confs
  BY DEF SlotInv
<1>0. N \in Nat /\ Slots = 0..(N - 1)
  BY <1>c, ConfFacts DEF Slots
<1>1. p \in X[0]
  <2>1. p \in PassState /\ \A t : NoneOf(p.batch, t)
    BY DEF Sound, NoneOf
  <2>2. p \in Part(0)
    BY <2>1
  <2>. QED BY <1>0, <2>2
<1>2. ASSUME NEW i \in 1..N, NEW q \in X[i - 1] PROVE AddSampled(q, i - 1, sampled) \in X[i]
  <2> DEFINE s == i - 1
             y == AddSampled(q, s, sampled)
  <2>1. s \in Slots /\ s \in 0..N /\ i \in 0..N
    BY <1>0
  <2>2. /\ q \in PassState /\ Sound(q) /\ SameStates(q.slot, slot)
        /\ \A t \in Slots : slot[t].st = "load" => NoneOf(q.batch, t)
        /\ \A t \in Slots : t >= s => Spare(q.slot[t])
    BY <2>1
  <2> HIDE DEF X
  <2>3. Spare(q.slot[s])
    BY <1>0, <2>1, <2>2
  <2>7. \A t \in Slots : t >= i => t >= s /\ t # s
    BY <1>0
  <2> HIDE DEF s
  <2>4. q.slot[s].st = slot[s].st /\ (q.slot[s].st = "gen" => sampled[s] \in Toks)
    BY <2>1, <2>2, SlotKvAssumption DEF SameStates, Generating
  <2>5. /\ Sound(y) /\ SameStates(y.slot, q.slot)
        /\ \A t \in Slots \ {s} : y.slot[t] = q.slot[t] /\ (NoneOf(q.batch, t) => NoneOf(y.batch, t))
        /\ q.slot[s].st # "gen" => y = q
    BY <1>c, <2>1, <2>2, <2>3, <2>4, AddSampledSound
  <2> HIDE DEF y
  <2>6. y \in PassState /\ SameStates(y.slot, slot)
    BY <2>2, <2>5 DEF Sound, SameStates
  <2>8. ASSUME NEW t \in Slots, slot[t].st = "load" PROVE NoneOf(y.batch, t)
    <3>1. NoneOf(q.batch, t)
      BY <2>2, <2>8
    <3>2. CASE t = s
      BY <2>4, <2>5, <2>8, <3>1, <3>2
    <3>3. CASE t # s
      BY <2>5, <3>1, <3>3
    <3>. QED BY <3>2, <3>3
  <2>9. \A t \in Slots : t >= i => Spare(y.slot[t])
    BY <2>2, <2>5, <2>7
  <2>10. y \in Part(i)
    BY <2>5, <2>6, <2>8, <2>9
  <2>. QED BY <2>1, <2>10 DEF y, X, s
<1>3. AddSampledTokens(p, sampled) \in X[N]
  <2> HIDE DEF X
  <2>. QED BY <1>c, <1>1, <1>2, AddSampledTokensWithin
<1>4. AddSampledTokens(p, sampled) \in Part(N)
  BY <1>0, <1>3
<1>. QED BY <1>4

\* A token of another slot.
LEMMA AddTokenElsewhere ==
    ASSUME NEW p \in PassState, NEW s \in Slots, conf \in Confs, NEW tok \in Toks, NEW pos \in Nat,
           NEW q, q = AddToken(p, s, tok, pos), NEW t \in Slots \ {s}, NoneOf(p.batch, t)
    PROVE  NoneOf(q.batch, t)
<1> DEFINE e == [tok |-> tok, pos |-> pos, seq |-> s]
           n == Len(p.batch)
<1>1. q.batch = Append(p.batch, e) /\ e \in KvTok(RowToks)
  BY AddTokenParts
<1>2. p.batch \in Seq(KvTok(RowToks)) /\ n \in Nat
  BY DEF PassState
<1>3. e.seq # t
  OBVIOUS
<1> HIDE DEF e
<1>4. /\ Len(q.batch) = n + 1 /\ q.batch[n + 1] = e /\ \A i \in 1..n : q.batch[i] = p.batch[i]
  BY <1>1, <1>2, BringsMore
<1>5. ASSUME NEW i \in 1..(n + 1) PROVE i \in 1..n \/ i = n + 1
  BY <1>2
<1>. QED BY <1>3, <1>4, <1>5 DEF NoneOf

\* The slot as batch_pending_prompt leaves it.
LEMMA LeftSlot ==
    ASSUME NEW z \in PassState, NEW s \in Slots, NEW x
    PROVE  Left(z, s, x).slot = [z.slot EXCEPT ![s] = x]
<1> DEFINE g == [z.slot EXCEPT ![s] = x]
<1>1. Left(z, s, x) = [z EXCEPT !.slot = g]
  BY DEF Left
<1> HIDE DEF g
<1>2. Left(z, s, x).slot = g
  BY <1>1 DEF PassState
<1>. QED BY <1>2 DEF g

\* batch_pending_prompt of one slot: the cells and the tokens beyond the common part go
\* together, and the tokens added to the batch continue what is left.
LEMMA PendingSound ==
    ASSUME conf \in Confs, conf.sys = 0, NEW p, Sound(p), NEW s \in Slots,
           p.slot[s].st = "load" => NoneOf(p.batch, s), NEW q, q = PendingPrompt(p, s)
    PROVE  /\ Sound(q)
           /\ \A t \in Slots \ {s} : /\ q.slot[t] = p.slot[t]
                                     /\ NoneOf(p.batch, t) => NoneOf(q.batch, t)
<1>0. p \in PassState /\ Linked(p.kv, p.slot, p.batch) /\ InContext(p.slot) /\ NCtx \in Nat
  BY SlotKvAssumption DEF Sound
<1>1. CASE p.slot[s].st # "load" \/ Len(p.batch) >= NBatch
  <2>1. q = p
    BY <1>1 DEF PendingPrompt
  <2>. QED BY <2>1
<1>2. CASE ~(p.slot[s].st # "load" \/ Len(p.batch) >= NBatch)
  <2> DEFINE sl == p.slot[s]
             past == KeptTokens(sl)
             more == TokensToAdd(p, s)
             Part(k) == {w \in PassState : /\ Linked(w.kv, w.slot, w.batch) /\ Len(w.slot[s].cache) = past + k
                                           /\ \A t \in Slots \ {s} : /\ w.slot[t] = p.slot[t]
                                                                     /\ NoneOf(p.batch, t) => NoneOf(w.batch, t)}
             X == [k \in 0..more |-> Part(k)]
             Tok(k) == sl.prompt[ResumeAt(sl) + k]
  <2>0. p.slot[s].st = "load" /\ ~(Len(p.batch) >= NBatch) /\ NoneOf(p.batch, s)
    BY <1>2
  <2>1. /\ sl \in SlotRec /\ sl.cache \in Seq(Toks) /\ sl.prompt \in Seq(Toks)
        /\ past \in Nat /\ past <= Len(sl.cache)
        /\ ResumeAt(sl) \in Nat /\ ResumeAt(sl) <= Len(sl.prompt)
        /\ more \in Nat /\ ResumeAt(sl) + more <= Len(sl.prompt)
    BY <1>0, <2>0, ToAddFacts
  <2>2. sl.prompt \in conf.prompts /\ ResumeAt(sl) = past
    <3>1. Loading(sl)
      BY <1>0 DEF InContext
    <3>2. sl.prompt \in conf.prompts /\ (sl.n = -1 \/ sl.n = Len(sl.cache))
      BY <2>0, <3>1 DEF Loading
    <3>3. Len(sl.cache) \in Nat
      BY <2>1
    <3>4. CASE sl.n = -1
      BY <3>2, <3>4 DEF ResumeAt, KeptTokens
    <3>5. CASE sl.n # -1
      BY <3>2, <3>5 DEF ResumeAt, KeptTokens
    <3>. QED BY <3>2, <3>4, <3>5
  <2>3. Len(sl.prompt) <= NCtx - 1 /\ Len(sl.prompt) \in Nat
    BY <2>2, SlotKvAssumption
  <2> HIDE DEF past, more
  <2>4. Truncated(p, s, past) \in X[0]
    <3> DEFINE w == Truncated(p, s, past)
    <3>1. past <= Len(p.slot[s].cache)
      BY <2>1
    <3>2. /\ w \in PassState /\ w.batch = p.batch
      BY <1>0, <2>1, <3>1, TruncateGood
    <3>3. /\ Linked(w.kv, w.slot, w.batch) /\ Len(w.slot[s].cache) = past
          /\ \A t \in Slots \ {s} : w.slot[t] = p.slot[t]
      BY <1>0, <2>0, <2>1, <3>1, TruncLinked
    <3> HIDE DEF w, sl
    <3>4. past + 0 = past
      BY <2>1
    <3>5. w \in Part(0)
      BY <3>2, <3>3, <3>4
    <3>. QED BY <2>1, <3>5 DEF w
  <2>5. ASSUME NEW k \in 1..more, NEW w \in X[k - 1]
        PROVE  AddToken(w, s, Tok(k), conf.sys + Len(w.slot[s].cache)) \in X[k]
    <3> DEFINE n == Len(w.slot[s].cache)
               y == AddToken(w, s, Tok(k), n)
    <3>0. k \in 0..more /\ k - 1 \in 0..more /\ ResumeAt(sl) + k \in 1..Len(sl.prompt)
      BY <2>1, <2>3, SMTT(60)
    <3>1. w \in Part(k - 1)
      BY <3>0
    <3>2. /\ w \in PassState /\ Linked(w.kv, w.slot, w.batch) /\ n = past + (k - 1)
          /\ \A t \in Slots \ {s} : /\ w.slot[t] = p.slot[t]
                                    /\ NoneOf(p.batch, t) => NoneOf(w.batch, t)
      BY <3>1
    <3>3. n \in Nat /\ n = past + (k - 1)
      BY <2>1, <3>0, <3>2
    <3>4. conf.sys + n = n
      BY <3>3
    <3>5. Tok(k) \in Toks
      BY <2>1, <3>0
    <3>6. w.slot[s].cache \in Seq(Toks)
      <4>1. w.slot[s] \in SlotRec
        BY <3>2 DEF PassState
      <4>. QED BY <4>1 DEF SlotRec
    <3> HIDE DEF X, Tok, sl
    <3>7. Linked(y.kv, y.slot, y.batch)
      BY <3>2, <3>5, AddLinked
    <3> HIDE DEF n
    <3>8. y \in PassState
      BY <3>2, <3>3, <3>5, AddTokenGood
    <3>9. y.slot[s].cache = Append(w.slot[s].cache, Tok(k)) /\ \A t \in Slots \ {s} : y.slot[t] = w.slot[t]
      <4>1. \A tok \in Toks : \A u : u = AddToken(w, s, tok, n) =>
              /\ u.kv = w.kv /\ u.batch = Append(w.batch, [tok |-> tok, pos |-> n, seq |-> s])
              /\ u.slot[s].cache = Append(w.slot[s].cache, tok) /\ \A t \in Slots \ {s} : u.slot[t] = w.slot[t]
        BY <3>2, <3>3, <3>6, AddTokenParts, SMTT(60)
      <4>. QED BY <3>5, <4>1
    <3>10. ASSUME NEW t \in Slots \ {s}, NoneOf(w.batch, t) PROVE NoneOf(y.batch, t)
      BY <3>2, <3>3, <3>5, <3>10, AddTokenElsewhere
    <3>11. Len(y.slot[s].cache) = past + k
      <4>1. \A c \in Seq(Toks) : Len(Append(c, Tok(k))) = Len(c) + 1
        BY <3>5
      <4>2. Len(y.slot[s].cache) = n + 1
        BY <3>6, <3>9, <4>1 DEF n
      <4>. QED BY <2>1, <3>0, <3>3, <4>2
    <3>13. AddToken(w, s, Tok(k), conf.sys + n) = y
      BY <3>4
    <3> HIDE DEF y
    <3>12. y \in Part(k)
      BY <3>2, <3>7, <3>8, <3>9, <3>10, <3>11
    <3>14. y \in X[k]
      BY <3>0, <3>12 DEF X
    <3>. QED BY <3>13, <3>14 DEF n
  <2> HIDE DEF Part
  <2>6. PICK z \in X[more], done \in BOOLEAN :
           q = Left(z, s, LeftWith(z.slot[s], sl.prompt, done, ResumeAt(sl) + more))
    <3> HIDE DEF X
    <3>1. \E z \in X[TokensToAdd(p, s)] : \E d \in BOOLEAN :
             PendingPrompt(p, s) = Left(z, s, LeftWith(z.slot[s], p.slot[s].prompt, d,
                                                       ResumeAt(p.slot[s]) + TokensToAdd(p, s)))
      BY <1>0, <2>0, <2>4, <2>5, PendingWithin DEF past, more
    <3>. QED BY <3>1 DEF more
  <2>7. /\ z \in PassState /\ Linked(z.kv, z.slot, z.batch) /\ Len(z.slot[s].cache) = past + more
        /\ \A t \in Slots \ {s} : /\ z.slot[t] = p.slot[t]
                                  /\ NoneOf(p.batch, t) => NoneOf(z.batch, t)
    BY <2>1, <2>6 DEF Part
  <2> HIDE DEF X
  <2> DEFINE m == ResumeAt(sl) + more
             x == LeftWith(z.slot[s], sl.prompt, done, m)
  <2>8. m \in Nat /\ m <= Len(sl.prompt) /\ m = past + more
    BY <2>1, <2>2, <2>3
  <2> HIDE DEF m
  <2>9. q = Left(z, s, x)
    BY <2>6 DEF m
  <2>10. x \in SlotRec
    <3>1. z.slot[s] \in SlotRec
      BY <2>7 DEF PassState
    <3>. QED BY <2>1, <2>8, <3>1, LeftWithGood
  <2>11. /\ q.slot[s].cache = z.slot[s].cache
         /\ q.slot[s].st = "load" => q.slot[s].prompt = sl.prompt /\ q.slot[s].n = m
         /\ \A t \in Slots \ {s} : q.slot[t] = z.slot[t]
    <3>1. x.cache = z.slot[s].cache /\ (x.st = "load" => x.prompt = sl.prompt /\ x.n = m)
      BY DEF LeftWith
    <3> HIDE DEF x
    <3>2. q.slot = [z.slot EXCEPT ![s] = x] /\ z.slot \in [Slots -> SlotRec]
      BY <2>7, <2>9, LeftSlot DEF PassState
    <3>3. q.slot[s] = x /\ \A t \in Slots \ {s} : q.slot[t] = z.slot[t]
      BY <3>2
    <3>. QED BY <3>1, <3>3
  <2> HIDE DEF x
  <2>12. q \in PassState /\ q.kv = z.kv /\ q.batch = z.batch
    BY <2>7, <2>9, <2>10, LeaveGood
  <2>13. Linked(q.kv, q.slot, q.batch)
    <3>1. \A t \in Slots : q.slot[t].cache = z.slot[t].cache
      BY <2>11
    <3>2. Linked(z.kv, q.slot, z.batch)
      BY <2>7, <3>1, LinkedTokens
    <3>. QED BY <2>12, <3>2
  <2>14. InContext(q.slot)
    <3>1. ASSUME NEW t \in Slots PROVE Len(q.slot[t].cache) <= NCtx - 1 /\ Loading(q.slot[t])
      <4>1. CASE t = s
        <5>1. Len(q.slot[s].cache) = m
          BY <2>7, <2>8, <2>11
        <5>2. m <= NCtx - 1
          BY <1>0, <2>3, <2>8
        <5>3. Loading(q.slot[s])
          BY <2>2, <2>11, <5>1 DEF Loading
        <5>. QED BY <4>1, <5>1, <5>2, <5>3
      <4>2. CASE t # s
        BY <1>0, <2>7, <2>11, <4>2 DEF InContext
      <4>. QED BY <4>1, <4>2
    <3>. QED BY <3>1 DEF InContext
  <2>. QED BY <2>7, <2>11, <2>12, <2>13, <2>14 DEF Sound
<1>. QED BY <1>1, <1>2

\* batch_pending_prompt.
LEMMA BatchPendingSound ==
    ASSUME conf \in Confs, conf.sys = 0, NEW p, Sound(p),
           \A s \in Slots : p.slot[s].st = "load" => NoneOf(p.batch, s)
    PROVE  Sound(BatchPendingPrompt(p))
<1> DEFINE N == conf.n_slots
           Part(i) == {q \in PassState : /\ Sound(q)
                                         /\ \A t \in Slots : t >= i => (q.slot[t].st = "load" => NoneOf(q.batch, t))}
           X == [i \in 0..N |-> Part(i)]
<1>0. N \in Nat /\ Slots = 0..(N - 1)
  BY ConfFacts DEF Slots
<1>1. p \in X[0]
  <2>1. p \in PassState
    BY DEF Sound
  <2>2. p \in Part(0)
    BY <2>1
  <2>. QED BY <1>0, <2>2
<1>2. ASSUME NEW i \in 1..N, NEW q \in X[i - 1] PROVE PendingPrompt(q, i - 1) \in X[i]
  <2> DEFINE s == i - 1
             y == PendingPrompt(q, s)
  <2>1. s \in Slots /\ s \in 0..N /\ i \in 0..N
    BY <1>0
  <2>2. /\ q \in PassState /\ Sound(q)
        /\ \A t \in Slots : t >= s => (q.slot[t].st = "load" => NoneOf(q.batch, t))
    BY <2>1
  <2> HIDE DEF X
  <2>3. q.slot[s].st = "load" => NoneOf(q.batch, s)
    BY <1>0, <2>1, <2>2
  <2>4. \A t \in Slots : t >= i => t >= s /\ t # s
    BY <1>0
  <2> HIDE DEF s
  <2>5. /\ Sound(y)
        /\ \A t \in Slots \ {s} : y.slot[t] = q.slot[t] /\ (NoneOf(q.batch, t) => NoneOf(y.batch, t))
    BY <2>1, <2>2, <2>3, PendingSound
  <2> HIDE DEF y
  <2>6. y \in PassState
    BY <2>5 DEF Sound
  <2>7. \A t \in Slots : t >= i => (y.slot[t].st = "load" => NoneOf(y.batch, t))
    BY <2>2, <2>4, <2>5
  <2>8. y \in Part(i)
    BY <2>5, <2>6, <2>7
  <2>. QED BY <2>1, <2>8 DEF y, X, s
<1>3. BatchPendingPrompt(p) \in X[N]
  <2> HIDE DEF X
  <2>. QED BY <1>1, <1>2, BatchPendingPromptWithin
<1>. QED BY <1>0, <1>3

\* A pass of update_slots.
LEMMA PassSound ==
    ASSUME SlotInv, conf.sys = 0, batch = <<>>, Linked(kv, slot, batch), InContext(slot),
           NEW sampled \in [Generating -> Sampled]
    PROVE  Sound(Pass(sampled))
<1> DEFINE p == [kv |-> kv, slot |-> slot, batch |-> <<>>]
           q == ContextShift(p)
           r == AddSampledTokens(q, sampled)
<1>1. Sound(p) /\ p.batch = <<>> /\ p.slot = slot /\ conf \in Confs
  BY DEF Sound, SlotInv, PassState
<1>0. Pass(sampled) = BatchPendingPrompt(r)
  BY DEF Pass
<1> HIDE DEF p
<1>2. Sound(q) /\ q.batch = <<>> /\ SameStates(q.slot, p.slot) /\ \A s \in Slots : Spare(q.slot[s])
  BY <1>1, ContextShiftSound
<1> HIDE DEF q
<1>3. Sound(r) /\ SameStates(r.slot, slot) /\ \A s \in Slots : slot[s].st = "load" => NoneOf(r.batch, s)
  BY <1>1, <1>2, AddSampledTokensSound
<1> HIDE DEF r
<1>4. \A s \in Slots : r.slot[s].st = "load" => NoneOf(r.batch, s)
  BY <1>3 DEF SameStates
<1>. QED BY <1>0, <1>1, <1>3, <1>4, BatchPendingSound

-----------------------------------------------------------------------------
(* The invariant                                                            *)

\* What is saved of a slot, to a file or to the prompt cache: its tokens and their cells.
Matches(x) ==
    /\ Len(x.toks) <= NCtx - 1 /\ Distinct(x.blob)
    /\ \A p, t : Keeps(x.blob, p, t) <=> Has(x.toks, p, t)

\* The saved states the server has.
Matched == {x \in Saved : Matches(x)}

\* Between any two steps cache, slots and batch agree, and so does everything saved.
\* Until the first idle pass clears the cache no slot has been used.
LinkInv ==
    /\ Linked(kv, slot, batch) /\ InContext(slot) /\ ~refused
    /\ clean => batch = <<>> /\ \A s \in Slots : slot[s] = FreeSlot
    /\ file \in Matched /\ states \in Seq(Matched)

\* Without a batch the cache holds the tokens of the slots.
LEMMA LinkedExact ==
    ASSUME NEW k, NEW f
    PROVE  Linked(k, f, <<>>) <=> /\ Apart(k, Slots)
                                  /\ \A s \in Slots : \A p, t : Holds(k, s, p, t) <=> Has(f[s].cache, p, t)
<1>1. \A s, p, t : ~Brings(<<>>, s, p, t)
  BY DEF Brings
<1>2. Ahead(k, <<>>)
  BY DEF Ahead
<1>3. \A i : i \notin 1..Len(<<>>)
  OBVIOUS
<1>. QED BY <1>1, <1>2, <1>3 DEF Linked, Full

\* slot_save, and the prompt cache: what is saved between two passes is exact.
LEMMA SavedMatches ==
    ASSUME SlotInv, Linked(kv, slot, batch), InContext(slot), batch = <<>>, NEW s \in Slots
    PROVE  [toks |-> slot[s].cache, blob |-> SeqState(kv, s)] \in Matched
<1> DEFINE c == slot[s].cache
           b == SeqState(kv, s)
           x == [toks |-> c, blob |-> b]
<1>1. kv \in GoodKv(RowToks) /\ ~kv.has_shift /\ c \in Seq(Toks)
  <2>1. slot[s] \in SlotRec
    BY DEF SlotInv
  <2>. QED BY <2>1 DEF SlotInv, SlotRec
<1>2. Apart(kv, Slots) /\ \A p, t : Holds(kv, s, p, t) <=> Has(c, p, t)
  <2>1. Linked(kv, slot, <<>>)
    OBVIOUS
  <2>. QED BY <2>1, LinkedExact
<1>3. Distinct(b) /\ \A p, t : Keeps(b, p, t) <=> Holds(kv, s, p, t)
  BY <1>1, <1>2, SeqStateKeeps
<1>4. b \in Seq(SavedCell(RowToks))
  BY <1>1, SeqStateGood
<1>5. Len(c) <= NCtx - 1
  BY DEF InContext
<1> HIDE DEF b, c
<1>6. x \in Saved /\ x.toks = c /\ x.blob = b
  BY <1>1, <1>4 DEF Saved
<1> HIDE DEF x
<1>7. Matches(x)
  BY <1>2, <1>3, <1>5, <1>6 DEF Matches
<1>. QED BY <1>6, <1>7 DEF Matched, x, c, b

\* Restoring what was saved.
LEMMA RestoreLinked ==
    ASSUME SlotInv, Linked(kv, slot, batch), batch = <<>>, NEW s \in Slots, NEW x \in Matched,
           NEW r, r = SetSeqState(kv, s, x.blob),
           NEW g, \A t \in Slots \ {s} : g[t].cache = slot[t].cache,
           g[s].cache = IF r.ok THEN x.toks ELSE <<>>
    PROVE  Linked(r.kv, g, <<>>) /\ (conf.n_slots = 1 => r.ok)
<1>1. /\ kv \in GoodKv(RowToks) /\ ~kv.has_shift /\ s \in Int /\ NoTok \in RowToks
      /\ x.blob \in Seq(SavedCell(RowToks)) /\ Distinct(x.blob)
      /\ \A p, t : Keeps(x.blob, p, t) <=> Has(x.toks, p, t)
  <2>1. s \in Int /\ NoTok \in RowToks
    BY ConfFacts, RowTokFacts DEF SlotInv, Slots
  <2>2. x.blob \in Seq(SavedCell(RowToks))
    BY DEF Matched, Saved
  <2>. QED BY <2>1, <2>2 DEF SlotInv, Matched, Matches
<1>2. Apart(kv, Slots) /\ \A q \in Slots : \A p, t : Holds(kv, q, p, t) <=> Has(slot[q].cache, p, t)
  <2>1. Linked(kv, slot, <<>>)
    OBVIOUS
  <2>. QED BY <2>1, LinkedExact
<1>3. /\ Apart(r.kv, Slots)
      /\ \A q, p, t : q # s => (Holds(r.kv, q, p, t) <=> Holds(kv, q, p, t))
      /\ r.ok => \A p, t : Holds(r.kv, s, p, t) <=> Keeps(x.blob, p, t)
      /\ ~r.ok => \A p, t : ~Holds(r.kv, s, p, t)
      /\ Slots = {s} => r.ok
  <2>1. /\ NoTok \in RowToks /\ kv \in GoodKv(RowToks) /\ ~kv.has_shift /\ Apart(kv, Slots) /\ s \in Slots /\ s \in Int
        /\ x.blob \in Seq(SavedCell(RowToks)) /\ Distinct(x.blob) /\ r = SetSeqState(kv, s, x.blob)
    BY <1>1, <1>2
  <2>. QED BY ONLY <2>1, SetSeqStateHolds
<1>4. conf.n_slots = 1 => Slots = {s}
  <2>1. conf.n_slots = 1 => Slots = {0}
    BY DEF Slots
  <2>. QED BY <2>1
<1>5. ASSUME NEW q \in Slots, NEW p, NEW t PROVE Holds(r.kv, q, p, t) <=> Has(g[q].cache, p, t)
  <2>1. CASE q # s
    BY <1>2, <1>3, <2>1
  <2>2. CASE q = s /\ r.ok
    BY <1>1, <1>3, <2>2
  <2>3. CASE q = s /\ ~r.ok
    <3>1. ~Has(<<>>, p, t)
      BY DEF Has
    <3>. QED BY <1>3, <2>3, <3>1
  <2>. QED BY <2>1, <2>2, <2>3
<1>. QED BY <1>3, <1>4, <1>5, LinkedExact

\* get_available_slot of the only slot.
LEMMA ReuseLinked ==
    ASSUME SlotInv, Linked(kv, slot, batch), InContext(slot), states \in Seq(Matched), batch = <<>>,
           conf.n_slots = 1, NEW s \in Slots, NEW p \in conf.prompts,
           NEW r, r = ReusePrompt(s, p),
           NEW g, g[s].cache = r.cache, \A t \in Slots \ {s} : g[t].cache = slot[t].cache
    PROVE  Linked(r.kv, g, <<>>) /\ Len(r.cache) <= NCtx - 1 /\ r.states \in Seq(Matched)
<1> DEFINE held == slot[s].cache
           lose == held # <<>> /\ 2 * Lcp(held, p) < Len(held)
           sts == IF lose THEN PromptSave(states, held, SeqState(kv, s)) ELSE states
           b == IF sts = <<>> THEN 0 ELSE BestState(sts, held, p)
           set == SetSeqState(kv, s, sts[b].blob)
<1>0. /\ held \in Seq(Toks) /\ p \in Seq(Toks) /\ Len(p) >= 1 /\ Len(held) <= NCtx - 1
  BY ConfFacts DEF SlotInv, SlotRec, InContext
<1>1. r =
        IF b = 0 THEN [kv |-> kv, cache |-> held, states |-> IF sts = <<>> THEN sts ELSE PromptEvict(sts)]
        ELSE IF ~set.ok THEN [kv |-> set.kv, cache |-> held, states |-> PromptEvict(sts)]
        ELSE [kv |-> set.kv, cache |-> sts[b].toks, states |-> PromptEvict(RemoveAt(sts, b))]
  BY DEF ReusePrompt
<1>2. sts \in Seq(Matched)
  <2>1. [toks |-> held, blob |-> SeqState(kv, s)] \in Matched
    BY SavedMatches
  <2> HIDE DEF held
  <2>2. PromptSave(states, held, SeqState(kv, s)) \in Seq(Matched)
    BY <2>1, PromptSaveIn
  <2>. QED BY <2>2
<1> HIDE DEF sts
<1>3. b \in {0} \cup DOMAIN sts /\ PromptEvict(sts) \in Seq(Matched)
  <2>1. sts \in Seq(Saved)
    <3>1. Matched \subseteq Saved
      BY DEF Matched
    <3>. QED BY <1>2, <3>1
  <2> HIDE DEF held
  <2>. QED BY <1>0, <1>2, <2>1, BestStateIn, PromptEvictIn
<1> HIDE DEF b
<1>4. CASE b = 0
  <2>1. (IF sts = <<>> THEN sts ELSE PromptEvict(sts)) \in Seq(Matched)
    BY <1>2, <1>3
  <2>2. r.kv = kv /\ r.cache = held /\ r.states \in Seq(Matched)
    BY <1>1, <1>4, <2>1
  <2>3. \A t \in Slots : g[t].cache = slot[t].cache
    BY <2>2
  <2>4. Linked(kv, g, batch)
    BY <2>3, LinkedTokens
  <2>. QED BY <1>0, <2>2, <2>4
<1>5. CASE b # 0
  <2>1. b \in DOMAIN sts /\ sts[b] \in Matched
    BY <1>2, <1>3, <1>5
  <2>2. PromptEvict(RemoveAt(sts, b)) \in Seq(Matched)
    BY <1>2, <2>1, RemoveIn, PromptEvictIn
  <2> DEFINE h == [t \in Slots |-> [cache |-> IF t # s THEN slot[t].cache
                                              ELSE IF set.ok THEN sts[b].toks ELSE <<>>]]
  <2>3. Linked(set.kv, h, <<>>) /\ set.ok
    <3>1. /\ \A t \in Slots \ {s} : h[t].cache = slot[t].cache
          /\ h[s].cache = IF set.ok THEN sts[b].toks ELSE <<>>
      <4> HIDE DEF set
      <4>. QED OBVIOUS
    <3> HIDE DEF h
    <3>2. \A x \in Matched : x = sts[b] => Linked(set.kv, h, <<>>) /\ (conf.n_slots = 1 => set.ok)
      BY <3>1, RestoreLinked
    <3>. QED BY <2>1, <3>2
  <2> HIDE DEF set
  <2>4. r.kv = set.kv /\ r.cache = sts[b].toks /\ r.states = PromptEvict(RemoveAt(sts, b))
    BY <1>1, <1>5, <2>3
  <2>5. \A t \in Slots : g[t].cache = h[t].cache
    BY <2>3, <2>4
  <2> HIDE DEF h
  <2>6. Linked(set.kv, g, <<>>)
    BY <2>3, <2>5, LinkedTokens
  <2>7. Len(sts[b].toks) <= NCtx - 1
    BY <2>1 DEF Matched, Matches
  <2>. QED BY <2>2, <2>4, <2>6, <2>7
<1>. QED BY <1>4, <1>5

\* The first tokens of the first tokens.
LEMMA FirstOfFirst ==
    ASSUME NEW T, NEW b \in Seq(KvTok(T)), NEW m \in 0..Len(b), NEW h \in 0..m
    PROVE  First(First(b, m), h) = First(b, h)
<1> DEFINE v == First(b, m)
           w == First(v, h)
           u == First(b, h)
<1>0. Len(b) \in Nat /\ m \in Nat /\ h \in 0..Len(b)
  OBVIOUS
<1>1. v \in Seq(KvTok(T)) /\ Len(v) = m /\ \A i \in 1..m : v[i] = b[i]
  BY FirstPart
<1>2. u \in Seq(KvTok(T)) /\ Len(u) = h /\ \A i \in 1..h : u[i] = b[i]
  BY <1>0, FirstPart
<1> HIDE DEF v, u
<1>3. w \in Seq(KvTok(T)) /\ Len(w) = h /\ \A i \in 1..h : w[i] = v[i]
  <2>1. h \in 0..Len(v)
    BY <1>1
  <2>. QED BY <1>1, <2>1, FirstPart
<1> HIDE DEF w
<1>4. \A i \in 1..h : w[i] = u[i]
  <2>1. \A i \in 1..h : i \in 1..m
    BY <1>0
  <2>. QED BY <1>1, <1>2, <1>3, <2>1
<1>5. w = u
  BY <1>2, <1>3, <1>4, SeqEqual
<1>. QED BY <1>5 DEF w, u, v

\* Decoding the first m tokens of the batch: there is room for a token, whatever part of
\* them has been added.
LEMMA ViewAdds ==
    ASSUME SlotInv, Linked(kv, slot, batch), InContext(slot), NEW m \in 1..Len(batch),
           NEW r, r = Decode(kv, First(batch, m), conf.n_ubatch)
    PROVE  /\ r.ok => Adds(r.kv, kv, First(batch, m), Slots)
           /\ ~r.ok /\ conf.n_ubatch >= m => Same(r.kv, kv, Slots)
           /\ conf.n_ubatch = 1 \/ m = 1 => r.ok
<1> DEFINE v == First(batch, m)
           u == conf.n_ubatch
<1>0. /\ conf \in Confs /\ kv \in GoodKv(RowToks) /\ batch \in Seq(KvTok(RowToks)) /\ slot \in [Slots -> SlotRec]
      /\ NoTok \in RowToks /\ u \in Nat \ {0} /\ NCtx \in Nat
  BY ConfFacts, RowTokFacts, SlotKvAssumption DEF SlotInv
<1>1. m \in Nat /\ m \in 0..Len(batch) /\ Len(batch) \in Nat
  BY <1>0
<1>2. v \in Seq(KvTok(RowToks)) /\ Len(v) = m /\ \A i \in 1..m : v[i] = batch[i]
  <2> HIDE DEF u
  <2>1. \A b \in Seq(KvTok(RowToks)) : \A h \in 0..Len(b) :
           /\ First(b, h) \in Seq(KvTok(RowToks)) /\ Len(First(b, h)) = h
           /\ \A i \in 1..h : First(b, h)[i] = b[i]
    BY FirstPart
  <2>. QED BY <1>0, <1>1, <2>1
<1>3. Apart(kv, Slots) /\ Fresh(kv, batch, Slots)
  BY <1>0, LinkedFresh DEF Linked
<1>4. Fresh(kv, v, Slots)
  <2>1. \A i \in 1..m : i \in 1..Len(batch)
    BY <1>1
  <2>. QED BY <1>2, <1>3, <2>1 DEF Fresh
<1>5. Roomy(RowToks, kv, v, Slots)
  <2> SUFFICES ASSUME NEW k \in GoodKv(RowToks), NEW h \in 0..(Len(v) - 1), Adds(k, kv, First(v, h), Slots)
               PROVE  k.used < Size
    BY DEF Roomy
  <2>1. h \in 0..Len(batch) /\ h \in 0..m
    BY <1>1, <1>2
  <2>2. First(v, h) = First(batch, h)
    BY <1>0, <1>1, <2>1, FirstOfFirst
  <2>3. Apart(k, Slots) /\ \A s, p, t : Holds(k, s, p, t) <=> Holds(kv, s, p, t) \/ Brings(First(batch, h), s, p, t)
    BY <2>2 DEF Adds
  <2>4. ASSUME NEW s, NEW p, NEW t, Brings(First(batch, h), s, p, t) PROVE Brings(batch, s, p, t)
    <3>1. PICK i \in 1..h : batch[i].seq = s /\ batch[i].pos = p /\ batch[i].tok = t
      BY <1>0, <2>1, <2>4, FirstPart
    <3>2. i \in 1..Len(batch)
      BY <1>1, <2>1
    <3>. QED BY <3>1, <3>2 DEF Brings
  <2>5. ASSUME NEW s \in Slots, NEW p, NEW t, Holds(k, s, p, t) PROVE p \in 0..(NCtx - 2)
    <3>1. Holds(kv, s, p, t) \/ Brings(batch, s, p, t)
      BY <2>3, <2>4, <2>5
    <3>2. Has(slot[s].cache, p, t)
      BY <3>1 DEF Linked, Full
    <3>3. slot[s].cache \in Seq(Toks) /\ Len(slot[s].cache) \in Nat /\ Len(slot[s].cache) <= NCtx - 1
      <4>1. slot[s] \in SlotRec
        BY <1>0
      <4>. QED BY <4>1 DEF SlotRec, InContext
    <3>. QED BY <1>0, <3>2, <3>3 DEF Has
  <2>. QED BY <1>0, <2>3, <2>5, RoomLeft
<1> HIDE DEF v
<1>6. /\ r.ok => Adds(r.kv, kv, v, Slots)
      /\ ~r.ok => \E h \in 0..(Len(v) - 1) : Adds(r.kv, kv, First(v, h), Slots) /\ (u >= Len(v) => h = 0)
      /\ u = 1 \/ Len(v) = 1 => r.ok
  <2>1. r = Decode(kv, v, u)
    BY DEF v
  <2> HIDE DEF u
  <2>2. /\ Decode(kv, v, u).ok => Adds(Decode(kv, v, u).kv, kv, v, Slots)
        /\ ~Decode(kv, v, u).ok => \E h \in 0..(Len(v) - 1) :
              Adds(Decode(kv, v, u).kv, kv, First(v, h), Slots) /\ (u >= Len(v) => h = 0)
        /\ u = 1 \/ Len(v) = 1 => Decode(kv, v, u).ok
    <3>1. NoTok \in RowToks /\ kv \in GoodKv(RowToks) /\ v \in Seq(KvTok(RowToks)) /\ u \in Nat \ {0}
      BY <1>0, <1>2
    <3>. QED BY ONLY <3>1, <1>3, <1>4, <1>5, DecodeAdds
  <2>. QED BY <2>1, <2>2
<1>7. ASSUME ~r.ok, u >= m PROVE Same(r.kv, kv, Slots)
  <2>1. Adds(r.kv, kv, First(v, 0), Slots)
    BY <1>2, <1>6, <1>7
  <2>2. \A s, p, t : ~Brings(First(v, 0), s, p, t)
    <3>1. 0 \in 0..Len(v)
      BY <1>1, <1>2
    <3>2. \A s, p, t : Brings(First(v, 0), s, p, t) <=> \E i \in 1..0 : v[i].seq = s /\ v[i].pos = p /\ v[i].tok = t
      BY <1>2, <3>1, FirstPart
    <3>3. \A i : i \notin 1..0
      OBVIOUS
    <3>. QED BY <3>2, <3>3
  <2>. QED BY <2>1, <2>2 DEF Adds, Same
<1>. QED BY <1>2, <1>6, <1>7 DEF v

\* The last position of a sequence that has one.
LEMMA LastPos ==
    ASSUME NEW k \in GoodKv(RowToks), Apart(k, Slots), NEW s, NEW p0, NEW t0, Holds(k, s, p0, t0)
    PROVE  LET M == SeqPosMax(k, s)
           IN /\ M \in Nat /\ \E t : Holds(k, s, M, t)
              /\ \A p, t : Holds(k, s, p, t) => p <= M
<1> DEFINE H == Held(k, s)
           Q == {k.cells[i].pos : i \in H}
           P == {0} \cup Q
           M == SeqPosMax(k, s)
<1>1. ASSUME NEW i \in H PROVE k.cells[i].pos \in Nat /\ Holds(k, s, k.cells[i].pos, k.rows[i].tok)
  <2>1. i \in Cells /\ k.cells[i].seqs = {s}
    BY HeldAlone
  <2>2. Holds(k, s, k.cells[i].pos, k.rows[i].tok)
    BY <2>1 DEF Holds, Bears
  <2>. QED BY <2>2, HoldsTyped
<1>2. ASSUME NEW p, NEW t, Holds(k, s, p, t) PROVE p \in Q
  <2>1. PICK i \in Cells : Bears(k, i, s, p, t)
    BY <1>2 DEF Holds
  <2>2. i \in H /\ k.cells[i].pos = p
    BY <2>1 DEF Bears, Held
  <2>. QED BY <2>2
<1>3. IsFiniteSet(Q)
  <2>1. IsFiniteSet(H)
    <3>1. H \subseteq Cells
      BY DEF Held
    <3>. QED BY <3>1, CellSets
  <2> DEFINE f == [i \in H |-> k.cells[i].pos]
  <2>2. f \in [H -> Q] /\ \A t \in Q : \E i \in H : f[i] = t
    OBVIOUS
  <2> HIDE DEF f, Q, H
  <2>3. f \in Surjection(H, Q)
    BY <2>2 DEF Surjection
  <2>. QED BY <2>1, <2>3, FS_Surjection
<1>4. Q \subseteq Nat
  BY <1>1
<1>5. p0 \in Q
  BY <1>2
<1>6. M = Max(P)
  BY DEF SeqPosMax
<1>8. ASSUME NEW x \in Q PROVE \E t : Holds(k, s, x, t)
  BY <1>1
<1> HIDE DEF Q, M
<1>7. Max(P) \in P /\ \A x \in P : x <= Max(P)
  <2>1. P \subseteq Int /\ P # {}
    BY <1>4
  <2>3. IsFiniteSet({0})
    BY FS_Singleton
  <2>2. IsFiniteSet(P)
    BY <1>3, <2>3, FS_Union
  <2> HIDE DEF P
  <2>. QED BY <2>1, <2>2, MinMax
<1>9. M \in Q
  <2>1. M \in P /\ p0 <= M /\ p0 \in Nat
    BY <1>4, <1>5, <1>6, <1>7
  <2>2. CASE M = 0
    <3>1. p0 = M
      BY <2>1, <2>2
    <3>. QED BY <1>5, <3>1
  <2>. QED BY <2>1, <2>2
<1>10. \A p, t : Holds(k, s, p, t) => p <= M
  BY <1>2, <1>6, <1>7
<1>. QED BY <1>4, <1>8, <1>9, <1>10 DEF M

\* llama_decode_stop with one slot: the tokens up to the last position are those in the
\* cache.
LEMMA StopLinked ==
    ASSUME SlotInv, Linked(kv, slot, batch), InContext(slot), conf.n_slots = 1, NEW m \in 1..Len(batch),
           NEW k \in GoodKv(RowToks), Adds(k, kv, First(batch, m), Slots),
           NEW g, \A s \in Slots : g[s].cache = SubSeq(slot[s].cache, 1, Min({SeqPosMax(k, s) + 1, Len(slot[s].cache)}))
    PROVE  /\ Linked(k, g, <<>>)
           /\ \A s \in Slots : Len(g[s].cache) <= NCtx - 1
<1> DEFINE rest == SubSeq(batch, m + 1, Len(batch))
<1>0. /\ kv \in GoodKv(RowToks) /\ batch \in Seq(KvTok(RowToks)) /\ slot \in [Slots -> SlotRec] /\ NCtx \in Nat
      /\ m \in 0..Len(batch) /\ Len(batch) \in Nat /\ m \in Nat
  BY SlotKvAssumption DEF SlotInv
<1>1. Linked(k, slot, rest)
  BY <1>0, DecodedLinked
<1> HIDE DEF rest
<1>2. Apart(k, Slots) /\ Ahead(k, rest)
  BY <1>1 DEF Linked
<1>3. ASSUME NEW s \in Slots
      PROVE  /\ Len(g[s].cache) <= NCtx - 1
             /\ \A p, t : Holds(k, s, p, t) <=> Has(g[s].cache, p, t)
  <2> DEFINE c == slot[s].cache
             M == SeqPosMax(k, s)
  <2>1. c \in Seq(Toks) /\ Len(c) \in Nat /\ Len(c) <= NCtx - 1
    <3>1. slot[s] \in SlotRec
      BY <1>0
    <3>. QED BY <3>1 DEF SlotRec, InContext
  <2>2. Slots = {s}
    <3>1. Slots = {0}
      BY DEF Slots
    <3>. QED BY <3>1
  <2>3. \E p, t : Holds(k, s, p, t)
    <3>1. 1 \in 1..Len(batch) /\ 1 \in 1..m
      BY <1>0
    <3>2. batch[1].seq = s
      BY <2>2, <3>1 DEF Linked
    <3>3. Brings(First(batch, m), s, batch[1].pos, batch[1].tok)
      BY <1>0, <3>1, <3>2, FirstPart
    <3>. QED BY <3>3 DEF Adds
  <2>4. /\ M \in Nat /\ \E t : Holds(k, s, M, t)
        /\ \A p, t : Holds(k, s, p, t) => p <= M
    BY <1>2, <2>3, LastPos
  <2>5. g[s].cache = SubSeq(c, 1, Min({M + 1, Len(c)}))
    OBVIOUS
  <2>6. \A p, t : Holds(k, s, p, t) \/ Brings(rest, s, p, t) <=> Has(c, p, t)
    BY <1>1 DEF Linked, Full
  <2> HIDE DEF M, c
  <2>7. M < Len(c) /\ Min({M + 1, Len(c)}) = M + 1
    <3>1. PICK t : Has(c, M, t)
      BY <2>4, <2>6
    <3>2. M < Len(c)
      BY <2>1, <2>4, <3>1 DEF Has
    <3>3. M + 1 \in Int /\ Len(c) \in Int /\ M + 1 <= Len(c)
      BY <2>1, <2>4, <3>2
    <3>. QED BY <3>2, <3>3, MinPair
  <2>8. /\ g[s].cache = SubSeq(c, 1, M + 1) /\ Len(g[s].cache) = M + 1
        /\ \A p, t : Has(g[s].cache, p, t) <=> Has(c, p, t) /\ p < M + 1
    <3>1. M + 1 \in Nat /\ M + 1 <= Len(c)
      BY <2>1, <2>4, <2>7
    <3> DEFINE e == SubSeq(c, 1, M + 1)
    <3>2. Len(e) = M + 1 /\ \A p, t : Has(e, p, t) <=> Has(c, p, t) /\ p < M + 1
      BY <2>1, <3>1, HasPrefix
    <3>3. g[s].cache = e
      BY <2>5, <2>7
    <3>. QED BY <3>2, <3>3
  <2>9. ASSUME NEW p, NEW t PROVE Holds(k, s, p, t) <=> Has(c, p, t) /\ p < M + 1
    <3>1. Has(c, p, t) => p \in Nat
      BY DEF Has
    <3>2. ASSUME Holds(k, s, p, t) PROVE Has(c, p, t) /\ p < M + 1
      <4>1. Has(c, p, t) /\ p <= M
        BY <2>4, <2>6, <3>2
      <4>. QED BY <2>4, <3>1, <4>1
    <3>3. ASSUME Has(c, p, t), p < M + 1, Brings(rest, s, p, t) PROVE FALSE
      <4>1. PICK i \in 1..Len(rest) : rest[i].seq = s /\ rest[i].pos = p
        BY <3>3 DEF Brings
      <4>2. M < p
        BY <1>2, <2>4, <4>1 DEF Ahead
      <4>. QED BY <2>4, <3>1, <3>3, <4>2
    <3>. QED BY <2>6, <3>2, <3>3
  <2>10. Len(g[s].cache) <= NCtx - 1
    BY <1>0, <2>1, <2>4, <2>7, <2>8
  <2>. QED BY <2>8, <2>9, <2>10
<1>. QED BY <1>2, <1>3, LinkedExact

\* The server starts with an empty cache and idle slots.
LEMMA LinkInvInit ==
    ASSUME \A c \in Confs : SafeServer(c), Init PROVE LinkInv
<1>1. /\ conf \in Confs /\ kv = SystemPrompt(EmptyKv, conf) /\ slot = [s \in Slots |-> FreeSlot]
      /\ batch = <<>> /\ refused = FALSE /\ states = <<>> /\ file = NoFile
  BY DEF Init
<1>2. kv = EmptyKv
  <2>1. conf.sys = 0
    BY <1>1 DEF SafeServer
  <2>. QED BY <1>1, <2>1 DEF SystemPrompt
<1>3. \A i \in Cells : kv.cells[i].seqs = {}
  BY <1>2 DEF EmptyKv, FreeCell, Cell
<1>4. Apart(kv, Slots) /\ \A s, p, t : ~Holds(kv, s, p, t)
  BY <1>3, EmptyHolds
<1>5. \A p, t : ~Has(<<>>, p, t)
  BY DEF Has
<1>6. \A s \in Slots : slot[s] = FreeSlot /\ slot[s].cache = <<>> /\ slot[s].st = "idle"
  BY <1>1 DEF FreeSlot
<1>7. Linked(kv, slot, <<>>)
  BY <1>4, <1>5, <1>6, LinkedExact
<1>8. InContext(slot)
  <2>1. Len(<<>>) <= NCtx - 1
    BY SlotKvAssumption
  <2>. QED BY <1>6, <2>1 DEF InContext, Loading
<1>9. NoFile \in Matched
  <2>1. <<>> \in Seq(Toks) /\ <<>> \in Seq(SavedCell(RowToks))
    OBVIOUS
  <2>2. NoFile \in Saved /\ NoFile.toks = <<>> /\ NoFile.blob = <<>>
    BY <2>1 DEF NoFile, Saved
  <2>3. Len(<<>>) <= NCtx - 1
    BY SlotKvAssumption
  <2>4. Distinct(<<>>) /\ \A p, t : ~Keeps(<<>>, p, t)
    <3>1. \A i : i \notin 1..Len(<<>>) /\ i \notin DOMAIN <<>>
      OBVIOUS
    <3>2. Len(<<>>) <= Size
      BY KvCacheAssumption
    <3>. QED BY <3>1, <3>2 DEF Distinct, Keeps
  <2>. QED BY <1>5, <2>2, <2>3, <2>4 DEF Matched, Matches
<1>10. states \in Seq(Matched)
  BY <1>1
<1>. QED BY <1>1, <1>6, <1>7, <1>8, <1>9, <1>10 DEF LinkInv

\* What a slot's record needs to stay in its context.
LEMMA ReleasedIn ==
    ASSUME NEW c PROVE  [FreeSlot EXCEPT !.cache = c].cache = c /\ [FreeSlot EXCEPT !.cache = c].st = "idle"
BY DEF FreeSlot

\* Every step of the server keeps it.
LEMMA LinkInvNext == SlotInv /\ SlotInv' /\ LinkInv /\ SafeServer(conf) /\ [Next]_vars => LinkInv'
<1> SUFFICES ASSUME SlotInv, SlotInv', LinkInv, SafeServer(conf), [Next]_vars PROVE LinkInv'
  OBVIOUS
<1>0. /\ conf \in Confs /\ kv \in GoodKv(RowToks) /\ (batch = <<>> => ~kv.has_shift)
      /\ slot \in [Slots -> SlotRec] /\ batch \in Seq(KvTok(RowToks)) /\ n_batch \in 1..NBatch
      /\ states \in Seq(Saved) /\ file \in Saved
  BY DEF SlotInv
<1>a. /\ Linked(kv, slot, batch) /\ InContext(slot) /\ ~refused
      /\ clean => batch = <<>> /\ \A s \in Slots : slot[s] = FreeSlot
      /\ file \in Matched /\ states \in Seq(Matched)
  BY DEF LinkInv
<1>c. /\ conf.sys = 0 /\ ~conf.early /\ (conf.n_ubatch = 1 \/ conf.n_ubatch >= NBatch)
      /\ (conf.stop => conf.n_slots = 1) /\ (conf.prompt_cache => conf.n_slots = 1)
  BY DEF SafeServer
<1>n. NCtx \in Nat /\ NCtx > 3 /\ NBatch \in Nat \ {0} /\ conf.n_ubatch \in Nat \ {0}
  BY <1>0, SlotKvAssumption, ConfFacts
<1>b. ASSUME conf' = conf, Linked(kv', slot', batch'), InContext(slot'), ~refused',
             clean' => batch' = <<>> /\ \A s \in Slots : slot'[s] = FreeSlot,
             file' \in Matched, states' \in Seq(Matched)
      PROVE  LinkInv'
  <2>1. Slots' = Slots
    BY <1>b DEF Slots
  <2>2. Linked(kv, slot, batch)'
    BY <1>b, <2>1 DEF Linked
  <2>3. InContext(slot)'
    BY <1>b, <2>1 DEF InContext, Loading
  <2>4. (clean => batch = <<>> /\ \A s \in Slots : slot[s] = FreeSlot)'
    BY <1>b, <2>1
  <2>. QED BY <1>b, <2>2, <2>3, <2>4 DEF LinkInv
<1>t. TasksTurn => batch = <<>> /\ ~clean
  BY <1>c DEF TasksTurn
<1>1. ASSUME NEW s \in Slots, NEW p \in conf.prompts, NEW picked \in BOOLEAN, Launch(s, p, picked)
      PROVE  LinkInv'
  <2> DEFINE r == IF picked /\ conf.prompt_cache THEN ReusePrompt(s, p)
                  ELSE [kv |-> kv, cache |-> slot[s].cache, states |-> states]
             x == [st |-> "load", cache |-> r.cache, prompt |-> p, n |-> -1]
  <2>1. /\ TasksTurn /\ kv' = r.kv /\ states' = r.states /\ slot' = [slot EXCEPT ![s] = x]
        /\ conf' = conf /\ batch' = batch /\ refused' = refused /\ file' = file /\ clean' = clean
    BY <1>1 DEF Launch
  <2>2. batch = <<>> /\ ~clean
    BY <1>t, <2>1
  <2>3. /\ slot'[s].cache = r.cache /\ slot'[s].prompt = p /\ slot'[s].n = -1
        /\ \A t \in Slots \ {s} : slot'[t] = slot[t]
    <3> HIDE DEF r
    <3>. QED BY <1>0, <2>1
  <2>4. Linked(r.kv, slot', <<>>) /\ Len(r.cache) <= NCtx - 1 /\ r.states \in Seq(Matched)
    <3>1. CASE picked /\ conf.prompt_cache
      <4>1. r = ReusePrompt(s, p) /\ conf.n_slots = 1
        BY <1>c, <3>1
      <4>2. \A t \in Slots \ {s} : slot'[t].cache = slot[t].cache
        BY <2>3
      <4> HIDE DEF r
      <4>. QED BY <1>a, <2>2, <2>3, <4>1, <4>2, ReuseLinked
    <3>2. CASE ~(picked /\ conf.prompt_cache)
      <4>1. r.kv = kv /\ r.cache = slot[s].cache /\ r.states = states
        BY <3>2
      <4> HIDE DEF r
      <4>2. \A t \in Slots : slot'[t].cache = slot[t].cache
        BY <2>3, <4>1
      <4>3. Linked(kv, slot', batch)
        BY <1>a, <4>2, LinkedTokens
      <4>4. Len(slot[s].cache) <= NCtx - 1
        BY <1>a DEF InContext
      <4>. QED BY <1>a, <2>2, <4>1, <4>3, <4>4
    <3>. QED BY <3>1, <3>2
  <2> HIDE DEF r
  <2>5. InContext(slot')
    <3>1. Loading(slot'[s]) /\ Len(slot'[s].cache) <= NCtx - 1
      BY <2>3, <2>4 DEF Loading
    <3>2. ASSUME NEW t \in Slots \ {s} PROVE Loading(slot'[t]) /\ Len(slot'[t].cache) <= NCtx - 1
      BY <1>a, <2>3 DEF InContext
    <3>. QED BY <3>1, <3>2 DEF InContext
  <2>. QED BY <1>a, <1>b, <2>1, <2>2, <2>4, <2>5
<1>2. ASSUME NEW s \in Slots, Cancel(s) PROVE LinkInv'
  <2>1. /\ TasksTurn /\ slot' = [slot EXCEPT ![s] = [FreeSlot EXCEPT !.cache = slot[s].cache]]
        /\ UNCHANGED <<conf, kv, batch, refused, states, file, clean>>
    BY <1>2 DEF Cancel
  <2>2. \A t \in Slots : slot'[t].cache = slot[t].cache /\ (slot'[t] = slot[t] \/ slot'[t].st = "idle")
    BY <1>0, <2>1, ReleasedIn
  <2>3. Linked(kv, slot', batch)
    BY <1>a, <2>2, LinkedTokens
  <2>4. InContext(slot')
    BY <1>a, <2>2 DEF InContext, Loading
  <2>. QED BY <1>a, <1>b, <1>t, <2>1, <2>3, <2>4
<1>3. ASSUME NEW s \in Slots, Erase(s) PROVE LinkInv'
  <2> DEFINE k == SeqRm(kv, s, -1, -1)
  <2>1. /\ TasksTurn /\ kv' = k /\ slot' = [slot EXCEPT ![s].cache = <<>>]
        /\ UNCHANGED <<conf, batch, refused, states, file, clean>>
    BY <1>3 DEF Erase
  <2>t. batch = <<>> /\ ~clean
    BY <1>t, <2>1
  <2>2. /\ slot'[s].cache = <<>> /\ slot'[s].st = slot[s].st
        /\ \A t \in Slots \ {s} : slot'[t] = slot[t]
    <3>1. slot[s] \in SlotRec
      BY <1>0
    <3>. QED BY <1>0, <2>1, <3>1 DEF SlotRec
  <2>i. slot[s].st = "idle"
    BY <1>3 DEF Erase, Idle
  <2>3. Apart(kv, Slots) /\ \A q \in Slots : \A p, t : Holds(kv, q, p, t) <=> Has(slot[q].cache, p, t)
    <3>1. Linked(kv, slot, <<>>)
      BY <1>a, <2>t
    <3>. QED BY <3>1, LinkedExact
  <2>4. /\ Apart(k, Slots)
        /\ \A q, p, t : Holds(k, q, p, t) <=> Holds(kv, q, p, t) /\ ~(q = s /\ InRange(p, -1, -1))
    BY <1>0, <2>3, SeqRmHolds
  <2> HIDE DEF k
  <2>5. ASSUME NEW q \in Slots, NEW p, NEW t PROVE Holds(k, q, p, t) <=> Has(slot'[q].cache, p, t)
    <3>1. CASE q # s
      BY <2>2, <2>3, <2>4, <3>1
    <3>2. CASE q = s
      <4>1. ~Has(<<>>, p, t)
        BY DEF Has
      <4>2. ASSUME Holds(kv, q, p, t) PROVE InRange(p, -1, -1)
        <5>1. p \in Nat
          BY <1>0, <4>2, HoldsTyped
        <5>. QED BY <5>1 DEF InRange
      <4>. QED BY <2>2, <2>4, <3>2, <4>1, <4>2
    <3>. QED BY <3>1, <3>2
  <2>6. Linked(k, slot', <<>>)
    BY <2>4, <2>5, LinkedExact
  <2>7. InContext(slot')
    <3>0. Len(<<>>) <= NCtx - 1
      BY <1>n
    <3>1. Loading(slot'[s]) /\ Len(slot'[s].cache) <= NCtx - 1
      BY <2>2, <2>i, <3>0 DEF Loading
    <3>2. ASSUME NEW t \in Slots \ {s} PROVE Loading(slot'[t]) /\ Len(slot'[t].cache) <= NCtx - 1
      BY <1>a, <2>2 DEF InContext
    <3>. QED BY <3>1, <3>2 DEF InContext
  <2>. QED BY <1>a, <1>b, <2>1, <2>t, <2>6, <2>7
<1>4. ASSUME NEW s \in Slots, Save(s) PROVE LinkInv'
  <2>1. /\ TasksTurn /\ file' = [toks |-> slot[s].cache, blob |-> SeqState(kv, s)]
        /\ UNCHANGED <<conf, kv, slot, batch, refused, states, clean>>
    BY <1>4 DEF Save
  <2>2. file' \in Matched
    BY <1>a, <1>t, <2>1, SavedMatches
  <2>. QED BY <1>a, <1>b, <1>t, <2>1, <2>2
<1>5. ASSUME NEW s \in Slots, Restore(s) PROVE LinkInv'
  <2> DEFINE set == SetSeqState(kv, s, file.blob)
             c == IF set.ok THEN file.toks ELSE <<>>
  <2>1. /\ TasksTurn /\ kv' = set.kv /\ slot' = [slot EXCEPT ![s].cache = c]
        /\ UNCHANGED <<conf, batch, refused, states, file, clean>>
    BY <1>5 DEF Restore
  <2>t. batch = <<>> /\ ~clean
    BY <1>t, <2>1
  <2>i. slot[s].st = "idle"
    BY <1>5 DEF Restore, Idle
  <2>2. /\ slot'[s].cache = c /\ slot'[s].st = slot[s].st
        /\ \A t \in Slots \ {s} : slot'[t] = slot[t]
    <3>1. slot[s] \in SlotRec
      BY <1>0
    <3> HIDE DEF c
    <3>. QED BY <1>0, <2>1, <3>1 DEF SlotRec
  <2>3. Linked(set.kv, slot', <<>>)
    <3>1. \A t \in Slots \ {s} : slot'[t].cache = slot[t].cache
      BY <2>2
    <3> HIDE DEF set
    <3>2. \A r : r = set => Linked(r.kv, slot', <<>>)
      BY <1>a, <2>t, <2>2, <3>1, RestoreLinked DEF set
    <3>. QED BY <3>2
  <2>4. InContext(slot')
    <3>0. Len(<<>>) <= NCtx - 1 /\ Len(file.toks) <= NCtx - 1
      BY <1>a, <1>n DEF Matched, Matches
    <3> HIDE DEF set
    <3>1. Loading(slot'[s]) /\ Len(slot'[s].cache) <= NCtx - 1
      BY <2>2, <2>i, <3>0 DEF Loading
    <3>2. ASSUME NEW t \in Slots \ {s} PROVE Loading(slot'[t]) /\ Len(slot'[t].cache) <= NCtx - 1
      BY <1>a, <2>2 DEF InContext
    <3>. QED BY <3>1, <3>2 DEF InContext
  <2> HIDE DEF set
  <2>. QED BY <1>a, <1>b, <2>1, <2>t, <2>3, <2>4
<1>6. ASSUME UpdateSlots PROVE LinkInv'
  <2>1. PICK sampled \in [Generating -> Sampled] :
           kv' = Pass(sampled).kv /\ slot' = Pass(sampled).slot /\ batch' = Pass(sampled).batch
    BY <1>6 DEF UpdateSlots
  <2>2. /\ batch = <<>> /\ refused' = FALSE /\ UNCHANGED <<conf, states, file, clean>>
        /\ \E s \in Slots : slot[s].st # "idle"
    BY <1>6 DEF UpdateSlots, Idle
  <2>3. Sound(Pass(sampled))
    BY <1>a, <1>c, <2>2, PassSound
  <2>4. Linked(kv', slot', batch') /\ InContext(slot')
    BY <2>1, <2>3 DEF Sound
  <2>5. ~clean
    BY <1>a, <2>2 DEF FreeSlot
  <2>. QED BY <1>a, <1>b, <2>2, <2>4, <2>5
<1>7. ASSUME IdlePass PROVE LinkInv'
  <2>1. /\ batch = <<>> /\ clean /\ kv' = Clear(kv) /\ clean' = FALSE
        /\ UNCHANGED <<conf, slot, batch, refused, states, file>>
    BY <1>7 DEF IdlePass
  <2>2. Apart(Clear(kv), Slots) /\ \A s, p, t : ~Holds(Clear(kv), s, p, t)
    BY <1>0, ClearHolds DEF GoodKv
  <2>3. \A s \in Slots : slot[s].cache = <<>>
    BY <1>a, <2>1 DEF FreeSlot
  <2>4. \A p, t : ~Has(<<>>, p, t)
    BY DEF Has
  <2>5. Linked(Clear(kv), slot, <<>>)
    BY <2>2, <2>3, <2>4, LinkedExact
  <2>. QED BY <1>a, <1>b, <2>1, <2>5
<1>v. ASSUME batch # <<>>
      PROVE  /\ ViewLen \in 1..Len(batch) /\ ViewLen <= NBatch /\ ViewLen <= n_batch
             /\ SubSeq(batch, 1, ViewLen) = First(batch, ViewLen) /\ ~clean
             /\ Len(First(batch, ViewLen)) = ViewLen
  <2>1. ViewLen \in 1..Len(batch) /\ Len(SubSeq(batch, 1, ViewLen)) = ViewLen
    BY <1>v, ViewFacts
  <2>2. ViewLen <= n_batch
    <3>1. n_batch \in Int /\ Len(batch) \in Int
      BY <1>0, <1>n
    <3>. QED BY <3>1, MinPair DEF ViewLen
  <2>3. ViewLen <= NBatch
    BY <1>0, <1>n, <2>1, <2>2
  <2>. QED BY <1>a, <1>v, <2>1, <2>2, <2>3 DEF First
<1>8. ASSUME NEW fin \in SUBSET Slots, DecodeView(fin) PROVE LinkInv'
  <2> DEFINE m == ViewLen
             r == Decode(kv, First(batch, m), conf.n_ubatch)
  <2>1. batch # <<>>
    BY <1>8 DEF DecodeView
  <2>2. m \in 1..Len(batch) /\ SubSeq(batch, 1, ViewLen) = First(batch, m) /\ ~clean
    BY <1>v, <2>1
  <2>3. /\ r.ok /\ kv' = [r.kv EXCEPT !.do_defrag = @ \/ Fragmented(r.kv)]
        /\ slot' = [s \in Slots |-> IF s \in fin THEN [FreeSlot EXCEPT !.cache = slot[s].cache] ELSE slot[s]]
        /\ batch' = SubSeq(batch, m + 1, Len(batch)) /\ UNCHANGED <<conf, refused, states, file, clean>>
    BY <1>8, <2>2 DEF DecodeView
  <2> HIDE DEF m
  <2>4. Adds(r.kv, kv, First(batch, m), Slots)
    <3>1. \A d : d = r => (d.ok => Adds(d.kv, kv, First(batch, m), Slots))
      BY <1>a, <2>2, ViewAdds
    <3> HIDE DEF r
    <3>. QED BY <2>3, <3>1
  <2>5. r.kv \in GoodKv(RowToks)
    <3>1. First(batch, m) \in Seq(KvTok(RowToks)) /\ Len(First(batch, m)) >= 1
      <4>1. m \in 0..Len(batch)
        BY <2>2
      <4>2. First(batch, m) \in Seq(KvTok(RowToks)) /\ Len(First(batch, m)) = m
        BY <1>0, <4>1, FirstPart
      <4>. QED BY <2>2, <4>2
    <3>2. Decode(kv, First(batch, m), conf.n_ubatch) \in [ok : BOOLEAN, kv : GoodKv(RowToks)]
      BY <3>1, ViewGood
    <3>. QED BY <3>2
  <2> HIDE DEF r
  <2>6. Linked(r.kv, slot, SubSeq(batch, m + 1, Len(batch)))
    <3>1. m \in 0..Len(batch)
      BY <2>2
    <3>. QED BY <1>0, <1>a, <2>4, <3>1, DecodedLinked
  <2>7. Same(kv', r.kv, Slots)
    <3>1. kv'.cells = r.kv.cells /\ kv'.rows = r.kv.rows
      BY <2>3, <2>5 DEF GoodKv, Kv
    <3>2. Alike(kv', r.kv)
      BY <3>1 DEF Alike
    <3>. QED BY <2>4, <3>2, AlikeSame DEF Adds
  <2>8. Linked(kv', slot, batch')
    BY <2>3, <2>6, <2>7, LinkedSame
  <2>9. \A t \in Slots : slot'[t].cache = slot[t].cache /\ (slot'[t] = slot[t] \/ slot'[t].st = "idle")
    BY <2>3, ReleasedIn
  <2>10. Linked(kv', slot', batch')
    BY <2>8, <2>9, LinkedTokens
  <2>11. InContext(slot')
    BY <1>a, <2>9 DEF InContext, Loading
  <2>. QED BY <1>a, <1>b, <2>2, <2>3, <2>10, <2>11
<1>9. ASSUME NEW k \in 1..NBatch, StopDecode(k) PROVE LinkInv'
  <2> DEFINE v == First(batch, ViewLen)
             n == k * conf.n_ubatch
             m == Min({n, Len(v)})
             r == Decode(kv, First(batch, m), conf.n_ubatch)
  <2>1. batch # <<>> /\ conf.stop
    BY <1>9 DEF StopDecode
  <2>2. ViewLen \in 1..Len(batch) /\ SubSeq(batch, 1, ViewLen) = v /\ ~clean /\ Len(v) = ViewLen
    BY <1>v, <2>1
  <2>3. m \in 1..Len(batch) /\ m \in 0..ViewLen
    <3>1. n \in Nat /\ n >= 1
      BY <1>n
    <3> HIDE DEF n
    <3>2. m = IF n <= ViewLen THEN n ELSE ViewLen
      <4>1. n \in Int /\ ViewLen \in Int
        BY <2>2, <3>1
      <4> HIDE DEF v
      <4>. QED BY <2>2, <4>1, MinPair
    <3> HIDE DEF m
    <3>. QED BY <2>2, <3>1, <3>2
  <2>4. First(First(batch, ViewLen), m) = First(batch, m)
    <3>1. ViewLen \in 0..Len(batch)
      BY <2>2
    <3> HIDE DEF m
    <3>. QED BY <1>0, <2>3, <3>1, FirstOfFirst
  <2>5. /\ r.ok /\ kv' = r.kv /\ batch' = <<>> /\ UNCHANGED <<conf, refused, states, file, clean>>
        /\ slot' = [s \in Slots |-> [FreeSlot EXCEPT !.cache =
              SubSeq(slot[s].cache, 1, Min({SeqPosMax(r.kv, s) + 1, Len(slot[s].cache)}))]]
    <3>1. SubSeq(v, 1, m) = First(batch, m)
      BY <2>4 DEF First
    <3>. QED BY <1>9, <2>2, <3>1 DEF StopDecode
  <2> HIDE DEF m
  <2>6. Adds(r.kv, kv, First(batch, m), Slots)
    <3>1. \A d : d = r => (d.ok => Adds(d.kv, kv, First(batch, m), Slots))
      BY <1>a, <2>3, ViewAdds
    <3> HIDE DEF r
    <3>. QED BY <2>5, <3>1
  <2>7. r.kv \in GoodKv(RowToks)
    <3>1. First(batch, m) \in Seq(KvTok(RowToks)) /\ Len(First(batch, m)) >= 1
      <4>1. m \in 0..Len(batch)
        BY <2>3
      <4>2. First(batch, m) \in Seq(KvTok(RowToks)) /\ Len(First(batch, m)) = m
        BY <1>0, <4>1, FirstPart
      <4>. QED BY <2>3, <4>2
    <3>2. Decode(kv, First(batch, m), conf.n_ubatch) \in [ok : BOOLEAN, kv : GoodKv(RowToks)]
      BY <3>1, ViewGood
    <3>. QED BY <3>2
  <2> HIDE DEF r, v
  <2>8. \A s \in Slots : /\ slot'[s].st = "idle"
                         /\ slot'[s].cache = SubSeq(slot[s].cache, 1, Min({SeqPosMax(r.kv, s) + 1, Len(slot[s].cache)}))
    BY <2>5, ReleasedIn
  <2>9. Linked(r.kv, slot', <<>>) /\ \A s \in Slots : Len(slot'[s].cache) <= NCtx - 1
    BY <1>a, <1>c, <2>1, <2>3, <2>6, <2>7, <2>8, StopLinked
  <2>10. InContext(slot')
    BY <2>8, <2>9 DEF InContext, Loading
  <2>. QED BY <1>a, <1>b, <2>2, <2>5, <2>9, <2>10
<1>10. ASSUME DecodeFails PROVE LinkInv'
  <2> DEFINE m == ViewLen
             r == Decode(kv, First(batch, m), conf.n_ubatch)
  <2>1. batch # <<>>
    BY <1>10 DEF DecodeFails
  <2>2. m \in 1..Len(batch) /\ SubSeq(batch, 1, ViewLen) = First(batch, m) /\ ~clean /\ m <= NBatch /\ m <= n_batch
    BY <1>v, <2>1
  <2>3. /\ ~r.ok /\ kv' = r.kv /\ refused' = (n_batch = 1)
        /\ batch' = IF refused' THEN <<>> ELSE batch
        /\ slot' = IF refused' THEN [s \in Slots |-> [FreeSlot EXCEPT !.cache = slot[s].cache]] ELSE slot
        /\ UNCHANGED <<conf, states, file, clean>>
    BY <1>10, <2>2 DEF DecodeFails
  <2> HIDE DEF m
  <2>4. /\ ~r.ok /\ conf.n_ubatch >= m => Same(r.kv, kv, Slots)
        /\ conf.n_ubatch = 1 \/ m = 1 => r.ok
    <3>1. \A d : d = r => /\ d.ok => Adds(d.kv, kv, First(batch, m), Slots)
                          /\ ~d.ok /\ conf.n_ubatch >= m => Same(d.kv, kv, Slots)
                          /\ conf.n_ubatch = 1 \/ m = 1 => d.ok
      BY <1>a, <2>2, ViewAdds
    <3> HIDE DEF r
    <3>. QED BY <3>1
  <2> HIDE DEF r
  <2>5. m # 1 /\ conf.n_ubatch # 1
    BY <2>3, <2>4
  <2>6. n_batch # 1 /\ conf.n_ubatch >= m
    BY <1>0, <1>c, <1>n, <2>2, <2>5
  <2>7. ~refused' /\ batch' = batch /\ slot' = slot
    BY <2>3, <2>6
  <2>8. Linked(kv', slot, batch)
    BY <1>a, <2>3, <2>4, <2>6, LinkedSame
  <2>. QED BY <1>a, <1>b, <2>2, <2>3, <2>7, <2>8
<1>11. ASSUME UNCHANGED vars PROVE LinkInv'
  BY <1>a, <1>b, <1>11 DEF vars
<1>. QED BY <1>1, <1>2, <1>3, <1>4, <1>5, <1>6, <1>7, <1>8, <1>9, <1>10, <1>11 DEF Next

\* What is linked and within the context has the types the module promises.
LEMMA LinkedTyped == ASSUME SlotInv, LinkInv PROVE TypeOK
<1>0. /\ conf \in Confs /\ kv \in GoodKv(RowToks) /\ kv \in Kv(RowToks) /\ CellsExact(kv)
      /\ slot \in [Slots -> SlotRec] /\ n_batch \in 1..NBatch
      /\ Linked(kv, slot, batch) /\ InContext(slot)
  BY DEF SlotInv, LinkInv, GoodKv
<1>1. /\ NCtx \in Nat /\ NCtx > 3 /\ Size \in Nat /\ NCtx <= Size /\ conf.n_slots \in Nat \ {0}
  <2>1. /\ NCtx \in Nat /\ NCtx > 3 /\ Size \in Nat /\ conf.n_slots \in Nat \ {0} /\ conf.n_slots * NCtx <= Size
    BY <1>0, SlotKvAssumption, KvCacheAssumption
  <2>2. \A a, b \in Nat : a >= 1 => b <= a * b
    OBVIOUS
  <2>3. conf.n_slots * NCtx \in Nat /\ NCtx <= conf.n_slots * NCtx
    BY <2>1, <2>2
  <2>. QED BY <2>1, <2>3
<1>2. Slots \subseteq 0..conf.n_slots
  BY <1>1 DEF Slots
<1>3. ASSUME NEW s \in Slots PROVE slot[s].st \in {"idle", "load", "gen"} /\ slot[s].cache \in Seq(Toks)
                                   /\ Len(slot[s].cache) \in Nat /\ Len(slot[s].cache) <= NCtx - 1
  <2>1. slot[s] \in SlotRec
    BY <1>0
  <2>. QED BY <1>0, <2>1 DEF SlotRec, InContext
<1>4. ASSUME NEW i \in Cells PROVE kv.cells[i] \in [pos : -1..Size, seqs : SUBSET (0..conf.n_slots), delta : Int]
  <2>1. /\ kv.cells[i] \in KvCell /\ kv.cells[i].pos \in KvPos
        /\ kv.cells[i].seqs \in SUBSET Int /\ kv.cells[i].delta \in Int
    <3>1. kv.cells[i] \in KvCell
      BY <1>0, KvFields
    <3>. QED BY <3>1 DEF KvCell
  <2>2. kv.cells[i].pos \in -1..Size /\ kv.cells[i].seqs \in SUBSET (0..conf.n_slots)
    <3>1. CASE kv.cells[i].seqs = {}
      <4>1. ~(kv.cells[i].pos >= 0)
        BY <1>0, <3>1 DEF CellsExact
      <4>2. kv.cells[i].pos = -1
        BY <2>1, <4>1 DEF KvPos
      <4>. QED BY <1>1, <3>1, <4>2
    <3>2. CASE kv.cells[i].seqs # {}
      <4>1. PICK s \in Slots : kv.cells[i].seqs = {s}
        BY <1>0, <3>2 DEF Linked, Apart, InUse
      <4>2. Holds(kv, s, kv.cells[i].pos, kv.rows[i].tok)
        BY <4>1 DEF Holds, Bears
      <4>3. Has(slot[s].cache, kv.cells[i].pos, kv.rows[i].tok)
        BY <1>0, <4>2 DEF Linked, Full
      <4>4. kv.cells[i].pos \in 0..(Len(slot[s].cache) - 1)
        BY <4>3 DEF Has
      <4>5. kv.cells[i].pos \in -1..Size
        BY <1>1, <1>3, <4>4
      <4>. QED BY <1>2, <4>1, <4>5
    <3>. QED BY <3>1, <3>2
  <2>. QED BY <2>1, <2>2 DEF KvCell
<1>5. /\ kv.cells \in [Cells -> [pos : -1..Size, seqs : SUBSET (0..conf.n_slots), delta : Int]]
      /\ kv.rows \in [Cells -> Row] /\ kv.head \in 0..Size /\ kv.used \in 0..Size
  <2>1. kv.cells \in [Cells -> KvCell] /\ kv.rows \in [Cells -> KvRow(RowToks)] /\ kv.head \in 0..Size
    BY <1>0, KvFields
  <2>2. KvRow(RowToks) = Row
    BY DEF KvRow, RowToks, Row
  <2>3. kv.used \in 0..Size
    BY <1>0, InUseFinite DEF CellsExact
  <2>4. kv.cells \in [Cells -> [pos : -1..Size, seqs : SUBSET (0..conf.n_slots), delta : Int]]
    <3> DEFINE C == [pos : -1..Size, seqs : SUBSET (0..conf.n_slots), delta : Int]
    <3>1. \A i \in Cells : kv.cells[i] \in C
      BY <1>4
    <3> HIDE DEF C
    <3>2. kv.cells \in [Cells -> C]
      BY <2>1, <3>1
    <3>. QED BY <3>2 DEF C
  <2>. QED BY <2>1, <2>2, <2>3, <2>4
<1>6. \A s \in Slots : Len(slot[s].cache) <= NCtx
  BY <1>1, <1>3
<1>. QED BY <1>0, <1>3, <1>5, <1>6 DEF TypeOK

\* The invariant holds in every behaviour.
LEMMA LinkAlways ==
    ASSUME \A c \in Confs : SafeServer(c) PROVE Spec => [](SlotInv /\ LinkInv)
<1>1. Init => SlotInv /\ LinkInv
  BY SlotInvInit, LinkInvInit
<1>2. SlotInv /\ LinkInv /\ [Next]_vars => (SlotInv /\ LinkInv)'
  <2>1. SlotInv => SafeServer(conf)
    BY DEF SlotInv
  <2>. QED BY <2>1, SlotInvNext, LinkInvNext
<1>. QED BY <1>1, <1>2, PTL DEF Spec

\* The tokens a slot counts as computed are in the KV cache, each once and at its position,
\* and a generating slot has nothing beyond them: for any number of slots and cells, any
\* prompts and sampled tokens, through context shifts (discard_n_kv_and_cache_tokens), the
\* reuse of a common prefix (batch_pending_prompt), decodes in views of any size, slot files,
\* and, with one slot, the prompt cache and stopped decodes.
THEOREM TokensInKv ==
    ASSUME \A c \in Confs : SafeServer(c) PROVE Spec => []CacheTokensInKv
<1>1. SlotInv /\ LinkInv => CacheTokensInKv
  <2>1. SlotInv => conf.sys = 0
    BY DEF SlotInv, SafeServer
  <2>. QED BY <2>1, LinkedInKv DEF LinkInv
<1>. QED BY <1>1, LinkAlways, PTL

\* No batch is refused with "KV cache is full" while the slots share a cache of n_slots
\* contexts: process_batch_tokens halves the view until find_slot has room, however the free
\* cells are scattered, and a single token always has room because every slot leaves a cell
\* of its context free.
THEOREM BatchesFit ==
    ASSUME \A c \in Confs : SafeServer(c) PROVE Spec => []NeverRefused
<1>1. SlotInv /\ LinkInv => NeverRefused
  BY LinkedTyped DEF LinkInv, NeverRefused
<1>. QED BY <1>1, LinkAlways, PTL
=============================================================================
