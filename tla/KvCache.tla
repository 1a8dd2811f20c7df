------------------------------ MODULE KvCache ------------------------------
(***************************************************************************)
(* The KV cache of src/llama.cpp for models with one cell per token (not   *)
(* recurrent, not compacted).  A cache is a record                         *)
(*   cells      cell i: pos (-1 = free), the sequences that own it, and    *)
(*              the pending K-shift delta                                  *)
(*   rows       row i of the K/V tensors: the token it was computed from   *)
(*              and the position its K is rotated to (RoPE)                *)
(*   head, used, has_shift, disordered, do_defrag   as in the struct.      *)
(* Every operation of the C API is an operator from cache to cache; a cell *)
(* and its row live at the same index but move by different code.          *)
(***************************************************************************)
EXTENDS Integers, Sequences, FiniteSets, FiniteSetsExt

CONSTANTS Size,      \* number of cells (n_ctx)
          MaxMoves   \* block moves one defragmentation may make (max_moves)

ASSUME KvCacheAssumption == Size \in Nat \ {0} /\ MaxMoves \in Nat \ {0}

Cells == 0 .. Size - 1

NoTok == "none"

Cell(pos, seqs, delta) == [pos |-> pos, seqs |-> seqs, delta |-> delta]

FreeCell == Cell(-1, {}, 0)

NoRow == [tok |-> NoTok, rope |-> 0]

EmptyKv == [cells |-> [i \in Cells |-> FreeCell],
            rows |-> [i \in Cells |-> NoRow],
            head |-> 0, used |-> 0,
            has_shift |-> FALSE, disordered |-> FALSE, do_defrag |-> FALSE]

\* the k-th smallest number of a set
Nth(S, k) == CHOOSE i \in S : Cardinality({j \in S : j < i}) = k - 1

\* p1 < 0 means "to the end".
InRange(pos, p0, p1) == pos >= (IF p0 < 0 THEN 0 ELSE p0) /\ (p1 < 0 \/ pos < p1)

Held(kv, s) == {i \in Cells : s \in kv.cells[i].seqs}

SeqPosMax(kv, s) == Max({0} \cup {kv.cells[i].pos : i \in Held(kv, s)})

CellMax(kv) == Max({0} \cup {i + 1 : i \in {j \in Cells : kv.cells[j].pos >= 0 /\ kv.cells[j].seqs # {}}})

\* Nothing reads the row of a free cell before it is written again, so what is left
\* in it is not told apart.
Forget(kv) == [kv EXCEPT !.rows = [i \in Cells |-> IF kv.cells[i].seqs = {} THEN NoRow ELSE @[i]]]

\* deltas and pending shifts survive a clear, as in the code
Clear(kv) == [kv EXCEPT !.cells = [i \in Cells |-> Cell(-1, {}, @[i].delta)],
                        !.rows = EmptyKv.rows,
                        !.head = 0, !.used = 0, !.disordered = FALSE]

\* Mutant: `used` counts the cells the sequence left, not the cells that got free.
SeqRmCountsHits(kv, s, p0, p1) ==
  LET hit == {i \in Held(kv, s) : InRange(kv.cells[i].pos, p0, p1)}
  IN Forget([kv EXCEPT
        !.cells = [i \in Cells |-> IF i \notin hit THEN @[i]
                                  ELSE Cell(-1, @[i].seqs \ {s}, @[i].delta)],
        !.used = @ - (IF p0 > 0 THEN 0 ELSE Cardinality(hit))])

\* llama_kv_cache_seq_rm of one sequence (seq_id >= 0).
SeqRm(kv, s, p0, p1) ==
  LET hit == {i \in Held(kv, s) : InRange(kv.cells[i].pos, p0, p1)}
      freed == {i \in hit : kv.cells[i].seqs = {s}}
  IN Forget([kv EXCEPT
        !.cells = [i \in Cells |->
                     IF i \in freed THEN Cell(-1, {}, @[i].delta)
                     ELSE IF i \in hit THEN Cell(@[i].pos, @[i].seqs \ {s}, @[i].delta) ELSE @[i]],
        !.used = @ - Cardinality(freed),
        !.head = IF freed = {} THEN @ ELSE Min({@, Min(freed)})])

\* llama_kv_cache_seq_cp: the destination shares the source's cells.
SeqCp(kv, src, dst, p0, p1) ==
  [kv EXCEPT !.head = 0,
             !.cells = [i \in Cells |->
                          IF i \in Held(kv, src) /\ InRange(kv.cells[i].pos, p0, p1)
                          THEN Cell(@[i].pos, @[i].seqs \cup {dst}, @[i].delta) ELSE @[i]]]

\* Mutant: the shift does not note that the cells are out of order.
SeqAddUnflagged(kv, s, p0, p1, delta) ==
  LET hit == {i \in Held(kv, s) : InRange(kv.cells[i].pos, p0, p1)}
  IN [kv EXCEPT !.cells = [i \in Cells |-> IF i \in hit THEN Cell(@[i].pos + delta, @[i].seqs, @[i].delta + delta)
                                           ELSE @[i]],
                !.has_shift = @ \/ hit # {},
                !.head = 0]

\* llama_kv_cache_seq_add: positions move now, the K rows at the next update.
\* A position that falls below zero frees its cell.
SeqAdd(kv, s, p0, p1, delta) ==
  LET hit == {i \in Held(kv, s) : InRange(kv.cells[i].pos, p0, p1)}
      freed == {i \in hit : kv.cells[i].pos + delta < 0}
  IN IF p0 = p1 \/ delta = 0 THEN kv
     ELSE Forget([kv EXCEPT
             !.cells = [i \in Cells |->
                          IF i \in freed
                          THEN Cell(-1, {}, @[i].delta + delta)
                          ELSE IF i \in hit
                          THEN Cell(@[i].pos + delta, @[i].seqs, @[i].delta + delta)
                          ELSE @[i]],
             !.has_shift = @ \/ hit # {},
             !.disordered = @ \/ hit # {},
             !.used = @ - Cardinality(freed),
             !.head = IF freed = {} THEN 0 ELSE Min(freed)])

(***************************************************************************)
(* llama_kv_cache_find_slot: a run of Len(batch) free cells, searched from *)
(* head with one wrap around; the head moves even when the search fails.   *)
(* A token of the batch is [tok, pos, seq].                                *)
(***************************************************************************)
UsedIn(kv, h, n) == {i \in 0 .. n - 1 : kv.cells[h + i].pos >= 0}

\* Mutant: the search does not start over at cell 0.
ScanNoWrap(kv, n) ==
  LET free == {h \in kv.head .. Size - n : UsedIn(kv, h, n) = {}}
  IN IF free = {} THEN [ok |-> FALSE, head |-> 0] ELSE [ok |-> TRUE, head |-> Min(free)]

\* One round of the search: it starts over at the end of the cache, ends on a free
\* run, or goes on behind the first used cell until it has tested Size cells.
ScanStep(kv, n, t) ==
  IF t.done THEN t
  ELSE IF t.head + n > Size THEN [t EXCEPT !.head = 0, !.tested = @ + Size - t.head]
  ELSE IF UsedIn(kv, t.head, n) = {} THEN [t EXCEPT !.ok = TRUE, !.done = TRUE]
  ELSE LET i == Min(UsedIn(kv, t.head, n)) + 1
       IN [t EXCEPT !.head = @ + i, !.tested = @ + i, !.done = t.tested + i >= Size]

\* the head where the search ends, and whether it ends on a free run; a round tests
\* a cell or starts over, which it does at most twice
ScanFrom(kv, n) ==
  LET Scan[k \in 0 .. Size + 3] ==
        IF k = 0 THEN [head |-> kv.head, tested |-> 0, ok |-> FALSE, done |-> FALSE]
        ELSE ScanStep(kv, n, Scan[k - 1])
  IN Scan[Size + 3]

FindSlot(kv, batch) ==
  LET n == Len(batch)
      at == ScanFrom(kv, n)
      new == at.head .. at.head + n - 1
      ordered == [kv EXCEPT !.disordered = @ /\ kv.used # 0]
      tok(i) == batch[i - at.head + 1]
  IN IF n > Size THEN [ok |-> FALSE, kv |-> kv]
     ELSE IF ~at.ok THEN [ok |-> FALSE, kv |-> [ordered EXCEPT !.head = at.head]]
     ELSE [ok |-> TRUE,
           kv |-> [ordered EXCEPT
                     !.head = at.head,
                     !.used = @ + n,
                     !.cells = [i \in Cells |->
                                  IF i \in new
                                  THEN Cell(tok(i).pos, @[i].seqs \cup {tok(i).seq}, @[i].delta)
                                  ELSE @[i]]]]

\* The rows a batch, or a restored state, leaves in the cells found for it.
WriteRows(kv, rows) ==
  [kv EXCEPT !.rows = [i \in Cells |->
                         IF i - kv.head \in 0 .. Len(rows) - 1
                         THEN rows[i - kv.head + 1] ELSE @[i]]]

(***************************************************************************)
(* llama_kv_cache_defrag_internal: each hole below n_used is filled, in    *)
(* ascending order, with the last cells in use.  Consecutive sources are   *)
(* one move; after MaxMoves moves the rest of the hole stays open.         *)
(***************************************************************************)
InUse(kv) == {i \in Cells : kv.cells[i].seqs # {}}

HoleAt(kv, n_used) == Min({i \in 0 .. n_used - 1 : kv.cells[i].seqs = {}})

HoleSize(kv, n_used) ==
  LET h == HoleAt(kv, n_used)
  IN Max({n \in 1 .. n_used - h : \A i \in h .. h + n - 1 : kv.cells[i].seqs = {}})

\* the n last cells in use above the hole
Sources(kv, n, hole) == {i \in InUse(kv) : i > hole /\ Cardinality({j \in InUse(kv) : j > i}) < n}

\* number of blocks the sources up to i belong to
BlocksUpTo(src, i) == Cardinality({j \in src : j <= i /\ j - 1 \notin src})

FillHole(d) ==
  LET hole == HoleAt(d.kv, d.n_used)
      all == Sources(d.kv, HoleSize(d.kv, d.n_used), hole)
      src == {i \in all : d.moves + BlocksUpTo(all, i) <= MaxMoves}
      dest(i) == hole + Cardinality({j \in src : j < i})
      from(k) == CHOOSE i \in src : dest(i) = k
      dests == {dest(i) : i \in src}
      moves == d.moves + BlocksUpTo(src, Max(src))
  IN [kv |-> [d.kv EXCEPT
                !.cells = [k \in Cells |-> IF k \in dests THEN @[from(k)]
                                           ELSE IF k \in src THEN FreeCell ELSE @[k]],
                !.rows = [k \in Cells |-> IF k \in dests THEN @[from(k)] ELSE @[k]],
                !.head = d.n_used,
                !.disordered = TRUE],
      n_used |-> d.n_used, moves |-> moves, stop |-> src # all \/ moves = MaxMoves]

Defrag(kv) ==
  LET Fill[k \in 0 .. Size] ==
        IF k = 0 THEN [kv |-> kv, n_used |-> kv.used, moves |-> 0, stop |-> FALSE]
        ELSE LET d == Fill[k - 1]
             IN IF d.stop \/ \A i \in 0 .. d.n_used - 1 : d.kv.cells[i].seqs # {}
                THEN d ELSE FillHole(d)
  IN Forget([Fill[Size].kv EXCEPT !.do_defrag = FALSE])

\* Mutant: the rows are rotated, the deltas stay.
KShiftTwice(kv) ==
  [kv EXCEPT !.has_shift = FALSE,
             !.rows = [i \in Cells |-> [tok |-> @[i].tok, rope |-> @[i].rope + kv.cells[i].delta]]]

\* llama_kv_cache_update_internal: first the K-shift, then the defragmentation.
KShift(kv) ==
  IF ~kv.has_shift THEN kv
  ELSE [kv EXCEPT !.has_shift = FALSE,
                  !.rows = [i \in Cells |-> [tok |-> @[i].tok, rope |-> @[i].rope + kv.cells[i].delta]],
                  !.cells = [i \in Cells |-> Cell(@[i].pos, @[i].seqs, 0)]]

Update(kv) == LET k == KShift(kv) IN IF k.do_defrag THEN Defrag(k) ELSE k

(***************************************************************************)
(* llama_decode_internal, as far as the cache goes: per micro-batch the    *)
(* pending updates, the head heuristic, a slot, the rows.  A micro-batch   *)
(* without a slot ends the call with 1; the ones before it stay.           *)
(***************************************************************************)
ResetHead(kv, n) == IF kv.head > kv.used + 2 * n THEN [kv EXCEPT !.head = 0] ELSE kv

\* "Ensure kv cache head points to a valid index."
AdvanceHead(kv, n) == [kv EXCEPT !.head = IF @ + n >= Size THEN 0 ELSE @ + n]

DecodeUbatch(kv, ub) ==
  LET found == FindSlot(ResetHead(Update(kv), Len(ub)), ub)
      rows == [i \in 1 .. Len(ub) |-> [tok |-> ub[i].tok, rope |-> ub[i].pos]]
  IN IF ~found.ok THEN found
     ELSE [ok |-> TRUE, kv |-> AdvanceHead(WriteRows(found.kv, rows), Len(ub))]

Decode(kv, batch, n_ubatch) ==
  LET Chunk(k) == SubSeq(batch, (k - 1) * n_ubatch + 1, Min({k * n_ubatch, Len(batch)}))
      Run[k \in 0 .. Len(batch)] ==
        IF k = 0 THEN [ok |-> TRUE, kv |-> kv]
        ELSE LET r == Run[k - 1]
             IN IF ~r.ok \/ (k - 1) * n_ubatch >= Len(batch) THEN r
                ELSE DecodeUbatch(r.kv, Chunk(k))
  IN Run[Len(batch)]

(***************************************************************************)
(* State of one sequence: write_kv_cache saves position and row of its     *)
(* cells in cell order; read_kv_cache removes the destination's cells and  *)
(* needs one contiguous run for all the saved ones.                        *)
(***************************************************************************)
SeqState(kv, s) ==
  LET held == Held(kv, s)
  IN [k \in 1 .. Cardinality(held) |->
        [pos |-> kv.cells[Nth(held, k)].pos, row |-> kv.rows[Nth(held, k)]]]

SetSeqState(kv, s, blob) ==
  LET n == Len(blob)
      cleared == SeqRm(kv, s, -1, -1)
      found == FindSlot(cleared, [k \in 1 .. n |-> [tok |-> NoTok, pos |-> blob[k].pos, seq |-> s]])
      falling == \E k \in 2 .. n : blob[k].pos < blob[k - 1].pos
  IN IF n > Size THEN [ok |-> FALSE, kv |-> SeqRm(kv, s, -1, -1)]
     ELSE IF n = 0 THEN [ok |-> TRUE, kv |-> cleared]
     ELSE IF ~found.ok THEN [ok |-> FALSE, kv |-> SeqRm(found.kv, s, -1, -1)]
     ELSE [ok |-> TRUE,
           kv |-> WriteRows([found.kv EXCEPT !.disordered = @ \/ falling],
                            [k \in 1 .. n |-> blob[k].row])]
=============================================================================
