---------------------------- MODULE KvCacheProofs ----------------------------
(***************************************************************************)
(* What the operations of the KV cache keep, for every size, any batch and *)
(* any sequence of calls: `used` counts the cells in use, a cell has a     *)
(* position exactly while a sequence owns it, and the K row of a cell in   *)
(* use is rotated to the cell's position but for the pending shift.  What  *)
(* find_slot returns: a free run whenever there is one.  And what a cache  *)
(* holds, as a relation of sequences, positions and tokens, where cells do *)
(* not matter: what each operation adds to it, removes or moves, and that  *)
(* a decode adds the tokens of its batch.                                  *)
(***************************************************************************)
EXTENDS KvCache, Induction, SequenceTheorems

-----------------------------------------------------------------------------
(* Sets of cells                                                            *)

\* The k-th smallest number is one of the set, with k - 1 below it.
LEMMA NthRank ==
    ASSUME NEW S, S \subseteq Int, IsFiniteSet(S), NEW k \in 1..Cardinality(S)
    PROVE  Nth(S, k) \in S /\ Cardinality(Below(S, Nth(S, k))) = k - 1
<1> DEFINE n == Cardinality(S)
           rank == [i \in S |-> Cardinality(Below(S, i))]
<1>0. n \in Nat
  BY FS_CardinalityType
<1>1. rank \in [S -> 0..(n - 1)]
  <2>1. ASSUME NEW i \in S PROVE Cardinality(Below(S, i)) \in 0..(n - 1)
    <3>1. i \in Int /\ Cardinality(Below(S, i)) \in Nat /\ Cardinality(Below(S, i)) < n
      BY Ranks
    <3>. QED BY <1>0, <3>1
  <2>. QED BY <2>1
<1>2. ASSUME NEW i \in S, NEW j \in S, rank[i] = rank[j] PROVE i = j
  <2>1. i \in Int /\ j \in Int /\ Cardinality(Below(S, i)) = Cardinality(Below(S, j))
    BY <1>2
  <2>2. Cardinality(Below(S, i)) \in Nat
    BY <2>1, Ranks
  <2>3. i < j => Cardinality(Below(S, i)) < Cardinality(Below(S, j))
    BY <2>1, Ranks
  <2>4. j < i => Cardinality(Below(S, j)) < Cardinality(Below(S, i))
    BY <2>1, Ranks
  <2>. QED BY <2>1, <2>2, <2>3, <2>4
<1>3. rank \in Injection(S, 0..(n - 1))
  BY <1>1, <1>2 DEF Injection, IsInjective
<1>4. IsFiniteSet(0..(n - 1)) /\ Cardinality(0..(n - 1)) = n
  <2> HIDE DEF n
  <2>1. n - 1 \in Int
    BY <1>0
  <2>. QED BY <1>0, <2>1, FS_Interval
<1>5. rank \in Surjection(S, 0..(n - 1))
  <2> HIDE DEF rank
  <2>. QED BY <1>3, <1>4, FS_Injection
<1>6. PICK i \in S : rank[i] = k - 1
  <2>1. k - 1 \in 0..(n - 1)
    BY <1>0
  <2> HIDE DEF rank, n
  <2>. QED BY <1>5, <2>1 DEF Surjection
<1>7. Cardinality({j \in S : j < i}) = k - 1
  BY <1>6 DEF Below
<1>. QED BY <1>7 DEF Nth, Below

LEMMA NthIn ==
    ASSUME NEW S, S \subseteq Int, IsFiniteSet(S), NEW k \in 1..Cardinality(S)
    PROVE  Nth(S, k) \in S
BY NthRank

\* Every number of a set is the k-th smallest for one k.
LEMMA NthOnto ==
    ASSUME NEW S, S \subseteq Int, IsFiniteSet(S), NEW i \in S
    PROVE  \E k \in 1..Cardinality(S) : Nth(S, k) = i
<1> DEFINE k == Cardinality(Below(S, i)) + 1
<1>1. Cardinality(S) \in Nat /\ i \in Int
  BY FS_CardinalityType
<1>2. Cardinality(Below(S, i)) \in Nat /\ Cardinality(Below(S, i)) < Cardinality(S)
  BY <1>1, Ranks
<1>3. k \in 1..Cardinality(S) /\ k - 1 = Cardinality(Below(S, i))
  BY <1>1, <1>2
<1> HIDE DEF k
<1> DEFINE j == Nth(S, k)
<1>4. j \in S /\ Cardinality(Below(S, j)) = k - 1
  BY <1>3, NthRank
<1> HIDE DEF j
<1>5. j \in Int
  BY <1>4
<1>6. i < j => Cardinality(Below(S, i)) < Cardinality(Below(S, j))
  BY <1>1, <1>4, <1>5, Ranks
<1>7. j < i => Cardinality(Below(S, j)) < Cardinality(Below(S, i))
  BY <1>1, <1>4, <1>5, Ranks
<1>8. i = j
  BY <1>1, <1>2, <1>3, <1>4, <1>5, <1>6, <1>7
<1>. QED BY <1>3, <1>8 DEF j

\* The n largest numbers of a finite set are n.
LEMMA TopCount ==
    ASSUME NEW S, S \subseteq Int, IsFiniteSet(S), NEW n \in 0..Cardinality(S)
    PROVE  Cardinality({i \in S : Cardinality(Above(S, i)) < n}) = n
<1> DEFINE m == Cardinality(S)
           rank == [i \in S |-> Cardinality(Above(S, i))]
           top == {i \in S : Cardinality(Above(S, i)) < n}
           part == [i \in top |-> Cardinality(Above(S, i))]
<1>0. m \in Nat /\ n \in Nat /\ n <= m
  BY FS_CardinalityType
<1>1. ASSUME NEW i \in S PROVE i \in Int /\ Cardinality(Above(S, i)) \in Nat /\ Cardinality(Above(S, i)) < m
  BY Ranks
<1>2. ASSUME NEW i \in S, NEW j \in S, Cardinality(Above(S, i)) = Cardinality(Above(S, j)) PROVE i = j
  <2>1. i < j => Cardinality(Above(S, j)) < Cardinality(Above(S, i))
    BY <1>1, Ranks
  <2>2. j < i => Cardinality(Above(S, i)) < Cardinality(Above(S, j))
    BY <1>1, Ranks
  <2>. QED BY <1>1, <1>2, <2>1, <2>2
<1>3. rank \in Injection(S, 0..(m - 1))
  <2>1. rank \in [S -> 0..(m - 1)]
    BY <1>0, <1>1
  <2>. QED BY <1>2, <2>1 DEF Injection, IsInjective
<1>4. \A k \in Nat : IsFiniteSet(0..(k - 1)) /\ Cardinality(0..(k - 1)) = k
  <2> TAKE k \in Nat
  <2>1. k - 1 \in Int
    OBVIOUS
  <2>. QED BY <2>1, FS_Interval
<1>5. rank \in Surjection(S, 0..(m - 1))
  <2> HIDE DEF rank
  <2>. QED BY <1>0, <1>3, <1>4, FS_Injection
<1>6. part \in [top -> 0..(n - 1)]
  <2>1. ASSUME NEW i \in top PROVE Cardinality(Above(S, i)) \in 0..(n - 1)
    <3>1. Cardinality(Above(S, i)) \in Nat /\ Cardinality(Above(S, i)) < n
      BY <1>1
    <3>. QED BY <1>0, <3>1
  <2> HIDE DEF top
  <2>. QED BY <2>1
<1>7. \A k \in 0..(n - 1) : \E i \in top : part[i] = k
  <2> TAKE k \in 0..(n - 1)
  <2>1. k \in 0..(m - 1)
    BY <1>0
  <2>2. PICK i \in S : rank[i] = k
    <3> HIDE DEF rank
    <3>. QED BY <1>5, <2>1 DEF Surjection
  <2>3. i \in top /\ part[i] = k
    BY <2>2
  <2>. QED BY <2>3
<1>8. part \in Injection(top, 0..(n - 1))
  <2>1. \A i, j \in top : part[i] = part[j] => i = j
    BY <1>2
  <2>. QED BY <1>6, <2>1 DEF Injection, IsInjective
<1>9. IsFiniteSet(top)
  <2>1. top \subseteq S
    OBVIOUS
  <2> HIDE DEF top
  <2>. QED BY <2>1, FS_Subset
<1>10. part \in Surjection(top, 0..(n - 1))
  <2> HIDE DEF part, top
  <2>. QED BY <1>6, <1>7 DEF Surjection
<1> HIDE DEF part, top
<1>11. Cardinality(0..(n - 1)) = Cardinality(top)
  BY <1>8, <1>9, <1>10, FS_Surjection
<1>. QED BY <1>0, <1>4, <1>11 DEF top

\* Finite sets of numbers: a part of an interval.
LEMMA CellSets ==
    ASSUME NEW S, S \subseteq Cells
    PROVE  IsFiniteSet(S) /\ Cardinality(S) \in Nat /\ Cardinality(S) <= Size
<1>1. IsFiniteSet(Cells) /\ Cardinality(Cells) = Size
  BY KvCacheAssumption, FS_Interval DEF Cells
<1>. QED BY <1>1, FS_Subset, FS_CardinalityType

-----------------------------------------------------------------------------
(* The caches the operations work on: T are the tokens a row may hold.      *)

\* A free cell is at position -1.
KvPos == Nat \cup {-1}

KvCell == [pos : KvPos, seqs : SUBSET Int, delta : Int]
KvRow(T) == [tok : T, rope : Int]

Kv(T) == [cells : [Cells -> KvCell], rows : [Cells -> KvRow(T)], head : 0..Size, used : Int,
          has_shift : BOOLEAN, disordered : BOOLEAN, do_defrag : BOOLEAN]

\* A cell has a position exactly while a sequence owns it, and `used` counts
\* those cells.
CellsExact(kv) ==
    /\ \A i \in Cells : (kv.cells[i].pos >= 0) <=> (kv.cells[i].seqs # {})
    /\ kv.used = Cardinality(InUse(kv))

\* A delta is pending only while has_shift says so.
ShiftNoted(kv) == \A i \in Cells : kv.cells[i].delta # 0 => kv.has_shift

\* The row of a cell in use is rotated to its position but for the pending delta.
RowsAt(kv) == \A i \in InUse(kv) : kv.rows[i].rope + kv.cells[i].delta = kv.cells[i].pos

GoodKv(T) == {kv \in Kv(T) : CellsExact(kv) /\ ShiftNoted(kv) /\ RowsAt(kv)}

\* A record with the fields of a cache is one.
LEMMA KvRecord ==
    ASSUME NEW T, NEW c \in [Cells -> KvCell], NEW r \in [Cells -> KvRow(T)], NEW h \in 0..Size,
           NEW u \in Int, NEW s \in BOOLEAN, NEW d \in BOOLEAN, NEW f \in BOOLEAN
    PROVE  [cells |-> c, rows |-> r, head |-> h, used |-> u,
            has_shift |-> s, disordered |-> d, do_defrag |-> f] \in Kv(T)
BY DEF Kv

\* The fields of a cache.
LEMMA KvFields ==
    ASSUME NEW T, NEW kv \in Kv(T)
    PROVE  /\ kv.cells \in [Cells -> KvCell] /\ kv.rows \in [Cells -> KvRow(T)]
           /\ kv.head \in 0..Size /\ kv.used \in Int
           /\ kv.has_shift \in BOOLEAN /\ kv.disordered \in BOOLEAN /\ kv.do_defrag \in BOOLEAN
BY DEF Kv

\* The fields of a cell.
LEMMA CellFields ==
    ASSUME NEW p \in KvPos, NEW q \in SUBSET Int, NEW d \in Int
    PROVE  /\ Cell(p, q, d) \in KvCell
           /\ Cell(p, q, d).pos = p /\ Cell(p, q, d).seqs = q /\ Cell(p, q, d).delta = d
BY DEF Cell, KvCell

\* The cells of a cache.
LEMMA CellTyped ==
    ASSUME NEW T, NEW kv \in Kv(T), NEW i \in Cells
    PROVE  /\ kv.cells[i] \in KvCell /\ kv.cells[i].pos \in KvPos /\ kv.cells[i].pos \in Int
           /\ kv.cells[i].seqs \in SUBSET Int
           /\ kv.cells[i].delta \in Int
           /\ kv.rows[i] \in KvRow(T) /\ kv.rows[i].rope \in Int /\ kv.rows[i].tok \in T
<1>1. kv.cells[i] \in KvCell /\ kv.rows[i] \in KvRow(T)
  BY KvFields
<1>. QED BY <1>1 DEF KvCell, KvPos, KvRow

\* The cells in use are finitely many.
LEMMA InUseFinite ==
    ASSUME NEW kv PROVE IsFiniteSet(InUse(kv)) /\ Cardinality(InUse(kv)) \in 0..Size
<1>1. InUse(kv) \subseteq Cells
  BY DEF InUse
<1>. QED BY <1>1, CellSets, KvCacheAssumption

\* An empty cache is good.
LEMMA EmptyGood ==
    ASSUME NEW T, NoTok \in T PROVE EmptyKv \in GoodKv(T) /\ ~EmptyKv.has_shift
<1>1. [i \in Cells |-> FreeCell] \in [Cells -> KvCell] /\ [i \in Cells |-> NoRow] \in [Cells -> KvRow(T)]
  BY DEF FreeCell, Cell, KvCell, KvPos, NoRow, KvRow
<1>2. EmptyKv \in Kv(T)
  BY <1>1, KvCacheAssumption DEF EmptyKv, Kv
<1>3. \A i \in Cells : EmptyKv.cells[i] = FreeCell
  BY DEF EmptyKv
<1>4. InUse(EmptyKv) = {}
  BY <1>3 DEF InUse, FreeCell, Cell
<1>5. EmptyKv.used = 0 /\ ~EmptyKv.has_shift
  BY DEF EmptyKv
<1>6. CellsExact(EmptyKv)
  BY <1>3, <1>4, <1>5, FS_EmptySet DEF CellsExact, FreeCell, Cell
<1>7. ShiftNoted(EmptyKv) /\ RowsAt(EmptyKv)
  BY <1>3, <1>4 DEF ShiftNoted, RowsAt, FreeCell, Cell
<1>. QED BY <1>2, <1>5, <1>6, <1>7 DEF GoodKv

\* Forgetting the rows of free cells changes nothing else.
LEMMA ForgetGood ==
    ASSUME NEW T, NoTok \in T, NEW kv \in GoodKv(T)
    PROVE  Forget(kv) \in GoodKv(T) /\ Forget(kv).has_shift = kv.has_shift
<1> DEFINE k == Forget(kv)
           r == [i \in Cells |-> IF kv.cells[i].seqs = {} THEN NoRow ELSE kv.rows[i]]
<1>1. kv \in Kv(T)
  BY DEF GoodKv
<1>2. k = [cells |-> kv.cells, rows |-> r, head |-> kv.head, used |-> kv.used,
           has_shift |-> kv.has_shift, disordered |-> kv.disordered, do_defrag |-> kv.do_defrag]
  BY <1>1 DEF Forget, Kv
<1>3. r \in [Cells -> KvRow(T)]
  BY <1>1, KvFields DEF NoRow, KvRow
<1>4. k \in Kv(T)
  BY <1>1, <1>2, <1>3, KvFields, KvRecord
<1>5. k.cells = kv.cells /\ k.used = kv.used /\ k.has_shift = kv.has_shift /\ k.rows = r
  BY <1>2
<1>6. InUse(k) = InUse(kv)
  BY <1>5 DEF InUse
<1>7. \A i \in InUse(kv) : k.rows[i] = kv.rows[i]
  BY <1>5 DEF InUse
<1>8. CellsExact(k) /\ ShiftNoted(k) /\ RowsAt(k)
  BY <1>5, <1>6, <1>7 DEF GoodKv, CellsExact, ShiftNoted, RowsAt
<1>. QED BY <1>4, <1>5, <1>8 DEF GoodKv

\* llama_kv_cache_clear keeps the pending shift.
LEMMA ClearGood ==
    ASSUME NEW T, NoTok \in T, NEW kv \in GoodKv(T)
    PROVE  Clear(kv) \in GoodKv(T) /\ Clear(kv).has_shift = kv.has_shift
<1> DEFINE k == Clear(kv)
           c == [i \in Cells |-> Cell(-1, {}, kv.cells[i].delta)]
<1>1. kv \in Kv(T)
  BY DEF GoodKv
<1>2. k = [cells |-> c, rows |-> EmptyKv.rows, head |-> 0, used |-> 0,
           has_shift |-> kv.has_shift, disordered |-> FALSE, do_defrag |-> kv.do_defrag]
  <2>1. k = [kv EXCEPT !.cells = c, !.rows = EmptyKv.rows, !.head = 0, !.used = 0,
                       !.disordered = FALSE]
    BY DEF Clear
  <2> HIDE DEF c, k
  <2>. QED BY <1>1, <2>1 DEF Kv
<1>3. ASSUME NEW i \in Cells
      PROVE  /\ c[i] \in KvCell /\ c[i].pos = -1 /\ c[i].seqs = {}
             /\ c[i].delta = kv.cells[i].delta
  <2>1. c[i] = Cell(-1, {}, kv.cells[i].delta)
    OBVIOUS
  <2>2. kv.cells[i].delta \in Int /\ -1 \in KvPos /\ {} \in SUBSET Int
    BY <1>1, CellTyped DEF KvPos
  <2> HIDE DEF c
  <2>. QED BY <2>1, <2>2, CellFields
<1>4. EmptyKv.rows \in [Cells -> KvRow(T)]
  BY DEF EmptyKv, NoRow, KvRow
<1>5. k \in Kv(T)
  <2>1. c \in [Cells -> KvCell]
    BY <1>3
  <2> HIDE DEF c, k
  <2>. QED BY <1>1, <1>2, <1>4, <2>1, KvFields, KvCacheAssumption DEF Kv
<1>6. k.cells = c /\ k.used = 0 /\ k.has_shift = kv.has_shift
  <2> HIDE DEF c, k
  <2>. QED BY <1>2
<1>7. InUse(k) = {}
  BY <1>3, <1>6 DEF InUse
<1> HIDE DEF c, k
<1>8. CellsExact(k)
  BY <1>3, <1>6, <1>7, FS_EmptySet DEF CellsExact
<1>9. ShiftNoted(k) /\ RowsAt(k)
  BY <1>3, <1>6, <1>7 DEF GoodKv, ShiftNoted, RowsAt
<1>. QED BY <1>5, <1>6, <1>8, <1>9 DEF GoodKv, k

\* llama_kv_cache_seq_rm: `used` goes down by the cells that got free, whichever
\* sequences share the others.
LEMMA SeqRmGood ==
    ASSUME NEW T, NoTok \in T, NEW kv \in GoodKv(T), NEW s \in Int, NEW p0, NEW p1
    PROVE  SeqRm(kv, s, p0, p1) \in GoodKv(T) /\ SeqRm(kv, s, p0, p1).has_shift = kv.has_shift
<1> DEFINE hit == {i \in Held(kv, s) : InRange(kv.cells[i].pos, p0, p1)}
           freed == {i \in hit : kv.cells[i].seqs = {s}}
           c == [i \in Cells |->
                   IF i \in freed THEN Cell(-1, {}, kv.cells[i].delta)
                   ELSE IF i \in hit THEN Cell(kv.cells[i].pos, kv.cells[i].seqs \ {s}, kv.cells[i].delta) ELSE kv.cells[i]]
           h == IF freed = {} THEN kv.head ELSE Min({kv.head, Min(freed)})
           u == kv.used - Cardinality(freed)
           k == [kv EXCEPT !.cells = c, !.used = u, !.head = h]
<1>1. kv \in Kv(T)
  BY DEF GoodKv
<1>2. SeqRm(kv, s, p0, p1) = Forget(k)
  BY DEF SeqRm
<1>3. freed \subseteq hit /\ hit \subseteq Cells
  BY DEF Held
<1>4. ASSUME NEW i \in Cells
      PROVE  /\ c[i] \in KvCell /\ c[i].delta = kv.cells[i].delta
             /\ i \in freed => c[i].pos = -1 /\ c[i].seqs = {} /\ kv.cells[i].seqs # {}
             /\ i \notin freed => /\ c[i].pos = kv.cells[i].pos
                                  /\ c[i].seqs = {} <=> kv.cells[i].seqs = {}
  <2>1. /\ kv.cells[i] \in KvCell /\ kv.cells[i].pos \in KvPos /\ kv.cells[i].seqs \in SUBSET Int
        /\ kv.cells[i].delta \in Int /\ -1 \in KvPos /\ {} \in SUBSET Int
    BY <1>1, CellTyped DEF KvPos
  <2>2. CASE i \in freed
    <3>1. c[i] = Cell(-1, {}, kv.cells[i].delta)
      BY <2>2
    <3>2. kv.cells[i].seqs # {}
      BY <2>2
    <3> HIDE DEF c, freed
    <3>. QED BY <2>1, <2>2, <3>1, <3>2, CellFields
  <2>3. CASE i \notin freed /\ i \in hit
    <3>1. s \in kv.cells[i].seqs /\ kv.cells[i].seqs # {s}
      BY <2>3 DEF Held
    <3>2. c[i] = Cell(kv.cells[i].pos, kv.cells[i].seqs \ {s}, kv.cells[i].delta)
      BY <2>3
    <3>3. kv.cells[i].seqs \ {s} \in SUBSET Int
      BY <2>1
    <3>4. kv.cells[i].seqs \ {s} # {} /\ kv.cells[i].seqs # {}
      BY <3>1
    <3> HIDE DEF c, freed, hit
    <3>5. /\ c[i] \in KvCell /\ c[i].pos = kv.cells[i].pos /\ c[i].seqs = kv.cells[i].seqs \ {s}
          /\ c[i].delta = kv.cells[i].delta
      BY <2>1, <3>2, <3>3, CellFields
    <3>. QED BY <2>3, <3>4, <3>5
  <2>4. CASE i \notin freed /\ i \notin hit
    BY <2>1, <2>4
  <2>. QED BY <2>2, <2>3, <2>4
<1>5. h \in 0..Size
  <2>1. CASE freed = {}
    BY <1>1, <2>1, KvFields
  <2>2. CASE freed # {}
    <3>1. freed \subseteq Int /\ IsFiniteSet(freed)
      BY <1>3, CellSets, KvCacheAssumption DEF Cells
    <3>2. Min(freed) \in Cells
      <4> HIDE DEF freed
      <4>. QED BY <1>3, <2>2, <3>1, MinMax
    <3>3. kv.head \in 0..Size /\ Min(freed) \in 0..Size
      BY <1>1, <3>2, KvFields, KvCacheAssumption DEF Cells
    <3>5. Min({kv.head, Min(freed)}) \in {kv.head, Min(freed)}
      <4> HIDE DEF freed
      <4>1. kv.head \in Int /\ Min(freed) \in Int
        BY <3>3, KvCacheAssumption
      <4>. QED BY <4>1, MinPair
    <3>. QED BY <2>2, <3>3, <3>5
  <2>. QED BY <2>1, <2>2
<1>6. IsFiniteSet(freed) /\ Cardinality(freed) \in Nat
  BY <1>3, CellSets
<1>7. k \in Kv(T)
  <2>1. c \in [Cells -> KvCell]
    BY <1>4
  <2>2. u \in Int
    BY <1>1, <1>6, KvFields
  <2> HIDE DEF c, h, u
  <2>. QED BY <1>1, <1>5, <2>1, <2>2 DEF Kv
<1>8. k.cells = c /\ k.used = u /\ k.has_shift = kv.has_shift /\ k.rows = kv.rows
  <2> HIDE DEF c, h, u
  <2>. QED BY <1>1 DEF Kv
<1> HIDE DEF k, c, h, freed, hit
<1>9. InUse(k) = InUse(kv) \ freed
  BY <1>4, <1>8 DEF InUse
<1>10. freed \subseteq InUse(kv)
  BY <1>3, <1>4 DEF InUse
<1>11. Cardinality(InUse(k)) = Cardinality(InUse(kv)) - Cardinality(freed)
  BY <1>6, <1>9, <1>10, InUseFinite, CardSplit
<1>12. CellsExact(k)
  BY <1>4, <1>8, <1>11 DEF GoodKv, CellsExact
<1>13. ShiftNoted(k) /\ RowsAt(k)
  BY <1>4, <1>8, <1>9 DEF GoodKv, ShiftNoted, RowsAt, InUse
<1>14. k \in GoodKv(T)
  BY <1>7, <1>12, <1>13 DEF GoodKv
<1>. QED BY <1>2, <1>8, <1>14, ForgetGood

\* llama_kv_cache_seq_cp: the destination shares cells that are in use anyway.
LEMMA SeqCpGood ==
    ASSUME NEW T, NoTok \in T, NEW kv \in GoodKv(T), NEW src, NEW dst \in Int, NEW p0, NEW p1
    PROVE  SeqCp(kv, src, dst, p0, p1) \in GoodKv(T)
           /\ SeqCp(kv, src, dst, p0, p1).has_shift = kv.has_shift
<1> DEFINE hit == {i \in Cells : i \in Held(kv, src) /\ InRange(kv.cells[i].pos, p0, p1)}
           c == [i \in Cells |-> IF i \in Held(kv, src) /\ InRange(kv.cells[i].pos, p0, p1)
                                 THEN Cell(kv.cells[i].pos, kv.cells[i].seqs \cup {dst}, kv.cells[i].delta)
                                 ELSE kv.cells[i]]
           k == [kv EXCEPT !.head = 0, !.cells = c]
<1>1. kv \in Kv(T)
  BY DEF GoodKv
<1>2. SeqCp(kv, src, dst, p0, p1) = k
  BY DEF SeqCp
<1>3. ASSUME NEW i \in Cells
      PROVE  /\ c[i] \in KvCell /\ c[i].delta = kv.cells[i].delta /\ c[i].pos = kv.cells[i].pos
             /\ c[i].seqs = {} <=> kv.cells[i].seqs = {}
  <2>1. /\ kv.cells[i] \in KvCell /\ kv.cells[i].pos \in KvPos /\ kv.cells[i].seqs \in SUBSET Int
        /\ kv.cells[i].delta \in Int
    BY <1>1, CellTyped
  <2>2. CASE i \in hit
    <3>1. c[i] = Cell(kv.cells[i].pos, kv.cells[i].seqs \cup {dst}, kv.cells[i].delta)
      BY <2>2
    <3>2. kv.cells[i].seqs \cup {dst} \in SUBSET Int /\ kv.cells[i].seqs # {}
      BY <2>1, <2>2 DEF Held
    <3> HIDE DEF c, hit
    <3>. QED BY <2>1, <3>1, <3>2, CellFields
  <2>3. CASE i \notin hit
    BY <2>1, <2>3
  <2>. QED BY <2>2, <2>3
<1>4. k \in Kv(T)
  <2>1. c \in [Cells -> KvCell] /\ 0 \in 0..Size
    BY <1>3, KvCacheAssumption
  <2> HIDE DEF c
  <2>. QED BY <1>1, <2>1 DEF Kv
<1>5. k.cells = c /\ k.used = kv.used /\ k.has_shift = kv.has_shift /\ k.rows = kv.rows
  <2> HIDE DEF c
  <2>. QED BY <1>1 DEF Kv
<1> HIDE DEF k, c
<1>6. InUse(k) = InUse(kv)
  BY <1>3, <1>5 DEF InUse
<1>7. CellsExact(k) /\ ShiftNoted(k) /\ RowsAt(k)
  <2>1. CellsExact(k)
    BY <1>3, <1>5, <1>6 DEF GoodKv, CellsExact
  <2>2. ShiftNoted(k)
    BY <1>3, <1>5 DEF GoodKv, ShiftNoted
  <2>3. RowsAt(k)
    BY <1>3, <1>5, <1>6 DEF GoodKv, RowsAt, InUse
  <2>. QED BY <2>1, <2>2, <2>3
<1>. QED BY <1>2, <1>4, <1>5, <1>7 DEF GoodKv

\* llama_kv_cache_seq_add: the delta of a cell grows with its position, and cells
\* that fall below zero are counted as freed.
LEMMA SeqAddGood ==
    ASSUME NEW T, NoTok \in T, NEW kv \in GoodKv(T), NEW s \in Int, NEW p0, NEW p1, NEW delta \in Int
    PROVE  /\ SeqAdd(kv, s, p0, p1, delta) \in GoodKv(T)
           /\ SeqAdd(kv, s, p0, p1, delta).has_shift \in BOOLEAN
<1> DEFINE hit == {i \in Held(kv, s) : InRange(kv.cells[i].pos, p0, p1)}
           freed == {i \in hit : kv.cells[i].pos + delta < 0}
           c == [i \in Cells |->
                   IF i \in freed THEN Cell(-1, {}, kv.cells[i].delta + delta)
                   ELSE IF i \in hit
                   THEN Cell(kv.cells[i].pos + delta, kv.cells[i].seqs, kv.cells[i].delta + delta)
                   ELSE kv.cells[i]]
           b == kv.has_shift \/ hit # {}
           d == kv.disordered \/ hit # {}
           u == kv.used - Cardinality(freed)
           h == IF freed = {} THEN 0 ELSE Min(freed)
           k == [kv EXCEPT !.cells = c, !.has_shift = b, !.disordered = d, !.used = u, !.head = h]
<1>1. kv \in Kv(T)
  BY DEF GoodKv
<1>2. SeqAdd(kv, s, p0, p1, delta) = IF p0 = p1 \/ delta = 0 THEN kv ELSE Forget(k)
  BY DEF SeqAdd
<1>3. freed \subseteq hit /\ hit \subseteq Cells
  BY DEF Held
<1>4. ASSUME NEW i \in Cells
      PROVE  /\ c[i] \in KvCell
             /\ i \in freed => c[i].pos = -1 /\ c[i].seqs = {} /\ kv.cells[i].seqs # {}
             /\ i \notin freed /\ i \in hit =>
                    /\ c[i].pos = kv.cells[i].pos + delta /\ c[i].pos >= 0 /\ c[i].seqs # {}
                    /\ c[i].delta = kv.cells[i].delta + delta /\ kv.cells[i].seqs # {}
             /\ i \notin hit => c[i] = kv.cells[i]
  <2>1. /\ kv.cells[i] \in KvCell /\ kv.cells[i].pos \in Int /\ kv.cells[i].seqs \in SUBSET Int
        /\ kv.cells[i].delta \in Int /\ -1 \in Int /\ {} \in SUBSET Int
    BY <1>1, CellTyped
  <2>2. kv.cells[i].delta + delta \in Int /\ kv.cells[i].pos + delta \in Int
    BY <2>1
  <2>3. CASE i \in freed
    <3>1. c[i] = Cell(-1, {}, kv.cells[i].delta + delta)
      BY <2>3
    <3>2. kv.cells[i].seqs # {} /\ i \in hit
      BY <2>3 DEF Held
    <3> HIDE DEF c, freed, hit
    <3>. QED BY <2>1, <2>2, <2>3, <3>1, <3>2, CellFields DEF KvPos
  <2>4. CASE i \notin freed /\ i \in hit
    <3>1. c[i] = Cell(kv.cells[i].pos + delta, kv.cells[i].seqs, kv.cells[i].delta + delta)
      BY <2>4
    <3>2. kv.cells[i].seqs # {} /\ kv.cells[i].pos + delta >= 0
      BY <2>1, <2>4 DEF Held
    <3> HIDE DEF c, freed, hit
    <3>. QED BY <2>1, <2>2, <2>4, <3>1, <3>2, CellFields DEF KvPos
  <2>5. CASE i \notin freed /\ i \notin hit
    <3>1. c[i] = kv.cells[i]
      BY <2>5
    <3> HIDE DEF c, freed, hit
    <3>. QED BY <2>1, <2>5, <3>1
  <2>. QED BY <2>3, <2>4, <2>5
<1>5. h \in 0..Size
  <2>1. CASE freed = {}
    BY <2>1, KvCacheAssumption
  <2>2. CASE freed # {}
    <3>1. freed \subseteq Int /\ IsFiniteSet(freed)
      BY <1>3, CellSets, KvCacheAssumption DEF Cells
    <3>2. Min(freed) \in Cells
      <4> HIDE DEF freed
      <4>. QED BY <1>3, <2>2, <3>1, MinMax
    <3>. QED BY <2>2, <3>2, KvCacheAssumption DEF Cells
  <2>. QED BY <2>1, <2>2
<1>6. IsFiniteSet(freed) /\ Cardinality(freed) \in Nat
  BY <1>3, CellSets
<1>7. k \in Kv(T)
  <2>1. c \in [Cells -> KvCell] /\ b \in BOOLEAN /\ d \in BOOLEAN
    BY <1>4
  <2>2. u \in Int
    BY <1>1, <1>6, KvFields
  <2> HIDE DEF c, h, u, b, d
  <2>. QED BY <1>1, <1>5, <2>1, <2>2 DEF Kv
<1>8. k.cells = c /\ k.used = u /\ k.has_shift = b /\ k.rows = kv.rows
  <2>1. b \in BOOLEAN /\ d \in BOOLEAN
    OBVIOUS
  <2> HIDE DEF c, h, u, b, d
  <2>. QED BY <1>1, <2>1 DEF Kv
<1>9. b <=> (kv.has_shift \/ hit # {})
  OBVIOUS
<1> HIDE DEF k, c, h, b, d, freed, hit
<1>10. InUse(k) = InUse(kv) \ freed
  BY <1>3, <1>4, <1>8 DEF InUse
<1>11. freed \subseteq InUse(kv)
  BY <1>3, <1>4 DEF InUse
<1>12. Cardinality(InUse(k)) = Cardinality(InUse(kv)) - Cardinality(freed)
  BY <1>6, <1>10, <1>11, InUseFinite, CardSplit
<1>13. CellsExact(k)
  <2>1. ASSUME NEW i \in Cells PROVE (c[i].pos >= 0) <=> (c[i].seqs # {})
    BY <1>3, <1>4 DEF GoodKv, CellsExact
  <2>. QED BY <1>8, <1>12, <2>1 DEF GoodKv, CellsExact
<1>14. ShiftNoted(k)
  <2>1. ASSUME NEW i \in Cells, c[i].delta # 0 PROVE b
    BY <1>3, <1>4, <1>9, <2>1 DEF GoodKv, ShiftNoted
  <2>. QED BY <1>8, <2>1 DEF ShiftNoted
<1>15. RowsAt(k)
  <2>1. ASSUME NEW i \in InUse(kv), i \notin freed PROVE kv.rows[i].rope + c[i].delta = c[i].pos
    <3>1. i \in Cells /\ kv.rows[i].rope + kv.cells[i].delta = kv.cells[i].pos
      BY DEF GoodKv, RowsAt, InUse
    <3>2. kv.rows[i].rope \in Int /\ kv.cells[i].pos \in Int /\ kv.cells[i].delta \in Int
      BY <1>1, <3>1, CellTyped
    <3>3. CASE i \in hit
      BY <1>4, <2>1, <3>1, <3>2, <3>3
    <3>4. CASE i \notin hit
      BY <1>4, <3>1, <3>4
    <3>. QED BY <3>3, <3>4
  <2>. QED BY <1>8, <1>10, <2>1 DEF RowsAt
<1>16. k \in GoodKv(T)
  BY <1>7, <1>13, <1>14, <1>15 DEF GoodKv
<1>17. CASE p0 = p1 \/ delta = 0
  BY <1>1, <1>2, <1>17, KvFields
<1>18. CASE ~(p0 = p1 \/ delta = 0)
  <2>1. Forget(k) \in GoodKv(T)
    BY <1>16, ForgetGood
  <2>2. Forget(k).has_shift \in BOOLEAN
    BY <2>1, KvFields DEF GoodKv
  <2>. QED BY <1>2, <1>18, <2>1, <2>2
<1>. QED BY <1>17, <1>18

\* llama_kv_cache_update_internal, K-shift: the pending deltas go into the rows.
LEMMA KShiftGood ==
    ASSUME NEW T, NoTok \in T, NEW kv \in GoodKv(T)
    PROVE  KShift(kv) \in GoodKv(T) /\ ~KShift(kv).has_shift
<1> DEFINE c == [i \in Cells |-> Cell(kv.cells[i].pos, kv.cells[i].seqs, 0)]
           r == [i \in Cells |-> [tok |-> kv.rows[i].tok, rope |-> kv.rows[i].rope + kv.cells[i].delta]]
           k == [kv EXCEPT !.has_shift = FALSE, !.rows = r, !.cells = c]
<1>1. kv \in Kv(T)
  BY DEF GoodKv
<1>2. KShift(kv) = IF ~kv.has_shift THEN kv ELSE k
  BY DEF KShift
<1>3. ASSUME NEW i \in Cells
      PROVE  /\ c[i] \in KvCell /\ c[i].pos = kv.cells[i].pos /\ c[i].seqs = kv.cells[i].seqs
             /\ c[i].delta = 0 /\ r[i] \in KvRow(T)
             /\ r[i].rope = kv.rows[i].rope + kv.cells[i].delta /\ r[i].rope \in Int
  <2>1. /\ kv.cells[i].pos \in KvPos /\ kv.cells[i].seqs \in SUBSET Int /\ kv.cells[i].delta \in Int
        /\ kv.rows[i].tok \in T /\ kv.rows[i].rope \in Int
    BY <1>1, CellTyped
  <2>2. c[i] = Cell(kv.cells[i].pos, kv.cells[i].seqs, 0)
    OBVIOUS
  <2>3. r[i] = [tok |-> kv.rows[i].tok, rope |-> kv.rows[i].rope + kv.cells[i].delta]
    OBVIOUS
  <2> HIDE DEF c, r
  <2>4. c[i] \in KvCell /\ c[i].pos = kv.cells[i].pos /\ c[i].seqs = kv.cells[i].seqs /\ c[i].delta = 0
    BY <2>1, <2>2, CellFields
  <2>5. r[i] \in KvRow(T) /\ r[i].rope = kv.rows[i].rope + kv.cells[i].delta
    BY <2>1, <2>3 DEF KvRow
  <2>. QED BY <2>1, <2>4, <2>5
<1>4. k \in Kv(T)
  <2>1. c \in [Cells -> KvCell] /\ r \in [Cells -> KvRow(T)]
    BY <1>3
  <2> HIDE DEF c, r
  <2>. QED BY <1>1, <2>1 DEF Kv
<1>5. k.cells = c /\ k.used = kv.used /\ k.has_shift = FALSE /\ k.rows = r
  <2> HIDE DEF c, r
  <2>. QED BY <1>1 DEF Kv
<1> HIDE DEF k, c, r
<1>6. InUse(k) = InUse(kv)
  BY <1>3, <1>5 DEF InUse
<1>7. CellsExact(k) /\ ShiftNoted(k)
  BY <1>3, <1>5, <1>6 DEF GoodKv, CellsExact, ShiftNoted
<1>8. RowsAt(k)
  <2>1. ASSUME NEW i \in InUse(kv) PROVE r[i].rope + c[i].delta = c[i].pos
    BY <1>3, <2>1 DEF GoodKv, RowsAt, InUse
  <2>. QED BY <1>5, <1>6, <2>1 DEF RowsAt
<1>9. k \in GoodKv(T)
  BY <1>4, <1>7, <1>8 DEF GoodKv
<1>. QED BY <1>2, <1>5, <1>9

-----------------------------------------------------------------------------
(* find_slot: the search for a run of n free cells.                         *)

\* No run of n free cells begins at h.
NoRunAt(kv, n, h) == h + n <= Size => UsedIn(kv, h, n) # {}

ScanState == [head : 0..Size, tested : Nat, ok : BOOLEAN, done : BOOLEAN]

\* What a round of the search makes of t.
ScanOver(t, z) == t.done /\ z = t
ScanWraps(n, t, z) ==
    /\ ~t.done /\ t.head + n > Size
    /\ z.head = 0 /\ z.tested = t.tested + Size - t.head /\ z.ok = t.ok /\ ~z.done
ScanFinds(kv, n, t, z) ==
    /\ ~t.done /\ t.head + n <= Size /\ UsedIn(kv, t.head, n) = {}
    /\ z.head = t.head /\ z.ok /\ z.done
ScanSkips(kv, n, t, z) ==
    /\ ~t.done /\ t.head + n <= Size
    /\ \E i \in 1..n : /\ z.head = t.head + i /\ z.tested = t.tested + i
                       /\ z.ok = t.ok /\ (z.done <=> t.tested + i >= Size)
                       /\ \A g \in t.head..(t.head + i - 1) : NoRunAt(kv, n, g)

ScanOutcome(kv, n, t, z) ==
    ScanOver(t, z) \/ ScanWraps(n, t, z) \/ ScanFinds(kv, n, t, z) \/ ScanSkips(kv, n, t, z)

\* The used cells of a run: a finite set of distances, the least of which is
\* within the run.
LEMMA UsedInFacts ==
    ASSUME NEW T, NEW kv \in Kv(T), NEW n \in 1..Size, NEW h \in 0..Size, h + n <= Size,
           UsedIn(kv, h, n) # {}
    PROVE  LET i == Min(UsedIn(kv, h, n))
           IN i \in 0..(n - 1) /\ kv.cells[h + i].pos >= 0
<1>1. UsedIn(kv, h, n) \subseteq 0..(n - 1) /\ UsedIn(kv, h, n) \subseteq Int
  BY DEF UsedIn
<1>2. IsFiniteSet(UsedIn(kv, h, n))
  <2>1. n - 1 \in Int
    BY KvCacheAssumption
  <2>2. IsFiniteSet(0..(n - 1))
    BY <2>1, FS_Interval
  <2>. QED BY <1>1, <2>2, FS_Subset
<1>3. Min(UsedIn(kv, h, n)) \in UsedIn(kv, h, n)
  BY <1>1, <1>2, MinMax
<1>. QED BY <1>1, <1>3 DEF UsedIn

\* Behind the first used cell of a run nothing that begins before it fits.
LEMMA SkipRun ==
    ASSUME NEW T, NEW kv \in Kv(T), NEW n \in 1..Size, NEW h \in 0..Size, h + n <= Size,
           NEW i \in 0..(n - 1), kv.cells[h + i].pos >= 0, NEW g \in h..(h + i)
    PROVE  NoRunAt(kv, n, g)
<1>1. h + i - g \in 0..(n - 1) /\ g + (h + i - g) = h + i
  BY KvCacheAssumption
<1>2. h + i - g \in UsedIn(kv, g, n)
  BY <1>1 DEF UsedIn
<1>. QED BY <1>2 DEF NoRunAt

\* One round: the search ends on a free run, or skips starts where none is, or
\* goes back to the beginning.
LEMMA ScanRound ==
    ASSUME NEW T, NEW kv \in Kv(T), NEW n \in 1..Size, NEW t \in ScanState
    PROVE  ScanStep(kv, n, t) \in ScanState /\ ScanOutcome(kv, n, t, ScanStep(kv, n, t))
<1> DEFINE z == ScanStep(kv, n, t)
<1>0. t.head \in 0..Size /\ t.tested \in Nat /\ t.ok \in BOOLEAN /\ t.done \in BOOLEAN
  BY DEF ScanState
<1>1. CASE t.done
  <2>1. z = t
    BY <1>1 DEF ScanStep
  <2>. QED BY <1>1, <2>1 DEF ScanOutcome, ScanOver
<1>2. CASE ~t.done /\ t.head + n > Size
  <2> DEFINE q == t.tested + Size - t.head
  <2>1. z = [t EXCEPT !.head = 0, !.tested = q]
    BY <1>2 DEF ScanStep
  <2>2. q \in Nat /\ 0 \in 0..Size
    BY <1>0, KvCacheAssumption
  <2> HIDE DEF q, z
  <2>3. z \in ScanState /\ z.head = 0 /\ z.tested = q /\ z.ok = t.ok /\ z.done = t.done
    BY <2>1, <2>2 DEF ScanState
  <2>4. ScanWraps(n, t, z)
    BY <1>2, <2>3 DEF q, ScanWraps
  <2>. QED BY <2>3, <2>4 DEF z, ScanOutcome
<1>3. CASE ~t.done /\ t.head + n <= Size /\ UsedIn(kv, t.head, n) = {}
  <2>1. z = [t EXCEPT !.ok = TRUE, !.done = TRUE]
    BY <1>0, <1>3, KvCacheAssumption DEF ScanStep
  <2> HIDE DEF z
  <2>2. z \in ScanState /\ z.head = t.head /\ z.ok /\ z.done
    BY <2>1 DEF ScanState
  <2>3. ScanFinds(kv, n, t, z)
    BY <1>3, <2>2 DEF ScanFinds
  <2>. QED BY <2>2, <2>3 DEF z, ScanOutcome
<1>4. CASE ~t.done /\ t.head + n <= Size /\ UsedIn(kv, t.head, n) # {}
  <2> DEFINE m == Min(UsedIn(kv, t.head, n))
             i == m + 1
             a == t.head + i
             q == t.tested + i
             d == t.tested + i >= Size
  <2>1. z = [t EXCEPT !.head = a, !.tested = q, !.done = d]
    BY <1>0, <1>4, KvCacheAssumption DEF ScanStep
  <2>2. m \in 0..(n - 1) /\ kv.cells[t.head + m].pos >= 0
    BY <1>0, <1>4, UsedInFacts
  <2>3. i \in 1..n /\ a \in 0..Size /\ q \in Nat /\ d \in BOOLEAN
    <3> HIDE DEF m
    <3>. QED BY <1>0, <1>4, <2>2, KvCacheAssumption
  <2>4. \A g \in t.head..(t.head + i - 1) : NoRunAt(kv, n, g)
    <3> HIDE DEF m
    <3>1. t.head + i - 1 = t.head + m
      BY <1>0, <2>2
    <3>. QED BY <1>0, <1>4, <2>2, <3>1, SkipRun
  <2>5. z \in ScanState /\ z.head = a /\ z.tested = q /\ z.ok = t.ok /\ z.done = d
    <3> HIDE DEF a, q, d, z
    <3>. QED BY <2>1, <2>3 DEF ScanState
  <2> HIDE DEF m, z, i
  <2>6. ScanSkips(kv, n, t, z)
    BY <1>4, <2>3, <2>4, <2>5 DEF ScanSkips
  <2>. QED BY <2>5, <2>6 DEF z, ScanOutcome
<1>5. t.head + n > Size \/ t.head + n <= Size
  BY <1>0, KvCacheAssumption
<1>. QED BY <1>1, <1>2, <1>3, <1>4, <1>5

\* Where the search is after k rounds that did not end it: on its way from the
\* head up, on its way from cell 0 after it started over, or back at cell 0 a
\* second time.
FirstLap(kv, n, k, t) ==
    /\ kv.head <= t.head /\ t.tested = t.head - kv.head /\ k <= t.tested /\ t.tested < Size
    /\ \A g \in kv.head..(t.head - 1) : NoRunAt(kv, n, g)
SecondLap(kv, n, k, t) ==
    /\ t.tested = Size - kv.head + t.head /\ k <= t.tested + 1
    /\ t.head = 0 \/ t.tested < Size
    /\ \A g \in kv.head..Size : NoRunAt(kv, n, g)
    /\ \A g \in 0..(t.head - 1) : NoRunAt(kv, n, g)
ThirdLap(kv, n, k, t) ==
    /\ t.head = 0 /\ t.tested >= Size /\ k <= Size + 2
    /\ \A g \in 0..Size : NoRunAt(kv, n, g)

\* What a finished search says.
ScanRight(kv, n, t) ==
    \/ t.ok /\ t.head + n <= Size /\ UsedIn(kv, t.head, n) = {}
    \/ ~t.ok /\ \A g \in 0..Size : NoRunAt(kv, n, g)

ScanInv(kv, n, k, t) ==
    \/ t.done /\ ScanRight(kv, n, t)
    \/ ~t.done /\ ~t.ok /\ (FirstLap(kv, n, k, t) \/ SecondLap(kv, n, k, t) \/ ThirdLap(kv, n, k, t))

\* A round keeps the search on its way.
LEMMA ScanInvStep ==
    ASSUME NEW T, NEW kv \in Kv(T), NEW n \in 1..Size, NEW k \in Nat, NEW t \in ScanState, NEW z \in ScanState,
           ScanInv(kv, n, k, t), ScanOutcome(kv, n, t, z)
    PROVE  ScanInv(kv, n, k + 1, z)
<1>0. /\ t.head \in 0..Size /\ t.tested \in Nat /\ t.ok \in BOOLEAN /\ t.done \in BOOLEAN
      /\ z.head \in 0..Size /\ z.tested \in Nat /\ z.ok \in BOOLEAN /\ z.done \in BOOLEAN
      /\ kv.head \in 0..Size /\ n \in Nat /\ n >= 1 /\ n <= Size /\ Size \in Nat
  BY KvFields, KvCacheAssumption DEF ScanState
<1>1. CASE ScanOver(t, z)
  BY <1>1 DEF ScanOver, ScanInv
<1>2. ASSUME ScanWraps(n, t, z) PROVE ScanInv(kv, n, k + 1, z)
  <2>1. \A g \in t.head..Size : NoRunAt(kv, n, g)
    BY <1>0, <1>2 DEF ScanWraps, NoRunAt
  <2>2. /\ z.head = 0 /\ z.tested = t.tested + Size - t.head /\ ~z.ok /\ ~z.done
        /\ t.head + n > Size
    BY <1>2 DEF ScanWraps, ScanInv
  <2>3. CASE FirstLap(kv, n, k, t)
    <3>1. \A g \in kv.head..Size : NoRunAt(kv, n, g)
      BY <1>0, <2>1, <2>3 DEF FirstLap
    <3>2. SecondLap(kv, n, k + 1, z)
      BY <1>0, <2>2, <2>3, <3>1 DEF FirstLap, SecondLap
    <3>. QED BY <2>2, <3>2 DEF ScanInv
  <2>4. CASE SecondLap(kv, n, k, t)
    <3>1. \A g \in 0..Size : NoRunAt(kv, n, g)
      BY <1>0, <2>1, <2>4 DEF SecondLap
    <3>2. z.tested >= Size /\ k + 1 <= Size + 2
      BY <1>0, <2>2, <2>4 DEF SecondLap
    <3>3. ThirdLap(kv, n, k + 1, z)
      BY <2>2, <3>1, <3>2 DEF ThirdLap
    <3>. QED BY <2>2, <3>3 DEF ScanInv
  <2>5. CASE ThirdLap(kv, n, k, t)
    BY <1>0, <2>2, <2>5 DEF ThirdLap
  <2>. QED BY <1>2, <2>3, <2>4, <2>5 DEF ScanInv, ScanWraps
<1>3. ASSUME ScanFinds(kv, n, t, z) PROVE ScanInv(kv, n, k + 1, z)
  BY <1>3 DEF ScanFinds, ScanInv, ScanRight
<1>4. ASSUME ScanSkips(kv, n, t, z) PROVE ScanInv(kv, n, k + 1, z)
  <2>1. PICK i \in 1..n : /\ z.head = t.head + i /\ z.tested = t.tested + i
                          /\ z.ok = t.ok /\ (z.done <=> t.tested + i >= Size)
                          /\ \A g \in t.head..(t.head + i - 1) : NoRunAt(kv, n, g)
    BY <1>4 DEF ScanSkips
  <2>2. ~z.ok /\ i \in Nat /\ i >= 1
    BY <1>0, <1>4, <2>1 DEF ScanSkips, ScanInv
  <2>3. NoRunAt(kv, n, Size)
    BY <1>0 DEF NoRunAt
  <2>4. ASSUME NEW g \in Int, t.head <= g, g < z.head PROVE NoRunAt(kv, n, g)
    BY <1>0, <2>1, <2>2, <2>4
  <2>5. CASE FirstLap(kv, n, k, t)
    <3>1. ASSUME NEW g \in kv.head..(z.head - 1) PROVE NoRunAt(kv, n, g)
      <4>1. CASE g < t.head
        BY <1>0, <2>5, <4>1 DEF FirstLap
      <4>2. CASE g >= t.head
        BY <1>0, <2>4, <4>2
      <4>. QED BY <1>0, <4>1, <4>2
    <3>2. CASE z.done
      <4>1. kv.head = 0 /\ z.head = Size
        BY <1>0, <2>1, <2>2, <2>5, <3>2 DEF FirstLap
      <4>2. \A g \in 0..Size : NoRunAt(kv, n, g)
        BY <1>0, <2>3, <3>1, <4>1
      <4>. QED BY <2>2, <3>2, <4>2 DEF ScanInv, ScanRight
    <3>3. CASE ~z.done
      <4>1. FirstLap(kv, n, k + 1, z)
        BY <1>0, <2>1, <2>2, <2>5, <3>1, <3>3 DEF FirstLap
      <4>. QED BY <2>2, <3>3, <4>1 DEF ScanInv
    <3>. QED BY <3>2, <3>3
  <2>6. CASE SecondLap(kv, n, k, t)
    <3>1. ASSUME NEW g \in 0..(z.head - 1) PROVE NoRunAt(kv, n, g)
      <4>1. CASE g < t.head
        BY <1>0, <2>6, <4>1 DEF SecondLap
      <4>2. CASE g >= t.head
        BY <1>0, <2>4, <4>2
      <4>. QED BY <1>0, <4>1, <4>2
    <3>2. CASE z.done
      <4>1. kv.head <= z.head
        BY <1>0, <2>1, <2>2, <2>6, <3>2 DEF SecondLap
      <4>2. ASSUME NEW g \in 0..Size PROVE NoRunAt(kv, n, g)
        <5>1. g \in kv.head..Size \/ g \in 0..(z.head - 1)
          BY <1>0, <4>1
        <5>. QED BY <2>6, <3>1, <5>1 DEF SecondLap
      <4>. QED BY <2>2, <3>2, <4>2 DEF ScanInv, ScanRight
    <3>3. CASE ~z.done
      <4>1. SecondLap(kv, n, k + 1, z)
        <5>1. z.tested < Size /\ z.tested = Size - kv.head + z.head /\ k + 1 <= z.tested + 1
          BY <1>0, <2>1, <2>2, <2>6, <3>3 DEF SecondLap
        <5>. QED BY <2>6, <3>1, <5>1 DEF SecondLap
      <4>. QED BY <2>2, <3>3, <4>1 DEF ScanInv
    <3>. QED BY <3>2, <3>3
  <2>7. CASE ThirdLap(kv, n, k, t)
    <3>1. z.done
      BY <1>0, <2>1, <2>2, <2>7 DEF ThirdLap
    <3>. QED BY <2>2, <2>7, <3>1 DEF ScanInv, ScanRight, ThirdLap
  <2>. QED BY <1>4, <2>5, <2>6, <2>7 DEF ScanInv, ScanSkips
<1>. QED BY <1>1, <1>2, <1>3, <1>4 DEF ScanOutcome

\* The search of find_slot ends, and on a free run whenever there is one, from
\* whatever head it starts.
LEMMA ScanCorrect ==
    ASSUME NEW T, NEW kv \in Kv(T), NEW n \in 1..Size
    PROVE  ScanFrom(kv, n) \in ScanState /\ ScanRight(kv, n, ScanFrom(kv, n))
<1> DEFINE init == [head |-> kv.head, tested |-> 0, ok |-> FALSE, done |-> FALSE]
           m == Size + 3
           G == [p \in ScanState \X (1..m) |-> ScanStep(kv, n, p[1])]
           Is(f) == f = [k \in 0..m |-> IF k = 0 THEN init ELSE ScanStep(kv, n, f[k - 1])]
           Scan == CHOOSE f : Is(f)
<1>0. m \in Nat /\ Size \in Nat /\ kv.head \in 0..Size
  BY KvCacheAssumption, KvFields
<1>1. init \in ScanState
  BY <1>0 DEF ScanState
<1>2. StaysIn(ScanState, G, m)
  BY ScanRound DEF StaysIn
<1>3. \E f : Is(f)
  <2>1. PICK f \in [0..m -> ScanState] : Solution(f, init, G, m)
    <3> HIDE DEF G, init, m, Is, Scan
    <3>. QED BY <1>0, <1>1, <1>2, Recursion
  <2>2. ASSUME NEW k \in 1..m PROVE f[k] = ScanStep(kv, n, f[k - 1])
    <3>1. k - 1 \in 0..m
      BY <1>0
    <3>2. f[k - 1] \in ScanState
      BY <3>1
    <3>3. <<f[k - 1], k>> \in ScanState \X (1..m)
      BY <3>2
    <3>4. G[<<f[k - 1], k>>] = ScanStep(kv, n, f[k - 1])
      BY <3>3
    <3>. QED BY <2>1, <3>4 DEF Solution
  <2>3. ASSUME NEW k \in 0..m PROVE f[k] = IF k = 0 THEN init ELSE ScanStep(kv, n, f[k - 1])
    <3>1. k # 0 => k \in 1..m
      BY <1>0
    <3>. QED BY <2>1, <2>2, <3>1 DEF Solution
  <2>4. Is(f)
    BY <2>3
  <2>. QED BY <2>4
<1>4. Is(Scan)
  <2> HIDE DEF Is
  <2>. QED BY <1>3
<1>5. ScanFrom(kv, n) = Scan[m]
  BY DEF ScanFrom
<1> HIDE DEF Scan, m, init, G
<1>6. Scan[0] = init /\ \A k \in 1..m : Scan[k] = ScanStep(kv, n, Scan[k - 1])
  <2>1. ASSUME NEW k \in 0..m PROVE Scan[k] = IF k = 0 THEN init ELSE ScanStep(kv, n, Scan[k - 1])
    BY <1>4
  <2>2. 0 \in 0..m /\ \A k \in 1..m : k \in 0..m /\ k # 0
    BY <1>0
  <2>. QED BY <2>1, <2>2
<1> DEFINE S == {k \in 0..m : Scan[k] \in ScanState /\ ScanInv(kv, n, k, Scan[k])}
<1>7. 0 \in S
  <2>1. ScanInv(kv, n, 0, init)
    BY <1>0, KvCacheAssumption DEF ScanInv, FirstLap, init
  <2>. QED BY <1>0, <1>1, <1>6, <2>1
<1>8. ASSUME NEW k \in 1..m, k - 1 \in S PROVE k \in S
  <2>1. k - 1 \in Nat /\ (k - 1) + 1 = k /\ k \in 0..m
    BY <1>0
  <2>2. /\ Scan[k] = ScanStep(kv, n, Scan[k - 1]) /\ Scan[k - 1] \in ScanState
        /\ ScanInv(kv, n, k - 1, Scan[k - 1])
    BY <1>6, <1>8
  <2>3. Scan[k] \in ScanState /\ ScanOutcome(kv, n, Scan[k - 1], Scan[k])
    BY <2>2, ScanRound
  <2>4. ScanInv(kv, n, (k - 1) + 1, Scan[k])
    BY <2>1, <2>2, <2>3, ScanInvStep
  <2>. QED BY <2>1, <2>3, <2>4
<1>9. m \in S
  <2> HIDE DEF S
  <2>. QED BY <1>0, <1>7, <1>8, UpTo
<1>10. Scan[m] \in ScanState /\ ScanInv(kv, n, m, Scan[m])
  BY <1>9
<1>11. Scan[m].done
  <2>1. Scan[m].head \in 0..Size /\ Scan[m].tested \in Nat
    BY <1>10 DEF ScanState
  <2>2. m = Size + 3
    BY DEF m
  <2>3. ~FirstLap(kv, n, m, Scan[m])
    BY <1>0, <2>1, <2>2 DEF FirstLap
  <2>4. ~SecondLap(kv, n, m, Scan[m])
    BY <1>0, <2>1, <2>2 DEF SecondLap
  <2>5. ~ThirdLap(kv, n, m, Scan[m])
    BY <1>0, <2>2 DEF ThirdLap
  <2>. QED BY <1>10, <2>3, <2>4, <2>5 DEF ScanInv
<1>. QED BY <1>5, <1>10, <1>11 DEF ScanInv

-----------------------------------------------------------------------------
(* find_slot and the rows of a batch                                        *)

KvTok(T) == [tok : T, pos : Nat, seq : Int]

Run(kv, n) == kv.head..(kv.head + n - 1)

\* The cache between find_slot and the computation of the batch: the cells of the
\* run at head have their positions, their rows are not yet written.
Awaits(kv, batch) ==
    /\ CellsExact(kv) /\ ShiftNoted(kv) /\ ~kv.has_shift
    /\ kv.head + Len(batch) <= Size
    /\ \A i \in Run(kv, Len(batch)) : kv.cells[i].pos = batch[i - kv.head + 1].pos
    /\ \A i \in InUse(kv) \ Run(kv, Len(batch)) : kv.rows[i].rope + kv.cells[i].delta = kv.cells[i].pos

\* The reset of `disordered` in an empty cache changes nothing else.
LEMMA DisorderedOnly ==
    ASSUME NEW T, NEW kv \in Kv(T), NEW b \in BOOLEAN
    PROVE  LET o == [kv EXCEPT !.disordered = b]
           IN /\ o \in Kv(T) /\ o.cells = kv.cells /\ o.rows = kv.rows /\ o.used = kv.used
              /\ o.head = kv.head /\ o.has_shift = kv.has_shift /\ InUse(o) = InUse(kv)
              /\ (kv \in GoodKv(T) => o \in GoodKv(T))
              /\ \A batch : Awaits(kv, batch) => Awaits(o, batch)
<1> DEFINE o == [kv EXCEPT !.disordered = b]
<1>1. /\ o \in Kv(T) /\ o.cells = kv.cells /\ o.rows = kv.rows /\ o.used = kv.used
      /\ o.head = kv.head /\ o.has_shift = kv.has_shift
  BY DEF Kv
<1> HIDE DEF o
<1>2. InUse(o) = InUse(kv)
  BY <1>1 DEF InUse
<1>3. (CellsExact(kv) => CellsExact(o)) /\ (ShiftNoted(kv) => ShiftNoted(o)) /\ (RowsAt(kv) => RowsAt(o))
  BY <1>1, <1>2 DEF CellsExact, ShiftNoted, RowsAt
<1>4. kv \in GoodKv(T) => o \in GoodKv(T)
  BY <1>1, <1>3 DEF GoodKv
<1>5. ASSUME NEW batch, Awaits(kv, batch) PROVE Awaits(o, batch)
  BY <1>1, <1>2, <1>3, <1>5 DEF Awaits, Run
<1>. QED BY <1>1, <1>2, <1>4, <1>5 DEF o

\* Moving the head changes nothing else.
LEMMA HeadOnly ==
    ASSUME NEW T, NEW kv \in GoodKv(T), NEW h \in 0..Size
    PROVE  [kv EXCEPT !.head = h] \in GoodKv(T) /\ [kv EXCEPT !.head = h].has_shift = kv.has_shift
<1> DEFINE o == [kv EXCEPT !.head = h]
<1>0. kv \in Kv(T)
  BY DEF GoodKv
<1>1. /\ o \in Kv(T) /\ o.cells = kv.cells /\ o.rows = kv.rows /\ o.used = kv.used
      /\ o.has_shift = kv.has_shift
  BY <1>0 DEF Kv
<1> HIDE DEF o
<1>2. InUse(o) = InUse(kv)
  BY <1>1 DEF InUse
<1>3. CellsExact(o) /\ ShiftNoted(o) /\ RowsAt(o)
  BY <1>1, <1>2 DEF GoodKv, CellsExact, ShiftNoted, RowsAt
<1>. QED BY <1>1, <1>3 DEF GoodKv, o

SlotResult(T, kv, batch, f) ==
    /\ f \in [ok : BOOLEAN, kv : Kv(T)]
    /\ ~f.ok => f.kv \in GoodKv(T) /\ f.kv.has_shift = kv.has_shift
    /\ f.ok /\ ~kv.has_shift => Awaits(f.kv, batch)

\* llama_kv_cache_find_slot: a batch that does not fit changes the head only; one
\* that fits gets cells that no sequence owned.
LEMMA FindSlotGood ==
    ASSUME NEW T, NEW kv \in GoodKv(T), NEW batch \in Seq(KvTok(T)), Len(batch) >= 1
    PROVE  SlotResult(T, kv, batch, FindSlot(kv, batch))
<1> DEFINE n == Len(batch)
           f == FindSlot(kv, batch)
           at == ScanFrom(kv, n)
           new == at.head..(at.head + n - 1)
           b == kv.disordered /\ kv.used # 0
           o == [kv EXCEPT !.disordered = b]
           c == [i \in Cells |->
                   IF i \in new
                   THEN Cell(batch[i - at.head + 1].pos,
                             o.cells[i].seqs \cup {batch[i - at.head + 1].seq}, o.cells[i].delta)
                   ELSE o.cells[i]]
           u == o.used + n
           k == [o EXCEPT !.head = at.head, !.used = u, !.cells = c]
<1>0. n \in Nat /\ n >= 1 /\ Size \in Nat /\ kv \in Kv(T) /\ b \in BOOLEAN
  BY KvCacheAssumption DEF GoodKv
<1>1. f = IF n > Size THEN [ok |-> FALSE, kv |-> kv]
          ELSE IF ~at.ok THEN [ok |-> FALSE, kv |-> [o EXCEPT !.head = at.head]]
          ELSE [ok |-> TRUE, kv |-> k]
  BY DEF FindSlot
<1>2. /\ o \in GoodKv(T) /\ o \in Kv(T) /\ o.cells = kv.cells /\ o.rows = kv.rows /\ o.used = kv.used
      /\ o.has_shift = kv.has_shift /\ InUse(o) = InUse(kv)
  <2> HIDE DEF b
  <2>. QED BY <1>0, DisorderedOnly
<1> HIDE DEF o, f
<1> SUFFICES SlotResult(T, kv, batch, f)
  BY DEF f
<1>3. CASE n > Size
  <2>1. f = [ok |-> FALSE, kv |-> kv]
    BY <1>1, <1>3
  <2>. QED BY <1>0, <2>1 DEF SlotResult
<1>4. ASSUME n <= Size PROVE n \in 1..Size /\ at \in ScanState /\ ScanRight(kv, n, at)
  <2>1. n \in 1..Size
    BY <1>0, <1>4
  <2>. QED BY <1>0, <2>1, ScanCorrect
<1>5. CASE n <= Size /\ ~at.ok
  <2>1. at.head \in 0..Size
    BY <1>4, <1>5 DEF ScanState
  <2>2. f = [ok |-> FALSE, kv |-> [o EXCEPT !.head = at.head]]
    BY <1>0, <1>1, <1>5
  <2> HIDE DEF at
  <2>3. [o EXCEPT !.head = at.head] \in GoodKv(T) /\ [o EXCEPT !.head = at.head].has_shift = o.has_shift
    BY <1>2, <2>1, HeadOnly
  <2> DEFINE w == [o EXCEPT !.head = at.head]
  <2>4. f = [ok |-> FALSE, kv |-> w] /\ w \in GoodKv(T) /\ w.has_shift = kv.has_shift
    BY <1>2, <2>2, <2>3
  <2> HIDE DEF w
  <2>5. w \in Kv(T)
    BY <2>4 DEF GoodKv
  <2>. QED BY <2>4, <2>5 DEF SlotResult
<1>6. CASE n <= Size /\ at.ok
  <2>1. f = [ok |-> TRUE, kv |-> k]
    BY <1>0, <1>1, <1>6
  <2>2. at.head \in 0..Size /\ at.head + n <= Size /\ UsedIn(kv, at.head, n) = {}
    BY <1>4, <1>6 DEF ScanState, ScanRight
  <2> HIDE DEF at
  <2>3. new \subseteq Cells /\ at.head \in Int
    BY <1>0, <2>2 DEF Cells
  <2>4. ASSUME NEW i \in new PROVE kv.cells[i].pos < 0 /\ kv.cells[i].seqs = {}
    <3>1. i - at.head \in 0..(n - 1) /\ at.head + (i - at.head) = i /\ i \in Cells
      BY <1>0, <2>3
    <3>2. ~(kv.cells[at.head + (i - at.head)].pos >= 0)
      BY <2>2, <3>1 DEF UsedIn
    <3>3. kv.cells[i].pos \in Int
      BY <1>0, <3>1, CellTyped
    <3>4. kv.cells[i].pos < 0
      BY <3>1, <3>2, <3>3
    <3>. QED BY <3>1, <3>2, <3>4 DEF GoodKv, CellsExact
  <2>5. ASSUME NEW i \in new
        PROVE  LET x == batch[i - at.head + 1] IN x.pos \in Nat /\ x.seq \in Int
    <3>1. i - at.head + 1 \in 1..n
      BY <1>0, <2>3
    <3>2. batch[i - at.head + 1] \in KvTok(T)
      BY <3>1
    <3>. QED BY <3>2 DEF KvTok
  <2>6. ASSUME NEW i \in Cells
        PROVE  /\ c[i] \in KvCell /\ c[i].delta = kv.cells[i].delta
               /\ i \in new => /\ c[i].pos = batch[i - at.head + 1].pos /\ c[i].pos >= 0
                               /\ c[i].seqs # {}
               /\ i \notin new => c[i] = kv.cells[i]
    <3>1. /\ kv.cells[i] \in KvCell /\ kv.cells[i].seqs \in SUBSET Int /\ kv.cells[i].delta \in Int
      BY <1>0, CellTyped
    <3>2. CASE i \in new
      <4> DEFINE p == batch[i - at.head + 1].pos
                 q == kv.cells[i].seqs \cup {batch[i - at.head + 1].seq}
      <4>1. c[i] = Cell(p, q, kv.cells[i].delta)
        BY <1>2, <3>2
      <4>2. p \in Int /\ p >= 0 /\ q \in SUBSET Int /\ q # {}
        BY <2>5, <3>1, <3>2
      <4> HIDE DEF c, q, new
      <4>3. c[i] \in KvCell /\ c[i].pos = p /\ c[i].seqs = q /\ c[i].delta = kv.cells[i].delta
        <5> HIDE DEF p
        <5>. QED BY <3>1, <4>1, <4>2, CellFields DEF KvPos
      <4>. QED BY <3>2, <4>2, <4>3
    <3>3. CASE i \notin new
      <4>1. c[i] = kv.cells[i]
        BY <1>2, <3>3
      <4> HIDE DEF c, new
      <4>. QED BY <3>1, <3>3, <4>1
    <3>. QED BY <3>2, <3>3
  <2>7. k \in Kv(T)
    <3>1. c \in [Cells -> KvCell]
      BY <2>6
    <3>2. u \in Int
      BY <1>0, <1>2, KvFields
    <3> HIDE DEF c, u
    <3>. QED BY <1>2, <2>2, <3>1, <3>2 DEF Kv
  <2>8. /\ k.cells = c /\ k.used = kv.used + n /\ k.head = at.head /\ k.rows = kv.rows
        /\ k.has_shift = kv.has_shift
    <3>1. k.cells = c /\ k.used = u /\ k.head = at.head /\ k.rows = o.rows /\ k.has_shift = o.has_shift
      <4> HIDE DEF c, u
      <4>. QED BY <1>2 DEF Kv
    <3> HIDE DEF k, c
    <3>. QED BY <1>2, <3>1
  <2> HIDE DEF k, c
  <2>9. InUse(k) = InUse(kv) \cup new
    <3> HIDE DEF new
    <3>. QED BY <2>3, <2>6, <2>8 DEF InUse
  <2>10. InUse(kv) \cap new = {}
    BY <2>4 DEF InUse
  <2>11. IsFiniteSet(new) /\ Cardinality(new) = n
    <3>1. at.head + n - 1 \in Int /\ ~(at.head > at.head + n - 1) /\ at.head + n - 1 - at.head + 1 = n
      BY <1>0, <2>3
    <3>2. IsFiniteSet(at.head..(at.head + n - 1))
      BY <2>3, <3>1, FS_Interval
    <3>3. Cardinality(at.head..(at.head + n - 1)) = (at.head + n - 1) - at.head + 1
      BY <2>3, <3>1, FS_Interval
    <3>4. Cardinality(new) = n
      <4> DEFINE x == Cardinality(new)
      <4>1. x = (at.head + n - 1) - at.head + 1
        BY <3>3
      <4> HIDE DEF x
      <4>2. x = n
        BY <1>0, <2>3, <4>1
      <4>. QED BY <4>2 DEF x
    <3>. QED BY <3>2, <3>4
  <2>12. Cardinality(InUse(k)) = Cardinality(InUse(kv)) + n
    <3> HIDE DEF new
    <3>. QED BY <2>9, <2>10, <2>11, InUseFinite, CardSplit
  <2>13. CellsExact(k)
    <3>1. ASSUME NEW i \in Cells PROVE (c[i].pos >= 0) <=> (c[i].seqs # {})
      BY <2>6 DEF GoodKv, CellsExact
    <3>. QED BY <2>8, <2>12, <3>1 DEF GoodKv, CellsExact
  <2>14. ShiftNoted(k)
    BY <2>6, <2>8 DEF GoodKv, ShiftNoted
  <2>15. Run(k, n) = new
    BY <2>8 DEF Run
  <2>16. ASSUME NEW i \in InUse(k) \ new PROVE kv.rows[i].rope + c[i].delta = c[i].pos
    BY <2>6, <2>9 DEF GoodKv, RowsAt, InUse
  <2>17. ~kv.has_shift => Awaits(k, batch)
    <3>1. \A i \in new : c[i].pos = batch[i - at.head + 1].pos
      BY <2>3, <2>6
    <3> HIDE DEF new
    <3>. QED BY <2>2, <2>8, <2>13, <2>14, <2>15, <2>16, <3>1 DEF Awaits
  <2>. QED BY <2>1, <2>7, <2>17 DEF SlotResult
<1>7. n > Size \/ n <= Size
  BY <1>0
<1>. QED BY <1>3, <1>5, <1>6, <1>7

\* The rows of the batch complete the cells that find_slot prepared.
LEMMA WriteRowsGood ==
    ASSUME NEW T, NEW kv \in Kv(T), NEW batch \in Seq(KvTok(T)), Awaits(kv, batch),
           NEW rows \in Seq(KvRow(T)), Len(rows) = Len(batch),
           \A j \in 1..Len(batch) : rows[j].rope = batch[j].pos
    PROVE  WriteRows(kv, rows) \in GoodKv(T) /\ ~WriteRows(kv, rows).has_shift
<1> DEFINE n == Len(batch)
           r == [i \in Cells |-> IF i - kv.head \in 0..(Len(rows) - 1)
                                 THEN rows[i - kv.head + 1] ELSE kv.rows[i]]
           k == [kv EXCEPT !.rows = r]
<1>1. WriteRows(kv, rows) = k
  BY DEF WriteRows
<1>2. n \in Nat /\ Size \in Nat /\ kv.head \in 0..Size /\ Len(rows) = n
  BY KvFields, KvCacheAssumption
<1>3. ASSUME NEW i \in Cells
      PROVE  /\ r[i] \in KvRow(T)
             /\ i \in Run(kv, n) => r[i].rope = kv.cells[i].pos
             /\ i \notin Run(kv, n) => r[i] = kv.rows[i]
  <2>1. i \in Int /\ (i \in Run(kv, n) <=> i - kv.head \in 0..(n - 1))
    BY <1>2 DEF Run, Cells
  <2>2. CASE i \in Run(kv, n)
    <3>1. i - kv.head + 1 \in 1..n
      BY <1>2, <2>1, <2>2
    <3>2. r[i] = rows[i - kv.head + 1]
      BY <1>2, <2>1, <2>2
    <3>3. rows[i - kv.head + 1] \in KvRow(T)
      BY <1>2, <3>1
    <3>4. rows[i - kv.head + 1].rope = kv.cells[i].pos
      BY <2>2, <3>1 DEF Awaits
    <3> HIDE DEF r
    <3>. QED BY <2>2, <3>2, <3>3, <3>4
  <2>3. CASE i \notin Run(kv, n)
    <3>1. r[i] = kv.rows[i]
      BY <1>2, <2>1, <2>3
    <3> HIDE DEF r
    <3>. QED BY <2>3, <3>1, CellTyped
  <2>. QED BY <2>2, <2>3
<1>4. k \in Kv(T)
  <2>1. r \in [Cells -> KvRow(T)]
    BY <1>3
  <2> HIDE DEF r
  <2>. QED BY <2>1 DEF Kv
<1>5. k.cells = kv.cells /\ k.used = kv.used /\ k.has_shift = kv.has_shift /\ k.rows = r
  <2> HIDE DEF r
  <2>. QED BY DEF Kv
<1> HIDE DEF k, r
<1>6. InUse(k) = InUse(kv)
  BY <1>5 DEF InUse
<1>7. CellsExact(k) /\ ShiftNoted(k) /\ ~k.has_shift
  BY <1>5, <1>6 DEF Awaits, CellsExact, ShiftNoted
<1>8. ASSUME NEW i \in InUse(kv) PROVE r[i].rope + kv.cells[i].delta = kv.cells[i].pos
  <2>1. i \in Cells /\ kv.cells[i].delta = 0
    BY DEF InUse, Awaits, ShiftNoted
  <2>2. CASE i \in Run(kv, n)
    <3>1. kv.cells[i].pos \in Int
      BY <2>1, CellTyped
    <3>. QED BY <1>3, <2>1, <2>2, <3>1
  <2>3. CASE i \notin Run(kv, n)
    BY <1>3, <2>1, <2>3 DEF Awaits
  <2>. QED BY <2>2, <2>3
<1>9. RowsAt(k)
  BY <1>5, <1>6, <1>8 DEF RowsAt
<1>. QED BY <1>1, <1>4, <1>7, <1>9 DEF GoodKv

-----------------------------------------------------------------------------
(* Defragmentation                                                          *)

\* The hole and its size: free cells below n_used.
LEMMA HoleFacts ==
    ASSUME NEW kv, NEW u \in 0..Size, \E i \in 0..(u - 1) : kv.cells[i].seqs = {}
    PROVE  /\ HoleAt(kv, u) \in 0..(u - 1) /\ HoleSize(kv, u) \in 1..(u - HoleAt(kv, u))
           /\ \A i \in HoleAt(kv, u)..(HoleAt(kv, u) + HoleSize(kv, u) - 1) :
                 i \in Cells /\ kv.cells[i].seqs = {}
<1> DEFINE free == {i \in 0..(u - 1) : kv.cells[i].seqs = {}}
           h == HoleAt(kv, u)
           sizes == {n \in 1..(u - h) : \A i \in h..(h + n - 1) : kv.cells[i].seqs = {}}
<1>0. u \in Int /\ u - 1 \in Int /\ Size \in Nat /\ u <= Size
  BY KvCacheAssumption
<1>1. free \subseteq 0..(u - 1) /\ free \subseteq Int /\ free # {}
  BY <1>0
<1>2. IsFiniteSet(free)
  <2>1. IsFiniteSet(0..(u - 1))
    <3>1. u - 1 \in Int
      BY <1>0
    <3> HIDE DEF free, h
    <3>. QED BY <3>1, FS_Interval
  <2> HIDE DEF free
  <2>. QED BY <1>1, <2>1, FS_Subset
<1>3. h \in free
  <2>1. h = Min(free)
    BY DEF HoleAt
  <2> HIDE DEF free, h
  <2>. QED BY <1>1, <1>2, <2>1, MinMax
<1>4. h \in 0..(u - 1) /\ h \in Int /\ u - h \in Int /\ kv.cells[h].seqs = {}
  BY <1>0, <1>3
<1> HIDE DEF h
<1>5. sizes \subseteq 1..(u - h) /\ sizes \subseteq Int /\ sizes # {}
  <2>1. 1 \in sizes
    BY <1>0, <1>4
  <2>2. sizes \subseteq 1..(u - h)
    OBVIOUS
  <2>3. 1..(u - h) \subseteq Int
    BY <1>4
  <2> HIDE DEF sizes
  <2>. QED BY <2>1, <2>2, <2>3
<1>6. IsFiniteSet(sizes)
  <2>1. IsFiniteSet(1..(u - h))
    BY <1>4, FS_Interval
  <2>. QED BY <1>5, <2>1, FS_Subset
<1>7. HoleSize(kv, u) = Max(sizes)
  BY DEF HoleSize, h
<1>8. Max(sizes) \in sizes
  <2> HIDE DEF sizes
  <2>. QED BY <1>5, <1>6, MinMax
<1>9. HoleSize(kv, u) \in 1..(u - h) /\ \A i \in h..(h + HoleSize(kv, u) - 1) : kv.cells[i].seqs = {}
  BY <1>7, <1>8
<1>10. \A i \in h..(h + HoleSize(kv, u) - 1) : i \in Cells
  BY <1>0, <1>4, <1>9 DEF Cells
<1>. QED BY <1>4, <1>9, <1>10 DEF h

\* A hole of n cells gets at most n sources.
LEMMA SourcesFew ==
    ASSUME NEW kv, NEW n \in Nat, NEW hole
    PROVE  /\ Sources(kv, n, hole) \subseteq InUse(kv) /\ IsFiniteSet(Sources(kv, n, hole))
           /\ Cardinality(Sources(kv, n, hole)) <= n
<1> DEFINE all == Sources(kv, n, hole)
           S == InUse(kv)
           rank == [i \in all |-> Cardinality(Above(S, i))]
<1>1. S \subseteq Int /\ IsFiniteSet(S) /\ all \subseteq S
  <2>1. Cells \subseteq Int
    BY KvCacheAssumption DEF Cells
  <2>2. S \subseteq Cells
    BY DEF InUse
  <2>3. all \subseteq S
    BY DEF Sources
  <2>. QED BY <2>1, <2>2, <2>3, InUseFinite
<1>2. ASSUME NEW i \in all PROVE i \in Int /\ Cardinality(Above(S, i)) \in 0..(n - 1)
  <2>1. i \in Int /\ Cardinality(Above(S, i)) < n
    BY <1>1 DEF Sources, Above
  <2>2. Cardinality(Above(S, i)) \in Nat
    <3> HIDE DEF S
    <3>. QED BY <1>1, <2>1, Ranks
  <2> HIDE DEF S
  <2>. QED BY <2>1, <2>2
<1>3. ASSUME NEW i \in all, NEW j \in all, rank[i] = rank[j] PROVE i = j
  <2>1. i \in Int /\ j \in Int /\ i \in S /\ j \in S /\ Cardinality(Above(S, i)) = Cardinality(Above(S, j))
    BY <1>1, <1>2, <1>3
  <2> HIDE DEF S, all
  <2>2. Cardinality(Above(S, i)) \in Nat
    BY <1>1, <2>1, Ranks
  <2>3. i < j => Cardinality(Above(S, j)) < Cardinality(Above(S, i))
    BY <1>1, <2>1, Ranks
  <2>4. j < i => Cardinality(Above(S, i)) < Cardinality(Above(S, j))
    BY <1>1, <2>1, Ranks
  <2>. QED BY <2>1, <2>2, <2>3, <2>4
<1>4. rank \in Injection(all, 0..(n - 1))
  <2>1. rank \in [all -> 0..(n - 1)]
    BY <1>2
  <2>. QED BY <1>3, <2>1 DEF Injection, IsInjective
<1>5. IsFiniteSet(0..(n - 1)) /\ Cardinality(0..(n - 1)) = n
  <2>1. n - 1 \in Int
    OBVIOUS
  <2>. QED BY <2>1, FS_Interval
<1> HIDE DEF rank, all, S
<1>6. Cardinality(all) <= Cardinality(0..(n - 1)) /\ IsFiniteSet(all)
  BY <1>4, <1>5, FS_Injection
<1>. QED BY <1>1, <1>5, <1>6 DEF all, S

\* The destinations of the sources: consecutive, distinct, as many as the sources.
LEMMA DestFacts ==
    ASSUME NEW src, src \subseteq Int, IsFiniteSet(src), NEW hole \in Nat
    PROVE  LET dest(i) == hole + Cardinality({j \in src : j < i})
               dests == {dest(i) : i \in src}
           IN /\ dests \subseteq hole..(hole + Cardinality(src) - 1)
              /\ IsFiniteSet(dests) /\ Cardinality(dests) = Cardinality(src)
              /\ \A i, j \in src : dest(i) = dest(j) => i = j
<1> DEFINE dest(i) == hole + Cardinality({j \in src : j < i})
           dests == {dest(i) : i \in src}
           f == [i \in src |-> dest(i)]
<1>0. Cardinality(src) \in Nat
  BY FS_CardinalityType
<1>1. ASSUME NEW i \in src
      PROVE  /\ Cardinality(Below(src, i)) \in Nat /\ Cardinality(Below(src, i)) < Cardinality(src)
             /\ dest(i) = hole + Cardinality(Below(src, i))
             /\ dest(i) \in hole..(hole + Cardinality(src) - 1)
  <2>1. Cardinality(Below(src, i)) \in Nat /\ Cardinality(Below(src, i)) < Cardinality(src)
    BY Ranks
  <2>2. dest(i) = hole + Cardinality(Below(src, i))
    BY DEF Below
  <2>3. dest(i) \in hole..(hole + Cardinality(src) - 1)
    <3> HIDE DEF dest
    <3>. QED BY <1>0, <2>1, <2>2
  <2>. QED BY <2>1, <2>2, <2>3
<1>2. ASSUME NEW i \in src, NEW j \in src, dest(i) = dest(j) PROVE i = j
  <2> HIDE DEF dest
  <2>1. i \in Int /\ j \in Int /\ Cardinality(Below(src, i)) = Cardinality(Below(src, j))
    BY <1>1, <1>2
  <2>2. Cardinality(Below(src, i)) \in Nat
    BY <1>1
  <2>3. i < j => Cardinality(Below(src, i)) < Cardinality(Below(src, j))
    BY <2>1, Ranks
  <2>4. j < i => Cardinality(Below(src, j)) < Cardinality(Below(src, i))
    BY <2>1, Ranks
  <2>. QED BY <2>1, <2>2, <2>3, <2>4
<1> HIDE DEF dest
<1>3. f \in [src -> dests]
  OBVIOUS
<1>4. f \in Surjection(src, dests)
  BY <1>3 DEF Surjection
<1>5. f \in Injection(src, dests)
  BY <1>2, <1>3 DEF Injection, IsInjective
<1>6. dests \subseteq hole..(hole + Cardinality(src) - 1)
  BY <1>1
<1> HIDE DEF f, dests
<1>7. IsFiniteSet(dests) /\ Cardinality(dests) = Cardinality(src)
  BY <1>4, <1>5, FS_Surjection
<1>. QED BY <1>2, <1>6, <1>7 DEF dests, dest

\* The stages of a defragmentation of a cache whose has_shift is b.
DefragState(T, b) ==
    {d \in [kv : Kv(T), n_used : 0..Size, moves : Nat, stop : BOOLEAN] :
        d.kv \in GoodKv(T) /\ d.n_used = d.kv.used /\ d.kv.has_shift = b}

\* "this can only happen if n_used is not accurate, which would be a bug": the
\* assertion nf == nh of llama_kv_cache_defrag_internal.  At every stage of the
\* defragmentation of a good cache the cells in use above a hole are enough to
\* fill it.
THEOREM HoleCanBeFilled ==
    ASSUME NEW T, NEW b, NEW d \in DefragState(T, b),
           \E i \in 0..(d.n_used - 1) : d.kv.cells[i].seqs = {}
    PROVE  LET n == HoleSize(d.kv, d.n_used)
           IN Cardinality(Sources(d.kv, n, HoleAt(d.kv, d.n_used))) = n
<1> DEFINE k == d.kv
           u == d.n_used
           n == HoleSize(k, u)
           h == HoleAt(k, u)
           S == InUse(k)
           top == {i \in S : Cardinality(Above(S, i)) < n}
<1>1. u \in 0..Size /\ u = Cardinality(S)
  BY DEF DefragState, GoodKv, CellsExact
<1>2. h \in 0..(u - 1) /\ n \in 1..(u - h) /\ k.cells[h].seqs = {} /\ h \in Cells
  <2>1. /\ h \in 0..(u - 1) /\ n \in 1..(u - h)
        /\ \A i \in h..(h + n - 1) : i \in Cells /\ k.cells[i].seqs = {}
    BY <1>1, HoleFacts
  <2> HIDE DEF h, n, k, u
  <2>2. h \in h..(h + n - 1)
    BY <1>1, <2>1, KvCacheAssumption
  <2>. QED BY <2>1, <2>2
<1>3. S \subseteq Int /\ (\A i \in S : i \in Nat) /\ IsFiniteSet(S)
  <2>1. \A i \in S : i \in Cells
    BY DEF InUse
  <2>2. \A i \in Cells : i \in Nat
    BY KvCacheAssumption DEF Cells
  <2>3. IsFiniteSet(S)
    BY InUseFinite
  <2> HIDE DEF S
  <2>4. \A i \in S : i \in Nat
    BY <2>1, <2>2
  <2>. QED BY <2>3, <2>4
<1>4. h \notin S
  BY <1>2 DEF InUse
<1>5. Sources(k, n, h) = {i \in S : i > h /\ Cardinality(Above(S, i)) < n}
  BY DEF Sources, Above
<1> HIDE DEF S, h, n, k, u
<1>6. u \in Nat /\ h \in Nat /\ n \in Nat /\ h + n <= u /\ Size \in Nat
  BY <1>1, <1>2, KvCacheAssumption
<1>7. Cardinality(Above(S, h)) >= n
  <2>1. Below(S, h) \subseteq 0..(h - 1)
    <3>1. ASSUME NEW i \in S, i < h PROVE i \in 0..(h - 1)
      <4>1. i \in Nat
        BY <1>3
      <4>. QED BY <1>6, <3>1, <4>1
    <3>. QED BY <3>1 DEF Below
  <2>2. IsFiniteSet(0..(h - 1)) /\ Cardinality(0..(h - 1)) = h
    <3>1. h - 1 \in Int
      BY <1>6
    <3>. QED BY <1>6, <3>1, FS_Interval
  <2>3. IsFiniteSet(Below(S, h)) /\ Cardinality(Below(S, h)) \in Nat /\ Cardinality(Below(S, h)) <= h
    BY <2>1, <2>2, FS_Subset, FS_CardinalityType
  <2>4. Above(S, h) = S \ Below(S, h) /\ Below(S, h) \subseteq S
    <3>1. ASSUME NEW i \in S PROVE i > h <=> ~(i < h)
      <4>1. i \in Nat /\ i # h
        BY <1>3, <1>4
      <4>. QED BY <1>6, <4>1
    <3>. QED BY <3>1 DEF Above, Below
  <2>5. Cardinality(Above(S, h)) = Cardinality(S) - Cardinality(Below(S, h))
    BY <1>3, <2>3, <2>4, CardSplit
  <2>. QED BY <1>1, <1>6, <2>3, <2>5
<1>8. ASSUME NEW i \in S, Cardinality(Above(S, i)) < n PROVE i > h
  <2>1. i \in Int /\ h \in Int /\ i # h
    BY <1>3, <1>4, <1>6
  <2>2. CASE i < h
    <3>1. Above(S, h) \subseteq Above(S, i)
      <4>1. \A j \in S : j > h => j > i
        BY <1>3, <2>1, <2>2
      <4>. QED BY <4>1 DEF Above
    <3>2. Above(S, i) \subseteq S
      BY DEF Above
    <3>3. /\ IsFiniteSet(Above(S, i)) /\ Cardinality(Above(S, h)) <= Cardinality(Above(S, i))
          /\ IsFiniteSet(Above(S, h))
      BY <1>3, <3>1, <3>2, FS_Subset
    <3>4. Cardinality(Above(S, i)) \in Nat /\ Cardinality(Above(S, h)) \in Nat
      BY <3>3, FS_CardinalityType
    <3>. QED BY <1>6, <1>7, <1>8, <3>3, <3>4
  <2>. QED BY <2>1, <2>2
<1>9. Sources(k, n, h) = top
  BY <1>5, <1>8
<1>10. Cardinality(top) = n
  <2>1. n \in 0..Cardinality(S)
    BY <1>1, <1>6
  <2>. QED BY <1>3, <2>1, TopCount
<1>. QED BY <1>9, <1>10 DEF n, h, k, u

\* Filling a hole moves cells with their rows into free cells, and loses none.
LEMMA FillHoleGood ==
    ASSUME NEW T, NEW b \in BOOLEAN, NEW d \in DefragState(T, b),
           \E i \in 0..(d.n_used - 1) : d.kv.cells[i].seqs = {}
    PROVE  FillHole(d) \in DefragState(T, b)
<1> DEFINE kv == d.kv
           hole == HoleAt(d.kv, d.n_used)
           all == Sources(d.kv, HoleSize(d.kv, d.n_used), hole)
           src == {i \in all : d.moves + BlocksUpTo(all, i) <= MaxMoves}
           dest(i) == hole + Cardinality({j \in src : j < i})
           from(x) == CHOOSE i \in src : dest(i) = x
           dests == {dest(i) : i \in src}
           moves == d.moves + BlocksUpTo(src, Max(src))
           st == src # all \/ moves = MaxMoves
           c == [x \in Cells |-> IF x \in dests THEN d.kv.cells[from(x)]
                                 ELSE IF x \in src THEN FreeCell ELSE d.kv.cells[x]]
           r == [x \in Cells |-> IF x \in dests THEN d.kv.rows[from(x)] ELSE d.kv.rows[x]]
           k == [d.kv EXCEPT !.cells = c, !.rows = r, !.head = d.n_used, !.disordered = TRUE]
           z == [kv |-> k, n_used |-> d.n_used, moves |-> moves, stop |-> st]
<1>1. FillHole(d) = z
  BY DEF FillHole
<1>2. /\ kv \in GoodKv(T) /\ kv \in Kv(T) /\ d.n_used = kv.used /\ kv.has_shift = b
      /\ d.n_used \in 0..Size /\ d.moves \in Nat /\ d.stop \in BOOLEAN
  BY DEF DefragState
<1>3. /\ hole \in 0..(d.n_used - 1) /\ HoleSize(kv, d.n_used) \in 1..(d.n_used - hole)
      /\ \A i \in hole..(hole + HoleSize(kv, d.n_used) - 1) : i \in Cells /\ kv.cells[i].seqs = {}
  BY <1>2, HoleFacts
<1>4. hole \in Nat /\ HoleSize(kv, d.n_used) \in Nat /\ Size \in Nat
  <2> HIDE DEF hole, kv
  <2>. QED BY <1>2, <1>3, KvCacheAssumption
<1>5. /\ all \subseteq InUse(kv) /\ IsFiniteSet(all) /\ Cardinality(all) <= HoleSize(kv, d.n_used)
  <2> HIDE DEF hole
  <2>. QED BY <1>4, SourcesFew
<1>6. src \subseteq all /\ InUse(kv) \subseteq Cells /\ Cells \subseteq Int
  BY KvCacheAssumption DEF InUse, Cells
<1> HIDE DEF hole, all
<1>7. src \subseteq Int /\ src \subseteq InUse(kv) /\ src \subseteq Cells
  BY <1>5, <1>6
<1>8. IsFiniteSet(src) /\ Cardinality(src) <= HoleSize(kv, d.n_used) /\ Cardinality(src) \in Nat
  <2>1. IsFiniteSet(src) /\ Cardinality(src) <= Cardinality(all)
    BY <1>5, <1>6, FS_Subset
  <2>2. Cardinality(src) \in Nat /\ Cardinality(all) \in Nat
    BY <1>5, <2>1, FS_CardinalityType
  <2> HIDE DEF src
  <2>. QED BY <1>4, <1>5, <2>1, <2>2
<1> HIDE DEF src
<1>9. /\ dests \subseteq hole..(hole + Cardinality(src) - 1)
      /\ IsFiniteSet(dests) /\ Cardinality(dests) = Cardinality(src)
      /\ \A i, j \in src : dest(i) = dest(j) => i = j
  BY <1>4, <1>7, <1>8, DestFacts, ZenonT(40)
<1>10. ASSUME NEW x \in dests PROVE from(x) \in src /\ x \in Cells /\ kv.cells[x].seqs = {}
  <2>1. \E i \in src : dest(i) = x
    OBVIOUS
  <2>2. from(x) \in src
    <3> HIDE DEF dest
    <3>. QED BY <2>1
  <2> HIDE DEF dests, dest
  <2>3. x \in hole..(hole + HoleSize(kv, d.n_used) - 1)
    BY <1>4, <1>8, <1>9
  <2> HIDE DEF kv, from
  <2>. QED BY <1>3, <2>2, <2>3
<1> HIDE DEF dest, from
<1>11. ASSUME NEW x \in Cells
       PROVE  /\ c[x] \in KvCell /\ r[x] \in KvRow(T)
              /\ x \in dests => /\ from(x) \in src /\ c[x] = kv.cells[from(x)] /\ r[x] = kv.rows[from(x)]
              /\ x \notin dests /\ x \in src => c[x] = FreeCell
              /\ x \notin dests => r[x] = kv.rows[x]
              /\ x \notin dests /\ x \notin src => c[x] = kv.cells[x]
  <2>1. CASE x \in dests
    <3>1. from(x) \in src /\ from(x) \in Cells /\ c[x] = kv.cells[from(x)] /\ r[x] = kv.rows[from(x)]
      BY <1>7, <1>10, <2>1
    <3> HIDE DEF c, r, dests
    <3>2. kv.cells[from(x)] \in KvCell /\ kv.rows[from(x)] \in KvRow(T)
      <4> HIDE DEF kv
      <4>. QED BY <1>2, <3>1, CellTyped
    <3>. QED BY <2>1, <3>1, <3>2
  <2>2. CASE x \notin dests /\ x \in src
    <3>1. c[x] = FreeCell /\ r[x] = kv.rows[x]
      BY <2>2
    <3>2. FreeCell \in KvCell
      BY DEF FreeCell, Cell, KvCell, KvPos
    <3> HIDE DEF c, r, dests
    <3>3. kv.rows[x] \in KvRow(T)
      <4> HIDE DEF kv
      <4>. QED BY <1>2, CellTyped
    <3>. QED BY <2>2, <3>1, <3>2, <3>3
  <2>3. CASE x \notin dests /\ x \notin src
    <3>1. c[x] = kv.cells[x] /\ r[x] = kv.rows[x]
      BY <2>3
    <3> HIDE DEF c, r, dests
    <3>3. kv.rows[x] \in KvRow(T) /\ kv.cells[x] \in KvCell
      <4> HIDE DEF kv
      <4>. QED BY <1>2, CellTyped
    <3>. QED BY <2>3, <3>1, <3>3
  <2>. QED BY <2>1, <2>2, <2>3
<1>12. k \in Kv(T)
  <2>1. c \in [Cells -> KvCell] /\ r \in [Cells -> KvRow(T)]
    BY <1>11
  <2> HIDE DEF c, r
  <2>. QED BY <1>2, <2>1 DEF Kv
<1>13. k.cells = c /\ k.used = kv.used /\ k.has_shift = kv.has_shift /\ k.rows = r
  <2> HIDE DEF c, r
  <2>. QED BY <1>2 DEF Kv
<1> HIDE DEF k, c, r, dests, kv
<1>14. \A x \in src : x \in Cells /\ x \notin dests /\ kv.cells[x].seqs # {}
  BY <1>7, <1>10 DEF InUse
<1>15. InUse(k) = (InUse(kv) \ src) \cup dests
  <2>1. FreeCell.seqs = {}
    BY DEF FreeCell, Cell
  <2>2. ASSUME NEW x \in Cells
        PROVE  c[x].seqs # {} <=> (x \in dests \/ (x \notin src /\ kv.cells[x].seqs # {}))
    <3>1. CASE x \in dests
      BY <1>11, <1>14, <3>1
    <3>2. CASE x \notin dests
      BY <1>11, <2>1, <3>2
    <3>. QED BY <3>1, <3>2
  <2>3. dests \subseteq Cells
    BY <1>10
  <2>. QED BY <1>13, <2>2, <2>3 DEF InUse
<1>16. Cardinality(InUse(k)) = Cardinality(InUse(kv))
  <2>1. IsFiniteSet(InUse(kv)) /\ Cardinality(InUse(kv)) \in Nat
    BY InUseFinite
  <2>2. IsFiniteSet(InUse(kv) \ src) /\ Cardinality(InUse(kv) \ src) = Cardinality(InUse(kv)) - Cardinality(src)
    BY <1>7, <1>8, <2>1, FS_Difference, CardSplit
  <2>3. (InUse(kv) \ src) \cap dests = {}
    BY <1>10 DEF InUse
  <2>4. Cardinality((InUse(kv) \ src) \cup dests) = Cardinality(InUse(kv) \ src) + Cardinality(dests)
    BY <1>9, <2>2, <2>3, CardSplit
  <2>. QED BY <1>8, <1>9, <1>15, <2>1, <2>2, <2>4
<1>17. CellsExact(k)
  <2>1. FreeCell.seqs = {} /\ FreeCell.pos = -1
    BY DEF FreeCell, Cell
  <2>2. ASSUME NEW x \in Cells PROVE (c[x].pos >= 0) <=> (c[x].seqs # {})
    <3>1. CASE x \in dests
      <4>1. from(x) \in Cells /\ c[x] = kv.cells[from(x)]
        BY <1>11, <1>14, <3>1
      <4>. QED BY <1>2, <4>1 DEF GoodKv, CellsExact
    <3>2. CASE x \notin dests /\ x \in src
      BY <1>11, <2>1, <3>2
    <3>3. CASE x \notin dests /\ x \notin src
      BY <1>2, <1>11, <3>3 DEF GoodKv, CellsExact
    <3>. QED BY <3>1, <3>2, <3>3
  <2>. QED BY <1>2, <1>13, <1>16, <2>2 DEF GoodKv, CellsExact
<1>18. ShiftNoted(k)
  <2>1. FreeCell.delta = 0
    BY DEF FreeCell, Cell
  <2>2. ASSUME NEW x \in Cells, c[x].delta # 0 PROVE kv.has_shift
    <3>1. \E y \in Cells : kv.cells[y].delta # 0
      BY <1>11, <1>14, <2>1, <2>2
    <3>. QED BY <1>2, <3>1 DEF GoodKv, ShiftNoted
  <2>. QED BY <1>13, <2>2 DEF ShiftNoted
<1>19. RowsAt(k)
  <2>1. ASSUME NEW x \in InUse(k) PROVE r[x].rope + c[x].delta = c[x].pos
    <3>1. x \in Cells
      BY DEF InUse
    <3>2. CASE x \in dests
      <4>1. from(x) \in InUse(kv) /\ c[x] = kv.cells[from(x)] /\ r[x] = kv.rows[from(x)]
        BY <1>7, <1>11, <3>1, <3>2
      <4>. QED BY <1>2, <4>1 DEF GoodKv, RowsAt
    <3>3. CASE x \notin dests
      <4>1. x \in InUse(kv) /\ x \notin src
        BY <1>15, <3>3
      <4>2. c[x] = kv.cells[x] /\ r[x] = kv.rows[x]
        BY <1>11, <3>1, <3>3, <4>1
      <4>. QED BY <1>2, <4>1, <4>2 DEF GoodKv, RowsAt
    <3>. QED BY <3>2, <3>3
  <2>. QED BY <1>13, <2>1 DEF RowsAt
<1>20. k \in GoodKv(T) /\ k.used = d.n_used /\ k.has_shift = b
  BY <1>2, <1>12, <1>13, <1>17, <1>18, <1>19 DEF GoodKv
<1>21. moves \in Nat /\ st \in BOOLEAN
  <2>1. {j \in src : j <= Max(src) /\ j - 1 \notin src} \in SUBSET src
    OBVIOUS
  <2>2. BlocksUpTo(src, Max(src)) \in Nat
    BY <1>8, <2>1, FS_Subset, FS_CardinalityType DEF BlocksUpTo
  <2>. QED BY <1>2, <2>2
<1> HIDE DEF moves, st
<1>22. z \in DefragState(T, b)
  BY <1>2, <1>12, <1>20, <1>21 DEF DefragState
<1>. QED BY <1>1, <1>22

\* The flag alone changes nothing else.
LEMMA FlagOnly ==
    ASSUME NEW T, NEW kv \in GoodKv(T), NEW f \in BOOLEAN
    PROVE  [kv EXCEPT !.do_defrag = f] \in GoodKv(T) /\ [kv EXCEPT !.do_defrag = f].has_shift = kv.has_shift
<1> DEFINE o == [kv EXCEPT !.do_defrag = f]
<1>0. kv \in Kv(T)
  BY DEF GoodKv
<1>1. /\ o \in Kv(T) /\ o.cells = kv.cells /\ o.rows = kv.rows /\ o.used = kv.used
      /\ o.has_shift = kv.has_shift
  BY <1>0 DEF Kv
<1> HIDE DEF o
<1>2. InUse(o) = InUse(kv)
  BY <1>1 DEF InUse
<1>3. CellsExact(o) /\ ShiftNoted(o) /\ RowsAt(o)
  BY <1>1, <1>2 DEF GoodKv, CellsExact, ShiftNoted, RowsAt
<1>. QED BY <1>1, <1>3 DEF GoodKv, o

\* llama_kv_cache_defrag_internal moves cells and rows together.
LEMMA DefragGood ==
    ASSUME NEW T, NoTok \in T, NEW kv \in GoodKv(T)
    PROVE  Defrag(kv) \in GoodKv(T) /\ Defrag(kv).has_shift = kv.has_shift
<1> DEFINE X == DefragState(T, kv.has_shift)
           init == [kv |-> kv, n_used |-> kv.used, moves |-> 0, stop |-> FALSE]
           Step(d) == IF d.stop \/ \A i \in 0..(d.n_used - 1) : d.kv.cells[i].seqs # {}
                      THEN d ELSE FillHole(d)
           G == [p \in X \X (1..Size) |-> Step(p[1])]
           Is(f) == f = [k \in 0..Size |-> IF k = 0 THEN init ELSE Step(f[k - 1])]
           Fill == CHOOSE f : Is(f)
<1>0. Size \in Nat /\ kv.has_shift \in BOOLEAN /\ kv \in Kv(T)
  BY KvCacheAssumption, KvFields DEF GoodKv
<1>1. init \in X
  <2>1. kv.used \in 0..Size
    BY InUseFinite DEF GoodKv, CellsExact
  <2>. QED BY <1>0, <2>1 DEF DefragState
<1>2. ASSUME NEW d \in X PROVE Step(d) \in X
  <2>1. CASE d.stop \/ \A i \in 0..(d.n_used - 1) : d.kv.cells[i].seqs # {}
    BY <2>1
  <2>2. CASE ~(d.stop \/ \A i \in 0..(d.n_used - 1) : d.kv.cells[i].seqs # {})
    <3>1. FillHole(d) \in X
      BY <1>0, <2>2, FillHoleGood
    <3>. QED BY <2>2, <3>1
  <2>. QED BY <2>1, <2>2
<1>3. StaysIn(X, G, Size)
  <2> HIDE DEF X, Step
  <2>. QED BY <1>2 DEF StaysIn
<1>4. Defrag(kv) = Forget([Fill[Size].kv EXCEPT !.do_defrag = FALSE])
  BY DEF Defrag
<1> HIDE DEF X, Step, init
<1>5. \E f : Is(f)
  <2>1. PICK f \in [0..Size -> X] : Solution(f, init, G, Size)
    <3> HIDE DEF G, Is, Fill
    <3>. QED BY <1>0, <1>1, <1>3, Recursion
  <2>2. ASSUME NEW k \in 1..Size PROVE f[k] = Step(f[k - 1])
    <3>1. k - 1 \in 0..Size
      BY <1>0
    <3>2. <<f[k - 1], k>> \in X \X (1..Size)
      BY <3>1
    <3>3. G[<<f[k - 1], k>>] = Step(f[k - 1])
      BY <3>2
    <3>. QED BY <2>1, <3>3 DEF Solution
  <2>3. ASSUME NEW k \in 0..Size PROVE f[k] = IF k = 0 THEN init ELSE Step(f[k - 1])
    <3>1. k # 0 => k \in 1..Size
      BY <1>0
    <3>. QED BY <2>1, <2>2, <3>1 DEF Solution
  <2>4. Is(f)
    BY <2>3
  <2>. QED BY <2>4
<1>6. Is(Fill)
  <2> HIDE DEF Is
  <2>. QED BY <1>5
<1> HIDE DEF Fill, G
<1>7. Fill[0] = init /\ \A k \in 1..Size : Fill[k] = Step(Fill[k - 1])
  <2>1. ASSUME NEW k \in 0..Size PROVE Fill[k] = IF k = 0 THEN init ELSE Step(Fill[k - 1])
    BY <1>6
  <2>2. 0 \in 0..Size /\ \A k \in 1..Size : k \in 0..Size /\ k # 0
    BY <1>0
  <2>. QED BY <2>1, <2>2
<1>8. Fill[Size] \in X
  <2>1. Fill[0] \in X /\ \A k \in 1..Size : Fill[k - 1] \in X => Fill[k] \in X
    BY <1>1, <1>2, <1>7
  <2>2. \A k \in 0..Size : Fill[k] \in X
    <3> HIDE DEF Is
    <3>. QED BY <1>0, <2>1, Throughout
  <2>. QED BY <1>0, <2>2
<1>9. Fill[Size].kv \in GoodKv(T) /\ Fill[Size].kv.has_shift = kv.has_shift
  BY <1>8 DEF X, DefragState
<1> DEFINE w == [Fill[Size].kv EXCEPT !.do_defrag = FALSE]
<1>10. w \in GoodKv(T) /\ w.has_shift = kv.has_shift
  BY <1>9, FlagOnly
<1> HIDE DEF w
<1>11. Forget(w) \in GoodKv(T) /\ Forget(w).has_shift = kv.has_shift
  BY <1>10, ForgetGood
<1>. QED BY <1>4, <1>11 DEF w

\* After llama_kv_cache_update no shift is pending.
LEMMA UpdateGood ==
    ASSUME NEW T, NoTok \in T, NEW kv \in GoodKv(T)
    PROVE  Update(kv) \in GoodKv(T) /\ ~Update(kv).has_shift
<1>1. KShift(kv) \in GoodKv(T) /\ ~KShift(kv).has_shift
  BY KShiftGood
<1>2. Defrag(KShift(kv)) \in GoodKv(T) /\ Defrag(KShift(kv)).has_shift = KShift(kv).has_shift
  BY <1>1, DefragGood
<1>. QED BY <1>1, <1>2 DEF Update

-----------------------------------------------------------------------------
(* Decoding                                                                 *)

\* A part of a sequence.
LEMMA PartOf ==
    ASSUME NEW S, NEW s \in Seq(S), NEW a \in Int, NEW b \in Int, 1 <= a, b <= Len(s)
    PROVE  SubSeq(s, a, b) \in Seq(S) /\ Len(SubSeq(s, a, b)) = IF a <= b THEN b - a + 1 ELSE 0
<1>1. \A i \in a..b : s[i] \in S
  <2>1. \A i \in a..b : i \in 1..Len(s)
    OBVIOUS
  <2>. QED BY <2>1
<1>. QED BY <1>1, SubSeqProperties

\* A micro-batch: whether it fits or not, the cache stays good and no shift is
\* pending afterwards.
LEMMA UbatchGood ==
    ASSUME NEW T, NoTok \in T, NEW kv \in GoodKv(T), NEW ub \in Seq(KvTok(T)), Len(ub) >= 1
    PROVE  /\ DecodeUbatch(kv, ub) \in [ok : BOOLEAN, kv : GoodKv(T)]
           /\ ~DecodeUbatch(kv, ub).kv.has_shift
<1> DEFINE up == Update(kv)
           rs == ResetHead(up, Len(ub))
           found == FindSlot(rs, ub)
           rows == [i \in 1..Len(ub) |-> [tok |-> ub[i].tok, rope |-> ub[i].pos]]
           w == WriteRows(found.kv, rows)
           h == IF w.head + Len(ub) >= Size THEN 0 ELSE w.head + Len(ub)
           ah == [w EXCEPT !.head = h]
<1>1. DecodeUbatch(kv, ub) = IF ~found.ok THEN found ELSE [ok |-> TRUE, kv |-> ah]
  BY DEF DecodeUbatch, AdvanceHead
<1>2. up \in GoodKv(T) /\ ~up.has_shift
  BY UpdateGood
<1> HIDE DEF up
<1>3. rs \in GoodKv(T) /\ ~rs.has_shift
  <2>1. 0 \in 0..Size
    BY KvCacheAssumption
  <2>2. [up EXCEPT !.head = 0] \in GoodKv(T) /\ [up EXCEPT !.head = 0].has_shift = up.has_shift
    BY <1>2, <2>1, HeadOnly
  <2>. QED BY <1>2, <2>2 DEF ResetHead
<1> HIDE DEF rs
<1>4. SlotResult(T, rs, ub, found)
  BY <1>3, FindSlotGood
<1> HIDE DEF found
<1>5. CASE ~found.ok
  <2>1. found \in [ok : BOOLEAN, kv : GoodKv(T)] /\ ~found.kv.has_shift
    BY <1>3, <1>4, <1>5 DEF SlotResult
  <2>. QED BY <1>1, <1>5, <2>1
<1>6. CASE found.ok
  <2>1. found.kv \in Kv(T) /\ Awaits(found.kv, ub)
    BY <1>3, <1>4, <1>6 DEF SlotResult
  <2>2. ASSUME NEW i \in 1..Len(ub) PROVE rows[i] \in KvRow(T) /\ rows[i].rope = ub[i].pos
    <3>1. ub[i] \in KvTok(T)
      OBVIOUS
    <3>. QED BY <3>1 DEF KvTok, KvRow
  <2>3. rows \in Seq(KvRow(T)) /\ Len(rows) = Len(ub)
    <3>1. Len(ub) \in Nat /\ rows \in [1..Len(ub) -> KvRow(T)]
      BY <2>2
    <3>. QED BY <3>1
  <2> HIDE DEF rows
  <2>4. w \in GoodKv(T) /\ ~w.has_shift
    BY <2>1, <2>2, <2>3, WriteRowsGood
  <2> HIDE DEF w
  <2>5. h \in 0..Size
    <3>1. w.head \in 0..Size
      BY <2>4, KvFields DEF GoodKv
    <3>. QED BY <3>1, KvCacheAssumption
  <2> HIDE DEF h
  <2>6. ah \in GoodKv(T) /\ ah.has_shift = w.has_shift
    BY <2>4, <2>5, HeadOnly
  <2>7. DecodeUbatch(kv, ub) = [ok |-> TRUE, kv |-> ah]
    BY <1>1, <1>6
  <2> HIDE DEF ah
  <2>. QED BY <2>4, <2>6, <2>7
<1>7. found.ok \in BOOLEAN
  BY <1>4 DEF SlotResult
<1>. QED BY <1>5, <1>6, <1>7

\* llama_decode: micro-batch by micro-batch the cache stays good, whichever of them
\* finds no room; a call with tokens leaves no shift pending.
LEMMA DecodeGood ==
    ASSUME NEW T, NoTok \in T, NEW kv \in GoodKv(T), NEW batch \in Seq(KvTok(T)), NEW u \in Nat \ {0}
    PROVE  /\ Decode(kv, batch, u) \in [ok : BOOLEAN, kv : GoodKv(T)]
           /\ Len(batch) >= 1 => ~Decode(kv, batch, u).kv.has_shift
           /\ batch = <<>> => Decode(kv, batch, u).kv = kv
<1> DEFINE n == Len(batch)
           X == [ok : BOOLEAN, kv : GoodKv(T)]
           init == [ok |-> TRUE, kv |-> kv]
           Chunk(k) == SubSeq(batch, (k - 1) * u + 1, Min({k * u, Len(batch)}))
           Step(r, k) == IF ~r.ok \/ (k - 1) * u >= Len(batch) THEN r
                         ELSE DecodeUbatch(r.kv, Chunk(k))
           G == [p \in X \X (1..n) |-> Step(p[1], p[2])]
           Is(f) == f = [k \in 0..n |-> IF k = 0 THEN init ELSE Step(f[k - 1], k)]
           Ran == CHOOSE f : Is(f)
<1>0. n \in Nat /\ u \in Nat /\ u >= 1
  OBVIOUS
<1>1. init \in X
  OBVIOUS
<1>2. ASSUME NEW k \in 1..n, (k - 1) * u < n
      PROVE  Chunk(k) \in Seq(KvTok(T)) /\ Len(Chunk(k)) >= 1
  <2> DEFINE a == (k - 1) * u
             m == Min({k * u, Len(batch)})
  <2>1. a \in Int /\ a >= 0 /\ k * u = a + u
    BY <1>0
  <2> HIDE DEF a
  <2>2. m \in Int /\ m <= n /\ a + 1 <= m
    <3>1. k * u \in Int /\ n \in Int
      BY <1>0, <2>1
    <3> DEFINE ku == k * u
    <3> HIDE DEF ku
    <3>2. ku \in Int /\ ku = a + u /\ a < n
      BY <1>2, <2>1, <3>1 DEF a, ku
    <3>3. Min({ku, n}) \in {ku, n} /\ Min({ku, n}) <= n
      BY <3>2, <1>0, MinPair
    <3>. QED BY <1>0, <2>1, <3>2, <3>3 DEF ku
  <2> HIDE DEF m
  <2>3. 1 <= a + 1 /\ a + 1 \in Int
    BY <2>1
  <2>4. SubSeq(batch, a + 1, m) \in Seq(KvTok(T)) /\ Len(SubSeq(batch, a + 1, m)) = m - (a + 1) + 1
    BY <2>2, <2>3, PartOf
  <2>5. Chunk(k) = SubSeq(batch, a + 1, m)
    BY DEF a, m
  <2> HIDE DEF Chunk
  <2>. QED BY <2>1, <2>2, <2>4, <2>5
<1>3. ASSUME NEW r \in X, NEW k \in 1..n
      PROVE  /\ Step(r, k) \in X
             /\ (~r.kv.has_shift \/ (k = 1 /\ r.ok)) => ~Step(r, k).kv.has_shift
  <2>0. (k - 1) * u \in Int /\ (k = 1 => (k - 1) * u = 0)
    BY <1>0
  <2>1. CASE ~r.ok \/ (k - 1) * u >= Len(batch)
    <3>1. Step(r, k) = r
      BY <2>1
    <3>2. ~(k = 1 /\ r.ok)
      BY <1>0, <2>0, <2>1
    <3> HIDE DEF Step
    <3>. QED BY <3>1, <3>2
  <2>2. CASE ~(~r.ok \/ (k - 1) * u >= Len(batch))
    <3>1. (k - 1) * u < n
      BY <1>0, <2>0, <2>2
    <3>2. Step(r, k) = DecodeUbatch(r.kv, Chunk(k))
      BY <2>2
    <3>3. Chunk(k) \in Seq(KvTok(T)) /\ Len(Chunk(k)) >= 1 /\ r.kv \in GoodKv(T)
      BY <1>2, <3>1
    <3> HIDE DEF Chunk, Step
    <3>4. DecodeUbatch(r.kv, Chunk(k)) \in X /\ ~DecodeUbatch(r.kv, Chunk(k)).kv.has_shift
      BY <3>3, UbatchGood
    <3>. QED BY <3>2, <3>4
  <2>. QED BY <2>1, <2>2
<1>4. Decode(kv, batch, u) = Ran[n]
  BY DEF Decode
<1> HIDE DEF Chunk, Step, X, init
<1>5. StaysIn(X, G, n)
  BY <1>3 DEF StaysIn
<1> HIDE DEF n
<1>7. \E f : Is(f)
  <2>1. PICK f \in [0..n -> X] : Solution(f, init, G, n)
    <3> HIDE DEF G, Is, Ran
    <3>. QED BY <1>0, <1>1, <1>5, Recursion
  <2>2. ASSUME NEW k \in 1..n PROVE f[k] = Step(f[k - 1], k)
    <3>1. k - 1 \in 0..n
      BY <1>0
    <3>2. <<f[k - 1], k>> \in X \X (1..n)
      BY <3>1
    <3>3. G[<<f[k - 1], k>>] = Step(f[k - 1], k)
      BY <3>2
    <3>. QED BY <2>1, <3>3 DEF Solution
  <2>3. ASSUME NEW k \in 0..n PROVE f[k] = IF k = 0 THEN init ELSE Step(f[k - 1], k)
    <3>1. k # 0 => k \in 1..n
      BY <1>0
    <3>. QED BY <2>1, <2>2, <3>1 DEF Solution
  <2>4. Is(f)
    BY <2>3
  <2>. QED BY <2>4
<1>8. Is(Ran)
  <2> HIDE DEF Is
  <2>. QED BY <1>7
<1> HIDE DEF Ran, G
<1>9. Ran[0] = init /\ \A k \in 1..n : Ran[k] = Step(Ran[k - 1], k)
  <2>1. ASSUME NEW k \in 0..n PROVE Ran[k] = IF k = 0 THEN init ELSE Step(Ran[k - 1], k)
    BY <1>8
  <2>2. 0 \in 0..n /\ \A k \in 1..n : k \in 0..n /\ k # 0
    BY <1>0
  <2>. QED BY <2>1, <2>2
<1> DEFINE S == {k \in 0..n : Ran[k] \in X /\ (k >= 1 => ~Ran[k].kv.has_shift)}
<1>10. 0 \in S
  BY <1>0, <1>1, <1>9
<1>11. ASSUME NEW k \in 1..n, k - 1 \in S PROVE k \in S
  <2>1. Ran[k] = Step(Ran[k - 1], k) /\ Ran[k - 1] \in X
    BY <1>9, <1>11
  <2>2. ~Ran[k - 1].kv.has_shift \/ (k = 1 /\ Ran[k - 1].ok)
    <3>1. k = 1 => Ran[k - 1] = init
      BY <1>9
    <3>2. k # 1 => k - 1 >= 1
      OBVIOUS
    <3>. QED BY <1>11, <3>1, <3>2 DEF init
  <2>. QED BY <1>3, <2>1, <2>2
<1> HIDE DEF S, Is
<1>12. n \in S
  <2>1. \A k \in 1..n : k - 1 \in S => k \in S
    BY <1>11
  <2>2. 0..n \subseteq S
    BY <1>0, <1>10, <2>1, UpTo
  <2>. QED BY <1>0, <2>2
<1>13. batch = <<>> => Ran[n] = init
  BY <1>9 DEF n
<1>. QED BY <1>4, <1>12, <1>13 DEF S, X, n, init

-----------------------------------------------------------------------------
(* The state of a sequence                                                  *)

\* A saved cell, taken while no shift is pending: its row is rotated to its position.
SavedCell(T) == {b \in [pos : Nat, row : KvRow(T)] : b.row.rope = b.pos}

\* write_kv_cache: what is saved between two updates is rotated to where it stands.
LEMMA SeqStateGood ==
    ASSUME NEW T, NEW kv \in GoodKv(T), ~kv.has_shift, NEW s
    PROVE  SeqState(kv, s) \in Seq(SavedCell(T))
<1> DEFINE held == Held(kv, s)
           n == Cardinality(held)
           at(k) == [pos |-> kv.cells[Nth(held, k)].pos, row |-> kv.rows[Nth(held, k)]]
<1>0. kv \in Kv(T)
  BY DEF GoodKv
<1>1. held \subseteq Cells /\ held \subseteq Int
  BY DEF Held, Cells
<1>2. IsFiniteSet(held) /\ n \in Nat
  BY <1>1, CellSets
<1>3. ASSUME NEW k \in 1..n PROVE at(k) \in SavedCell(T)
  <2> DEFINE i == Nth(held, k)
  <2>1. i \in held
    BY <1>1, <1>2, NthIn
  <2>2. i \in Cells /\ i \in InUse(kv)
    BY <2>1 DEF Held, InUse
  <2> HIDE DEF i
  <2>3. kv.cells[i].pos \in Int /\ kv.cells[i].delta \in Int /\ kv.rows[i] \in KvRow(T) /\ kv.rows[i].rope \in Int
    BY <1>0, <2>2, CellTyped
  <2>4. kv.cells[i].pos >= 0 /\ kv.cells[i].delta = 0 /\ kv.rows[i].rope + kv.cells[i].delta = kv.cells[i].pos
    BY <2>2 DEF GoodKv, CellsExact, ShiftNoted, RowsAt, InUse
  <2>5. at(k) = [pos |-> kv.cells[i].pos, row |-> kv.rows[i]]
    BY DEF i
  <2>6. kv.cells[i].pos \in Nat /\ kv.rows[i].rope = kv.cells[i].pos
    BY <2>3, <2>4
  <2> HIDE DEF at
  <2>. QED BY <2>3, <2>5, <2>6 DEF SavedCell
<1>4. SeqState(kv, s) = [k \in 1..n |-> at(k)]
  BY DEF SeqState
<1> HIDE DEF at, n
<1>. QED BY <1>2, <1>3, <1>4

\* read_kv_cache: the cells of the destination go first; the saved ones are placed
\* with their rows or not at all.
LEMMA SetSeqStateGood ==
    ASSUME NEW T, NoTok \in T, NEW kv \in GoodKv(T), ~kv.has_shift, NEW s \in Int,
           NEW blob \in Seq(SavedCell(T))
    PROVE  /\ SetSeqState(kv, s, blob) \in [ok : BOOLEAN, kv : GoodKv(T)]
           /\ ~SetSeqState(kv, s, blob).kv.has_shift
<1> DEFINE n == Len(blob)
           r == SetSeqState(kv, s, blob)
           cleared == SeqRm(kv, s, -1, -1)
           toks == [k \in 1..n |-> [tok |-> NoTok, pos |-> blob[k].pos, seq |-> s]]
           found == FindSlot(cleared, toks)
           b == found.kv.disordered \/ \E k \in 2..n : blob[k].pos < blob[k - 1].pos
           o == [found.kv EXCEPT !.disordered = b]
           rows == [k \in 1..n |-> blob[k].row]
           again == SeqRm(found.kv, s, -1, -1)
           w == WriteRows(o, rows)
<1> SUFFICES r \in [ok : BOOLEAN, kv : GoodKv(T)] /\ ~r.kv.has_shift
  OBVIOUS
<1>0. n \in Nat
  OBVIOUS
<1>1. cleared \in GoodKv(T) /\ ~cleared.has_shift
  BY SeqRmGood
<1>2. r = IF n > Size THEN [ok |-> FALSE, kv |-> cleared]
          ELSE IF n = 0 THEN [ok |-> TRUE, kv |-> cleared]
          ELSE IF ~found.ok THEN [ok |-> FALSE, kv |-> again]
          ELSE [ok |-> TRUE, kv |-> w]
  BY DEF SetSeqState
<1>3. ASSUME NEW k \in 1..n
      PROVE  /\ toks[k] \in KvTok(T) /\ rows[k] \in KvRow(T) /\ rows[k].rope = toks[k].pos
  <2>1. blob[k] \in SavedCell(T)
    OBVIOUS
  <2>2. blob[k].pos \in Nat /\ blob[k].row \in KvRow(T) /\ blob[k].row.rope = blob[k].pos
    BY <2>1 DEF SavedCell
  <2>3. toks[k] = [tok |-> NoTok, pos |-> blob[k].pos, seq |-> s] /\ rows[k] = blob[k].row
    OBVIOUS
  <2> HIDE DEF toks, rows
  <2>. QED BY <2>2, <2>3 DEF KvTok
<1>4. toks \in Seq(KvTok(T)) /\ Len(toks) = n /\ rows \in Seq(KvRow(T)) /\ Len(rows) = n
  <2>1. toks \in [1..n -> KvTok(T)] /\ rows \in [1..n -> KvRow(T)]
    BY <1>3
  <2>2. DOMAIN toks = 1..n /\ DOMAIN rows = 1..n
    OBVIOUS
  <2> HIDE DEF toks, rows, n
  <2>. QED BY <1>0, <2>1, <2>2
<1>5. b \in BOOLEAN
  OBVIOUS
<1> HIDE DEF cleared, toks, rows, r, b
<1>6. CASE n > Size \/ n = 0
  BY <1>0, <1>1, <1>2, <1>6
<1>7. CASE ~(n > Size) /\ n # 0
  <2>1. SlotResult(T, cleared, toks, found)
    <3>1. Len(toks) >= 1
      BY <1>0, <1>4, <1>7
    <3>. QED BY <1>1, <1>4, <3>1, FindSlotGood
  <2> HIDE DEF found, n
  <2>2. CASE ~found.ok
    <3>1. found.kv \in GoodKv(T) /\ ~found.kv.has_shift
      BY <1>1, <2>1, <2>2 DEF SlotResult
    <3>2. again \in GoodKv(T) /\ ~again.has_shift
      BY <3>1, SeqRmGood
    <3> HIDE DEF again
    <3>. QED BY <1>2, <1>7, <2>2, <3>2
  <2>3. CASE found.ok
    <3>1. found.kv \in Kv(T) /\ Awaits(found.kv, toks)
      BY <1>1, <2>1, <2>3 DEF SlotResult
    <3>2. o \in Kv(T) /\ Awaits(o, toks)
      BY <1>5, <3>1, DisorderedOnly
    <3> HIDE DEF o
    <3>3. w \in GoodKv(T) /\ ~w.has_shift
      <4>1. \A j \in 1..Len(toks) : rows[j].rope = toks[j].pos
        BY <1>3, <1>4
      <4>. QED BY <1>4, <3>2, <4>1, WriteRowsGood
    <3> HIDE DEF w
    <3>. QED BY <1>2, <1>7, <2>3, <3>3
  <2>4. found.ok \in BOOLEAN
    BY <2>1 DEF SlotResult
  <2>. QED BY <2>2, <2>3, <2>4
<1>. QED BY <1>6, <1>7

-----------------------------------------------------------------------------
(* What a cache holds                                                       *)

\* Cell i belongs to sequence s alone, at position p, and its row was computed from t.
Bears(kv, i, s, p, t) == kv.cells[i].seqs = {s} /\ kv.cells[i].pos = p /\ kv.rows[i].tok = t

\* The cache has such a cell.
Holds(kv, s, p, t) == \E i \in Cells : Bears(kv, i, s, p, t)

\* Every cell in use has one owner, one of S, and no two of a sequence share a position.
Apart(kv, S) ==
    /\ \A i \in InUse(kv) : \E s \in S : kv.cells[i].seqs = {s}
    /\ \A i, j \in InUse(kv) :
          kv.cells[i].seqs = kv.cells[j].seqs /\ kv.cells[i].pos = kv.cells[j].pos => i = j

\* k holds what kv holds.
Same(k, kv, S) == Apart(k, S) /\ \A s, p, t : Holds(k, s, p, t) <=> Holds(kv, s, p, t)

\* k is kv as far as owners, positions and the tokens of the rows in use go.
Alike(k, kv) ==
    \A i \in Cells : /\ k.cells[i].seqs = kv.cells[i].seqs /\ k.cells[i].pos = kv.cells[i].pos
                     /\ kv.cells[i].seqs # {} => k.rows[i].tok = kv.rows[i].tok

\* Caches that are alike hold the same.
LEMMA AlikeSame ==
    ASSUME NEW k, NEW kv, NEW S, Apart(kv, S), Alike(k, kv)
    PROVE  Same(k, kv, S)
<1>1. InUse(k) = InUse(kv)
  BY DEF Alike, InUse
<1>2. Apart(k, S)
  BY <1>1 DEF Alike, Apart, InUse
<1>3. ASSUME NEW i \in Cells, NEW s, NEW p, NEW t PROVE Bears(k, i, s, p, t) <=> Bears(kv, i, s, p, t)
  <2>1. {s} # {}
    OBVIOUS
  <2>. QED BY <2>1 DEF Alike, Bears
<1>. QED BY <1>2, <1>3 DEF Same, Holds

\* Holding the same is transitive.
LEMMA SameTwice ==
    ASSUME NEW j, NEW k, NEW kv, NEW S, Same(k, kv, S), Same(j, k, S)
    PROVE  Same(j, kv, S)
BY DEF Same

\* A cell in use bears a token of its sequence.
LEMMA BearsOwn ==
    ASSUME NEW kv, NEW S, Apart(kv, S), NEW i \in InUse(kv)
    PROVE  \E s \in S : Bears(kv, i, s, kv.cells[i].pos, kv.rows[i].tok)
BY DEF Apart, Bears

\* What a cell bears makes it one in use.
LEMMA BearsUsed ==
    ASSUME NEW kv, NEW i \in Cells, NEW s, NEW p, NEW t, Bears(kv, i, s, p, t)
    PROVE  i \in InUse(kv)
BY DEF Bears, InUse

\* A sequence holds one token at a position.
LEMMA HoldsOne ==
    ASSUME NEW kv, NEW S, Apart(kv, S), NEW s, NEW p, NEW t, NEW u, Holds(kv, s, p, t), Holds(kv, s, p, u)
    PROVE  t = u
<1>1. PICK i \in Cells : Bears(kv, i, s, p, t)
  BY DEF Holds
<1>2. PICK j \in Cells : Bears(kv, j, s, p, u)
  BY DEF Holds
<1>3. i \in InUse(kv) /\ j \in InUse(kv)
  BY <1>1, <1>2, BearsUsed
<1>4. i = j
  BY <1>1, <1>2, <1>3 DEF Apart, Bears
<1>. QED BY <1>1, <1>2, <1>4 DEF Bears

\* Positions are numbers.
LEMMA HoldsTyped ==
    ASSUME NEW T, NEW kv \in GoodKv(T), NEW s, NEW p, NEW t, Holds(kv, s, p, t)
    PROVE  p \in Nat /\ s \in Int /\ t \in T
<1>0. kv \in Kv(T)
  BY DEF GoodKv
<1>1. PICK i \in Cells : Bears(kv, i, s, p, t)
  BY DEF Holds
<1>2. kv.cells[i].pos \in Int /\ kv.cells[i].seqs \in SUBSET Int /\ kv.rows[i].tok \in T
  BY <1>0, CellTyped
<1>3. kv.cells[i].pos >= 0
  <2>1. kv.cells[i].seqs # {}
    BY <1>1 DEF Bears
  <2>. QED BY <2>1 DEF GoodKv, CellsExact
<1>4. p \in Nat /\ t \in T
  BY <1>1, <1>2, <1>3 DEF Bears
<1>5. s \in kv.cells[i].seqs
  BY <1>1 DEF Bears
<1>. QED BY <1>2, <1>4, <1>5

\* The rows of free cells hold nothing.
LEMMA ForgetAlike ==
    ASSUME NEW T, NEW kv \in Kv(T)
    PROVE  Alike(Forget(kv), kv)
<1> DEFINE r == [i \in Cells |-> IF kv.cells[i].seqs = {} THEN NoRow ELSE kv.rows[i]]
<1>1. Forget(kv).cells = kv.cells /\ Forget(kv).rows = r
  BY DEF Forget, Kv
<1> HIDE DEF r
<1>2. \A i \in Cells : kv.cells[i].seqs # {} => r[i] = kv.rows[i]
  BY DEF r
<1>. QED BY <1>1, <1>2 DEF Alike

\* An empty cache holds nothing.
LEMMA EmptyHolds ==
    ASSUME NEW kv, NEW S, \A i \in Cells : kv.cells[i].seqs = {}
    PROVE  Apart(kv, S) /\ \A s, p, t : ~Holds(kv, s, p, t)
<1>1. InUse(kv) = {}
  BY DEF InUse
<1>. QED BY <1>1 DEF Apart, Holds, Bears

\* llama_kv_cache_clear leaves nothing.
LEMMA ClearHolds ==
    ASSUME NEW T, NEW kv \in Kv(T), NEW S
    PROVE  Apart(Clear(kv), S) /\ \A s, p, t : ~Holds(Clear(kv), s, p, t)
<1> DEFINE c == [i \in Cells |-> Cell(-1, {}, kv.cells[i].delta)]
<1>1. Clear(kv).cells = c
  BY DEF Clear, Kv
<1>2. \A i \in Cells : c[i].seqs = {}
  BY DEF Cell
<1> HIDE DEF c
<1>. QED BY <1>1, <1>2, EmptyHolds

\* llama_kv_cache_seq_rm takes the positions in the range from the sequence, and
\* nothing from the others.
LEMMA SeqRmHolds ==
    ASSUME NEW T, NEW kv \in GoodKv(T), NEW S, Apart(kv, S), NEW s, NEW p0, NEW p1
    PROVE  LET k == SeqRm(kv, s, p0, p1)
           IN /\ Apart(k, S)
              /\ \A q, p, t : Holds(k, q, p, t) <=> Holds(kv, q, p, t) /\ ~(q = s /\ InRange(p, p0, p1))
<1> DEFINE hit == {i \in Held(kv, s) : InRange(kv.cells[i].pos, p0, p1)}
           freed == {i \in hit : kv.cells[i].seqs = {s}}
           c == [i \in Cells |->
                   IF i \in freed THEN Cell(-1, {}, kv.cells[i].delta)
                   ELSE IF i \in hit THEN Cell(kv.cells[i].pos, kv.cells[i].seqs \ {s}, kv.cells[i].delta) ELSE kv.cells[i]]
           u == kv.used - Cardinality(freed)
           h == IF freed = {} THEN kv.head ELSE Min({kv.head, Min(freed)})
           w == [kv EXCEPT !.cells = c, !.used = u, !.head = h]
           k == SeqRm(kv, s, p0, p1)
           r == [i \in Cells |-> IF w.cells[i].seqs = {} THEN NoRow ELSE w.rows[i]]
<1>0. kv \in Kv(T)
  BY DEF GoodKv
<1>1. k = [w EXCEPT !.rows = r]
  BY DEF SeqRm, Forget
<1>2. freed = hit
  BY DEF Held, InUse, Apart
<1>3. ASSUME NEW i \in Cells
      PROVE  (i \in hit => c[i].seqs = {}) /\ (i \notin hit => c[i] = kv.cells[i])
  BY <1>2 DEF Cell
<1>4. k.cells = c /\ \A i \in Cells : c[i].seqs # {} => k.rows[i] = kv.rows[i]
  <2> HIDE DEF c, u, h, k
  <2>1. w.cells = c /\ w.rows = kv.rows
    BY <1>0 DEF Kv
  <2>2. k.cells = w.cells /\ k.rows = r
    <3>0. w = [kv EXCEPT !.cells = c, !.used = u, !.head = h]
      OBVIOUS
    <3> HIDE DEF w, r
    <3>1. w = [cells |-> c, rows |-> kv.rows, head |-> h, used |-> u, has_shift |-> kv.has_shift,
               disordered |-> kv.disordered, do_defrag |-> kv.do_defrag]
      BY <1>0, <3>0 DEF Kv
    <3>. QED BY <1>1, <3>1
  <2> HIDE DEF w
  <2>. QED BY <2>1, <2>2
<1> HIDE DEF freed, c, u, h, w, r, k
<1>5. InUse(k) = InUse(kv) \ hit
  BY <1>3, <1>4 DEF InUse
<1>6. Apart(k, S)
  <2>1. \A i \in InUse(k) : k.cells[i] = kv.cells[i]
    BY <1>3, <1>4, <1>5 DEF InUse
  <2>. QED BY <1>5, <2>1 DEF Apart
<1>7. ASSUME NEW i \in Cells, NEW q, NEW p, NEW t
      PROVE  Bears(k, i, q, p, t) <=> Bears(kv, i, q, p, t) /\ ~(q = s /\ InRange(p, p0, p1))
  <2>1. CASE i \in hit
    <3>1. ~Bears(k, i, q, p, t)
      BY <1>3, <1>4, <2>1 DEF Bears
    <3>2. ASSUME Bears(kv, i, q, p, t) PROVE q = s /\ InRange(p, p0, p1)
      <4>1. s \in kv.cells[i].seqs /\ InRange(kv.cells[i].pos, p0, p1)
        BY <2>1 DEF Held
      <4>. QED BY <3>2, <4>1 DEF Bears
    <3>. QED BY <3>1, <3>2
  <2>2. CASE i \notin hit
    <3>1. Bears(k, i, q, p, t) <=> Bears(kv, i, q, p, t)
      <4>1. {q} # {}
        OBVIOUS
      <4>. QED BY <1>3, <1>4, <2>2, <4>1 DEF Bears
    <3>2. Bears(kv, i, q, p, t) => ~(q = s /\ InRange(p, p0, p1))
      BY <2>2 DEF Bears, Held
    <3>. QED BY <3>1, <3>2
  <2>. QED BY <2>1, <2>2
<1>8. \A q, p, t : Holds(k, q, p, t) <=> Holds(kv, q, p, t) /\ ~(q = s /\ InRange(p, p0, p1))
  BY <1>7 DEF Holds
<1>. QED BY <1>6, <1>8 DEF k

\* llama_kv_cache_seq_add moves the positions in the range, when they meet none of
\* the others and none falls below zero.
LEMMA SeqAddHolds ==
    ASSUME NEW T, NEW kv \in GoodKv(T), NEW S, Apart(kv, S), NEW s,
           NEW a \in Nat, NEW b \in Nat, a # b, NEW delta \in Int, delta # 0, a + delta >= 0,
           \A p, t : Holds(kv, s, p, t) /\ ~InRange(p, a, b) => ~InRange(p - delta, a, b)
    PROVE  LET k == SeqAdd(kv, s, a, b, delta)
           IN /\ Apart(k, S)
              /\ \A q, t : \A p \in Int : Holds(k, q, p, t) <=>
                    IF q = s /\ InRange(p - delta, a, b) THEN Holds(kv, s, p - delta, t)
                    ELSE Holds(kv, q, p, t) /\ ~(q = s /\ InRange(p, a, b))
<1> DEFINE hit == {i \in Held(kv, s) : InRange(kv.cells[i].pos, a, b)}
           freed == {i \in hit : kv.cells[i].pos + delta < 0}
           c == [i \in Cells |->
                   IF i \in freed THEN Cell(-1, {}, kv.cells[i].delta + delta)
                   ELSE IF i \in hit
                   THEN Cell(kv.cells[i].pos + delta, kv.cells[i].seqs, kv.cells[i].delta + delta)
                   ELSE kv.cells[i]]
           e == kv.has_shift \/ hit # {}
           d == kv.disordered \/ hit # {}
           u == kv.used - Cardinality(freed)
           h == IF freed = {} THEN 0 ELSE Min(freed)
           w == [kv EXCEPT !.cells = c, !.has_shift = e, !.disordered = d, !.used = u, !.head = h]
           k == SeqAdd(kv, s, a, b, delta)
           r == [i \in Cells |-> IF w.cells[i].seqs = {} THEN NoRow ELSE w.rows[i]]
<1>0. kv \in Kv(T)
  BY DEF GoodKv
<1>1. k = [w EXCEPT !.rows = r]
  BY DEF SeqAdd, Forget
<1>a. \A i \in Cells : kv.cells[i].pos \in Int
  BY <1>0, CellTyped
<1>2. freed = {}
  BY <1>a DEF Held, InRange
<1>3. ASSUME NEW i \in Cells
      PROVE  /\ c[i].seqs = kv.cells[i].seqs
             /\ c[i].pos = IF i \in hit THEN kv.cells[i].pos + delta ELSE kv.cells[i].pos
  <2>1. CASE i \in hit
    BY <1>2, <2>1 DEF Cell
  <2>2. CASE i \notin hit
    BY <1>2, <2>2
  <2>. QED BY <2>1, <2>2
<1>4. k.cells = c /\ \A i \in Cells : c[i].seqs # {} => k.rows[i] = kv.rows[i]
  <2> HIDE DEF c, e, d, u, h, k
  <2>1. w.cells = c /\ w.rows = kv.rows
    BY <1>0 DEF Kv
  <2>2. k.cells = w.cells /\ k.rows = r
    <3>0. w = [kv EXCEPT !.cells = c, !.has_shift = e, !.disordered = d, !.used = u, !.head = h]
      OBVIOUS
    <3> HIDE DEF w, r
    <3>1. w = [cells |-> c, rows |-> kv.rows, head |-> h, used |-> u, has_shift |-> e,
               disordered |-> d, do_defrag |-> kv.do_defrag]
      BY <1>0, <3>0 DEF Kv
    <3>. QED BY <1>1, <3>1
  <2> HIDE DEF w
  <2>. QED BY <2>1, <2>2
<1> HIDE DEF freed, c, e, d, u, h, w, r, k
<1>5. InUse(k) = InUse(kv)
  BY <1>3, <1>4 DEF InUse
<1>b. ASSUME NEW i \in InUse(kv)
      PROVE  /\ i \in Cells /\ kv.cells[i].pos \in Int
             /\ i \in hit <=> kv.cells[i].seqs = {s} /\ InRange(kv.cells[i].pos, a, b)
             /\ kv.cells[i].seqs = {s} => Holds(kv, s, kv.cells[i].pos, kv.rows[i].tok)
  <2>1. i \in Cells
    BY DEF InUse
  <2>2. PICK q \in S : kv.cells[i].seqs = {q}
    BY DEF Apart
  <2>3. i \in hit <=> kv.cells[i].seqs = {s} /\ InRange(kv.cells[i].pos, a, b)
    BY <2>1, <2>2 DEF Held
  <2>. QED BY <1>a, <2>1, <2>3 DEF Holds, Bears
<1>6. Apart(k, S)
  <2>1. ASSUME NEW i \in InUse(kv), NEW j \in InUse(kv),
               c[i].seqs = c[j].seqs, c[i].pos = c[j].pos PROVE i = j
    <3>1. kv.cells[i].seqs = kv.cells[j].seqs
      BY <1>3, <1>b, <2>1
    <3>2. ASSUME NEW x \in InUse(kv), NEW y \in InUse(kv), c[x].pos = c[y].pos,
                 kv.cells[x].seqs = kv.cells[y].seqs, x \in hit, y \notin hit
          PROVE  FALSE
      <4>1. kv.cells[x].seqs = {s} /\ InRange(kv.cells[x].pos, a, b)
        BY <1>b, <3>2
      <4>2. kv.cells[y].pos = kv.cells[x].pos + delta /\ ~InRange(kv.cells[y].pos, a, b)
        BY <1>3, <1>b, <3>2, <4>1
      <4>3. Holds(kv, s, kv.cells[y].pos, kv.rows[y].tok)
        BY <1>b, <3>2, <4>1
      <4>4. ~InRange(kv.cells[y].pos - delta, a, b)
        BY <4>2, <4>3
      <4>5. kv.cells[y].pos - delta = kv.cells[x].pos
        BY <1>b, <4>2
      <4>. QED BY <4>1, <4>4, <4>5
    <3>3. i \in hit <=> j \in hit
      BY <2>1, <3>1, <3>2
    <3>4. kv.cells[i].pos = kv.cells[j].pos
      BY <1>3, <1>b, <2>1, <3>3
    <3>. QED BY <3>1, <3>4 DEF Apart
  <2>2. ASSUME NEW i \in InUse(kv) PROVE \E q \in S : c[i].seqs = {q}
    BY <1>3, <1>b DEF Apart
  <2>. QED BY <1>4, <1>5, <2>1, <2>2 DEF Apart
<1>7. ASSUME NEW q, NEW t, NEW p \in Int
      PROVE  Holds(k, q, p, t) <=> IF q = s /\ InRange(p - delta, a, b) THEN Holds(kv, s, p - delta, t)
                                   ELSE Holds(kv, q, p, t) /\ ~(q = s /\ InRange(p, a, b))
  <2>1. ASSUME NEW i \in Cells
        PROVE  Bears(k, i, q, p, t) <=> /\ kv.cells[i].seqs = {q} /\ kv.rows[i].tok = t
                                        /\ IF i \in hit THEN kv.cells[i].pos = p - delta
                                           ELSE kv.cells[i].pos = p
    <3>1. {q} # {}
      OBVIOUS
    <3>2. c[i].pos = p <=> IF i \in hit THEN kv.cells[i].pos = p - delta ELSE kv.cells[i].pos = p
      BY <1>3, <1>a
    <3>. QED BY <1>3, <1>4, <3>1, <3>2 DEF Bears
  <2>2. ASSUME NEW i \in Cells, kv.cells[i].seqs = {q}
        PROVE  i \in hit <=> q = s /\ InRange(kv.cells[i].pos, a, b)
    BY <2>2 DEF Held
  <2>3. CASE q = s /\ InRange(p - delta, a, b)
    <3>1. ASSUME NEW i \in Cells PROVE Bears(k, i, q, p, t) <=> Bears(kv, i, s, p - delta, t)
      <4>1. ASSUME Bears(k, i, q, p, t) PROVE Bears(kv, i, s, p - delta, t)
        <5>1. CASE i \in hit
          BY <2>1, <2>3, <4>1, <5>1 DEF Bears
        <5>2. CASE i \notin hit
          <6>1. kv.cells[i].seqs = {s} /\ kv.cells[i].pos = p /\ ~InRange(p, a, b)
            BY <2>1, <2>2, <2>3, <4>1, <5>2
          <6>2. Holds(kv, s, p, kv.rows[i].tok)
            BY <6>1 DEF Holds, Bears
          <6>. QED BY <2>3, <6>1, <6>2
        <5>. QED BY <5>1, <5>2
      <4>2. ASSUME Bears(kv, i, s, p - delta, t) PROVE Bears(k, i, q, p, t)
        BY <2>1, <2>2, <2>3, <4>2 DEF Bears
      <4>. QED BY <4>1, <4>2
    <3>. QED BY <2>3, <3>1 DEF Holds
  <2>4. CASE ~(q = s /\ InRange(p - delta, a, b))
    <3>1. ASSUME NEW i \in Cells
          PROVE  Bears(k, i, q, p, t) <=> Bears(kv, i, q, p, t) /\ ~(q = s /\ InRange(p, a, b))
      <4>1. CASE kv.cells[i].seqs = {q}
        <5>1. CASE i \in hit
          BY <2>1, <2>2, <2>4, <4>1, <5>1 DEF Bears
        <5>2. CASE i \notin hit
          BY <2>1, <2>2, <2>4, <4>1, <5>2 DEF Bears
        <5>. QED BY <5>1, <5>2
      <4>2. CASE kv.cells[i].seqs # {q}
        BY <2>1, <4>2 DEF Bears
      <4>. QED BY <4>1, <4>2
    <3>2. (\E i \in Cells : Bears(k, i, q, p, t)) <=>
             (\E i \in Cells : Bears(kv, i, q, p, t)) /\ ~(q = s /\ InRange(p, a, b))
      BY <3>1
    <3>. QED BY <2>4, <3>2 DEF Holds
  <2>. QED BY <2>3, <2>4
<1>. QED BY <1>6, <1>7 DEF k

\* The K-shift moves no cell and changes no token.
LEMMA KShiftAlike ==
    ASSUME NEW T, NEW kv \in Kv(T)
    PROVE  Alike(KShift(kv), kv) /\ KShift(kv).used = kv.used
<1> DEFINE c == [i \in Cells |-> Cell(kv.cells[i].pos, kv.cells[i].seqs, 0)]
           r == [i \in Cells |-> [tok |-> kv.rows[i].tok, rope |-> kv.rows[i].rope + kv.cells[i].delta]]
           k == [kv EXCEPT !.has_shift = FALSE, !.rows = r, !.cells = c]
<1>1. KShift(kv) = IF ~kv.has_shift THEN kv ELSE k
  BY DEF KShift
<1>2. k.cells = c /\ k.rows = r /\ k.used = kv.used
  <2> HIDE DEF c, r
  <2>. QED BY DEF Kv
<1>3. \A i \in Cells : c[i].seqs = kv.cells[i].seqs /\ c[i].pos = kv.cells[i].pos /\ r[i].tok = kv.rows[i].tok
  BY DEF Cell
<1> HIDE DEF k, c, r
<1>4. Alike(k, kv)
  BY <1>2, <1>3 DEF Alike
<1>. QED BY <1>1, <1>2, <1>4 DEF Alike

\* Each cell of src goes with its row to a cell of dests, from says from where.
Moves(k, kv, src, dests, from) ==
    /\ src \subseteq InUse(kv) /\ dests \subseteq Cells \ InUse(kv)
    /\ \A x \in dests : from[x] \in src
    /\ \A x, y \in dests : from[x] = from[y] => x = y
    /\ \A i \in src : \E x \in dests : from[x] = i
    /\ \A x \in dests : k.cells[x] = kv.cells[from[x]] /\ k.rows[x] = kv.rows[from[x]]
    /\ \A x \in src : k.cells[x] = FreeCell
    /\ \A x \in Cells \ (src \cup dests) : k.cells[x] = kv.cells[x] /\ k.rows[x] = kv.rows[x]

\* Filling a hole moves cells with their rows into free cells, and loses none.
LEMMA FillHoleMoves ==
    ASSUME NEW T, NEW b \in BOOLEAN, NEW d \in DefragState(T, b),
           \E i \in 0..(d.n_used - 1) : d.kv.cells[i].seqs = {}
    PROVE  \E src, dests, from : Moves(FillHole(d).kv, d.kv, src, dests, from)
<1> DEFINE kv == d.kv
           hole == HoleAt(d.kv, d.n_used)
           all == Sources(d.kv, HoleSize(d.kv, d.n_used), hole)
           src == {i \in all : d.moves + BlocksUpTo(all, i) <= MaxMoves}
           dest(i) == hole + Cardinality({j \in src : j < i})
           from(x) == CHOOSE i \in src : dest(i) = x
           dests == {dest(i) : i \in src}
           moves == d.moves + BlocksUpTo(src, Max(src))
           st == src # all \/ moves = MaxMoves
           c == [x \in Cells |-> IF x \in dests THEN d.kv.cells[from(x)]
                                 ELSE IF x \in src THEN FreeCell ELSE d.kv.cells[x]]
           r == [x \in Cells |-> IF x \in dests THEN d.kv.rows[from(x)] ELSE d.kv.rows[x]]
           k == [d.kv EXCEPT !.cells = c, !.rows = r, !.head = d.n_used, !.disordered = TRUE]
           z == [kv |-> k, n_used |-> d.n_used, moves |-> moves, stop |-> st]
<1>1. FillHole(d) = z
  BY DEF FillHole
<1>2. kv \in GoodKv(T) /\ kv \in Kv(T) /\ d.n_used \in 0..Size /\ d.moves \in Nat
  BY DEF DefragState
<1>3. /\ hole \in 0..(d.n_used - 1) /\ HoleSize(kv, d.n_used) \in 1..(d.n_used - hole)
      /\ \A i \in hole..(hole + HoleSize(kv, d.n_used) - 1) : i \in Cells /\ kv.cells[i].seqs = {}
  BY <1>2, HoleFacts
<1>4. hole \in Nat /\ HoleSize(kv, d.n_used) \in Nat /\ Size \in Nat
  <2> HIDE DEF hole, kv
  <2>. QED BY <1>2, <1>3, KvCacheAssumption
<1>5. all \subseteq InUse(kv) /\ IsFiniteSet(all) /\ Cardinality(all) <= HoleSize(kv, d.n_used)
  <2> HIDE DEF hole
  <2>. QED BY <1>4, SourcesFew
<1>6. src \subseteq all /\ InUse(kv) \subseteq Cells /\ Cells \subseteq Int
  BY KvCacheAssumption DEF InUse, Cells
<1> HIDE DEF hole, all
<1>7. src \subseteq Int /\ src \subseteq InUse(kv) /\ src \subseteq Cells
  BY <1>5, <1>6
<1>8. IsFiniteSet(src) /\ Cardinality(src) <= HoleSize(kv, d.n_used) /\ Cardinality(src) \in Nat
  <2>1. IsFiniteSet(src) /\ Cardinality(src) <= Cardinality(all)
    BY <1>5, <1>6, FS_Subset
  <2>2. Cardinality(src) \in Nat /\ Cardinality(all) \in Nat
    BY <1>5, <2>1, FS_CardinalityType
  <2> HIDE DEF src
  <2>. QED BY <1>4, <1>5, <2>1, <2>2
<1> HIDE DEF src
<1>9. /\ dests \subseteq hole..(hole + Cardinality(src) - 1)
      /\ \A i, j \in src : dest(i) = dest(j) => i = j
  BY <1>4, <1>7, <1>8, DestFacts, ZenonT(40)
<1>10. ASSUME NEW x \in dests
       PROVE  from(x) \in src /\ dest(from(x)) = x /\ x \in Cells /\ kv.cells[x].seqs = {}
  <2>1. \E i \in src : dest(i) = x
    OBVIOUS
  <2>2. from(x) \in src /\ dest(from(x)) = x
    <3> HIDE DEF dest
    <3>. QED BY <2>1
  <2> HIDE DEF dests, dest
  <2>3. x \in hole..(hole + HoleSize(kv, d.n_used) - 1)
    BY <1>4, <1>8, <1>9
  <2> HIDE DEF kv, from
  <2>. QED BY <1>3, <2>2, <2>3
<1>11. \A i \in src : dest(i) \in dests
  OBVIOUS
<1> HIDE DEF dest, from
<1>12. ASSUME NEW x \in Cells
       PROVE  /\ x \in dests => c[x] = kv.cells[from(x)] /\ r[x] = kv.rows[from(x)]
              /\ x \notin dests /\ x \in src => c[x] = FreeCell
              /\ x \notin dests => r[x] = kv.rows[x]
              /\ x \notin dests /\ x \notin src => c[x] = kv.cells[x]
  OBVIOUS
<1>13. k.cells = c /\ k.rows = r
  <2> HIDE DEF c, r
  <2>. QED BY <1>2 DEF Kv
<1> DEFINE f == [x \in dests |-> from(x)]
<1>14. \A x \in dests : f[x] = from(x)
  OBVIOUS
<1> HIDE DEF k, c, r, dests, kv, f
<1>15. \A x \in src : x \in Cells /\ x \notin dests /\ kv.cells[x].seqs # {}
  BY <1>7, <1>10 DEF InUse
<1>16. src \subseteq InUse(kv) /\ dests \subseteq Cells \ InUse(kv)
  BY <1>7, <1>10 DEF InUse
<1>17. \A x \in dests : f[x] \in src
  BY <1>10, <1>14
<1>18. \A x, y \in dests : f[x] = f[y] => x = y
  BY <1>10, <1>14
<1>19. ASSUME NEW i \in src PROVE \E x \in dests : f[x] = i
  <2>1. dest(i) \in dests
    BY <1>11
  <2>2. from(dest(i)) \in src /\ dest(from(dest(i))) = dest(i)
    BY <1>10, <2>1
  <2>3. from(dest(i)) = i
    BY <1>9, <2>2
  <2>. QED BY <1>14, <2>1, <2>3
<1>20. \A x \in dests : c[x] = kv.cells[f[x]] /\ r[x] = kv.rows[f[x]]
  BY <1>10, <1>12, <1>14
<1>21. \A x \in src : c[x] = FreeCell
  BY <1>12, <1>15
<1>22. \A x \in Cells \ (src \cup dests) : c[x] = kv.cells[x] /\ r[x] = kv.rows[x]
  BY <1>12
<1>23. Moves(k, kv, src, dests, f)
  BY <1>13, <1>16, <1>17, <1>18, <1>19, <1>20, <1>21, <1>22 DEF Moves
<1>24. FillHole(d).kv = k
  <2> HIDE DEF moves, st
  <2>. QED BY <1>1
<1>. QED BY <1>23, <1>24 DEF kv

\* Cells that move with their rows hold what they held.
LEMMA MovesSame ==
    ASSUME NEW k, NEW kv, NEW src, NEW dests, NEW from, Moves(k, kv, src, dests, from),
           NEW S, Apart(kv, S)
    PROVE  Same(k, kv, S)
<1> DEFINE At(x) == IF x \in dests THEN from[x] ELSE x
<1>0. FreeCell.seqs = {}
  BY DEF FreeCell, Cell
<1>1. ASSUME NEW x \in InUse(k)
      PROVE  /\ x \in Cells /\ At(x) \in InUse(kv)
             /\ k.cells[x] = kv.cells[At(x)] /\ k.rows[x] = kv.rows[At(x)]
  <2>1. x \in Cells /\ k.cells[x].seqs # {} /\ x \notin src
    BY <1>0 DEF InUse, Moves
  <2>2. CASE x \in dests
    BY <2>1, <2>2 DEF Moves
  <2>3. CASE x \notin dests
    <3>1. k.cells[x] = kv.cells[x] /\ k.rows[x] = kv.rows[x]
      BY <2>1, <2>3 DEF Moves
    <3>. QED BY <2>1, <2>3, <3>1 DEF InUse
  <2>. QED BY <2>2, <2>3
<1>2. ASSUME NEW i \in InUse(kv) PROVE \E x \in InUse(k) : At(x) = i
  <2>1. CASE i \in src
    <3>1. PICK x \in dests : from[x] = i
      BY <2>1 DEF Moves
    <3>2. x \in Cells /\ k.cells[x] = kv.cells[i]
      BY <3>1 DEF Moves
    <3>. QED BY <3>1, <3>2 DEF InUse
  <2>2. CASE i \notin src
    <3>1. i \in Cells \ (src \cup dests)
      BY <2>2 DEF Moves, InUse
    <3>2. k.cells[i] = kv.cells[i]
      BY <3>1 DEF Moves
    <3>. QED BY <3>1, <3>2 DEF InUse
  <2>. QED BY <2>1, <2>2
<1>3. ASSUME NEW x \in InUse(k), NEW y \in InUse(k), At(x) = At(y) PROVE x = y
  <2>1. x \notin src /\ y \notin src
    BY <1>0 DEF InUse, Moves
  <2>2. x \in dests => from[x] \in src
    BY DEF Moves
  <2>3. y \in dests => from[y] \in src
    BY DEF Moves
  <2>. QED BY <1>3, <2>1, <2>2, <2>3 DEF Moves
<1> HIDE DEF At
<1>4. Apart(k, S)
  BY <1>1, <1>3 DEF Apart
<1>5. ASSUME NEW s, NEW p, NEW t PROVE Holds(k, s, p, t) <=> Holds(kv, s, p, t)
  <2>1. ASSUME Holds(k, s, p, t) PROVE Holds(kv, s, p, t)
    <3>1. PICK x \in Cells : Bears(k, x, s, p, t)
      BY <2>1 DEF Holds
    <3>2. x \in InUse(k)
      BY <3>1, BearsUsed
    <3>3. At(x) \in Cells /\ Bears(kv, At(x), s, p, t)
      BY <1>1, <3>1, <3>2 DEF Bears, InUse
    <3>. QED BY <3>3 DEF Holds
  <2>2. ASSUME Holds(kv, s, p, t) PROVE Holds(k, s, p, t)
    <3>1. PICK i \in Cells : Bears(kv, i, s, p, t)
      BY <2>2 DEF Holds
    <3>2. i \in InUse(kv)
      BY <3>1, BearsUsed
    <3>3. PICK x \in InUse(k) : At(x) = i
      BY <1>2, <3>2
    <3>4. x \in Cells /\ Bears(k, x, s, p, t)
      BY <1>1, <3>1, <3>3 DEF Bears
    <3>. QED BY <3>4 DEF Holds
  <2>. QED BY <2>1, <2>2
<1>. QED BY <1>4, <1>5 DEF Same

\* The stages of a defragmentation, in any set of them that is closed under filling.
LEMMA DefragWithin ==
    ASSUME NEW T, NEW kv \in GoodKv(T), NEW X, X \subseteq DefragState(T, kv.has_shift),
           [kv |-> kv, n_used |-> kv.used, moves |-> 0, stop |-> FALSE] \in X,
           \A d \in X : (\E i \in 0..(d.n_used - 1) : d.kv.cells[i].seqs = {}) => FillHole(d) \in X
    PROVE  \E d \in X : Defrag(kv) = Forget([d.kv EXCEPT !.do_defrag = FALSE])
<1> DEFINE init == [kv |-> kv, n_used |-> kv.used, moves |-> 0, stop |-> FALSE]
           Step(d) == IF d.stop \/ \A i \in 0..(d.n_used - 1) : d.kv.cells[i].seqs # {}
                      THEN d ELSE FillHole(d)
           G == [p \in X \X (1..Size) |-> Step(p[1])]
           Is(f) == f = [k \in 0..Size |-> IF k = 0 THEN init ELSE Step(f[k - 1])]
           Fill == CHOOSE f : Is(f)
<1>0. Size \in Nat
  BY KvCacheAssumption
<1>1. init \in X
  OBVIOUS
<1>2. ASSUME NEW d \in X PROVE Step(d) \in X
  <2>1. CASE d.stop \/ \A i \in 0..(d.n_used - 1) : d.kv.cells[i].seqs # {}
    BY <2>1
  <2>2. CASE ~(d.stop \/ \A i \in 0..(d.n_used - 1) : d.kv.cells[i].seqs # {})
    <3>1. FillHole(d) \in X
      BY <2>2
    <3>. QED BY <2>2, <3>1
  <2>. QED BY <2>1, <2>2
<1>3. StaysIn(X, G, Size)
  <2> HIDE DEF Step
  <2>. QED BY <1>2 DEF StaysIn
<1>4. Defrag(kv) = Forget([Fill[Size].kv EXCEPT !.do_defrag = FALSE])
  BY DEF Defrag
<1> HIDE DEF Step, init
<1>5. \E f : Is(f)
  <2>1. PICK f \in [0..Size -> X] : Solution(f, init, G, Size)
    <3> HIDE DEF G, Is, Fill
    <3>. QED BY <1>0, <1>1, <1>3, Recursion
  <2>2. ASSUME NEW k \in 1..Size PROVE f[k] = Step(f[k - 1])
    <3>1. k - 1 \in 0..Size
      BY <1>0
    <3>2. <<f[k - 1], k>> \in X \X (1..Size)
      BY <3>1
    <3>3. G[<<f[k - 1], k>>] = Step(f[k - 1])
      BY <3>2
    <3>. QED BY <2>1, <3>3 DEF Solution
  <2>3. ASSUME NEW k \in 0..Size PROVE f[k] = IF k = 0 THEN init ELSE Step(f[k - 1])
    <3>1. k # 0 => k \in 1..Size
      BY <1>0
    <3>. QED BY <2>1, <2>2, <3>1 DEF Solution
  <2>4. Is(f)
    BY <2>3
  <2>. QED BY <2>4
<1>6. Is(Fill)
  <2> HIDE DEF Is
  <2>. QED BY <1>5
<1> HIDE DEF Fill, G
<1>7. Fill[0] = init /\ \A k \in 1..Size : Fill[k] = Step(Fill[k - 1])
  <2>1. ASSUME NEW k \in 0..Size PROVE Fill[k] = IF k = 0 THEN init ELSE Step(Fill[k - 1])
    BY <1>6
  <2>2. 0 \in 0..Size /\ \A k \in 1..Size : k \in 0..Size /\ k # 0
    BY <1>0
  <2>. QED BY <2>1, <2>2
<1>8. Fill[Size] \in X
  <2>1. Fill[0] \in X /\ \A k \in 1..Size : Fill[k - 1] \in X => Fill[k] \in X
    BY <1>1, <1>2, <1>7
  <2>2. \A k \in 0..Size : Fill[k] \in X
    <3> HIDE DEF Is
    <3>. QED BY <1>0, <2>1, Throughout
  <2>. QED BY <1>0, <2>2
<1> HIDE DEF Is
<1>. QED BY <1>4, <1>8

\* The first stage.
LEMMA DefragBegins ==
    ASSUME NEW T, NEW kv \in GoodKv(T)
    PROVE  /\ kv.has_shift \in BOOLEAN
           /\ [kv |-> kv, n_used |-> kv.used, moves |-> 0, stop |-> FALSE] \in DefragState(T, kv.has_shift)
<1>0. kv.has_shift \in BOOLEAN /\ kv \in Kv(T)
  BY KvFields DEF GoodKv
<1>1. kv.used \in 0..Size
  BY InUseFinite DEF GoodKv, CellsExact
<1>. QED BY <1>0, <1>1 DEF DefragState

\* llama_kv_cache_defrag_internal keeps what the cache holds.
LEMMA DefragSame ==
    ASSUME NEW T, NoTok \in T, NEW kv \in GoodKv(T), NEW S, Apart(kv, S)
    PROVE  Same(Defrag(kv), kv, S) /\ Defrag(kv).used = kv.used
<1> DEFINE init == [kv |-> kv, n_used |-> kv.used, moves |-> 0, stop |-> FALSE]
           X == {d \in DefragState(T, kv.has_shift) : Same(d.kv, kv, S) /\ d.n_used = kv.used}
<1>0. kv.has_shift \in BOOLEAN /\ init \in DefragState(T, kv.has_shift)
  BY DefragBegins
<1>1. init \in X
  BY <1>0 DEF Same
<1>2. ASSUME NEW d \in X, \E i \in 0..(d.n_used - 1) : d.kv.cells[i].seqs = {} PROVE FillHole(d) \in X
  <2>1. FillHole(d) \in DefragState(T, kv.has_shift)
    BY <1>0, <1>2, FillHoleGood
  <2>2. PICK src, dests, from : Moves(FillHole(d).kv, d.kv, src, dests, from)
    BY <1>0, <1>2, FillHoleMoves
  <2>3. Same(FillHole(d).kv, d.kv, S)
    BY <2>2, MovesSame DEF Same
  <2>4. FillHole(d).n_used = d.n_used
    BY DEF FillHole
  <2>. QED BY <2>1, <2>3, <2>4, SameTwice
<1> HIDE DEF init
<1>3. PICK d \in X : Defrag(kv) = Forget([d.kv EXCEPT !.do_defrag = FALSE])
  <2>1. X \subseteq DefragState(T, kv.has_shift)
    OBVIOUS
  <2> HIDE DEF X
  <2>. QED BY <1>1, <1>2, <2>1, DefragWithin DEF init
<1> DEFINE w == [d.kv EXCEPT !.do_defrag = FALSE]
<1>4. d.kv \in Kv(T) /\ d.kv.used = kv.used /\ Same(d.kv, kv, S)
  BY DEF DefragState, GoodKv
<1>5. w \in Kv(T) /\ w.cells = d.kv.cells /\ w.rows = d.kv.rows /\ w.used = d.kv.used
  BY <1>4 DEF Kv
<1> HIDE DEF w, X
<1>6. Alike(Forget(w), w) /\ Alike(w, d.kv) /\ Forget(w).used = w.used
  <2>1. Forget(w).used = w.used
    BY <1>5 DEF Forget, Kv
  <2>. QED BY <1>5, <2>1, ForgetAlike DEF Alike
<1>7. Same(w, d.kv, S)
  BY <1>4, <1>6, AlikeSame DEF Same
<1>8. Same(Forget(w), w, S)
  BY <1>6, <1>7, AlikeSame DEF Same
<1>. QED BY <1>3, <1>4, <1>5, <1>6, <1>7, <1>8, SameTwice DEF w

\* llama_kv_cache_update keeps what the cache holds.
LEMMA UpdateSame ==
    ASSUME NEW T, NoTok \in T, NEW kv \in GoodKv(T), NEW S, Apart(kv, S)
    PROVE  Same(Update(kv), kv, S) /\ Update(kv).used = kv.used
<1>1. kv \in Kv(T) /\ KShift(kv) \in GoodKv(T)
  BY KShiftGood DEF GoodKv
<1>2. Alike(KShift(kv), kv) /\ KShift(kv).used = kv.used
  BY <1>1, KShiftAlike
<1>3. Same(KShift(kv), kv, S)
  BY <1>2, AlikeSame
<1>4. Same(Defrag(KShift(kv)), KShift(kv), S) /\ Defrag(KShift(kv)).used = KShift(kv).used
  BY <1>1, <1>3, DefragSame DEF Same
<1>. QED BY <1>2, <1>3, <1>4, SameTwice DEF Update

-----------------------------------------------------------------------------
(* What a batch adds                                                        *)

\* No sequence of S has a token at a position of the batch, and no two tokens of
\* the batch share one.
Fresh(kv, batch, S) ==
    /\ \A i \in 1..Len(batch) : /\ batch[i].seq \in S
                                /\ \A t : ~Holds(kv, batch[i].seq, batch[i].pos, t)
    /\ \A i, j \in 1..Len(batch) : batch[i].seq = batch[j].seq /\ batch[i].pos = batch[j].pos => i = j

\* The batch has token t of sequence s at position p.
Brings(batch, s, p, t) == \E i \in 1..Len(batch) : batch[i].seq = s /\ batch[i].pos = p /\ batch[i].tok = t

\* k holds what kv holds and the tokens of the batch.
Adds(k, kv, batch, S) ==
    Apart(k, S) /\ \A s, p, t : Holds(k, s, p, t) <=> Holds(kv, s, p, t) \/ Brings(batch, s, p, t)

\* k is kv with the cells of the run at its head given to the batch.
Placed(k, kv, batch) ==
    /\ k.head \in 0..Size /\ k.head + Len(batch) <= Size /\ k.rows = kv.rows
    /\ \A i \in Run(k, Len(batch)) : /\ kv.cells[i].seqs = {}
                                     /\ k.cells[i].seqs = {batch[i - k.head + 1].seq}
                                     /\ k.cells[i].pos = batch[i - k.head + 1].pos
    /\ \A i \in Cells \ Run(k, Len(batch)) : k.cells[i] = kv.cells[i]

\* There is a run of n free cells.
HasRun(kv, n) == \E h \in 0..Size : h + n <= Size /\ \A i \in h..(h + n - 1) : kv.cells[i].seqs = {}

\* llama_kv_cache_find_slot changes nothing a cache holds, or gives free cells to the
\* batch; it does the latter whenever there is a run of free cells.
LEMMA FindSlotPlaces ==
    ASSUME NEW T, NEW kv \in GoodKv(T), NEW batch \in Seq(KvTok(T)), Len(batch) >= 1
    PROVE  LET f == FindSlot(kv, batch)
           IN /\ f.ok \in BOOLEAN
              /\ ~f.ok => Alike(f.kv, kv)
              /\ f.ok => Placed(f.kv, kv, batch)
              /\ HasRun(kv, Len(batch)) => f.ok
<1> DEFINE n == Len(batch)
           f == FindSlot(kv, batch)
           at == ScanFrom(kv, n)
           new == at.head..(at.head + n - 1)
           b == kv.disordered /\ kv.used # 0
           o == [kv EXCEPT !.disordered = b]
           c == [i \in Cells |->
                   IF i \in new
                   THEN Cell(batch[i - at.head + 1].pos,
                             o.cells[i].seqs \cup {batch[i - at.head + 1].seq}, o.cells[i].delta)
                   ELSE o.cells[i]]
           u == o.used + n
           k == [o EXCEPT !.head = at.head, !.used = u, !.cells = c]
<1>0. n \in Nat /\ n >= 1 /\ Size \in Nat /\ kv \in Kv(T) /\ b \in BOOLEAN
  BY KvCacheAssumption DEF GoodKv
<1>1. f = IF n > Size THEN [ok |-> FALSE, kv |-> kv]
          ELSE IF ~at.ok THEN [ok |-> FALSE, kv |-> [o EXCEPT !.head = at.head]]
          ELSE [ok |-> TRUE, kv |-> k]
  BY DEF FindSlot
<1>2. o \in Kv(T) /\ o.cells = kv.cells /\ o.rows = kv.rows /\ o.used = kv.used
  <2> HIDE DEF b
  <2>. QED BY <1>0, DisorderedOnly
<1> HIDE DEF o, f
<1> SUFFICES /\ f.ok \in BOOLEAN /\ (~f.ok => Alike(f.kv, kv)) /\ (f.ok => Placed(f.kv, kv, batch))
             /\ HasRun(kv, n) => f.ok
  BY DEF f
<1>3. CASE n > Size
  <2>1. f = [ok |-> FALSE, kv |-> kv]
    BY <1>1, <1>3
  <2>2. ~HasRun(kv, n)
    BY <1>0, <1>3 DEF HasRun
  <2>. QED BY <2>1, <2>2 DEF Alike
<1>4. ASSUME n <= Size PROVE n \in 1..Size /\ at \in ScanState /\ ScanRight(kv, n, at)
  <2>1. n \in 1..Size
    BY <1>0, <1>4
  <2>. QED BY <1>0, <2>1, ScanCorrect
<1>5. CASE n <= Size /\ ~at.ok
  <2>1. f = [ok |-> FALSE, kv |-> [o EXCEPT !.head = at.head]]
    BY <1>0, <1>1, <1>5
  <2>2. ScanRight(kv, n, at)
    BY <1>4, <1>5
  <2> HIDE DEF at
  <2> DEFINE w == [o EXCEPT !.head = at.head]
  <2>3. w.cells = kv.cells /\ w.rows = kv.rows
    BY <1>2 DEF Kv
  <2>4. f = [ok |-> FALSE, kv |-> w]
    BY <2>1
  <2> HIDE DEF w
  <2>5. ~HasRun(kv, n)
    <3> SUFFICES ASSUME NEW h \in 0..Size, h + n <= Size, \A i \in h..(h + n - 1) : kv.cells[i].seqs = {}
                 PROVE  FALSE
      BY DEF HasRun
    <3>1. UsedIn(kv, h, n) # {}
      BY <1>5, <2>2 DEF ScanRight, NoRunAt
    <3>2. PICK i \in 0..(n - 1) : kv.cells[h + i].pos >= 0
      BY <3>1 DEF UsedIn
    <3>3. h + i \in h..(h + n - 1) /\ h + i \in Cells
      BY <1>0 DEF Cells
    <3>4. kv.cells[h + i].seqs # {}
      BY <3>2, <3>3 DEF GoodKv, CellsExact
    <3>. QED BY <3>3, <3>4
  <2>. QED BY <2>3, <2>4, <2>5 DEF Alike
<1>6. CASE n <= Size /\ at.ok
  <2>1. f = [ok |-> TRUE, kv |-> k]
    BY <1>0, <1>1, <1>6
  <2>2. at.head \in 0..Size /\ at.head + n <= Size /\ UsedIn(kv, at.head, n) = {}
    BY <1>4, <1>6 DEF ScanState, ScanRight
  <2> HIDE DEF at
  <2>3. new \subseteq Cells /\ at.head \in Int
    BY <1>0, <2>2 DEF Cells
  <2>4. ASSUME NEW i \in new PROVE kv.cells[i].seqs = {}
    <3>1. i - at.head \in 0..(n - 1) /\ at.head + (i - at.head) = i /\ i \in Cells
      BY <1>0, <2>3
    <3>2. ~(kv.cells[at.head + (i - at.head)].pos >= 0)
      BY <2>2, <3>1 DEF UsedIn
    <3>. QED BY <3>1, <3>2 DEF GoodKv, CellsExact
  <2>5. ASSUME NEW i \in Cells
        PROVE  /\ i \in new => /\ c[i].pos = batch[i - at.head + 1].pos
                               /\ c[i].seqs = {batch[i - at.head + 1].seq}
               /\ i \notin new => c[i] = kv.cells[i]
    <3>1. CASE i \in new
      <4>1. c[i] = Cell(batch[i - at.head + 1].pos, kv.cells[i].seqs \cup {batch[i - at.head + 1].seq},
                        kv.cells[i].delta)
        BY <1>2, <3>1
      <4>2. kv.cells[i].seqs \cup {batch[i - at.head + 1].seq} = {batch[i - at.head + 1].seq}
        BY <2>4, <3>1
      <4> HIDE DEF c, new
      <4>. QED BY <3>1, <4>1, <4>2 DEF Cell
    <3>2. CASE i \notin new
      BY <1>2, <3>2
    <3>. QED BY <3>1, <3>2
  <2>6. k.cells = c /\ k.head = at.head /\ k.rows = kv.rows
    <3> HIDE DEF c, u
    <3>. QED BY <1>2 DEF Kv
  <2>7. Run(k, n) = new
    BY <2>6 DEF Run
  <2> HIDE DEF c, new, k
  <2>8. Placed(k, kv, batch)
    BY <2>2, <2>3, <2>4, <2>5, <2>6, <2>7 DEF Placed
  <2>. QED BY <2>1, <2>8
<1>7. n > Size \/ n <= Size
  BY <1>0
<1>. QED BY <1>3, <1>5, <1>6, <1>7

\* The rows of the batch in the cells found for it.
LEMMA PlacedAdds ==
    ASSUME NEW T, NEW kv, NEW S, Apart(kv, S), NEW o \in Kv(T), NEW batch \in Seq(KvTok(T)),
           Placed(o, kv, batch), Fresh(kv, batch, S),
           NEW rows \in Seq(KvRow(T)), Len(rows) = Len(batch),
           \A j \in 1..Len(batch) : rows[j].tok = batch[j].tok
    PROVE  Adds(WriteRows(o, rows), kv, batch, S)
<1> DEFINE n == Len(batch)
           r == [i \in Cells |-> IF i - o.head \in 0..(Len(rows) - 1)
                                 THEN rows[i - o.head + 1] ELSE o.rows[i]]
           k == [o EXCEPT !.rows = r]
           new == Run(o, n)
           of(i) == i - o.head + 1
<1>1. WriteRows(o, rows) = k
  BY DEF WriteRows
<1>2. n \in Nat /\ Size \in Nat /\ o.head \in 0..Size /\ Len(rows) = n /\ o.head + n <= Size
  BY KvCacheAssumption DEF Placed
<1>3. k.cells = o.cells /\ k.rows = r
  <2> HIDE DEF r
  <2>. QED BY DEF Kv
<1>4. ASSUME NEW i \in Cells
      PROVE  /\ i \in new => of(i) \in 1..n /\ r[i].tok = batch[of(i)].tok
             /\ i \notin new => r[i] = o.rows[i]
  <2>1. i \in Int /\ (i \in new <=> i - o.head \in 0..(n - 1))
    BY <1>2 DEF Run, Cells
  <2>2. CASE i \in new
    <3>1. of(i) \in 1..n
      BY <1>2, <2>1, <2>2
    <3>2. r[i] = rows[of(i)]
      BY <1>2, <2>1, <2>2
    <3> HIDE DEF r, of
    <3>. QED BY <2>2, <3>1, <3>2
  <2>3. CASE i \notin new
    BY <1>2, <2>1, <2>3
  <2>. QED BY <2>2, <2>3
<1>5. \A j \in 1..n : o.head + j - 1 \in new /\ of(o.head + j - 1) = j /\ o.head + j - 1 \in Cells
  BY <1>2 DEF Run, Cells
<1>6. new \subseteq Cells
  BY <1>2 DEF Run, Cells
<1>a. \A i, j \in new : of(i) = of(j) => i = j
  BY <1>2 DEF Run
<1> HIDE DEF k, r
<1>7. ASSUME NEW i \in Cells
      PROVE  /\ i \in new => /\ kv.cells[i].seqs = {} /\ k.cells[i].seqs = {batch[of(i)].seq}
                             /\ k.cells[i].pos = batch[of(i)].pos
             /\ i \notin new => k.cells[i] = kv.cells[i] /\ k.rows[i] = kv.rows[i]
  BY <1>3, <1>4 DEF Placed
<1> HIDE DEF of, new
<1>8. InUse(k) = InUse(kv) \cup new
  BY <1>6, <1>7 DEF InUse
<1>b. ASSUME NEW i \in InUse(kv) PROVE i \in Cells /\ i \notin new /\ k.cells[i] = kv.cells[i]
  BY <1>7 DEF InUse
<1>9. ASSUME NEW i \in InUse(kv), NEW j \in new
      PROVE  ~(k.cells[i].seqs = k.cells[j].seqs /\ k.cells[i].pos = k.cells[j].pos)
  <2>1. PICK s \in S : Bears(kv, i, s, kv.cells[i].pos, kv.rows[i].tok)
    BY BearsOwn
  <2>2. Holds(kv, s, kv.cells[i].pos, kv.rows[i].tok) /\ kv.cells[i].seqs = {s}
    BY <1>b, <2>1 DEF Holds, Bears
  <2>3. /\ of(j) \in 1..n /\ k.cells[j].seqs = {batch[of(j)].seq} /\ k.cells[j].pos = batch[of(j)].pos
    BY <1>4, <1>6, <1>7
  <2>4. ASSUME k.cells[i].seqs = k.cells[j].seqs, k.cells[i].pos = k.cells[j].pos PROVE FALSE
    <3>1. batch[of(j)].seq = s /\ batch[of(j)].pos = kv.cells[i].pos
      BY <1>b, <2>2, <2>3, <2>4
    <3>. QED BY <2>2, <2>3, <3>1 DEF Fresh
  <2>. QED BY <2>4
<1>10. ASSUME NEW i \in new, NEW j \in new, k.cells[i].seqs = k.cells[j].seqs, k.cells[i].pos = k.cells[j].pos
       PROVE  i = j
  <2>1. /\ of(i) \in 1..n /\ k.cells[i].seqs = {batch[of(i)].seq} /\ k.cells[i].pos = batch[of(i)].pos
        /\ of(j) \in 1..n /\ k.cells[j].seqs = {batch[of(j)].seq} /\ k.cells[j].pos = batch[of(j)].pos
    BY <1>4, <1>6, <1>7
  <2>2. batch[of(i)].seq = batch[of(j)].seq /\ batch[of(i)].pos = batch[of(j)].pos
    BY <1>10, <2>1
  <2>3. of(i) = of(j)
    BY <2>1, <2>2 DEF Fresh
  <2>. QED BY <1>a, <2>3
<1>11. Apart(k, S)
  <2>1. ASSUME NEW i \in InUse(k) PROVE \E s \in S : k.cells[i].seqs = {s}
    <3>1. CASE i \in new
      BY <1>4, <1>6, <1>7, <3>1 DEF Fresh
    <3>2. CASE i \in InUse(kv)
      BY <1>b, <3>2 DEF Apart
    <3>. QED BY <1>8, <3>1, <3>2
  <2>2. ASSUME NEW i \in InUse(k), NEW j \in InUse(k),
               k.cells[i].seqs = k.cells[j].seqs, k.cells[i].pos = k.cells[j].pos
        PROVE  i = j
    <3>1. CASE i \in new /\ j \in new
      BY <1>10, <2>2, <3>1
    <3>2. CASE i \in InUse(kv) /\ j \in InUse(kv)
      BY <1>b, <2>2, <3>2 DEF Apart
    <3>. QED BY <1>8, <1>9, <2>2, <3>1, <3>2
  <2>. QED BY <2>1, <2>2 DEF Apart
<1>12. ASSUME NEW s, NEW p, NEW t PROVE Holds(k, s, p, t) <=> Holds(kv, s, p, t) \/ Brings(batch, s, p, t)
  <2>1. ASSUME Holds(k, s, p, t) PROVE Holds(kv, s, p, t) \/ Brings(batch, s, p, t)
    <3>1. PICK i \in Cells : Bears(k, i, s, p, t)
      BY <2>1 DEF Holds
    <3>2. CASE i \in new
      <4>1. of(i) \in 1..n /\ {batch[of(i)].seq} = {s} /\ batch[of(i)].pos = p /\ batch[of(i)].tok = t
        BY <1>3, <1>4, <1>7, <3>1, <3>2 DEF Bears
      <4>. QED BY <4>1 DEF Brings
    <3>3. CASE i \notin new
      BY <1>7, <3>1, <3>3 DEF Holds, Bears
    <3>. QED BY <3>2, <3>3
  <2>2. ASSUME Holds(kv, s, p, t) PROVE Holds(k, s, p, t)
    <3>1. PICK i \in Cells : Bears(kv, i, s, p, t)
      BY <2>2 DEF Holds
    <3>2. i \in InUse(kv)
      BY <3>1, BearsUsed
    <3>. QED BY <1>7, <1>b, <3>1, <3>2 DEF Holds, Bears
  <2>3. ASSUME Brings(batch, s, p, t) PROVE Holds(k, s, p, t)
    <3>1. PICK j \in 1..n : batch[j].seq = s /\ batch[j].pos = p /\ batch[j].tok = t
      BY <2>3 DEF Brings
    <3> DEFINE i == o.head + j - 1
    <3>2. i \in new /\ of(i) = j /\ i \in Cells
      BY <1>5
    <3> HIDE DEF i
    <3>3. Bears(k, i, s, p, t)
      BY <1>3, <1>4, <1>7, <3>1, <3>2 DEF Bears
    <3>. QED BY <3>2, <3>3 DEF Holds
  <2>. QED BY <2>1, <2>2, <2>3
<1>. QED BY <1>1, <1>11, <1>12 DEF Adds

\* Caches that hold the same are as fresh for a batch, and adding to one is adding
\* to the other.
LEMMA SameFresh ==
    ASSUME NEW k, NEW kv, NEW S, Same(k, kv, S), NEW batch, Fresh(kv, batch, S)
    PROVE  Fresh(k, batch, S)
BY DEF Same, Fresh

\* Adding to a cache that holds what kv holds.
LEMMA SameAdds ==
    ASSUME NEW j, NEW k, NEW kv, NEW S, Same(k, kv, S), NEW batch, Adds(j, k, batch, S)
    PROVE  Adds(j, kv, batch, S)
BY DEF Same, Adds

\* Holding what a cache holds to which a batch was added.
LEMMA AddsSame ==
    ASSUME NEW j, NEW k, NEW kv, NEW S, NEW batch, Adds(k, kv, batch, S), Same(j, k, S)
    PROVE  Adds(j, kv, batch, S)
BY DEF Same, Adds

\* A cache that is not full has a free cell.
LEMMA FreeCellLeft ==
    ASSUME NEW T, NEW kv \in GoodKv(T), kv.used < Size
    PROVE  HasRun(kv, 1)
<1>1. InUse(kv) # Cells
  <2>1. Cardinality(Cells) = Size
    BY KvCacheAssumption, FS_Interval DEF Cells
  <2>2. kv.used = Cardinality(InUse(kv)) /\ Size \in Nat
    BY KvCacheAssumption DEF GoodKv, CellsExact
  <2>. QED BY <2>1, <2>2
<1>2. PICK h \in Cells : kv.cells[h].seqs = {}
  BY <1>1 DEF InUse
<1>3. h \in 0..Size /\ h + 1 <= Size /\ \A i \in h..(h + 1 - 1) : i = h
  BY KvCacheAssumption DEF Cells
<1>. QED BY <1>2, <1>3 DEF HasRun

\* A micro-batch adds all its tokens or nothing; a single token finds a free cell.
LEMMA UbatchAdds ==
    ASSUME NEW T, NoTok \in T, NEW kv \in GoodKv(T), NEW S, Apart(kv, S),
           NEW ub \in Seq(KvTok(T)), Len(ub) >= 1, Fresh(kv, ub, S)
    PROVE  LET r == DecodeUbatch(kv, ub)
           IN /\ r.ok => Adds(r.kv, kv, ub, S)
              /\ ~r.ok => Same(r.kv, kv, S)
              /\ Len(ub) = 1 /\ kv.used < Size => r.ok
<1> DEFINE up == Update(kv)
           rs == ResetHead(up, Len(ub))
           found == FindSlot(rs, ub)
           rows == [i \in 1..Len(ub) |-> [tok |-> ub[i].tok, rope |-> ub[i].pos]]
           w == WriteRows(found.kv, rows)
           h == IF w.head + Len(ub) >= Size THEN 0 ELSE w.head + Len(ub)
           ah == [w EXCEPT !.head = h]
           r == DecodeUbatch(kv, ub)
<1> SUFFICES /\ r.ok => Adds(r.kv, kv, ub, S)
             /\ ~r.ok => Same(r.kv, kv, S)
             /\ Len(ub) = 1 /\ kv.used < Size => r.ok
  OBVIOUS
<1>1. r = IF ~found.ok THEN found ELSE [ok |-> TRUE, kv |-> ah]
  BY DEF DecodeUbatch, AdvanceHead
<1>2. up \in GoodKv(T) /\ ~up.has_shift /\ Same(up, kv, S) /\ up.used = kv.used
  BY UpdateGood, UpdateSame
<1> HIDE DEF up, r
<1>3. rs \in GoodKv(T) /\ ~rs.has_shift /\ Alike(rs, up) /\ rs.used = up.used
  <2>1. 0 \in 0..Size
    BY KvCacheAssumption
  <2> DEFINE z == [up EXCEPT !.head = 0]
  <2>2. z \in GoodKv(T) /\ z.has_shift = up.has_shift
    BY <1>2, <2>1, HeadOnly
  <2>3. z.cells = up.cells /\ z.rows = up.rows /\ z.used = up.used
    BY <1>2 DEF GoodKv, Kv
  <2>4. Alike(z, up) /\ Alike(up, up)
    BY <2>3 DEF Alike
  <2>5. rs = IF up.head > up.used + 2 * Len(ub) THEN z ELSE up
    BY DEF ResetHead
  <2> HIDE DEF z
  <2>. QED BY <1>2, <2>2, <2>3, <2>4, <2>5
<1> HIDE DEF rs
<1>4. Same(rs, kv, S)
  <2>1. Same(rs, up, S)
    BY <1>2, <1>3, AlikeSame DEF Same
  <2>. QED BY <1>2, <2>1, SameTwice
<1>5. SlotResult(T, rs, ub, found)
  BY <1>3, FindSlotGood
<1>6. /\ found.ok \in BOOLEAN /\ (~found.ok => Alike(found.kv, rs)) /\ (found.ok => Placed(found.kv, rs, ub))
      /\ HasRun(rs, Len(ub)) => found.ok
  BY <1>3, FindSlotPlaces
<1> HIDE DEF found
<1>7. CASE ~found.ok
  <2>1. r = found
    BY <1>1, <1>7
  <2>2. Same(found.kv, rs, S)
    BY <1>4, <1>6, <1>7, AlikeSame DEF Same
  <2>3. ~(Len(ub) = 1 /\ kv.used < Size)
    <3>1. ASSUME Len(ub) = 1, kv.used < Size PROVE FALSE
      <4>1. HasRun(rs, 1)
        BY <1>2, <1>3, <3>1, FreeCellLeft
      <4>. QED BY <1>6, <1>7, <3>1, <4>1
    <3>. QED BY <3>1
  <2>. QED BY <1>4, <1>7, <2>1, <2>2, <2>3, SameTwice
<1>8. CASE found.ok
  <2>1. found.kv \in Kv(T) /\ Awaits(found.kv, ub)
    BY <1>3, <1>5, <1>8 DEF SlotResult
  <2>2. ASSUME NEW i \in 1..Len(ub)
        PROVE  rows[i] \in KvRow(T) /\ rows[i].rope = ub[i].pos /\ rows[i].tok = ub[i].tok
    <3>1. ub[i] \in KvTok(T)
      OBVIOUS
    <3>. QED BY <3>1 DEF KvTok, KvRow
  <2>3. rows \in Seq(KvRow(T)) /\ Len(rows) = Len(ub)
    <3>1. Len(ub) \in Nat /\ rows \in [1..Len(ub) -> KvRow(T)]
      BY <2>2
    <3>. QED BY <3>1
  <2> HIDE DEF rows
  <2>4. Adds(w, rs, ub, S)
    <3>1. Fresh(rs, ub, S) /\ Apart(rs, S)
      BY <1>4, SameFresh DEF Same
    <3>. QED BY <1>6, <1>8, <2>1, <2>2, <2>3, <3>1, PlacedAdds
  <2>5. w \in GoodKv(T)
    BY <2>1, <2>2, <2>3, WriteRowsGood
  <2> HIDE DEF w, h
  <2>6. Alike(ah, w)
    <3>1. ah.cells = w.cells /\ ah.rows = w.rows
      BY <2>5 DEF GoodKv, Kv
    <3> HIDE DEF ah
    <3>. QED BY <3>1 DEF Alike
  <2>7. r = [ok |-> TRUE, kv |-> ah]
    BY <1>1, <1>8
  <2> HIDE DEF ah
  <2>8. Same(ah, w, S)
    BY <2>4, <2>6, AlikeSame DEF Adds
  <2>9. Adds(ah, rs, ub, S)
    BY <2>4, <2>8, AddsSame
  <2>10. Adds(ah, kv, ub, S)
    BY <1>4, <2>9, SameAdds
  <2>. QED BY <2>7, <2>10
<1>. QED BY <1>6, <1>7, <1>8

\* The k-th micro-batch of llama_decode.
Chunk(batch, k, u) == SubSeq(batch, (k - 1) * u + 1, Min({k * u, Len(batch)}))

\* What the first k micro-batches cover.
Covered(batch, k, u) == Min({k * u, Len(batch)})

\* The micro-batches are parts of the batch, one after the other.
LEMMA CoveredFacts ==
    ASSUME NEW T, NEW batch \in Seq(KvTok(T)), NEW u \in Nat \ {0}, NEW k \in 1..Len(batch)
    PROVE  /\ (k - 1) * u \in Nat /\ Covered(batch, k, u) \in 0..Len(batch)
           /\ Covered(batch, k - 1, u) \in 0..Len(batch)
           /\ (k - 1) * u < Len(batch) =>
                 /\ Covered(batch, k - 1, u) = (k - 1) * u /\ (k - 1) * u + 1 <= Covered(batch, k, u)
                 /\ Chunk(batch, k, u) \in Seq(KvTok(T))
                 /\ Len(Chunk(batch, k, u)) = Covered(batch, k, u) - (k - 1) * u
                 /\ Chunk(batch, k, u) = SubSeq(batch, (k - 1) * u + 1, Covered(batch, k, u))
                 /\ Covered(batch, k, u) - (k - 1) * u <= u
           /\ (k - 1) * u >= Len(batch) => Covered(batch, k, u) = Len(batch) /\ Covered(batch, k - 1, u) = Len(batch)
<1> DEFINE a == (k - 1) * u
           b == k * u
           n == Len(batch)
<1>1. a \in Nat /\ b = a + u /\ b \in Nat /\ n \in Nat /\ u \in Nat /\ u >= 1
  OBVIOUS
<1>2. Covered(batch, k - 1, u) = Min({a, n}) /\ Covered(batch, k, u) = Min({b, n})
  BY DEF Covered
<1>3. Chunk(batch, k, u) = SubSeq(batch, a + 1, Min({b, n}))
  BY DEF Chunk
<1> HIDE DEF a, b, n
<1>4. Min({a, n}) = IF a <= n THEN a ELSE n
  BY <1>1, MinPair
<1>5. Min({b, n}) = IF b <= n THEN b ELSE n
  BY <1>1, MinPair
<1> DEFINE m == Min({b, n})
<1>6. m \in 0..n /\ Min({a, n}) \in 0..n /\ (a < n => a + 1 <= m /\ m - a <= u /\ Min({a, n}) = a)
      /\ (a >= n => m = n /\ Min({a, n}) = n)
  BY <1>1, <1>4, <1>5
<1> HIDE DEF m
<1>7. ASSUME a < n PROVE SubSeq(batch, a + 1, m) \in Seq(KvTok(T)) /\ Len(SubSeq(batch, a + 1, m)) = m - a
  <2>1. a + 1 \in Int /\ m \in Int /\ 1 <= a + 1 /\ m <= Len(batch) /\ a + 1 <= m
    BY <1>1, <1>6, <1>7 DEF n
  <2>2. SubSeq(batch, a + 1, m) \in Seq(KvTok(T)) /\ Len(SubSeq(batch, a + 1, m)) = m - (a + 1) + 1
    BY <2>1, PartOf
  <2>. QED BY <1>1, <2>1, <2>2
<1>. QED BY <1>1, <1>2, <1>3, <1>6, <1>7 DEF a, m, n

\* llama_decode, in any family of stages that its micro-batches lead through.
LEMMA DecodeWithin ==
    ASSUME NEW T, NEW kv, NEW batch \in Seq(KvTok(T)), NEW u \in Nat \ {0}, NEW X,
           [ok |-> TRUE, kv |-> kv] \in X[0],
           \A k \in 1..Len(batch) : \A r \in X[k - 1] :
              IF ~r.ok \/ (k - 1) * u >= Len(batch) THEN r \in X[k]
              ELSE DecodeUbatch(r.kv, Chunk(batch, k, u)) \in X[k]
    PROVE  Decode(kv, batch, u) \in X[Len(batch)]
<1> DEFINE n == Len(batch)
           init == [ok |-> TRUE, kv |-> kv]
           Ch(k) == SubSeq(batch, (k - 1) * u + 1, Min({k * u, Len(batch)}))
           Step(r, k) == IF ~r.ok \/ (k - 1) * u >= Len(batch) THEN r
                         ELSE DecodeUbatch(r.kv, Ch(k))
           Is(f) == f = [k \in 0..n |-> IF k = 0 THEN init ELSE Step(f[k - 1], k)]
           Ran == CHOOSE f : Is(f)
           Y == UNION {X[k] : k \in 0..n}
           G == [p \in Y \X (1..n) |-> Step(p[1], p[2])]
<1>0. n \in Nat
  OBVIOUS
<1>1. Decode(kv, batch, u) = Ran[n]
  BY DEF Decode
<1>2. ASSUME NEW k \in 1..n, NEW r \in X[k - 1] PROVE Step(r, k) \in X[k]
  <2>1. Ch(k) = Chunk(batch, k, u)
    BY DEF Chunk
  <2>. QED BY <2>1
<1>3. init \in X[0]
  OBVIOUS
<1>4. ASSUME NEW k \in 1..n, NEW r \in X[k - 1] PROVE G[<<r, k>>] = Step(r, k)
  <2> HIDE DEF Step
  <2>1. k - 1 \in 0..n
    BY <1>0
  <2>2. r \in Y
    BY <2>1
  <2> HIDE DEF Y
  <2>. QED BY <2>2
<1> HIDE DEF Step, init, n, Y, G
<1>5. PICK f : /\ f = [k \in 0..n |-> f[k]] /\ Solution(f, init, G, n) /\ \A k \in 0..n : f[k] \in X[k]
  <2>1. \A k \in 1..n : \A x \in X[k - 1] : G[<<x, k>>] \in X[k]
    BY <1>2, <1>4
  <2> HIDE DEF Is, Ran
  <2>. QED BY <1>0, <1>3, <2>1, FamilyRecursion
<1>6. ASSUME NEW k \in 0..n PROVE f[k] = IF k = 0 THEN init ELSE Step(f[k - 1], k)
  <2>1. CASE k = 0
    BY <1>5, <2>1 DEF Solution
  <2>2. CASE k # 0
    <3>1. k \in 1..n /\ k - 1 \in 0..n
      BY <1>0, <2>2
    <3>2. f[k] = G[<<f[k - 1], k>>]
      BY <1>5, <3>1 DEF Solution
    <3>3. f[k - 1] \in X[k - 1]
      BY <1>5, <3>1
    <3>. QED BY <1>4, <2>2, <3>1, <3>2, <3>3
  <2>. QED BY <2>1, <2>2
<1>7. Is(f)
  BY <1>5, <1>6
<1>8. Is(Ran)
  <2> HIDE DEF Is
  <2>. QED BY <1>7
<1> HIDE DEF Ran
<1>9. ASSUME NEW k \in 0..n PROVE Ran[k] = IF k = 0 THEN init ELSE Step(Ran[k - 1], k)
  BY <1>8
<1> DEFINE W == {k \in 0..n : Ran[k] \in X[k]}
<1>10. 0 \in W
  BY <1>0, <1>3, <1>9
<1>11. ASSUME NEW k \in 1..n, k - 1 \in W PROVE k \in W
  <2>1. k \in 0..n /\ k # 0
    BY <1>0
  <2>2. Ran[k] = Step(Ran[k - 1], k)
    BY <1>9, <2>1
  <2>. QED BY <1>2, <1>11, <2>1, <2>2
<1> HIDE DEF W, Is
<1>12. n \in W
  <2>1. 0..n \subseteq W
    BY <1>0, <1>10, <1>11, UpTo
  <2>. QED BY <1>0, <2>1
<1>. QED BY <1>1, <1>12 DEF W, n

\* The tokens of a part of a batch.
LEMMA BringsPart ==
    ASSUME NEW T, NEW batch \in Seq(KvTok(T)), NEW a \in 0..Len(batch), NEW b \in 0..Len(batch), a <= b
    PROVE  /\ SubSeq(batch, a + 1, b) \in Seq(KvTok(T)) /\ Len(SubSeq(batch, a + 1, b)) = b - a
           /\ \A i \in 1..(b - a) : SubSeq(batch, a + 1, b)[i] = batch[a + i]
           /\ \A s, p, t : Brings(SubSeq(batch, a + 1, b), s, p, t) <=>
                 \E i \in (a + 1)..b : batch[i].seq = s /\ batch[i].pos = p /\ batch[i].tok = t
<1> DEFINE q == SubSeq(batch, a + 1, b)
<1>1. Len(batch) \in Nat /\ a \in Int /\ b \in Int /\ a + 1 \in Int /\ 1 <= a + 1 /\ b <= Len(batch)
  OBVIOUS
<1>2. q \in Seq(KvTok(T)) /\ Len(q) = b - a
  <2>1. q \in Seq(KvTok(T)) /\ Len(q) = IF a + 1 <= b THEN b - (a + 1) + 1 ELSE 0
    BY <1>1, PartOf
  <2> HIDE DEF q
  <2>. QED BY <1>1, <2>1
<1>3. ASSUME NEW i \in 1..(b - a) PROVE q[i] = batch[a + i]
  <2>1. \A j \in (a + 1)..b : batch[j] \in KvTok(T)
    <3>1. \A j \in (a + 1)..b : j \in 1..Len(batch)
      BY <1>1
    <3>. QED BY <3>1
  <2>2. i \in 1..(b - (a + 1) + 1)
    BY <1>1
  <2>3. q[i] = batch[(a + 1) + i - 1]
    BY <1>1, <2>1, <2>2, SubSeqProperties
  <2>4. (a + 1) + i - 1 = a + i
    BY <1>1
  <2> HIDE DEF q
  <2>. QED BY <2>3, <2>4
<1> HIDE DEF q
<1>4. ASSUME NEW s, NEW p, NEW t
      PROVE  Brings(q, s, p, t) <=> \E i \in (a + 1)..b : batch[i].seq = s /\ batch[i].pos = p /\ batch[i].tok = t
  <2>1. ASSUME Brings(q, s, p, t)
        PROVE  \E i \in (a + 1)..b : batch[i].seq = s /\ batch[i].pos = p /\ batch[i].tok = t
    <3>1. PICK i \in 1..(b - a) : q[i].seq = s /\ q[i].pos = p /\ q[i].tok = t
      BY <1>2, <2>1 DEF Brings
    <3>2. a + i \in (a + 1)..b
      BY <1>1
    <3>. QED BY <1>3, <3>1, <3>2
  <2>2. ASSUME NEW i \in (a + 1)..b, batch[i].seq = s, batch[i].pos = p, batch[i].tok = t
        PROVE  Brings(q, s, p, t)
    <3>1. i - a \in 1..(b - a) /\ a + (i - a) = i
      BY <1>1
    <3>2. q[i - a] = batch[i]
      BY <1>3, <3>1
    <3>. QED BY <1>2, <2>2, <3>1, <3>2 DEF Brings
  <2>. QED BY <2>1, <2>2
<1>. QED BY <1>2, <1>3, <1>4 DEF q

\* The first m tokens of a batch.
First(batch, m) == SubSeq(batch, 1, m)

\* They are a batch of their own that brings those tokens.
LEMMA FirstPart ==
    ASSUME NEW T, NEW batch \in Seq(KvTok(T)), NEW m \in 0..Len(batch)
    PROVE  /\ First(batch, m) \in Seq(KvTok(T)) /\ Len(First(batch, m)) = m
           /\ \A i \in 1..m : First(batch, m)[i] = batch[i]
           /\ \A s, p, t : Brings(First(batch, m), s, p, t) <=>
                 \E i \in 1..m : batch[i].seq = s /\ batch[i].pos = p /\ batch[i].tok = t
<1>1. 0 \in 0..Len(batch) /\ 0 <= m /\ 0 + 1 = 1 /\ m - 0 = m /\ \A i \in 1..m : 0 + i = i
  OBVIOUS
<1>2. First(batch, m) = SubSeq(batch, 0 + 1, m)
  BY <1>1 DEF First
<1> DEFINE q == SubSeq(batch, 0 + 1, m)
<1>3. /\ q \in Seq(KvTok(T)) /\ Len(q) = m - 0
      /\ \A i \in 1..(m - 0) : q[i] = batch[0 + i]
      /\ \A s, p, t : Brings(q, s, p, t) <=>
            \E i \in (0 + 1)..m : batch[i].seq = s /\ batch[i].pos = p /\ batch[i].tok = t
  BY <1>1, BringsPart
<1> HIDE DEF q
<1>. QED BY <1>1, <1>2, <1>3 DEF q

\* What follows the first a tokens is fresh for a cache that has those.
LEMMA RestFresh ==
    ASSUME NEW T, NEW kv, NEW S, NEW batch \in Seq(KvTok(T)), Fresh(kv, batch, S),
           NEW a \in 0..Len(batch), NEW b \in 0..Len(batch), a <= b, NEW k, Adds(k, kv, First(batch, a), S)
    PROVE  Fresh(k, SubSeq(batch, a + 1, b), S)
<1> DEFINE q == SubSeq(batch, a + 1, b)
<1>1. Len(q) = b - a /\ \A i \in 1..(b - a) : q[i] = batch[a + i]
  BY BringsPart
<1>2. \A i \in 1..(b - a) : a + i \in 1..Len(batch) /\ a + i > a
  OBVIOUS
<1> HIDE DEF q
<1>3. ASSUME NEW i \in 1..(b - a), NEW t PROVE ~Holds(k, q[i].seq, q[i].pos, t)
  <2>1. ~Holds(kv, batch[a + i].seq, batch[a + i].pos, t)
    BY <1>2 DEF Fresh
  <2>2. ASSUME Brings(First(batch, a), batch[a + i].seq, batch[a + i].pos, t) PROVE FALSE
    <3>1. PICK j \in 1..a : batch[j].seq = batch[a + i].seq /\ batch[j].pos = batch[a + i].pos
      BY <2>2, FirstPart, SMTT(60)
    <3>2. j \in 1..Len(batch) /\ j # a + i
      OBVIOUS
    <3>. QED BY <1>2, <3>1, <3>2 DEF Fresh
  <2>3. q[i] = batch[a + i]
    BY <1>1
  <2>. QED BY <2>1, <2>2, <2>3 DEF Adds
<1>4. ASSUME NEW i \in 1..(b - a) PROVE q[i].seq \in S
  BY <1>1, <1>2 DEF Fresh
<1>5. ASSUME NEW i \in 1..(b - a), NEW j \in 1..(b - a), q[i].seq = q[j].seq, q[i].pos = q[j].pos PROVE i = j
  <2>1. batch[a + i].seq = batch[a + j].seq /\ batch[a + i].pos = batch[a + j].pos
    BY <1>1, <1>5
  <2>2. a + i \in 1..Len(batch) /\ a + j \in 1..Len(batch)
    BY <1>2
  <2>3. a + i = a + j
    BY <2>1, <2>2, Zenon DEF Fresh
  <2>. QED BY <2>3
<1>. QED BY <1>1, <1>3, <1>4, <1>5 DEF Fresh, q

\* Adding a part and then the next.
LEMMA AddsOn ==
    ASSUME NEW T, NEW kv, NEW S, NEW batch \in Seq(KvTok(T)),
           NEW a \in 0..Len(batch), NEW b \in 0..Len(batch), a <= b, NEW k, Adds(k, kv, First(batch, a), S),
           NEW j, Adds(j, k, SubSeq(batch, a + 1, b), S)
    PROVE  Adds(j, kv, First(batch, b), S)
<1>1. ASSUME NEW s, NEW p, NEW t
      PROVE  Brings(First(batch, b), s, p, t) <=>
                Brings(First(batch, a), s, p, t) \/ Brings(SubSeq(batch, a + 1, b), s, p, t)
  <2>1. \A i : i \in 1..b <=> i \in 1..a \/ i \in (a + 1)..b
    OBVIOUS
  <2>0. ASSUME NEW m \in 0..Len(batch)
        PROVE  Brings(First(batch, m), s, p, t) <=>
                 \E i \in 1..m : batch[i].seq = s /\ batch[i].pos = p /\ batch[i].tok = t
    BY FirstPart, SMTT(40)
  <2>2. Brings(First(batch, b), s, p, t) <=>
           \E i \in 1..b : batch[i].seq = s /\ batch[i].pos = p /\ batch[i].tok = t
    BY <2>0, Zenon
  <2>3. Brings(First(batch, a), s, p, t) <=>
           \E i \in 1..a : batch[i].seq = s /\ batch[i].pos = p /\ batch[i].tok = t
    BY <2>0, Zenon
  <2>4. Brings(SubSeq(batch, a + 1, b), s, p, t) <=>
           \E i \in (a + 1)..b : batch[i].seq = s /\ batch[i].pos = p /\ batch[i].tok = t
    BY BringsPart
  <2>. QED BY <2>1, <2>2, <2>3, <2>4
<1>. QED BY <1>1 DEF Adds

\* Every cache that has a part of the batch, not all of it, has room for more.
Roomy(T, kv, batch, S) ==
    \A k \in GoodKv(T) : \A m \in 0..(Len(batch) - 1) : Adds(k, kv, First(batch, m), S) => k.used < Size

\* llama_decode adds the whole batch, or the micro-batches before the one that found
\* no room; token by token there is always room.
LEMMA DecodeAdds ==
    ASSUME NEW T, NoTok \in T, NEW kv \in GoodKv(T), NEW S, Apart(kv, S),
           NEW batch \in Seq(KvTok(T)), Fresh(kv, batch, S), Roomy(T, kv, batch, S), NEW u \in Nat \ {0}
    PROVE  LET r == Decode(kv, batch, u)
           IN /\ r.ok => Adds(r.kv, kv, batch, S)
              /\ ~r.ok => \E m \in 0..(Len(batch) - 1) :
                            Adds(r.kv, kv, First(batch, m), S) /\ (u >= Len(batch) => m = 0)
              /\ u = 1 \/ Len(batch) = 1 => r.ok
<1> DEFINE n == Len(batch)
           Failed(r) == /\ \E m \in 0..(n - 1) : Adds(r.kv, kv, First(batch, m), S) /\ (u >= n => m = 0)
                        /\ ~(u = 1 \/ n = 1)
           X == [k \in 0..n |-> {r \in [ok : BOOLEAN, kv : GoodKv(T)] :
                                   /\ r.ok => Adds(r.kv, kv, First(batch, Covered(batch, k, u)), S)
                                   /\ ~r.ok => Failed(r)}]
           init == [ok |-> TRUE, kv |-> kv]
<1>0. n \in Nat /\ u \in Nat /\ u >= 1
  OBVIOUS
<1>1. init \in X[0]
  <2>1. Covered(batch, 0, u) = 0
    <3>1. 0 * u = 0 /\ n \in Int /\ 0 \in Int
      BY <1>0
    <3>2. Min({0, n}) = 0
      BY <1>0, <3>1, MinPair
    <3>. QED BY <3>1, <3>2 DEF Covered
  <2>2. \A s, p, t : ~Brings(First(batch, 0), s, p, t)
    <3>1. 0 \in 0..Len(batch) /\ 1..0 = {}
      BY <1>0
    <3>. QED BY <3>1, FirstPart
  <2>3. Adds(kv, kv, First(batch, 0), S)
    BY <2>2 DEF Adds
  <2>4. 0 \in 0..n
    BY <1>0
  <2>. QED BY <2>1, <2>3, <2>4
<1>2. ASSUME NEW k \in 1..n, NEW r \in X[k - 1]
      PROVE  IF ~r.ok \/ (k - 1) * u >= n THEN r \in X[k]
             ELSE DecodeUbatch(r.kv, Chunk(batch, k, u)) \in X[k]
  <2> DEFINE a == (k - 1) * u
             b == Covered(batch, k, u)
             a0 == Covered(batch, k - 1, u)
             q == Chunk(batch, k, u)
  <2>b. k \in 1..Len(batch) /\ u \in Nat \ {0} /\ batch \in Seq(KvTok(T))
    OBVIOUS
  <2>c. /\ (k - 1) * u \in Nat /\ Covered(batch, k, u) \in 0..Len(batch)
        /\ Covered(batch, k - 1, u) \in 0..Len(batch)
    BY <2>b, CoveredFacts
  <2>d. (k - 1) * u < Len(batch) =>
          /\ Covered(batch, k - 1, u) = (k - 1) * u /\ (k - 1) * u + 1 <= Covered(batch, k, u)
          /\ Covered(batch, k, u) - (k - 1) * u <= u
    BY <2>b, CoveredFacts, SMTT(60)
  <2>e. (k - 1) * u < Len(batch) =>
          /\ Chunk(batch, k, u) \in Seq(KvTok(T))
          /\ Len(Chunk(batch, k, u)) = Covered(batch, k, u) - (k - 1) * u
          /\ Chunk(batch, k, u) = SubSeq(batch, (k - 1) * u + 1, Covered(batch, k, u))
    BY <2>b, CoveredFacts, SMTT(60)
  <2>f. (k - 1) * u >= Len(batch) => Covered(batch, k, u) = Len(batch) /\ Covered(batch, k - 1, u) = Len(batch)
    BY <2>b, CoveredFacts
  <2>1. /\ a \in Nat /\ b \in 0..n /\ a0 \in 0..n
        /\ a < n => /\ a0 = a /\ a + 1 <= b /\ q \in Seq(KvTok(T)) /\ Len(q) = b - a
                    /\ q = SubSeq(batch, a + 1, b) /\ b - a <= u
        /\ a >= n => b = n /\ a0 = n
    BY <2>c, <2>d, <2>e, <2>f, Zenon
  <2>2. k \in 0..n /\ k - 1 \in 0..n
    BY <1>0
  <2>3. /\ r \in [ok : BOOLEAN, kv : GoodKv(T)] /\ (r.ok => Adds(r.kv, kv, First(batch, a0), S))
        /\ ~r.ok => Failed(r)
    BY <1>2, <2>2
  <2>a. u >= n /\ a < n => a = 0
    <3>1. CASE k = 1
      BY <1>0, <3>1
    <3>2. CASE k # 1
      <4>1. (k - 1) * u = (k - 2) * u + u /\ (k - 2) * u \in Nat
        BY <1>0, <3>2
      <4>. QED BY <1>0, <4>1, SMTT(60)
    <3>. QED BY <3>1, <3>2
  <2> HIDE DEF a, b, a0, q
  <2>4. CASE ~r.ok \/ a >= n
    <3>1. r.ok => Adds(r.kv, kv, First(batch, b), S)
      BY <1>0, <2>1, <2>3, <2>4
    <3>2. r \in X[k]
      BY <2>2, <2>3, <3>1 DEF b
    <3>. QED BY <2>4, <3>2 DEF a
  <2>5. CASE r.ok /\ ~(a >= n)
    <3>1. a < n /\ a \in 0..(n - 1) /\ a \in 0..n /\ a <= b
      BY <1>0, <2>1, <2>5
    <3>2. Adds(r.kv, kv, First(batch, a), S) /\ r.kv \in GoodKv(T) /\ Apart(r.kv, S)
      BY <2>1, <2>3, <2>5, <3>1 DEF Adds
    <3> DEFINE z == DecodeUbatch(r.kv, q)
    <3>3. q \in Seq(KvTok(T)) /\ Len(q) >= 1 /\ q = SubSeq(batch, a + 1, b) /\ Len(q) = b - a /\ b - a <= u
      BY <2>1, <3>1
    <3>4. Fresh(r.kv, q, S)
      BY <2>1, <3>1, <3>2, <3>3, RestFresh
    <3>5. z \in [ok : BOOLEAN, kv : GoodKv(T)]
      BY <3>2, <3>3, UbatchGood
    <3>6. /\ z.ok => Adds(z.kv, r.kv, q, S)
          /\ ~z.ok => Same(z.kv, r.kv, S)
          /\ Len(q) = 1 /\ r.kv.used < Size => z.ok
      BY <3>2, <3>3, <3>4, UbatchAdds
    <3> HIDE DEF z
    <3>7. z.ok => Adds(z.kv, kv, First(batch, b), S)
      BY <2>1, <3>1, <3>2, <3>3, <3>6, AddsOn
    <3>8. ~z.ok => Failed(z)
      <4>1. ASSUME ~z.ok PROVE Adds(z.kv, kv, First(batch, a), S)
        BY <3>2, <3>6, <4>1, AddsSame
      <4>2. r.kv.used < Size
        BY <3>1, <3>2 DEF Roomy
      <4>3. u = 1 \/ n = 1 => Len(q) = 1
        BY <1>0, <2>1, <3>1, <3>3
      <4>4. ~z.ok => ~(u = 1 \/ n = 1)
        BY <3>6, <4>2, <4>3
      <4>. QED BY <2>a, <3>1, <4>1, <4>4
    <3> HIDE DEF Failed
    <3>9. z \in X[k]
      BY <2>2, <3>5, <3>7, <3>8 DEF b
    <3>10. ~(~r.ok \/ (k - 1) * u >= n)
      BY <2>5 DEF a
    <3>. QED BY <3>9, <3>10 DEF z, q
  <2>6. r.ok \in BOOLEAN
    BY <2>3
  <2>. QED BY <2>4, <2>5, <2>6
<1>3. Decode(kv, batch, u) \in X[n]
  <2> HIDE DEF X
  <2>. QED BY <1>1, <1>2, DecodeWithin
<1>4. Covered(batch, n, u) = n
  <2> DEFINE w == n * u
  <2>1. w \in Nat /\ w >= n
    <3>1. n * u = n * (u - 1) + n /\ n * (u - 1) \in Nat
      BY <1>0
    <3>. QED BY <1>0, <3>1
  <2> HIDE DEF w
  <2>2. Min({w, n}) = n
    BY <1>0, <2>1, MinPair
  <2>. QED BY <2>2 DEF Covered, w
<1>5. First(batch, n) = batch
  BY DEF First
<1>6. n \in 0..n
  BY <1>0
<1> DEFINE r == Decode(kv, batch, u)
<1>7. r \in [ok : BOOLEAN, kv : GoodKv(T)] /\ (r.ok => Adds(r.kv, kv, batch, S)) /\ (~r.ok => Failed(r))
  BY <1>3, <1>4, <1>5, <1>6
<1> HIDE DEF r, X
<1>. QED BY <1>7 DEF r

-----------------------------------------------------------------------------
(* What a saved state holds                                                 *)

\* The saved cells have a token t at position p.
Keeps(blob, p, t) == \E k \in 1..Len(blob) : blob[k].pos = p /\ blob[k].row.tok = t

\* No two saved cells share a position, and there are no more than cells.
Distinct(blob) ==
    /\ Len(blob) <= Size
    /\ \A j, k \in 1..Len(blob) : blob[j].pos = blob[k].pos => j = k

\* A cell of a sequence belongs to it alone.
LEMMA HeldAlone ==
    ASSUME NEW kv, NEW S, Apart(kv, S), NEW s, NEW i \in Held(kv, s)
    PROVE  i \in InUse(kv) /\ i \in Cells /\ kv.cells[i].seqs = {s}
<1>1. i \in InUse(kv) /\ i \in Cells
  BY DEF Held, InUse
<1>2. PICK q \in S : kv.cells[i].seqs = {q}
  BY <1>1 DEF Apart
<1>3. s \in kv.cells[i].seqs
  BY DEF Held
<1>. QED BY <1>1, <1>2, <1>3

\* write_kv_cache saves what the sequence holds, once each.
LEMMA SeqStateKeeps ==
    ASSUME NEW T, NEW kv \in GoodKv(T), NEW S, Apart(kv, S), NEW s
    PROVE  /\ Distinct(SeqState(kv, s))
           /\ \A p, t : Keeps(SeqState(kv, s), p, t) <=> Holds(kv, s, p, t)
<1> DEFINE held == Held(kv, s)
           n == Cardinality(held)
           at(k) == [pos |-> kv.cells[Nth(held, k)].pos, row |-> kv.rows[Nth(held, k)]]
           b == [k \in 1..n |-> at(k)]
<1>1. held \subseteq Cells /\ held \subseteq Int
  BY DEF Held, Cells
<1>2. IsFiniteSet(held) /\ n \in Nat /\ n <= Size
  BY <1>1, CellSets
<1>3. SeqState(kv, s) = b
  BY DEF SeqState
<1>4. ASSUME NEW k \in 1..n
      PROVE  /\ Nth(held, k) \in held /\ Nth(held, k) \in InUse(kv) /\ Nth(held, k) \in Cells
             /\ kv.cells[Nth(held, k)].seqs = {s} /\ Cardinality(Below(held, Nth(held, k))) = k - 1
             /\ b[k].pos = kv.cells[Nth(held, k)].pos /\ b[k].row = kv.rows[Nth(held, k)]
  <2>1. Nth(held, k) \in held /\ Cardinality(Below(held, Nth(held, k))) = k - 1
    BY <1>1, <1>2, NthRank
  <2>2. b[k] = [pos |-> kv.cells[Nth(held, k)].pos, row |-> kv.rows[Nth(held, k)]]
    OBVIOUS
  <2>. QED BY <2>1, <2>2, HeldAlone
<1>5. Len(b) = n
  <2> HIDE DEF n, at
  <2>. QED BY <1>2
<1>6. ASSUME NEW i \in held PROVE \E k \in 1..n : Nth(held, k) = i
  BY <1>1, <1>2, NthOnto
<1> HIDE DEF b, at, n, held
<1>7. ASSUME NEW j \in 1..n, NEW k \in 1..n, b[j].pos = b[k].pos PROVE j = k
  <2> DEFINE x == Nth(held, j)
             y == Nth(held, k)
  <2>0. /\ x \in InUse(kv) /\ kv.cells[x].seqs = {s} /\ b[j].pos = kv.cells[x].pos
        /\ y \in InUse(kv) /\ kv.cells[y].seqs = {s} /\ b[k].pos = kv.cells[y].pos
    BY <1>4
  <2> HIDE DEF x, y
  <2>1. x = y
    BY <1>7, <2>0 DEF Apart
  <2>2. j - 1 = k - 1
    BY <1>4, <2>1 DEF x, y
  <2>. QED BY <1>2, <2>2
<1>8. Distinct(b)
  BY <1>2, <1>5, <1>7 DEF Distinct
<1>9. ASSUME NEW p, NEW t PROVE Keeps(b, p, t) <=> Holds(kv, s, p, t)
  <2>1. ASSUME Keeps(b, p, t) PROVE Holds(kv, s, p, t)
    <3>1. PICK k \in 1..n : b[k].pos = p /\ b[k].row.tok = t
      BY <1>5, <2>1 DEF Keeps
    <3>. QED BY <1>4, <3>1 DEF Holds, Bears
  <2>2. ASSUME Holds(kv, s, p, t) PROVE Keeps(b, p, t)
    <3>1. PICK i \in Cells : Bears(kv, i, s, p, t)
      BY <2>2 DEF Holds
    <3>2. i \in held
      BY <3>1 DEF Bears, Held, held
    <3>3. PICK k \in 1..n : Nth(held, k) = i
      BY <1>6, <3>2
    <3>. QED BY <1>4, <1>5, <3>1, <3>3 DEF Keeps, Bears
  <2>. QED BY <2>1, <2>2
<1>. QED BY <1>3, <1>8, <1>9

\* read_kv_cache replaces what the sequence held by what was saved, or leaves nothing of
\* it, and does not touch the other sequences; alone in the cache it finds room.
LEMMA SetSeqStateHolds ==
    ASSUME NEW T, NoTok \in T, NEW kv \in GoodKv(T), ~kv.has_shift, NEW S, Apart(kv, S),
           NEW s \in S, s \in Int, NEW blob \in Seq(SavedCell(T)), Distinct(blob)
    PROVE  LET r == SetSeqState(kv, s, blob)
           IN /\ Apart(r.kv, S)
              /\ \A q, p, t : q # s => (Holds(r.kv, q, p, t) <=> Holds(kv, q, p, t))
              /\ r.ok => \A p, t : Holds(r.kv, s, p, t) <=> Keeps(blob, p, t)
              /\ ~r.ok => \A p, t : ~Holds(r.kv, s, p, t)
              /\ S = {s} => r.ok
<1> DEFINE n == Len(blob)
           r == SetSeqState(kv, s, blob)
           cleared == SeqRm(kv, s, -1, -1)
           toks == [k \in 1..n |-> [tok |-> NoTok, pos |-> blob[k].pos, seq |-> s]]
           full == [k \in 1..n |-> [tok |-> blob[k].row.tok, pos |-> blob[k].pos, seq |-> s]]
           found == FindSlot(cleared, toks)
           b == found.kv.disordered \/ \E k \in 2..n : blob[k].pos < blob[k - 1].pos
           o == [found.kv EXCEPT !.disordered = b]
           rows == [k \in 1..n |-> blob[k].row]
           again == SeqRm(found.kv, s, -1, -1)
           w == WriteRows(o, rows)
           Right(x) == /\ Apart(x.kv, S)
                       /\ \A q, p, t : q # s => (Holds(x.kv, q, p, t) <=> Holds(kv, q, p, t))
                       /\ x.ok => \A p, t : Holds(x.kv, s, p, t) <=> Keeps(blob, p, t)
                       /\ ~x.ok => \A p, t : ~Holds(x.kv, s, p, t)
                       /\ S = {s} => x.ok
<1> SUFFICES Right(r)
  OBVIOUS
<1>0. n \in Nat /\ n <= Size /\ Size \in Nat
  BY KvCacheAssumption DEF Distinct
<1>1. cleared \in GoodKv(T) /\ ~cleared.has_shift
  BY SeqRmGood
<1>2. r = IF n > Size THEN [ok |-> FALSE, kv |-> cleared]
          ELSE IF n = 0 THEN [ok |-> TRUE, kv |-> cleared]
          ELSE IF ~found.ok THEN [ok |-> FALSE, kv |-> again]
          ELSE [ok |-> TRUE, kv |-> w]
  BY DEF SetSeqState
<1>a. ASSUME NEW k \in GoodKv(T), NEW p, NEW t, Holds(k, s, p, t) PROVE InRange(p, -1, -1)
  <2>1. p \in Nat
    BY <1>a, HoldsTyped
  <2>. QED BY <2>1 DEF InRange
<1>b. ASSUME NEW k \in GoodKv(T), Apart(k, S)
      PROVE  /\ Apart(SeqRm(k, s, -1, -1), S)
             /\ \A p, t : ~Holds(SeqRm(k, s, -1, -1), s, p, t)
             /\ \A q, p, t : q # s => (Holds(SeqRm(k, s, -1, -1), q, p, t) <=> Holds(k, q, p, t))
  <2>1. /\ Apart(SeqRm(k, s, -1, -1), S)
        /\ \A q, p, t : Holds(SeqRm(k, s, -1, -1), q, p, t) <=> Holds(k, q, p, t) /\ ~(q = s /\ InRange(p, -1, -1))
    BY <1>b, SeqRmHolds
  <2>. QED BY <1>a, <2>1
<1>3. /\ Apart(cleared, S) /\ (\A p, t : ~Holds(cleared, s, p, t))
      /\ \A q, p, t : q # s => (Holds(cleared, q, p, t) <=> Holds(kv, q, p, t))
  BY <1>b
<1>4. ASSUME NEW k \in 1..n
      PROVE  /\ toks[k] \in KvTok(T) /\ full[k] \in KvTok(T) /\ rows[k] \in KvRow(T)
             /\ toks[k].pos = blob[k].pos /\ toks[k].seq = s
             /\ full[k].pos = blob[k].pos /\ full[k].seq = s
             /\ rows[k].tok = full[k].tok /\ full[k].tok = blob[k].row.tok
  <2>1. blob[k] \in SavedCell(T)
    OBVIOUS
  <2>2. blob[k].pos \in Nat /\ blob[k].row \in KvRow(T) /\ blob[k].row.tok \in T
    BY <2>1 DEF SavedCell, KvRow
  <2>3. /\ toks[k] = [tok |-> NoTok, pos |-> blob[k].pos, seq |-> s] /\ rows[k] = blob[k].row
        /\ full[k] = [tok |-> blob[k].row.tok, pos |-> blob[k].pos, seq |-> s]
    OBVIOUS
  <2> HIDE DEF toks, rows, full
  <2>. QED BY <2>2, <2>3 DEF KvTok
<1>5. /\ toks \in Seq(KvTok(T)) /\ Len(toks) = n /\ rows \in Seq(KvRow(T)) /\ Len(rows) = n
      /\ full \in Seq(KvTok(T)) /\ Len(full) = n
  <2>1. toks \in [1..n -> KvTok(T)] /\ rows \in [1..n -> KvRow(T)] /\ full \in [1..n -> KvTok(T)]
    BY <1>4
  <2>2. DOMAIN toks = 1..n /\ DOMAIN rows = 1..n /\ DOMAIN full = 1..n
    OBVIOUS
  <2> HIDE DEF toks, rows, full, n
  <2>. QED BY <1>0, <2>1, <2>2
<1> HIDE DEF cleared, toks, full, rows, r, b
<1>6. CASE n = 0
  <2>1. r.ok /\ r.kv = cleared
    BY <1>0, <1>2, <1>6
  <2>2. \A p, t : ~Keeps(blob, p, t)
    <3>1. 1..Len(blob) = {}
      BY <1>6
    <3>. QED BY <3>1 DEF Keeps
  <2>. QED BY <1>3, <2>1, <2>2
<1>7. CASE n # 0
  <2>0. n >= 1 /\ Len(toks) >= 1 /\ ~(n > Size)
    BY <1>0, <1>5, <1>7
  <2>1. /\ found.ok \in BOOLEAN
        /\ ~found.ok => Alike(found.kv, cleared)
        /\ found.ok => Placed(found.kv, cleared, toks)
        /\ HasRun(cleared, Len(toks)) => found.ok
    BY <1>1, <1>5, <2>0, FindSlotPlaces
  <2>2. SlotResult(T, cleared, toks, found)
    BY <1>1, <1>5, <2>0, FindSlotGood
  <2> HIDE DEF found
  <2>3. CASE ~found.ok
    <3>1. found.kv \in GoodKv(T)
      BY <1>1, <2>2, <2>3 DEF SlotResult
    <3>2. Same(found.kv, cleared, S)
      BY <1>3, <2>1, <2>3, AlikeSame
    <3>3. Apart(found.kv, S) /\ \A q, p, t : Holds(found.kv, q, p, t) <=> Holds(cleared, q, p, t)
      BY <3>2 DEF Same
    <3>4. /\ Apart(again, S) /\ (\A p, t : ~Holds(again, s, p, t))
          /\ \A q, p, t : q # s => (Holds(again, q, p, t) <=> Holds(found.kv, q, p, t))
      BY <1>b, <3>1, <3>3
    <3>5. S # {s}
      <4> SUFFICES ASSUME S = {s} PROVE FALSE
        OBVIOUS
      <4>1. ASSUME NEW i \in Cells PROVE cleared.cells[i].seqs = {}
        <5>1. CASE i \in InUse(cleared)
          <6>1. PICK q \in S : Bears(cleared, i, q, cleared.cells[i].pos, cleared.rows[i].tok)
            BY <1>3, <5>1, BearsOwn
          <6>2. Holds(cleared, s, cleared.cells[i].pos, cleared.rows[i].tok)
            BY <6>1 DEF Holds
          <6>. QED BY <1>3, <6>2
        <5>. QED BY <5>1 DEF InUse
      <4>2. 0 \in 0..Size /\ 0 + n <= Size /\ \A i \in 0..(0 + n - 1) : i \in Cells
        BY <1>0, KvCacheAssumption DEF Cells
      <4>3. HasRun(cleared, Len(toks))
        BY <1>5, <4>1, <4>2 DEF HasRun
      <4>. QED BY <2>1, <2>3, <4>3
    <3> HIDE DEF again
    <3>6. ~r.ok /\ r.kv = again
      BY <1>2, <1>7, <2>0, <2>3
    <3>. QED BY <1>3, <3>3, <3>4, <3>5, <3>6
  <2>4. CASE found.ok
    <3>1. found.kv \in Kv(T)
      BY <1>1, <2>2, <2>4 DEF SlotResult
    <3>2. b \in BOOLEAN
      BY DEF b
    <3>3. /\ o \in Kv(T) /\ o.cells = found.kv.cells /\ o.rows = found.kv.rows /\ o.head = found.kv.head
      BY <3>1, <3>2 DEF Kv
    <3>4. Placed(found.kv, cleared, toks)
      BY <2>1, <2>4
    <3>5. Placed(o, cleared, full)
      <4> HIDE DEF o
      <4>0. Run(o, n) = Run(found.kv, n) /\ o.head \in 0..Size /\ o.head + n <= Size
        BY <1>5, <3>3, <3>4 DEF Run, Placed
      <4>1. ASSUME NEW i \in Run(o, n)
            PROVE  /\ cleared.cells[i].seqs = {} /\ o.cells[i].seqs = {full[i - o.head + 1].seq}
                   /\ o.cells[i].pos = full[i - o.head + 1].pos
        <5>1. i - o.head + 1 \in 1..n
          BY <1>0, <4>0 DEF Run
        <5>. QED BY <1>4, <1>5, <3>3, <3>4, <4>0, <5>1 DEF Placed
      <4>. QED BY <1>5, <3>3, <3>4, <4>0, <4>1 DEF Placed
    <3> HIDE DEF o
    <3>6. Fresh(cleared, full, S)
      <4>1. \A i \in 1..n : full[i].seq \in S /\ \A t : ~Holds(cleared, full[i].seq, full[i].pos, t)
        BY <1>3, <1>4
      <4>2. \A i, j \in 1..n : full[i].pos = full[j].pos => i = j
        BY <1>4 DEF Distinct
      <4>. QED BY <1>5, <4>1, <4>2 DEF Fresh
    <3>7. Adds(w, cleared, full, S)
      <4>1. Len(rows) = Len(full) /\ \A j \in 1..Len(full) : rows[j].tok = full[j].tok
        BY <1>4, <1>5
      <4>. QED BY <1>3, <1>5, <3>3, <3>5, <3>6, <4>1, PlacedAdds
    <3>8. \A q, p, t : Brings(full, q, p, t) <=> q = s /\ Keeps(blob, p, t)
      BY <1>4, <1>5, SMTT(60) DEF Brings, Keeps
    <3> HIDE DEF w
    <3>9. r.ok /\ r.kv = w
      BY <1>2, <1>7, <2>0, <2>4
    <3>. QED BY <1>3, <3>7, <3>8, <3>9 DEF Adds
  <2>. QED BY <2>1, <2>3, <2>4
<1>. QED BY <1>6, <1>7
=============================================================================
