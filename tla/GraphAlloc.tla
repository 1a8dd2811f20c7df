----------------------------- MODULE GraphAlloc -----------------------------
(***************************************************************************)
(* The graph allocator of ggml/src/ggml-alloc.c and the way the backend    *)
(* scheduler calls it.  The allocator walks a graph once, as if it ran it, *)
(* and gives every tensor an offset in its buffer; memory is free again    *)
(* when the last user of a tensor has been passed.  The offsets of one     *)
(* graph are used for the graphs after it as long as those look alike.     *)
(*                                                                         *)
(* A graph is [n_leafs, t]: the tensors t[1], t[2], ... are its leafs and  *)
(* then its nodes in order of execution.  A tensor is                      *)
(*   op       "leaf", "op", "inplace" (an op of ggml_op_can_inplace),      *)
(*            "view", or "dep" (GGML_OP_NONE, which the scheduler adds to  *)
(*            keep a tensor alive)                                         *)
(*   src      its operands; view: the tensor it is a view of, 0 if none    *)
(*   size     its size, which also stands for its layout                   *)
(*   input, output   the flags; pre: it has data of its own (weights)      *)
(*   buf      the buffer the scheduler wants it in                         *)
(***************************************************************************)
EXTENDS Integers, Sequences, SequencesExt, FiniteSetsExt

CONSTANTS Graphs,       \* graphs that are reserved first (the worst case)
          After(_),     \* graphs that may be computed after g was reserved
          Tallocr,      \* buffer -> its allocator; equal for equal buffer types
          Align,        \* alignment of every buffer
          MaxSize,      \* size of the free block an allocator starts with
          MayFail       \* whether a buffer may fail to be allocated

ASSUME GraphAllocAssumption == Align \in Nat \ {0} /\ MaxSize \in Nat /\ MayFail \in BOOLEAN

Buffers == DOMAIN Tallocr
Allocators == Range(Tallocr)

VARIABLES g,        \* the graph in work
          phase,    \* "idle", "measure", "alloc", "exec", "failed"
          next,     \* the node that comes next in the phase
          retry,    \* ggml_backend_sched_alloc_splits waits for this measurement
          hn,       \* hash_values: what is known of each tensor of g
          tal,      \* ggml_dyn_tallocr of each allocator: free blocks, max_size
          galloc,   \* node_allocs and leaf_allocs, from the last measurement
          prev,     \* prev_node_backend_ids and prev_leaf_backend_ids
          buffers,  \* size of each allocator's buffer, -1 while there is none
          data,     \* where the tensors of g are: [buf, off]
          mem       \* which tensor wrote each unit of each allocator's buffer
vars == <<g, phase, next, retry, hn, tal, galloc, prev, buffers, data, mem>>

Ids(gr) == 1 .. Len(gr.t)
Leafs(gr) == 1 .. gr.n_leafs
Nodes(gr) == gr.n_leafs + 1 .. Len(gr.t)

\* the tensor whose memory t is in
Root(gr, t) == IF gr.t[t].view = 0 THEN t ELSE gr.t[t].view

\* aligned_offset
Padded(size) == ((size + Align - 1) \div Align) * Align

(***************************************************************************)
(* ggml_dyn_tallocr: free blocks [off, size], sorted by offset.            *)
(***************************************************************************)
ResetTalloc == [free |-> <<[off |-> 0, size |-> MaxSize]>>, max_size |-> 0]

End(blk) == blk.off + blk.size

\* The best fitting block besides the last one, the last of equals; else the last.
BestFit(free, size) ==
  LET fit == {k \in 1 .. Len(free) - 1 : free[k].size >= size}
      best == {k \in fit : \A j \in fit : free[k].size <= free[j].size}
  IN IF fit = {} THEN Len(free) ELSE Max(best)

TallocAlloc(ta, size) ==
  LET k == BestFit(ta.free, Padded(size))
      blk == ta.free[k]
      rest == [off |-> blk.off + Padded(size), size |-> blk.size - Padded(size)]
  IN [off |-> blk.off,
      ta |-> [free |-> IF rest.size = 0 THEN RemoveAt(ta.free, k) ELSE [ta.free EXCEPT ![k] = rest],
              max_size |-> Max({ta.max_size, rest.off})]]

\* Mutant: a block that grew up to its neighbour is not joined with it.
TallocFreeNoJoin(ta, off, size) ==
  LET f == ta.free
      new == [off |-> off, size |-> Padded(size)]
      touching == {k \in DOMAIN f : End(f[k]) = off \/ End(new) = f[k].off}
      k == Min(touching)
  IN [ta EXCEPT !.free =
        IF touching = {} THEN InsertAt(f, Cardinality({j \in DOMAIN f : f[j].off < off}) + 1, new)
        ELSE IF End(f[k]) = off THEN [f EXCEPT ![k].size = @ + new.size]
        ELSE [f EXCEPT ![k] = [off |-> off, size |-> f[k].size + new.size]]]

\* ggml_dyn_tallocr_free_tensor: merge with a block that ends here or starts
\* behind, and that one with its neighbour; otherwise a new block, in order.
TallocFree(ta, off, size) ==
  LET f == ta.free
      new == [off |-> off, size |-> Padded(size)]
      touching == {k \in DOMAIN f : End(f[k]) = off \/ End(new) = f[k].off}
      k == Min(touching)
      grown == IF End(f[k]) = off THEN [f[k] EXCEPT !.size = @ + new.size]
               ELSE [off |-> off, size |-> f[k].size + new.size]
      f1 == [f EXCEPT ![k] = grown]
      joined(j) == RemoveAt([f1 EXCEPT ![j].size = @ + f1[j + 1].size], j + 1)
  IN [ta EXCEPT !.free =
        IF touching = {} THEN InsertAt(f, Cardinality({j \in DOMAIN f : f[j].off < off}) + 1, new)
        ELSE IF End(f[k]) = off /\ k < Len(f) THEN IF End(grown) = f[k + 1].off THEN joined(k) ELSE f1
        ELSE IF End(f[k]) # off /\ k > 1 THEN IF End(f[k - 1]) = grown.off THEN joined(k - 1) ELSE f1
        ELSE f1]

(***************************************************************************)
(* ggml_gallocr: hash nodes [kids, views, buf, off, own].  The operators   *)
(* below work on m = [hn, tal].                                            *)
(***************************************************************************)
NoHash == [kids |-> 0, views |-> 0, buf |-> 0, off |-> 0, own |-> FALSE]

\* Mutant: an operand that is used again later is taken over as well.
ReusableShared(gr, m, t) ==
  {j \in DOMAIN gr.t[t].src :
     LET p == gr.t[t].src[j]
     IN /\ gr.t[t].op = "inplace"
        /\ m.hn[p].own /\ ~gr.t[p].output
        /\ gr.t[p].size = gr.t[t].size
        /\ m.hn[p].views = 0}

\* the first operand whose memory an in-place op may take over; a view never owns
\* memory, so the branch for views is never taken
Reusable(gr, m, t) ==
  {j \in DOMAIN gr.t[t].src :
     LET p == gr.t[t].src[j]
     IN /\ gr.t[t].op = "inplace"
        /\ m.hn[p].own /\ ~gr.t[p].output
        /\ gr.t[p].size = gr.t[t].size
        /\ m.hn[p].kids = 1 /\ m.hn[p].views = 0}

AllocateNode(gr, m, t, buf) ==
  IF gr.t[t].pre \/ m.hn[t].own \/ gr.t[t].view # 0 THEN m
  ELSE IF Reusable(gr, m, t) # {}
  THEN LET p == gr.t[t].src[Min(Reusable(gr, m, t))]
       IN [m EXCEPT !.hn[t].own = TRUE, !.hn[t].buf = m.hn[p].buf, !.hn[t].off = m.hn[p].off,
                    !.hn[p].own = FALSE]
  ELSE LET r == TallocAlloc(m.tal[Tallocr[buf]], gr.t[t].size)
       IN [m EXCEPT !.hn[t].own = TRUE, !.hn[t].buf = buf, !.hn[t].off = r.off,
                    !.tal[Tallocr[buf]] = r.ta]

\* Mutant: outputs are freed like any other tensor.
FreeNodeAlways(gr, m, t) ==
  LET a == Tallocr[m.hn[t].buf]
  IN [m EXCEPT !.tal[a] = TallocFree(@, m.hn[t].off, gr.t[t].size), !.hn[t].own = FALSE]

\* "graph outputs are never freed"
FreeNode(gr, m, t) ==
  LET a == Tallocr[m.hn[t].buf]
  IN IF gr.t[t].output THEN m
     ELSE [m EXCEPT !.tal[a] = TallocFree(@, m.hn[t].off, gr.t[t].size), !.hn[t].own = FALSE]

\* Mutant: every use of a view ends it.
UseParentEarly(gr, m0, p) ==
  LET v == gr.t[p].view
      m == [m0 EXCEPT !.hn[p].kids = @ - 1]
      m1 == [m EXCEPT !.hn[v].views = @ - 1]
  IN IF v # 0
     THEN IF m1.hn[v].views = 0 /\ m1.hn[v].kids = 0 /\ m1.hn[v].own THEN FreeNode(gr, m1, v) ELSE m1
     ELSE IF m.hn[p].kids = 0 /\ m.hn[p].views = 0 /\ m.hn[p].own THEN FreeNode(gr, m, p) ELSE m

\* one operand has been used
UseParent(gr, m0, p) ==
  LET m == [m0 EXCEPT !.hn[p].kids = @ - 1]
      v == gr.t[p].view
      m1 == [m EXCEPT !.hn[v].views = @ - 1]
  IN IF m.hn[p].kids # 0 \/ m.hn[p].views # 0 THEN m
     ELSE IF v # 0
     THEN IF m1.hn[v].views = 0 /\ m1.hn[v].kids = 0 /\ m1.hn[v].own THEN FreeNode(gr, m1, v) ELSE m1
     ELSE IF m.hn[p].own THEN FreeNode(gr, m, p) ELSE m

Each(op(_, _), m, ids) == FoldLeft(op, m, ids)

\* Mutant: the scheduler's dependencies count as users.
CountsAnyView(gr, t) == gr.t[t].view # 0

\* "the node itself is never used and should not be considered a dependency"
CountsAsView(gr, t) == gr.t[t].view # 0 /\ gr.t[t].op # "dep"

\* the loops of alloc_graph_impl before the nodes are allocated: the leafs, then
\* children and views are counted and the inputs allocated
Prepare(gr) ==
  LET count(m, t) ==
        LET v == gr.t[t].view
            m1 == IF CountsAsView(gr, t) THEN [m EXCEPT !.hn[v].views = @ + 1] ELSE m
            m2 == IF gr.t[t].input THEN AllocateNode(gr, m1, t, gr.t[t].buf) ELSE m1
        IN Each(LAMBDA q, p : LET q1 == [q EXCEPT !.hn[p].kids = @ + 1]
                              IN IF gr.t[p].input THEN AllocateNode(gr, q1, p, gr.t[t].buf) ELSE q1,
                m2, gr.t[t].src)
      empty == [hn |-> [t \in Ids(gr) |-> NoHash], tal |-> [a \in Allocators |-> ResetTalloc]]
      leafs == Each(LAMBDA m, t : AllocateNode(gr, m, t, gr.t[t].buf), empty, [k \in Leafs(gr) |-> k])
  IN Each(count, leafs, [k \in 1 .. Cardinality(Nodes(gr)) |-> gr.n_leafs + k])

\* one node of the last loop: operands, the node itself, then what it used
MeasureNode(gr, m0, t) ==
  LET m1 == Each(LAMBDA m, p : AllocateNode(gr, m, p, gr.t[t].buf), m0, gr.t[t].src)
      m2 == AllocateNode(gr, m1, t, gr.t[t].buf)
  IN Each(LAMBDA m, p : UseParent(gr, m, p), m2, gr.t[t].src)

\* tensor_alloc
NoAlloc == [buf |-> -1, off |-> -1, size_max |-> 0]
TensorAlloc(gr, h, t) ==
  IF gr.t[t].view # 0 \/ gr.t[t].pre THEN NoAlloc
  ELSE [buf |-> h[t].buf, off |-> h[t].off, size_max |-> gr.t[t].size]

\* node_allocs and leaf_allocs
Recorded(gr, h) ==
  [n_leafs |-> gr.n_leafs,
   t |-> [k \in Ids(gr) |->
            [dst |-> TensorAlloc(gr, h, k),
             src |-> [j \in DOMAIN gr.t[k].src |-> TensorAlloc(gr, h, gr.t[k].src[j])]]]]

\* Mutant: the size is not compared.
StillValidAnySize(gr, t, ta) == gr.t[t].pre \/ gr.t[t].view # 0 \/ ta.buf >= 0

\* ggml_gallocr_node_needs_realloc, which is true when the node is fine
StillValid(gr, t, ta) == gr.t[t].pre \/ gr.t[t].view # 0 \/ (ta.buf >= 0 /\ ta.size_max >= gr.t[t].size)

NeedsRealloc(gr) ==
  \/ Len(galloc.t) # Len(gr.t) \/ galloc.n_leafs # gr.n_leafs
  \/ \E k \in Nodes(gr) :
       \/ ~StillValid(gr, k, galloc.t[k].dst)
       \/ \E j \in DOMAIN gr.t[k].src :
            \/ j \notin DOMAIN galloc.t[k].src
            \/ ~StillValid(gr, gr.t[k].src[j], galloc.t[k].src[j])

\* ggml_gallocr_alloc_graph: the recorded places.  A tensor is met as a leaf or as a
\* node before it is met as an operand.
Places(gr) == [t \in Ids(gr) |-> [buf |-> galloc.t[t].dst.buf, off |-> galloc.t[t].dst.off]]

BufferIds(gr) == [t \in Ids(gr) |-> gr.t[t].buf]

NoGraph == [n_leafs |-> 0, t |-> <<>>]
Blank == [a \in Allocators |-> [x \in 0 .. MaxSize - 1 |-> 0]]

Init ==
  /\ g \in Graphs /\ phase = "idle" /\ next = 0 /\ retry = FALSE
  /\ hn = <<>> /\ tal = [a \in Allocators |-> ResetTalloc]
  /\ galloc = NoGraph /\ prev = <<>>
  /\ buffers = [a \in Allocators |-> -1]
  /\ data = <<>> /\ mem = Blank

\* ggml_gallocr_reserve_n up to the first node; gr is the graph of the scheduler
StartMeasure(gr, again) ==
  LET m == Prepare(gr)
  IN /\ g' = gr /\ phase' = "measure" /\ retry' = again
     /\ hn' = m.hn /\ tal' = m.tal /\ next' = gr.n_leafs + 1
     /\ prev' = BufferIds(gr)
     /\ data' = <<>> /\ mem' = Blank
     /\ UNCHANGED <<galloc, buffers>>

\* ggml_backend_sched_reserve with the worst case
Reserve ==
  /\ phase = "idle" /\ galloc = NoGraph
  /\ StartMeasure(g, FALSE)

Measure ==
  /\ phase = "measure" /\ next <= Len(g.t)
  /\ LET m == MeasureNode(g, [hn |-> hn, tal |-> tal], next)
     IN hn' = m.hn /\ tal' = m.tal
  /\ next' = next + 1
  /\ UNCHANGED <<g, phase, retry, galloc, prev, buffers, data, mem>>

\* What the buffers hold before the graph is computed: the leafs the application set.
Filled(gr, places) ==
  [a \in Allocators |-> [x \in 0 .. MaxSize - 1 |->
     LET here == {t \in Leafs(gr) : /\ ~gr.t[t].pre /\ Tallocr[places[t].buf] = a
                                    /\ x \in places[t].off .. places[t].off + gr.t[t].size - 1}
     IN IF here = {} THEN 0 ELSE Max(here)]]

StartExec(gr) ==
  /\ g' = gr /\ phase' = "exec" /\ next' = gr.n_leafs + 1 /\ retry' = FALSE
  /\ data' = Places(gr)
  /\ mem' = Filled(gr, Places(gr))

\* reserve_n, the rest: the offsets are recorded, then the buffers grow in turn up to
\* one that cannot be allocated (0: none).  sched_reserve gives up on a failure;
\* alloc_splits does not look at the result and allocates the graph next.
EndMeasure(failed) ==
  /\ phase = "measure" /\ next > Len(g.t)
  /\ failed # 0 => MayFail /\ tal[failed].max_size > buffers[failed]
  /\ galloc' = Recorded(g, hn)
  /\ buffers' = [a \in Allocators |->
                   IF failed = 0 \/ a < failed THEN Max({buffers[a], tal[a].max_size})
                   ELSE IF a = failed THEN -1 ELSE buffers[a]]
  /\ phase' = IF retry THEN "alloc" ELSE IF failed = 0 THEN "idle" ELSE "failed"
  /\ UNCHANGED <<g, next, retry, hn, tal, prev, data, mem>>

\* ggml_backend_sched_alloc_splits: the second call of alloc_graph
AllocAgain ==
  /\ phase = "alloc"
  /\ ~NeedsRealloc(g)
  /\ StartExec(g)
  /\ UNCHANGED <<hn, tal, galloc, prev, buffers>>

\* ggml_backend_sched_alloc_splits: measure again when a tensor has moved to another
\* kind of buffer or alloc_graph says so
AllocSplits(gr) ==
  /\ phase = "idle" /\ galloc # NoGraph
  /\ LET moved == \E t \in Ids(gr) \cap DOMAIN prev : Tallocr[gr.t[t].buf] # Tallocr[prev[t]]
     IN IF moved \/ NeedsRealloc(gr) THEN StartMeasure(gr, TRUE)
        ELSE /\ StartExec(gr)
             /\ prev' = BufferIds(gr)
             /\ UNCHANGED <<hn, tal, galloc, buffers>>

\* the graph is computed, node by node
Exec ==
  /\ phase = "exec" /\ next <= Len(g.t)
  /\ LET d == data[next]
         cells == d.off .. d.off + g.t[next].size - 1
     IN mem' = IF g.t[next].view # 0 \/ g.t[next].pre THEN mem
               ELSE [mem EXCEPT ![Tallocr[d.buf]] = [x \in DOMAIN @ |-> IF x \in cells THEN next ELSE @[x]]]
  /\ next' = next + 1
  /\ UNCHANGED <<g, phase, retry, hn, tal, galloc, prev, buffers, data>>

\* the results have been read, the next graph may come
Done ==
  /\ phase = "exec" /\ next > Len(g.t)
  /\ phase' = "idle"
  /\ UNCHANGED <<g, next, retry, hn, tal, galloc, prev, buffers, data, mem>>

Next ==
  \/ Reserve \/ Measure \/ AllocAgain
  \/ \E failed \in Allocators \cup {0} : EndMeasure(failed)
  \/ \E gr \in After(g) : AllocSplits(gr)
  \/ Exec \/ Done

Spec == Init /\ [][Next]_vars

-----------------------------------------------------------------------------
Interval(t, off) == off .. off + Padded(g.t[t].size) - 1

\* the tensors that own memory in allocator a
Owners(a) == {t \in Ids(g) : hn[t].own /\ Tallocr[hn[t].buf] = a}

\* The types of what the allocator keeps.
TypeOK ==
  /\ phase \in {"idle", "measure", "alloc", "exec", "failed"}
  /\ \A t \in DOMAIN hn : hn[t].kids \in Nat /\ hn[t].views \in Nat /\ hn[t].buf \in Buffers \cup {0}
  /\ \A a \in Allocators : tal[a].max_size \in 0 .. MaxSize /\ Len(tal[a].free) > 0

\* The free blocks are sorted and merged, and together with the memory of the
\* tensors that own some they make up the whole range, each unit once: nothing is
\* given out twice, nothing is lost.  When the measurement has passed the last node,
\* the only memory still owned is that of the outputs and of tensors nobody uses,
\* directly or through a view; a dependency the scheduler added keeps none.
FreeListExact ==
  /\ TypeOK
  /\ phase = "measure" =>
    /\ \A a \in Allocators :
         LET f == tal[a].free
             owned(x) == {t \in Owners(a) : x \in Interval(t, hn[t].off)}
             free(x) == {k \in DOMAIN f : x \in f[k].off .. End(f[k]) - 1}
         IN /\ \A k \in 1 .. Len(f) - 1 : End(f[k]) < f[k + 1].off
            /\ \A x \in 0 .. MaxSize - 1 : Cardinality(owned(x)) + Cardinality(free(x)) = 1
    /\ next > Len(g.t) =>
         LET used(t) == \E k \in Nodes(g) : t \in Range(g.t[k].src)
         IN \A t \in Ids(g) : hn[t].own =>
              g.t[t].output \/ \E s \in Ids(g) : Root(g, s) = t /\ g.t[s].op # "dep" /\ ~used(s)

Holds(t) ==
  LET r == Root(g, t)
  IN g.t[r].pre \/ \A x \in data[r].off .. data[r].off + g.t[r].size - 1 : mem[Tallocr[data[r].buf]][x] = r

\* When a node is computed its operands still hold what was computed into them,
\* and so do the outputs until the end: "output tensors are never freed and never
\* overwritten" (those that are views are ViewOutputsIntact's).
ValuesIntact ==
  phase = "exec" =>
    /\ next <= Len(g.t) => \A j \in DOMAIN g.t[next].src : Holds(g.t[next].src[j])
    /\ \A t \in Ids(g) : g.t[t].output /\ g.t[t].view = 0 /\ t < next => Holds(t)

\* "output tensors are never freed and never overwritten", of views too.
ViewOutputsIntact ==
  phase = "exec" => \A t \in Ids(g) : g.t[t].output /\ t < next => Holds(t)

\* Every tensor of a graph that is computed lies inside an existing buffer: "returns
\* false if the buffer allocation failed".
InsideBuffer ==
  phase = "exec" => \A t \in Ids(g) :
    g.t[t].view = 0 /\ ~g.t[t].pre => data[t].off + g.t[t].size <= buffers[Tallocr[data[t].buf]]
=============================================================================
