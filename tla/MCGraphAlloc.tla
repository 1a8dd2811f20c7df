---------------------------- MODULE MCGraphAlloc ----------------------------
EXTENDS GraphAlloc

Tensor(op, src, view, size) ==
  [op |-> op, src |-> src, view |-> view, size |-> size, buf |-> 1,
   input |-> op = "leaf", output |-> FALSE, pre |-> FALSE]

Leaf == Tensor("leaf", <<>>, 0, 2)

\* what node k may be: an op on the tensor before it and perhaps another one, with a
\* small or a large result, an in-place op, or a view
Kinds(k) ==
  LET pairs == {<<p, q>> \in (1 .. k) \X (1 .. k) : p < q}
      one == {<<p>> : p \in 1 .. k}
  IN  {<<"op", s, z>> : s \in {u \in one \cup pairs : u[Len(u)] = k}, z \in {2, 3}}
      \cup {<<"inplace", s, 0>> : s \in one \cup pairs} \cup {<<"view", s, 0>> : s \in one}

\* a graph with one node more
Grow(gr, kind) ==
  LET p == kind[2][1]
      t == IF kind[1] = "op" THEN Tensor("op", kind[2], 0, kind[3])
           ELSE Tensor(kind[1], kind[2], IF kind[1] = "view" THEN Root(gr, p) ELSE 0, gr.t[p].size)
  IN [gr EXCEPT !.t = Append(@, t)]

Build(kinds, out) ==
  LET gr == FoldLeft(Grow, [n_leafs |-> 1, t |-> <<Leaf>>], kinds)
  IN IF out = 0 THEN gr ELSE [gr EXCEPT !.t[out].output = TRUE]

Chains == {Build(<<a, b, c, d>>, 0) : a \in Kinds(1), b \in Kinds(2), c \in Kinds(3), d \in Kinds(4)}
Short == {Build(<<a, b, c>>, out) : a \in Kinds(1), b \in Kinds(2), c \in Kinds(3), out \in 2 .. 4}
Plain == {Build(<<a, b, c>>, 0) : a \in Kinds(1), b \in Kinds(2), c \in Kinds(3)}
WithWeights == {[gr EXCEPT !.t[1].pre = TRUE, !.t[1].input = FALSE] : gr \in Plain}
WithOutput == {gr \in Short : \A t \in Ids(gr) : gr.t[t].output => gr.t[t].view = 0}

\* what the scheduler makes of a graph that crosses to buffer c and back: a dependency
\* on the tensor that is copied, then the copy
Cross(a, b, d, c) ==
  LET dep(gr) == Append(gr.t, Tensor("dep", <<Len(gr.t)>>, Root(gr, Len(gr.t)), gr.t[Len(gr.t)].size))
      copy(t, buf) == Append(t, [Tensor("op", <<>>, 0, t[Len(t)].size) EXCEPT !.buf = buf])
      g1 == Build(<<a>>, 0)
      g2 == [g1 EXCEPT !.t = copy(dep(g1), c)]
      g3 == Grow(g2, b)
      g4 == [g3 EXCEPT !.t[5].buf = c]
      g5 == [g4 EXCEPT !.t = copy([dep(g4) EXCEPT ![6].buf = c], 1)]
  IN Grow(g5, d)
Split == {Cross(a, b, d, c) : a \in Kinds(1), c \in {2, 3},
                              b \in {<<"op", <<4>>, 2>>, <<"op", <<4>>, 3>>, <<"inplace", <<4>>, 0>>, <<"view", <<4>>, 0>>},
                              d \in {<<k, s, 3>> : k \in {"op", "inplace"}, s \in {<<7>>, <<7, 2>>, <<2, 7>>, <<1, 7>>}}}

Some == Chains \cup WithWeights \cup WithOutput \cup Split

\* buffers 1 and 3 are of one type
Types == <<1, 2, 1>>

\* the same graph with other sizes, or with the split on the other buffer
Sized(gr, z) == [gr EXCEPT !.t = [t \in DOMAIN @ |-> [@[t] EXCEPT !.size = z]]]
Moved(gr) == [gr EXCEPT !.t = [t \in DOMAIN @ |-> [@[t] EXCEPT !.buf = IF @ = 1 THEN 1 ELSE 5 - @]]]
Alike(gr) == {gr, Sized(gr, 1), Sized(gr, 4), Moved(gr)}

\* graphs with other edges and as many tensors of the same sizes
Rewired(gr) == {h \in Plain : \A t \in Ids(h) : h.t[t].size = gr.t[t].size}
=============================================================================
