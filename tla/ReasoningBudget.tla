-------------------------- MODULE ReasoningBudget --------------------------
(***************************************************************************)
(* The reasoning budget sampler (common/reasoning-budget.cpp): a state     *)
(* machine fed with every accepted token, which counts the tokens of a     *)
(* reasoning block and, when the budget is used up, forces a message and   *)
(* the end tag.  A character of two bytes stands for every character that  *)
(* tokens may split: Lead is its first byte and Cont its last.             *)
(***************************************************************************)
EXTENDS Integers, SequencesExt

CONSTANTS Piece,  \* Piece[t]: the characters of token t
          Lead,
          Cont

\* common_utf8_is_complete, asked of one piece
PieceComplete(p) == p = <<>> \/ (Last(p) # Lead /\ \E i \in DOMAIN p : p[i] # Cont)

\* token_matcher::advance on the sequence pat: the new position, and whether
\* pat was completed
Advance(pat, pos, tok) ==
  IF pat = <<>> THEN [pos |-> pos, hit |-> FALSE]
  ELSE IF tok # pat[pos + 1] THEN [pos |-> IF tok = pat[1] THEN 1 ELSE 0, hit |-> FALSE]
  ELSE IF pos + 1 = Len(pat) THEN [pos |-> 0, hit |-> TRUE]
  ELSE [pos |-> pos + 1, hit |-> FALSE]

\* common_reasoning_budget_init_state; c holds start, end, forced and budget
NewBudget(c) == [st |-> "IDLE", start |-> 0, end |-> 0, remaining |-> c.budget, force_pos |-> 0]

ForcingKeeps(rb) == [rb EXCEPT !.st = "FORCING"]

Forcing(rb) == [rb EXCEPT !.st = "FORCING", !.force_pos = 0]

WatchOnce(c, rb, tok) ==
  LET m == Advance(c.start, rb.start, tok)
      open == [rb EXCEPT !.st = "COUNTING", !.start = m.pos, !.remaining = c.budget]
  IN IF ~m.hit \/ rb.st = "DONE" THEN [rb EXCEPT !.start = m.pos]
     ELSE IF c.budget <= 0 THEN Forcing(open) ELSE open

\* IDLE and DONE: a start tag opens a block with a fresh budget
Watch(c, rb, tok) ==
  LET m == Advance(c.start, rb.start, tok)
      open == [rb EXCEPT !.st = "COUNTING", !.start = m.pos, !.remaining = c.budget,
                         !.end = IF rb.st = "DONE" THEN 0 ELSE @]
  IN IF ~m.hit THEN [rb EXCEPT !.start = m.pos]
     ELSE IF c.budget <= 0 THEN Forcing(open) ELSE open

\* COUNTING and WAITING_UTF8: the end tag closes the block, a used up budget
\* forces it as soon as the piece is complete
Count(c, rb, tok) ==
  LET m == Advance(c.end, rb.end, tok)
      left == IF rb.st = "COUNTING" THEN rb.remaining - 1 ELSE rb.remaining
      on == [rb EXCEPT !.end = m.pos, !.remaining = left]
  IN IF m.hit THEN [rb EXCEPT !.st = "DONE", !.end = m.pos]
     ELSE IF rb.st = "COUNTING" /\ left > 0 THEN on
     ELSE IF PieceComplete(Piece[tok]) THEN Forcing([on EXCEPT !.end = 0])
     ELSE IF rb.st = "COUNTING" THEN [on EXCEPT !.st = "WAITING_UTF8", !.end = 0]
     ELSE on

ForceLate(c, rb) ==
  LET next == [rb EXCEPT !.force_pos = @ + 1]
  IN IF next.force_pos > Len(c.forced) THEN [next EXCEPT !.st = "DONE"] ELSE next

\* FORCING: one more of the forced tokens was accepted
ForceNext(c, rb) ==
  LET next == [rb EXCEPT !.force_pos = @ + 1]
  IN IF next.force_pos >= Len(c.forced) THEN [next EXCEPT !.st = "DONE"] ELSE next

\* common_reasoning_budget_accept
BudgetAccept(c, rb, tok) ==
  CASE rb.st \in {"IDLE", "DONE"}              -> Watch(c, rb, tok)
    [] rb.st \in {"COUNTING", "WAITING_UTF8"}  -> Count(c, rb, tok)
    [] rb.st = "FORCING"                       -> ForceNext(c, rb)

BudgetAcceptAll(c, rb, toks) ==
  LET Seen[k \in 0 .. Len(toks)] == IF k = 0 THEN rb ELSE BudgetAccept(c, Seen[k - 1], toks[k])
  IN Seen[Len(toks)]

\* common_reasoning_budget_apply: the tokens left with a finite logit
BudgetApply(c, rb, toks) ==
  IF rb.st = "FORCING" /\ rb.force_pos < Len(c.forced) THEN {c.forced[rb.force_pos + 1]} ELSE toks
=============================================================================
