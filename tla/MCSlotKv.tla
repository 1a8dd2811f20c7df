------------------------------ MODULE MCSlotKv ------------------------------
EXTENDS SlotKv, TLC

CONSTANTS ta, tb

FewPrompts == {<<ta, tb, ta>>, <<tb>>}

Plain(n, ub) == [n_slots |-> n, n_ubatch |-> ub, sys |-> 0, prompts |-> FewPrompts,
                 defrag |-> FALSE, prompt_cache |-> FALSE, files |-> FALSE,
                 early |-> FALSE, stop |-> FALSE]

\* one slot with every feature; two slots with and without defragmentation
SafeConfs == {[Plain(1, 1) EXCEPT !.defrag = TRUE, !.prompt_cache = TRUE, !.files = TRUE, !.stop = TRUE],
              [Plain(2, 2) EXCEPT !.defrag = TRUE],
              [Plain(2, 2) EXCEPT !.prompts = {<<ta, ta, ta>>}]}

\* They are the servers the theorems speak of.
ASSUME SafeAssumption == Confs = SafeConfs => \A c \in Confs : SafeServer(c)

\* a slot gives up a prompt for one in the prompt cache while another slot runs
RestoreConfs == {[Plain(2, 2) EXCEPT !.prompt_cache = TRUE]}

\* a client goes away while the tokens of two slots share a batch
StopConfs == {[Plain(2, 1) EXCEPT !.stop = TRUE]}

\* micro-batches smaller than the batch
UbatchConfs == {Plain(2, 2)}

\* a request queued before the loop starts
EarlyConfs == {[Plain(1, 2) EXCEPT !.early = TRUE]}

\* a system prompt
SysConfs == {[Plain(1, 2) EXCEPT !.sys = 1]}
=============================================================================
