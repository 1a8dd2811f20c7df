---------------------------- MODULE MCGeneration ----------------------------
EXTENDS Generation

\* tokens by name; "h" ends inside a character, "tb" completes it
Pieces == [p |-> <<"p">>, a |-> <<"a">>, b |-> <<"b">>, c |-> <<"c">>, ab |-> <<"a", "b">>,
           h |-> <<"h">>, t |-> <<"t">>, tb |-> <<"t", "b">>, ah |-> <<"a", "h">>,
           S |-> <<"S">>, E |-> <<"E">>, F |-> <<"F">>, m |-> <<"m">>, eog |-> <<>>]

PromptToks == <<"p", "p">>

Plain == [toks |-> {"a", "b", "c", "eog"}, phrases |-> {}, stops |-> {}, banbuffer |-> 0,
          n_predict |-> 4, rewind_max |-> 0, banned_n |-> 1, saturate |-> FALSE, draft |-> 0,
          recurrent |-> FALSE, fails |-> FALSE,
          start |-> <<>>, end |-> <<>>, forced |-> <<>>, budget |-> 0, prefill |-> <<>>]

Ban == [Plain EXCEPT !.phrases = {<<"a", "b">>}, !.toks = {"a", "b", "ab", "eog"}]

Think == [Plain EXCEPT !.toks = {"a", "S", "E", "F"}, !.start = <<"S">>, !.end = <<"E", "F">>,
                       !.forced = <<"m", "E", "F">>, !.budget = 1, !.n_predict = 6]

SafeConfs ==
  { [Ban EXCEPT !.stops = {<<"b", "a">>}, !.n_predict = 6],                                  \* bans and stop strings
    [Ban EXCEPT !.draft = 2],                                                 \* bans and drafts
    [Ban EXCEPT !.saturate = TRUE, !.rewind_max = 1, !.banned_n = -1],        \* rewinds given up
    [Ban EXCEPT !.saturate = TRUE, !.rewind_max = 2, !.toks = {"ab"}],        \* nothing but banned tokens
    [Ban EXCEPT !.saturate = TRUE, !.rewind_max = 2, !.banned_n = 0],         \* the same phrase again and again
    [Ban EXCEPT !.recurrent = TRUE, !.n_predict = 7],                         \* rewind checkpoints
    [Ban EXCEPT !.rewind_max = -1, !.saturate = TRUE, !.banbuffer = 2, !.n_predict = -1],
    [Plain EXCEPT !.stops = {<<"a", "b", "a">>, <<"c", "c">>}, !.draft = 2, !.fails = TRUE,
                  !.toks = {"a", "b", "c", "ab"}, !.n_predict = 5],          \* stop strings and drafts
    [Plain EXCEPT !.stops = {<<"h", "t", "b">>, <<"b", "a">>}, !.toks = {"a", "b", "h", "tb"}],  \* split characters
    [Think EXCEPT !.draft = 2],                                               \* reasoning and drafts
    [Think EXCEPT !.budget = 0, !.prefill = <<"S">>, !.n_predict = 8],        \* several blocks
    [Think EXCEPT !.toks = {"a", "h", "tb", "S", "E", "F"}, !.n_predict = 5],
    [Think EXCEPT !.toks = {"a", "b", "S", "E", "F"}, !.phrases = {<<"a", "b">>},
                  !.prefill = <<"S">>, !.budget = 2, !.n_predict = 8] }                     \* reasoning and bans

\* the requests that are checked satisfy what the theorems on the context, the buffer
\* and the stop strings suppose
ASSUME SafeAssumption == SafeRequests(SafeConfs) /\ SafeStops(SafeConfs)

\* rewinds may go back to the end of what was sent
BanConfs == {[Ban EXCEPT !.n_predict = 6]}

\* a reply that ends in the middle of a stop string
HeldConfs == {[Plain EXCEPT !.stops = {<<"a", "b">>}]}

\* drafts accepted past a banned phrase
BudgetConfs == {[Think EXCEPT !.toks = {"a", "b", "E", "F"}, !.phrases = {<<"a", "b">>},
                              !.prefill = <<"S">>, !.budget = 3, !.draft = 3, !.n_predict = 12]}

\* a character whose last byte is a token of its own
WaitConfs == {[Think EXCEPT !.toks = {"a", "h", "t"}, !.prefill = <<"S">>]}

\* a stop string and the beginning of a character in one token
StopConfs == {[Plain EXCEPT !.stops = {<<"a">>}, !.toks = {"b", "ah", "t"}]}

\* no rewind checkpoint between the tokens of a draft
RecurrentConfs == {[Ban EXCEPT !.recurrent = TRUE, !.draft = 2]}
=============================================================================
