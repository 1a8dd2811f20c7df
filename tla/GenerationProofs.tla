-------------------------- MODULE GenerationProofs --------------------------
(***************************************************************************)
(* Proofs about Generation, for every vocabulary, every request and a      *)
(* reply of any length: the token limit, the text that is streamed, the    *)
(* context the next token is sampled from, the buffer of held tokens and   *)
(* the stop strings, through bans, rewinds and drafts.                     *)
(***************************************************************************)
EXTENDS Generation, Induction, SequenceTheorems

-----------------------------------------------------------------------------
(* Requests and slots                                                       *)

\* What a request promises.
LEMMA ConfFacts ==
    ASSUME NEW c \in Confs
    PROVE  /\ c.toks \subseteq Tokens /\ c.toks # {} /\ IsFiniteSet(c.phrases)
           /\ \A w \in c.phrases : Len(w) \in Nat /\ Len(w) > 0
           /\ \A w \in c.stops : Len(w) \in Nat /\ Len(w) > 0
           /\ c.n_predict \in Int /\ c.rewind_max \in Int /\ c.banned_n \in Int
           /\ c.banbuffer \in Int /\ c.budget \in Int
           /\ c.draft \in Nat /\ c.saturate \in BOOLEAN /\ c.recurrent \in BOOLEAN
           /\ c.start \in Seq(Tokens) /\ c.end \in Seq(Tokens) /\ c.forced \in Seq(Tokens)
           /\ c.prefill \in Seq(Tokens) /\ (c.start # <<>> => c.forced # <<>>)
<1>1. /\ c.toks \subseteq Tokens /\ c.toks # {}
      /\ IsFiniteSet(c.phrases) /\ \A w \in c.phrases \cup c.stops : Len(w) \in Nat \ {0}
      /\ {c.n_predict, c.rewind_max, c.banned_n, c.banbuffer, c.budget} \subseteq Int
      /\ c.draft \in Nat /\ {c.saturate, c.recurrent, c.fails} \subseteq BOOLEAN
      /\ {c.start, c.end, c.forced, c.prefill} \subseteq Seq(Tokens)
      /\ c.start # <<>> => c.forced # <<>>
  BY GenerationAssumption
<1>2. \A w \in c.phrases \cup c.stops : Len(w) \in Nat /\ Len(w) > 0
  BY <1>1
<1>. QED BY <1>1, <1>2

\* The pieces of tokens, and the prompt.
LEMMA VocabFacts ==
    /\ \A t \in Tokens : Piece[t] \in Seq(Chars)
    /\ NoTok \notin Tokens /\ Prompt \in Seq(Tokens) /\ Len(Prompt) >= 2
    /\ NCtxTrain \in Nat
BY GenerationAssumption

SlotRec == [st : {"processing", "done", "error"}, cache : Seq(Tokens), sampled : Tokens \cup {NoTok},
            buffer : Seq(Tokens), bans : SUBSET [pos : Nat, tok : Tokens], rewinds : Nat,
            n_decoded : Nat, n_remaining : Int, text : Seq(Chars), n_sent : Nat,
            next : BOOLEAN, word : BOOLEAN, eos : BOOLEAN, limit : BOOLEAN,
            stream : Seq(Chars), replied : Seq(Tokens)]

\* The text sent so far is the generated text up to n_sent_text.
Streamed(s) == /\ s.n_sent <= Len(s.text)
               /\ ~s.eos => s.stream = SubSeq(s.text, 1, s.n_sent)

SlotOK == {s \in SlotRec : Streamed(s)}

-----------------------------------------------------------------------------
(* process_token                                                            *)

\* A full stop string is found inside the text that is tested.
LEMMA FullStopAt ==
    ASSUME conf \in Confs, NEW text \in Seq(Chars), NEW last \in Int
    PROVE  FullStop(text, last) \in -1..Len(text)
<1> DEFINE at == {i \in 0 .. Len(text) : \E w \in conf.stops :
                    i \in Occurs(text, w) /\ i >= Len(text) - Len(w) - last}
<1>1. FullStop(text, last) = IF at = {} THEN -1 ELSE Min(at)
  BY DEF FullStop
<1>2. at \subseteq 0..Len(text) /\ Len(text) \in Nat
  OBVIOUS
<1> HIDE DEF at
<1>3. IsFiniteSet(at) /\ at \subseteq Int
  <2>1. IsFiniteSet(0..Len(text)) /\ 0..Len(text) \subseteq Int
    BY <1>2, FS_Interval
  <2>. QED BY <1>2, <2>1, FS_Subset
<1>4. CASE at # {}
  <2>1. Min(at) \in at
    BY <1>3, <1>4, MinMax
  <2>2. Min(at) \in 0..Len(text)
    BY <1>2, <2>1
  <2>. QED BY <1>1, <1>2, <1>4, <2>2
<1>5. CASE at = {}
  BY <1>1, <1>2, <1>5
<1>. QED BY <1>4, <1>5

\* At most the last part of a character is not valid.
LEMMA ValidFacts ==
    ASSUME NEW text \in Seq(Chars)
    PROVE  Valid(text) \in Nat /\ Valid(text) <= Len(text)
BY DEF Valid

\* The text with the token begins with the text before it.
LEMMA WithTokenFacts ==
    ASSUME NEW s \in SlotOK, NEW tok \in Tokens, NEW w, w = WithToken(s, tok)
    PROVE  /\ w.all \in Seq(Chars) /\ Len(s.text) <= Len(w.all)
           /\ \A i \in 1..Len(s.text) : w.all[i] = s.text[i]
           /\ w.len \in Nat /\ w.cut \in BOOLEAN
           /\ w.tested \in Seq(Chars) /\ Len(w.tested) = Len(w.all) - s.n_sent
           /\ w.cut <=> Valid(w.all) < Len(w.all)
<1> DEFINE str == IF tok = Eog THEN <<>> ELSE Piece[tok]
           all == s.text \o str
           cut == Valid(all) < Len(all)
           tested == SubSeq(all, s.n_sent + 1, Len(all))
<1>1. str \in Seq(Chars) /\ s.text \in Seq(Chars) /\ s.n_sent \in Nat /\ s.n_sent <= Len(s.text)
  BY VocabFacts DEF SlotOK, SlotRec, Streamed
<1>2. w = [all |-> all, len |-> Len(str), cut |-> cut, tested |-> tested]
  BY DEF WithToken
<1> HIDE DEF str
<1>3. /\ all \in Seq(Chars) /\ Len(all) = Len(s.text) + Len(str) /\ Len(str) \in Nat
      /\ \A i \in 1..Len(s.text) : all[i] = s.text[i]
  BY <1>1
<1> HIDE DEF all
<1>4. tested \in Seq(Chars)
  BY <1>1, <1>3
<1>5. Len(tested) = Len(all) - s.n_sent
  BY <1>1, <1>3
<1>6. cut \in BOOLEAN
  BY <1>3, ValidFacts
<1>7. cut <=> Valid(all) < Len(all)
  OBVIOUS
<1> HIDE DEF cut, tested
<1>8. w.all = all /\ w.len = Len(str) /\ w.cut = cut /\ w.tested = tested
  BY <1>2
<1>9. /\ w.all \in Seq(Chars) /\ Len(s.text) <= Len(w.all) /\ w.len \in Nat
      /\ \A i \in 1..Len(s.text) : w.all[i] = s.text[i]
  BY <1>1, <1>3, <1>8
<1>10. w.tested \in Seq(Chars) /\ Len(w.tested) = Len(w.all) - s.n_sent
  BY <1>4, <1>5, <1>8
<1>11. w.cut \in BOOLEAN /\ (w.cut <=> Valid(w.all) < Len(w.all))
  BY <1>6, <1>7, <1>8, Zenon
<1>. QED BY <1>9, <1>10, <1>11

\* What process_token decides: a stop string cuts the text behind what was sent;
\* a token that ends inside a character is held and not searched.
LEMMA CheckedFacts ==
    ASSUME conf \in Confs, NEW s \in SlotOK, NEW tok \in Tokens, NEW w, w = WithToken(s, tok),
           NEW c, c = Checked(s, tok, w)
    PROVE  /\ c.stop \in Int /\ c.limit \in BOOLEAN /\ c.cut \in BOOLEAN /\ c.next \in BOOLEAN
           /\ c.hold \in BOOLEAN /\ c.text \in Seq(Chars)
           /\ c.next <=> c.stop < 0 /\ ~c.limit /\ tok # Eog
           /\ c.next => HasBudget(s.n_decoded)
           /\ s.n_sent <= Len(c.text) /\ \A i \in 1..s.n_sent : c.text[i] = s.text[i]
           /\ c.cut => c.stop < 0 /\ c.hold /\ Valid(c.text) < Len(c.text)
           /\ c.stop >= 0 => ~c.hold /\ ~c.cut
<1> DEFINE stop == IF w.cut THEN -1 ELSE FullStop(w.tested, w.len)
           limit == (stop < 0 /\ ~HasBudget(s.n_decoded)) \/ TrainLimit(s)
           next == stop < 0 /\ ~limit /\ tok # Eog
           text == IF stop >= 0 THEN SubSeq(w.all, 1, s.n_sent + stop) ELSE w.all
           hold == w.cut \/ (stop < 0 /\ tok # Eog /\ PartialStop(w.tested))
<1>1. c = [stop |-> stop, limit |-> limit, cut |-> w.cut, next |-> next, text |-> text, hold |-> hold]
  BY DEF Checked
<1>2. /\ w.all \in Seq(Chars) /\ Len(s.text) <= Len(w.all)
      /\ \A i \in 1..Len(s.text) : w.all[i] = s.text[i]
      /\ w.len \in Nat /\ w.cut \in BOOLEAN
      /\ w.tested \in Seq(Chars) /\ Len(w.tested) = Len(w.all) - s.n_sent
      /\ w.cut <=> Valid(w.all) < Len(w.all)
  BY WithTokenFacts
<1>3. s.n_sent \in Nat /\ s.n_sent <= Len(s.text) /\ s.text \in Seq(Chars)
  BY DEF SlotOK, SlotRec, Streamed
<1>4. stop \in Int /\ stop <= Len(w.tested) /\ (w.cut => stop < 0)
  <2>1. CASE w.cut
    BY <1>2, <2>1
  <2>2. CASE ~w.cut
    <3>0. w.len \in Int
      BY <1>2
    <3>1. FullStop(w.tested, w.len) \in -1..Len(w.tested)
      BY <1>2, <3>0, FullStopAt
    <3>. QED BY <1>2, <2>2, <3>1
  <2>. QED BY <2>1, <2>2
<1> HIDE DEF stop
<1>5. limit \in BOOLEAN /\ next \in BOOLEAN /\ hold \in BOOLEAN
  BY <1>2, <1>4, Zenon DEF HasBudget, TrainLimit, PartialStop
<1>6. (next <=> stop < 0 /\ ~limit /\ tok # Eog) /\ (next => HasBudget(s.n_decoded))
  OBVIOUS
<1>7. text \in Seq(Chars) /\ s.n_sent <= Len(text) /\ \A i \in 1..s.n_sent : text[i] = s.text[i]
  <2>1. CASE stop >= 0
    <3>1. s.n_sent + stop \in Nat /\ s.n_sent + stop <= Len(w.all)
      BY <1>2, <1>3, <1>4, <2>1
    <3>2. text = SubSeq(w.all, 1, s.n_sent + stop)
      BY <2>1
    <3>3. text \in Seq(Chars) /\ Len(text) = s.n_sent + stop
      BY <1>2, <3>1, <3>2
    <3>4. \A i \in 1..(s.n_sent + stop) : text[i] = w.all[i]
      BY <1>2, <3>1, <3>2
    <3>. QED BY <1>2, <1>3, <1>4, <2>1, <3>3, <3>4, SMTT(40)
  <2>2. CASE ~(stop >= 0)
    BY <1>2, <1>3, <2>2
  <2>. QED BY <2>1, <2>2
<1>8. (w.cut => stop < 0 /\ hold /\ Valid(text) < Len(text)) /\ (stop >= 0 => ~hold /\ ~w.cut)
  BY <1>2, <1>4
<1> HIDE DEF limit, next, text, hold
<1>9. c.stop = stop /\ c.limit = limit /\ c.cut = w.cut /\ c.next = next /\ c.text = text /\ c.hold = hold
  BY <1>1
<1>10. /\ c.stop \in Int /\ c.limit \in BOOLEAN /\ c.cut \in BOOLEAN /\ c.next \in BOOLEAN
       /\ c.hold \in BOOLEAN /\ c.text \in Seq(Chars)
  BY <1>2, <1>4, <1>5, <1>7, <1>9
<1>11. /\ c.next <=> c.stop < 0 /\ ~c.limit /\ tok # Eog
       /\ c.next => HasBudget(s.n_decoded)
  BY <1>6, <1>9, Zenon
<1>12. s.n_sent <= Len(c.text) /\ \A i \in 1..s.n_sent : c.text[i] = s.text[i]
  BY <1>7, <1>9
<1>13. /\ c.cut => c.stop < 0 /\ c.hold /\ Valid(c.text) < Len(c.text)
       /\ c.stop >= 0 => ~c.hold /\ ~c.cut
  BY <1>8, <1>9, Zenon
<1>. QED BY <1>10, <1>11, <1>12, <1>13

\* Two neighbouring parts of a text.
LEMMA Joined ==
    ASSUME NEW T, NEW t \in Seq(T), NEW a \in Nat, NEW b \in Nat, a <= b, b <= Len(t)
    PROVE  SubSeq(t, 1, a) \o SubSeq(t, a + 1, b) = SubSeq(t, 1, b)
<1>1. 1 \in 1..(Len(t) + 1) /\ a \in (1 - 1)..Len(t) /\ b \in a..Len(t)
  OBVIOUS
<1>. QED BY <1>1, ConcatAdjacentSubSeq

\* A part of a text from its beginning.
LEMMA Prefix ==
    ASSUME NEW T, NEW t \in Seq(T), NEW a \in Nat, a <= Len(t)
    PROVE  /\ SubSeq(t, 1, a) \in Seq(T) /\ Len(SubSeq(t, 1, a)) = a
           /\ \A i \in 1..a : SubSeq(t, 1, a)[i] = t[i]
           /\ \A b \in Nat : b <= a => SubSeq(SubSeq(t, 1, a), 1, b) = SubSeq(t, 1, b)
<1>1. /\ SubSeq(t, 1, a) \in Seq(T) /\ Len(SubSeq(t, 1, a)) = a
      /\ \A i \in 1..a : SubSeq(t, 1, a)[i] = t[i]
  OBVIOUS
<1>2. ASSUME NEW b \in Nat, b <= a PROVE SubSeq(SubSeq(t, 1, a), 1, b) = SubSeq(t, 1, b)
  <2> DEFINE u == SubSeq(t, 1, a)
             x == SubSeq(u, 1, b)
             y == SubSeq(t, 1, b)
  <2> HIDE DEF u
  <2>1. u \in Seq(T) /\ Len(u) = a /\ \A i \in 1..a : u[i] = t[i]
    BY <1>1 DEF u
  <2>2. x \in Seq(T) /\ Len(x) = b /\ \A i \in 1..b : x[i] = u[i]
    BY <1>2, <2>1
  <2>3. y \in Seq(T) /\ Len(y) = b /\ \A i \in 1..b : y[i] = t[i]
    BY <1>2
  <2> HIDE DEF x, y
  <2>4. \A i \in 1..b : x[i] = y[i]
    BY <1>2, <2>1, <2>2, <2>3
  <2>5. x = y
    BY <2>2, <2>3, <2>4, SeqEqual
  <2>. QED BY <2>5 DEF x, y, u
<1>. QED BY <1>1, <1>2

\* Texts that agree up to a place have the same beginning.
LEMMA SamePrefix ==
    ASSUME NEW T, NEW t \in Seq(T), NEW u \in Seq(T), NEW a \in Nat, a <= Len(t), a <= Len(u),
           \A i \in 1..a : t[i] = u[i]
    PROVE  SubSeq(t, 1, a) = SubSeq(u, 1, a)
<1> DEFINE x == SubSeq(t, 1, a)
           y == SubSeq(u, 1, a)
<1>1. x \in Seq(T) /\ Len(x) = a /\ \A i \in 1..a : x[i] = t[i]
  OBVIOUS
<1>2. y \in Seq(T) /\ Len(y) = a /\ \A i \in 1..a : y[i] = u[i]
  OBVIOUS
<1> HIDE DEF x, y
<1>3. x = y
  BY <1>1, <1>2, SeqEqual
<1>. QED BY <1>3 DEF x, y

\* What process_token does with the text: what is sent follows what was sent before,
\* and the last token of a reply leaves no complete character behind.
LEMMA SentFacts ==
    ASSUME conf \in Confs, NEW s \in SlotOK, NEW tok \in Tokens, NEW last \in BOOLEAN,
           NEW c, c = Checked(s, tok, WithToken(s, tok)), NEW p, p = Sending(s, tok, last, c)
    PROVE  /\ p.text \in Seq(Chars) /\ p.n_sent \in Nat /\ p.stream \in Seq(Chars)
           /\ p.word \in BOOLEAN /\ p.eos = (s.eos \/ tok = Eog)
           /\ (c.next => p.word = s.word) /\ (c.stop >= 0 => p.word)
           /\ Streamed(p)
           /\ ~c.next /\ ~p.eos /\ (last \/ (p.word /\ ~s.word)) => p.n_sent >= Valid(p.text)
<1> DEFINE sent   == IF c.hold THEN s.n_sent ELSE Len(c.text)
           end    == IF c.cut THEN Valid(c.text) ELSE Len(c.text)
           tail   == SubSeq(c.text, sent + 1, end)
           late   == IF c.cut /\ last /\ ~c.next THEN FullStop(tail, end - sent) ELSE -1
           stopat == IF late >= 0 THEN sent + late ELSE end
           free   == last /\ ~c.next /\ sent < stopat
           chunk  == IF c.cut \/ tok = Eog THEN <<>> ELSE SubSeq(c.text, s.n_sent + 1, sent)
           held   == IF free THEN SubSeq(c.text, sent + 1, stopat) ELSE <<>>
           text   == IF late >= 0 THEN SubSeq(c.text, 1, stopat) ELSE c.text
           n_sent == IF free THEN stopat ELSE sent
<1>1. /\ c.stop \in Int /\ c.limit \in BOOLEAN /\ c.cut \in BOOLEAN /\ c.next \in BOOLEAN
      /\ c.hold \in BOOLEAN /\ c.text \in Seq(Chars)
      /\ c.next <=> c.stop < 0 /\ ~c.limit /\ tok # Eog
      /\ s.n_sent <= Len(c.text) /\ \A i \in 1..s.n_sent : c.text[i] = s.text[i]
      /\ c.cut => c.stop < 0 /\ c.hold /\ Valid(c.text) < Len(c.text)
      /\ c.stop >= 0 => ~c.hold /\ ~c.cut
  BY CheckedFacts
<1>2. /\ s \in SlotRec /\ s.n_sent \in Nat /\ s.n_sent <= Len(s.text) /\ s.text \in Seq(Chars)
      /\ s.stream \in Seq(Chars) /\ s.word \in BOOLEAN /\ s.eos \in BOOLEAN
      /\ ~s.eos => s.stream = SubSeq(s.text, 1, s.n_sent)
  BY DEF SlotOK, SlotRec, Streamed
<1>3. /\ p.text = text /\ p.n_sent = n_sent /\ p.stream = s.stream \o chunk \o held
      /\ p.word = (s.word \/ c.stop >= 0 \/ late >= 0) /\ p.eos = (s.eos \/ tok = Eog)
  BY <1>2 DEF Sending, SlotRec
<1>4. /\ sent \in Nat /\ s.n_sent <= sent /\ sent <= Len(c.text)
      /\ end \in Nat /\ end <= Len(c.text) /\ Valid(c.text) \in Nat
      /\ end >= Valid(c.text) /\ (c.cut => sent = s.n_sent) /\ Len(c.text) \in Nat
  BY <1>1, <1>2, ValidFacts
<1> HIDE DEF sent, end
<1>5. late \in Int /\ (late >= 0 => sent + late <= Len(c.text) /\ ~c.next)
  <2>1. CASE c.cut /\ last /\ ~c.next
    <3>0. \A i \in (sent + 1)..end : c.text[i] \in Chars
      BY <1>1, <1>4, ElementOfSeq
    <3>1. tail \in Seq(Chars) /\ Len(tail) = IF sent + 1 <= end THEN end - (sent + 1) + 1 ELSE 0
      <4>1. sent + 1 \in Int /\ end \in Int
        BY <1>4
      <4>. QED BY <3>0, <4>1, SubSeqProperties
    <3> HIDE DEF tail
    <3>2. end - sent \in Int
      BY <1>4
    <3>3. FullStop(tail, end - sent) \in -1..Len(tail)
      BY <3>1, <3>2, FullStopAt
    <3>. QED BY <1>4, <2>1, <3>1, <3>3
  <2>2. CASE ~(c.cut /\ last /\ ~c.next)
    BY <2>2
  <2>. QED BY <2>1, <2>2
<1>6. late >= 0 => c.cut
  BY <1>5
<1> HIDE DEF late
<1>7. stopat \in Nat /\ stopat <= Len(c.text) /\ (free => sent < stopat)
  BY <1>4, <1>5
<1>8. free \in BOOLEAN /\ (free <=> last /\ ~c.next /\ sent < stopat)
  BY <1>1, <1>4, <1>7
<1>9. n_sent \in Nat /\ sent <= n_sent /\ n_sent <= Len(c.text) /\ (late >= 0 => n_sent <= stopat)
  BY <1>4, <1>5, <1>7
<1>10. text \in Seq(Chars) /\ n_sent <= Len(text) /\ SubSeq(text, 1, n_sent) = SubSeq(c.text, 1, n_sent)
  <2>1. CASE late >= 0
    <3>1. text = SubSeq(c.text, 1, stopat)
      BY <2>1
    <3> HIDE DEF n_sent, stopat
    <3>. QED BY <1>1, <1>7, <1>9, <2>1, <3>1, Prefix
  <2>2. CASE ~(late >= 0)
    BY <1>1, <1>9, <2>2
  <2>. QED BY <2>1, <2>2
<1>11. text = IF late >= 0 THEN SubSeq(c.text, 1, stopat) ELSE c.text
  OBVIOUS
<1>12. chunk \in Seq(Chars) /\ held \in Seq(Chars)
  <2> HIDE DEF stopat, free
  <2>1. SubSeq(c.text, s.n_sent + 1, sent) \in Seq(Chars)
    BY <1>1, <1>2, <1>4
  <2>2. SubSeq(c.text, sent + 1, stopat) \in Seq(Chars)
    BY <1>1, <1>4, <1>7
  <2>. QED BY <2>1, <2>2
<1>13. ASSUME ~s.eos, tok # Eog PROVE s.stream \o chunk = SubSeq(c.text, 1, sent)
  <2>1. s.stream = SubSeq(c.text, 1, s.n_sent)
    <3>1. SubSeq(s.text, 1, s.n_sent) = SubSeq(c.text, 1, s.n_sent)
      BY <1>1, <1>2, SamePrefix
    <3>. QED BY <1>2, <1>13, <3>1
  <2>2. CASE c.cut
    <3>1. chunk = <<>> /\ sent = s.n_sent
      BY <1>4, <2>2
    <3>. QED BY <1>2, <2>1, <3>1, ConcatEmptySeq
  <2>3. CASE ~c.cut
    <3>1. chunk = SubSeq(c.text, s.n_sent + 1, sent)
      BY <1>13, <2>3
    <3>2. SubSeq(c.text, 1, s.n_sent) \o SubSeq(c.text, s.n_sent + 1, sent) = SubSeq(c.text, 1, sent)
      BY <1>1, <1>2, <1>4, Joined
    <3> HIDE DEF chunk
    <3>. QED BY <2>1, <3>1, <3>2
  <2>. QED BY <2>2, <2>3
<1>14. ASSUME ~s.eos, tok # Eog PROVE s.stream \o chunk \o held = SubSeq(c.text, 1, n_sent)
  <2>1. CASE free
    <3>1. held = SubSeq(c.text, sent + 1, stopat) /\ n_sent = stopat /\ sent <= stopat
      BY <1>4, <1>7, <2>1
    <3> HIDE DEF held, n_sent, stopat, chunk, free
    <3>2. SubSeq(c.text, 1, sent) \o SubSeq(c.text, sent + 1, stopat) = SubSeq(c.text, 1, stopat)
      BY <1>1, <1>4, <1>7, <3>1, Joined
    <3>. QED BY <1>13, <1>14, <3>1, <3>2
  <2>2. CASE ~free
    <3>1. held = <<>> /\ n_sent = sent
      BY <2>2
    <3>2. s.stream \o chunk \in Seq(Chars)
      BY <1>2, <1>12, ConcatProperties
    <3> HIDE DEF held, n_sent, stopat, chunk, free
    <3>. QED BY <1>13, <1>14, <3>1, <3>2, ConcatEmptySeq
  <2>. QED BY <2>1, <2>2
<1>15. ASSUME ~c.next, last \/ c.stop >= 0 \/ late >= 0 PROVE n_sent >= Valid(text)
  <2>1. CASE late >= 0
    <3>1. text = SubSeq(c.text, 1, stopat) /\ stopat = sent + late
      BY <2>1
    <3>2. last
      BY <2>1 DEF late
    <3>3. n_sent = stopat
      BY <1>4, <1>5, <1>15, <2>1, <3>1, <3>2
    <3>4. Len(text) = stopat
      <4> HIDE DEF stopat, text
      <4>. QED BY <1>1, <1>7, <3>1, Prefix
    <3> HIDE DEF n_sent, text, stopat
    <3>. QED BY <1>10, <3>3, <3>4, ValidFacts
  <2>2. CASE ~(late >= 0) /\ c.stop >= 0
    <3>1. sent = Len(c.text) /\ text = c.text /\ stopat = end
      BY <1>1, <2>2 DEF sent
    <3>. QED BY <1>1, <1>4, <1>9, <3>1, ValidFacts
  <2>3. CASE ~(late >= 0) /\ last
    <3>1. text = c.text /\ stopat = end
      BY <2>3
    <3>2. n_sent >= end
      BY <1>4, <1>15, <2>3, <3>1
    <3>. QED BY <1>4, <1>9, <3>1, <3>2
  <2>. QED BY <1>15, <2>1, <2>2, <2>3
<1>16. s.stream \o chunk \o held \in Seq(Chars)
  <2> HIDE DEF chunk, held
  <2>1. s.stream \o chunk \in Seq(Chars)
    BY <1>2, <1>12, ConcatProperties
  <2>. QED BY <1>12, <2>1, ConcatProperties
<1> HIDE DEF text, n_sent, chunk, held, free, stopat
<1>17. p.text \in Seq(Chars) /\ p.n_sent \in Nat /\ p.stream \in Seq(Chars)
  BY <1>3, <1>9, <1>10, <1>16
<1>18. p.word \in BOOLEAN /\ (c.next => p.word = s.word) /\ (c.stop >= 0 => p.word)
  <2>1. c.next => ~(c.stop >= 0) /\ ~(late >= 0)
    BY <1>1, <1>5
  <2>2. (c.stop >= 0) \in BOOLEAN /\ (late >= 0) \in BOOLEAN
    BY <1>1, <1>5
  <2>. QED BY <1>2, <1>3, <2>1, <2>2, Zenon
<1>19. Streamed(p)
  BY <1>2, <1>3, <1>9, <1>10, <1>14 DEF Streamed
<1>20. ~c.next /\ ~p.eos /\ (last \/ (p.word /\ ~s.word)) => p.n_sent >= Valid(p.text)
  BY <1>1, <1>2, <1>3, <1>5, <1>15
<1>. QED BY <1>3, <1>17, <1>18, <1>19, <1>20

\* process_token as a whole.
LEMMA ProcessTokenFacts ==
    ASSUME conf \in Confs, NEW s \in SlotOK, NEW tok \in Tokens, NEW last \in BOOLEAN,
           NEW p, p = ProcessToken(s, tok, last)
    PROVE  /\ p \in SlotOK
           /\ p.st = s.st /\ p.cache = s.cache /\ p.buffer = s.buffer /\ p.bans = s.bans
           /\ p.rewinds = s.rewinds /\ p.n_decoded = s.n_decoded
           /\ p.sampled = tok /\ p.replied = Append(s.replied, tok)
           /\ p.next => HasBudget(s.n_decoded) /\ p.word = s.word
           /\ ~p.next => p.limit \/ p.word \/ p.eos
           /\ ~p.next /\ ~p.eos /\ (last \/ (p.word /\ ~s.word)) => p.n_sent >= Valid(p.text)
<1> DEFINE c == Checked(s, tok, WithToken(s, tok))
<1>1. p = Sending(s, tok, last, c)
  BY DEF ProcessToken
<1>2. /\ c.stop \in Int /\ c.limit \in BOOLEAN /\ c.next \in BOOLEAN
      /\ c.next <=> c.stop < 0 /\ ~c.limit /\ tok # Eog
      /\ c.next => HasBudget(s.n_decoded)
  BY CheckedFacts
<1> HIDE DEF c
<1>3. /\ p.text \in Seq(Chars) /\ p.n_sent \in Nat /\ p.stream \in Seq(Chars)
      /\ p.word \in BOOLEAN /\ p.eos = (s.eos \/ tok = Eog)
      /\ (c.next => p.word = s.word) /\ (c.stop >= 0 => p.word)
      /\ Streamed(p)
      /\ ~c.next /\ ~p.eos /\ (last \/ (p.word /\ ~s.word)) => p.n_sent >= Valid(p.text)
  BY <1>1, SentFacts DEF c
<1>4. s \in SlotRec
  BY DEF SlotOK
<1>5. /\ p.st = s.st /\ p.cache = s.cache /\ p.buffer = s.buffer /\ p.bans = s.bans
      /\ p.rewinds = s.rewinds /\ p.n_decoded = s.n_decoded
      /\ p.sampled = tok /\ p.replied = Append(s.replied, tok)
      /\ p.next = c.next /\ p.limit = (s.limit \/ c.limit)
      /\ p.n_remaining = IF c.stop < 0 THEN Remaining(s) ELSE s.n_remaining
  <2> DEFINE sent   == IF c.hold THEN s.n_sent ELSE Len(c.text)
             end    == IF c.cut THEN Valid(c.text) ELSE Len(c.text)
             late   == IF c.cut /\ last /\ ~c.next
                       THEN FullStop(SubSeq(c.text, sent + 1, end), end - sent) ELSE -1
             stopat == IF late >= 0 THEN sent + late ELSE end
             free   == last /\ ~c.next /\ sent < stopat
             chunk  == IF c.cut \/ tok = Eog THEN <<>> ELSE SubSeq(c.text, s.n_sent + 1, sent)
             held   == IF free THEN SubSeq(c.text, sent + 1, stopat) ELSE <<>>
             text   == IF late >= 0 THEN SubSeq(c.text, 1, stopat) ELSE c.text
             n      == IF free THEN stopat ELSE sent
             stream == s.stream \o chunk \o held
             word   == s.word \/ c.stop >= 0 \/ late >= 0
  <2>2. p = [s EXCEPT !.sampled = tok, !.next = c.next, !.replied = Append(@, tok), !.text = text,
                      !.n_sent = n, !.stream = stream,
                      !.n_remaining = IF c.stop < 0 THEN Remaining(s) ELSE @,
                      !.word = word, !.eos = @ \/ tok = Eog, !.limit = @ \/ c.limit]
    BY <1>1 DEF Sending
  <2> HIDE DEF text, n, stream, word
  <2>. QED BY <1>4, <2>2 DEF SlotRec
<1>6. p = [st |-> p.st, cache |-> p.cache, sampled |-> p.sampled, buffer |-> p.buffer, bans |-> p.bans,
           rewinds |-> p.rewinds, n_decoded |-> p.n_decoded, n_remaining |-> p.n_remaining,
           text |-> p.text, n_sent |-> p.n_sent, next |-> p.next, word |-> p.word, eos |-> p.eos,
           limit |-> p.limit, stream |-> p.stream, replied |-> p.replied]
  BY <1>1, <1>4 DEF Sending, SlotRec
<1>7. p.n_remaining \in Int
  <2>1. Remaining(s) \in Int
    BY <1>4, ConfFacts DEF Remaining, SlotRec
  <2>. QED BY <1>4, <1>5, <2>1 DEF SlotRec
<1>8. p.replied \in Seq(Tokens)
  BY <1>4, <1>5 DEF SlotRec
<1>9. p.next \in BOOLEAN /\ p.limit \in BOOLEAN /\ p.eos \in BOOLEAN /\ p.word \in BOOLEAN
  BY <1>2, <1>3, <1>4, <1>5 DEF SlotRec
<1>10. /\ p.st \in {"processing", "done", "error"} /\ p.cache \in Seq(Tokens)
       /\ p.sampled \in Tokens \cup {NoTok} /\ p.buffer \in Seq(Tokens)
       /\ p.bans \in SUBSET [pos : Nat, tok : Tokens] /\ p.rewinds \in Nat /\ p.n_decoded \in Nat
  BY <1>4, <1>5 DEF SlotRec
<1>11. p \in SlotRec
  BY <1>3, <1>6, <1>7, <1>8, <1>9, <1>10 DEF SlotRec
<1>12. p \in SlotOK
  BY <1>3, <1>11 DEF SlotOK
<1>13. ~p.next => p.limit \/ p.word \/ p.eos
  <2>1. ~c.next => c.stop >= 0 \/ c.limit \/ tok = Eog
    BY <1>2
  <2>2. s.limit \in BOOLEAN /\ s.eos \in BOOLEAN
    BY <1>4 DEF SlotRec
  <2>. QED BY <1>2, <1>3, <1>5, <2>1, <2>2, Zenon
<1>. QED BY <1>2, <1>3, <1>5, <1>12, <1>13

-----------------------------------------------------------------------------
(* send_token_results                                                       *)

SendAcc == [s : SlotOK, count : Nat, on : BOOLEAN]

\* Forgetting bans, and other changes that leave the text alone.
LEMMA StreamedSame ==
    ASSUME NEW s \in SlotOK, NEW y \in SlotRec, y.text = s.text, y.n_sent = s.n_sent,
           y.stream = s.stream, y.eos = s.eos
    PROVE  y \in SlotOK
BY DEF SlotOK, Streamed

\* One token of the buffer is handed on: acc is the loop before it, y after it.
HandedOn(s, n, acc, k, y) ==
  /\ y \in SendAcc /\ y.count = acc.count + 1
  /\ y.s.st = acc.s.st /\ y.s.cache = acc.s.cache /\ y.s.buffer = acc.s.buffer
  /\ y.s.rewinds = acc.s.rewinds /\ y.s.n_decoded = acc.s.n_decoded
  /\ y.s.replied = Append(acc.s.replied, s.buffer[k])
  /\ y.s.next => HasBudget(acc.s.n_decoded) /\ y.s.word = acc.s.word
  /\ y.s.next /\ n = 0 => y.on
  /\ ~y.s.next /\ y.on => ~y.s.word /\ ~y.s.eos
  /\ ~acc.s.word /\ ~y.s.next /\ ~y.s.eos /\ (~y.on \/ k = Len(s.buffer)) =>
       y.s.n_sent >= Valid(y.s.text)

\* send_token_results hands on one token of the buffer.
LEMMA SendTokenFacts ==
    ASSUME conf \in Confs, NEW s \in SlotOK, NEW n \in Nat, NEW acc \in SendAcc, acc.on,
           NEW k \in 1..Len(s.buffer), NEW y, y = SendToken(s, n, acc, k)
    PROVE  HandedOn(s, n, acc, k, y)
<1> DEFINE tok == s.buffer[k]
           last == (k = Len(s.buffer))
           p == ProcessToken(acc.s, tok, last)
           first == Len(s.cache) - Len(s.buffer) + 1
           q == [p EXCEPT !.bans = {x \in @ : x.pos # first + acc.count}]
           on == IF p.next THEN n = 0 \/ acc.count + 1 < n ELSE LimitOnly(p)
<1>1. tok \in Tokens /\ last \in BOOLEAN /\ acc.s \in SlotOK /\ acc.count \in Nat
  <2>1. s.buffer \in Seq(Tokens)
    BY DEF SlotOK, SlotRec
  <2>. QED BY <2>1 DEF SendAcc
<1>2. y = [s |-> q, count |-> acc.count + 1, on |-> on]
  BY DEF SendToken, Processed
<1> HIDE DEF tok, last
<1>3. /\ p \in SlotOK
      /\ p.st = acc.s.st /\ p.cache = acc.s.cache /\ p.buffer = acc.s.buffer
      /\ p.rewinds = acc.s.rewinds /\ p.n_decoded = acc.s.n_decoded
      /\ p.replied = Append(acc.s.replied, tok)
      /\ p.next => HasBudget(acc.s.n_decoded) /\ p.word = acc.s.word
      /\ ~p.next => p.limit \/ p.word \/ p.eos
      /\ ~p.next /\ ~p.eos /\ (last \/ (p.word /\ ~acc.s.word)) => p.n_sent >= Valid(p.text)
  BY <1>1, ProcessTokenFacts
<1> HIDE DEF p
<1>4. p \in SlotRec
  BY <1>3 DEF SlotOK
<1>5. /\ q.st = p.st /\ q.cache = p.cache /\ q.buffer = p.buffer /\ q.rewinds = p.rewinds
      /\ q.n_decoded = p.n_decoded /\ q.replied = p.replied /\ q.next = p.next /\ q.word = p.word
      /\ q.eos = p.eos /\ q.n_sent = p.n_sent /\ q.text = p.text /\ q.stream = p.stream
  BY <1>4 DEF SlotRec
<1>6. q \in SlotOK
  <2>1. {x \in p.bans : x.pos # first + acc.count} \in SUBSET [pos : Nat, tok : Tokens]
    BY <1>4 DEF SlotRec
  <2>2. q \in SlotRec
    <3> DEFINE b == {x \in p.bans : x.pos # first + acc.count}
    <3>1. q = [p EXCEPT !.bans = b] /\ b \in SUBSET [pos : Nat, tok : Tokens]
      BY <2>1
    <3> HIDE DEF b
    <3>. QED BY <1>4, <3>1 DEF SlotRec
  <2> HIDE DEF q
  <2>. QED BY <1>3, <1>5, <2>2, StreamedSame
<1>7. on \in BOOLEAN /\ p.limit \in BOOLEAN /\ p.word \in BOOLEAN /\ p.eos \in BOOLEAN /\ p.next \in BOOLEAN
  BY <1>1, <1>4 DEF LimitOnly, SlotRec
<1>8. /\ p.next /\ n = 0 => on
      /\ ~p.next /\ on => ~p.word /\ ~p.eos
      /\ ~p.next /\ ~on => p.word \/ p.eos
  BY <1>3, <1>7 DEF LimitOnly
<1> HIDE DEF q, on
<1>9. y.s = q /\ y.count = acc.count + 1 /\ y.on = on
  BY <1>2
<1>10. y \in SendAcc
  BY <1>1, <1>2, <1>6, <1>7 DEF SendAcc
<1>11. /\ y.s.st = acc.s.st /\ y.s.cache = acc.s.cache /\ y.s.buffer = acc.s.buffer
       /\ y.s.rewinds = acc.s.rewinds /\ y.s.n_decoded = acc.s.n_decoded
       /\ y.s.replied = Append(acc.s.replied, s.buffer[k])
  BY <1>3, <1>5, <1>9 DEF tok
<1>12. y.s.next => HasBudget(acc.s.n_decoded) /\ y.s.word = acc.s.word
  BY <1>3, <1>5, <1>9, Zenon
<1>13. (y.s.next /\ n = 0 => y.on) /\ (~y.s.next /\ y.on => ~y.s.word /\ ~y.s.eos)
  BY <1>5, <1>8, <1>9, Zenon
<1>14. ~acc.s.word /\ ~y.s.next /\ ~y.s.eos /\ (~y.on \/ k = Len(s.buffer)) => y.s.n_sent >= Valid(y.s.text)
  BY <1>3, <1>5, <1>8, <1>9, Zenon DEF last
<1>. QED BY <1>9, <1>10, <1>11, <1>12, <1>13, <1>14 DEF HandedOn

\* What the loop has done after k tokens of the buffer.
SentTo(s, n, r, k) ==
  /\ r.count \in 0..k /\ (k >= 1 => r.count >= 1)
  /\ r.on => r.count = k /\ ~r.s.word
  /\ k = 0 => r.on
  /\ r.s.st = s.st /\ r.s.cache = s.cache /\ r.s.buffer = s.buffer
  /\ r.s.rewinds = s.rewinds /\ r.s.n_decoded = s.n_decoded
  /\ r.s.replied = s.replied \o SubSeq(s.buffer, 1, r.count)
  /\ k >= 1 /\ r.s.next => HasBudget(s.n_decoded) /\ ~r.s.word /\ (n = 0 => r.on)
  /\ k >= 1 /\ ~r.s.next /\ ~r.s.eos /\ (~r.on \/ k = Len(s.buffer)) => r.s.n_sent >= Valid(r.s.text)

\* One more token of a sequence.
LEMMA OneMore ==
    ASSUME NEW T, NEW a \in Seq(T), NEW b \in Seq(T), NEW k \in 1..Len(b)
    PROVE  Append(a \o SubSeq(b, 1, k - 1), b[k]) = a \o SubSeq(b, 1, k)
<1> DEFINE u == SubSeq(b, 1, k - 1)
           v == SubSeq(b, 1, k)
           x == Append(a \o u, b[k])
           y == a \o v
<1>1. u \in Seq(T) /\ Len(u) = k - 1 /\ \A i \in 1..(k - 1) : u[i] = b[i]
  BY Prefix
<1>2. v \in Seq(T) /\ Len(v) = k /\ \A i \in 1..k : v[i] = b[i]
  BY Prefix
<1>b. b[k] \in T
  OBVIOUS
<1> HIDE DEF u, v
<1>3. /\ a \o u \in Seq(T) /\ Len(a \o u) = Len(a) + k - 1
      /\ \A i \in 1..(Len(a) + k - 1) : (a \o u)[i] = IF i <= Len(a) THEN a[i] ELSE u[i - Len(a)]
  BY <1>1
<1> DEFINE au == a \o u
<1> HIDE DEF au
<1>4. /\ x \in Seq(T) /\ Len(x) = Len(a) + k
      /\ \A i \in 1..(Len(a) + k) : x[i] = IF i = Len(a) + k THEN b[k] ELSE au[i]
  BY <1>3, <1>b DEF au
<1>5. /\ y \in Seq(T) /\ Len(y) = Len(a) + k
      /\ \A i \in 1..(Len(a) + k) : y[i] = IF i <= Len(a) THEN a[i] ELSE v[i - Len(a)]
  BY <1>2
<1> HIDE DEF x, y
<1>6. ASSUME NEW i \in 1..(Len(a) + k) PROVE x[i] = y[i]
  <2>1. CASE i = Len(a) + k
    BY <1>2, <1>4, <1>5, <2>1
  <2>2. CASE i # Len(a) + k
    <3>1. i \in 1..(Len(a) + k - 1) /\ (~(i <= Len(a)) => i - Len(a) \in 1..(k - 1) /\ i - Len(a) \in 1..k)
      BY <2>2
    <3>. QED BY <1>1, <1>2, <1>3, <1>4, <1>5, <2>2, <3>1 DEF au
  <2>. QED BY <2>1, <2>2
<1>7. x = y
  BY <1>4, <1>5, <1>6, SeqEqual
<1>. QED BY <1>7 DEF x, y, u, v

\* The loop goes on from a state it has reached.
LEMMA SentToStep ==
    ASSUME conf \in Confs, NEW s \in SlotOK, NEW n \in Nat, NEW acc \in SendAcc,
           NEW k \in 1..Len(s.buffer), SentTo(s, n, acc, k - 1), NEW y, y = SendToken(s, n, acc, k)
    PROVE  y \in SendAcc /\ SentTo(s, n, y, k)
<1>1. CASE ~acc.on
  <2>1. y = acc /\ k - 1 >= 1
    BY <1>1 DEF SendToken, SentTo
  <2>2. /\ acc.count \in 0..k /\ acc.count >= 1 /\ (k >= 1 => acc.count >= 1) /\ k # 0 /\ k >= 1
    BY <2>1 DEF SentTo
  <2>3. /\ acc.s.st = s.st /\ acc.s.cache = s.cache /\ acc.s.buffer = s.buffer
        /\ acc.s.rewinds = s.rewinds /\ acc.s.n_decoded = s.n_decoded
        /\ acc.s.replied = s.replied \o SubSeq(s.buffer, 1, acc.count)
    BY DEF SentTo
  <2>4. /\ acc.s.next => HasBudget(s.n_decoded) /\ ~acc.s.word /\ (n = 0 => acc.on)
        /\ ~acc.s.next /\ ~acc.s.eos => acc.s.n_sent >= Valid(acc.s.text)
    BY <1>1, <2>1, Zenon DEF SentTo
  <2>5. SentTo(s, n, acc, k)
    BY <1>1, <2>2, <2>3, <2>4, Zenon DEF SentTo
  <2>. QED BY <2>1, <2>5
<1>2. CASE acc.on
  <2>1. /\ y \in SendAcc /\ y.count = acc.count + 1
        /\ y.s.st = acc.s.st /\ y.s.cache = acc.s.cache /\ y.s.buffer = acc.s.buffer
        /\ y.s.rewinds = acc.s.rewinds /\ y.s.n_decoded = acc.s.n_decoded
        /\ y.s.replied = Append(acc.s.replied, s.buffer[k])
        /\ y.s.next => HasBudget(acc.s.n_decoded) /\ y.s.word = acc.s.word
        /\ y.s.next /\ n = 0 => y.on
        /\ ~y.s.next /\ y.on => ~y.s.word /\ ~y.s.eos
        /\ ~acc.s.word /\ ~y.s.next /\ ~y.s.eos /\ (~y.on \/ k = Len(s.buffer)) =>
             y.s.n_sent >= Valid(y.s.text)
    <3>1. HandedOn(s, n, acc, k, y)
      BY <1>2, SendTokenFacts
    <3>. QED BY <3>1, Zenon DEF HandedOn
  <2>2. acc.count = k - 1 /\ ~acc.s.word
    BY <1>2 DEF SentTo
  <2>3. y.count \in 0..k /\ y.count >= 1 /\ y.count = k /\ k # 0
    BY <2>1, <2>2
  <2>4. y.on => ~y.s.word
    <3>1. y.s.next => ~y.s.word
      BY <2>1, <2>2, Zenon
    <3>2. y.s.next \in BOOLEAN
      BY <2>1 DEF SendAcc, SlotOK, SlotRec
    <3>. QED BY <2>1, <3>1
  <2>5. /\ y.s.st = s.st /\ y.s.cache = s.cache /\ y.s.buffer = s.buffer
        /\ y.s.rewinds = s.rewinds /\ y.s.n_decoded = s.n_decoded
    BY <2>1 DEF SentTo
  <2>6. y.s.replied = s.replied \o SubSeq(s.buffer, 1, y.count)
    <3>1. s.replied \in Seq(Tokens) /\ s.buffer \in Seq(Tokens)
      BY DEF SlotOK, SlotRec
    <3>2. acc.s.replied = s.replied \o SubSeq(s.buffer, 1, k - 1)
      BY <2>2 DEF SentTo
    <3>3. Append(s.replied \o SubSeq(s.buffer, 1, k - 1), s.buffer[k]) = s.replied \o SubSeq(s.buffer, 1, k)
      BY <3>1, OneMore
    <3>. QED BY <2>1, <2>3, <3>2, <3>3
  <2>7. y.s.next => HasBudget(s.n_decoded) /\ ~y.s.word /\ (n = 0 => y.on)
    <3>1. acc.s.n_decoded = s.n_decoded
      BY DEF SentTo
    <3>. QED BY <2>1, <2>2, <3>1, Zenon
  <2>8. ~y.s.next /\ ~y.s.eos /\ (~y.on \/ k = Len(s.buffer)) => y.s.n_sent >= Valid(y.s.text)
    BY <2>1, <2>2, Zenon
  <2>9. /\ y.count \in 0..k /\ (k >= 1 => y.count >= 1) /\ (y.on => y.count = k /\ ~y.s.word)
        /\ (k = 0 => y.on)
    BY <2>3, <2>4
  <2>. QED BY <2>1, <2>5, <2>6, <2>7, <2>8, <2>9 DEF SentTo
<1>3. acc.on \in BOOLEAN
  BY DEF SendAcc
<1>. QED BY <1>1, <1>2, <1>3

\* What send_token_results leaves: some tokens of the buffer, at least one, are part of
\* the reply now; a slot that goes on has tokens left to predict and met no stop string;
\* one that ends has sent every complete character.
Handled(s, n, z) ==
  /\ z \in SlotOK /\ z.cache = s.cache /\ z.rewinds = s.rewinds /\ z.n_decoded = s.n_decoded
  /\ z.sampled = s.buffer[Len(s.buffer)]
  /\ \E m \in 1..Len(s.buffer) : /\ z.replied = s.replied \o SubSeq(s.buffer, 1, m)
                                 /\ z.buffer = SubSeq(s.buffer, m + 1, Len(s.buffer))
                                 /\ z.st = "processing" /\ n = 0 => m = Len(s.buffer)
  /\ z.st \in {"processing", "done"}
  /\ z.st = "processing" => HasBudget(s.n_decoded) /\ ~z.word
  /\ z.st = "done" /\ ~z.eos => z.n_sent >= Valid(z.text)

\* The state in which the loop of send_token_results ends.
LEMMA SendLoop ==
    ASSUME conf \in Confs, NEW s \in SlotOK, NEW n \in Nat, ~s.word
    PROVE  \E r \in SendAcc : SendTokenResults(s, n) = LeftOver(s, r) /\ SentTo(s, n, r, Len(s.buffer))
<1> DEFINE l == Len(s.buffer)
           a == [s |-> s, count |-> 0, on |-> TRUE]
           X == SendAcc
           G == [x \in X \X (1..l) |-> SendToken(s, n, x[1], x[2])]
           Is(f) == f = [k \in 0..l |-> IF k = 0 THEN a ELSE SendToken(s, n, f[k - 1], k)]
           Sent == CHOOSE f : Is(f)
<1>6. SendTokenResults(s, n) = LeftOver(s, Sent[l])
  BY DEF SendTokenResults
<1>0. l \in Nat /\ a \in X /\ s.buffer \in Seq(Tokens) /\ s.replied \in Seq(Tokens)
  BY DEF SlotOK, SlotRec, SendAcc
<1>7. ASSUME NEW q \in X, NEW k \in 1..l PROVE SendToken(s, n, q, k) \in X
  <2>1. CASE ~q.on
    BY <2>1 DEF SendToken
  <2>2. CASE q.on
    <3>1. HandedOn(s, n, q, k, SendToken(s, n, q, k))
      BY <2>2, SendTokenFacts
    <3>. QED BY <3>1 DEF HandedOn
  <2>. QED BY <2>1, <2>2 DEF SendAcc
<1>8. SentTo(s, n, a, 0)
  <2>1. SubSeq(s.buffer, 1, 0) = <<>>
    BY <1>0
  <2>2. s.replied \o <<>> = s.replied
    BY <1>0, ConcatEmptySeq
  <2>3. a.s = s /\ a.count = 0 /\ a.on = TRUE /\ 0 \in 0..0 /\ ~(0 >= 1)
    OBVIOUS
  <2> HIDE DEF a
  <2>. QED BY <2>1, <2>2, <2>3, Zenon DEF SentTo
<1> HIDE DEF l, X, a
<1>1. StaysIn(X, G, l)
  BY <1>7 DEF StaysIn
<1>2. \E f : Is(f)
  <2>1. PICK f \in [0..l -> X] : Solution(f, a, G, l)
    <3> HIDE DEF G, Is, Sent
    <3>. QED BY <1>0, <1>1, Recursion
  <2>2. ASSUME NEW k \in 1..l PROVE f[k] = SendToken(s, n, f[k - 1], k)
    <3>1. k - 1 \in 0..l
      BY <1>0
    <3>2. <<f[k - 1], k>> \in X \X (1..l)
      BY <3>1
    <3>3. G[<<f[k - 1], k>>] = SendToken(s, n, f[k - 1], k)
      BY <3>2
    <3>. QED BY <2>1, <3>3 DEF Solution
  <2>3. ASSUME NEW k \in 0..l PROVE f[k] = IF k = 0 THEN a ELSE SendToken(s, n, f[k - 1], k)
    <3>1. k # 0 => k \in 1..l
      BY <1>0
    <3>. QED BY <2>1, <2>2, <3>1 DEF Solution
  <2>4. Is(f)
    BY <2>3
  <2>. QED BY <2>4
<1>3. Is(Sent)
  <2> HIDE DEF Is
  <2>. QED BY <1>2
<1> HIDE DEF Sent, G
<1>4. Sent[0] = a /\ \A k \in 1..l : Sent[k] = SendToken(s, n, Sent[k - 1], k)
  <2>1. ASSUME NEW k \in 0..l PROVE Sent[k] = IF k = 0 THEN a ELSE SendToken(s, n, Sent[k - 1], k)
    BY <1>3
  <2>2. 0 \in 0..l /\ \A k \in 1..l : k \in 0..l /\ k # 0
    BY <1>0
  <2>. QED BY <2>1, <2>2
<1> HIDE DEF Is
<1>5. Sent[l] \in SendAcc /\ SentTo(s, n, Sent[l], l)
  <2> DEFINE S == {k \in 0..l : Sent[k] \in SendAcc /\ SentTo(s, n, Sent[k], k)}
  <2>1. 0 \in S
    BY <1>0, <1>4, <1>8 DEF X
  <2>2. ASSUME NEW k \in 1..l, k - 1 \in S PROVE k \in S
    <3>1. k \in 1..Len(s.buffer) /\ k \in 0..l
      BY <1>0 DEF l
    <3>2. Sent[k] \in SendAcc /\ SentTo(s, n, Sent[k], k)
      BY <1>4, <2>2, <3>1, SentToStep
    <3>. QED BY <3>1, <3>2
  <2> HIDE DEF S
  <2>3. 0..l \subseteq S
    BY <1>0, <2>1, <2>2, UpTo
  <2>4. l \in 0..l
    BY <1>0
  <2>. QED BY <2>3, <2>4 DEF S
<1>. QED BY <1>5, <1>6 DEF l

\* send_token_results as a whole.
LEMMA SendTokenResultsFacts ==
    ASSUME conf \in Confs, NEW s \in SlotOK, NEW n \in Nat, ~s.word, s.st = "processing", s.buffer # <<>>,
           NEW z, z = SendTokenResults(s, n)
    PROVE  Handled(s, n, z)
<1> DEFINE l == Len(s.buffer)
<1>1. PICK r \in SendAcc : z = LeftOver(s, r) /\ SentTo(s, n, r, l)
  BY SendLoop
<1>2. s.buffer \in Seq(Tokens) /\ l \in Nat /\ l >= 1 /\ Last(s.buffer) = s.buffer[l] /\ s.buffer[l] \in Tokens
  BY DEF SlotOK, SlotRec, Last
<1>3. r.s \in SlotRec /\ r.s \in SlotOK /\ r.count \in Nat /\ r.on \in BOOLEAN
  BY DEF SendAcc, SlotOK
<1>4. /\ r.count \in 1..l /\ (r.on => r.count = l)
      /\ r.s.st = "processing" /\ r.s.cache = s.cache /\ r.s.buffer = s.buffer
      /\ r.s.rewinds = s.rewinds /\ r.s.n_decoded = s.n_decoded
      /\ r.s.replied = s.replied \o SubSeq(s.buffer, 1, r.count)
  BY <1>1, <1>2 DEF SentTo
<1>5. /\ r.s.next => HasBudget(s.n_decoded) /\ ~r.s.word /\ (n = 0 => r.on)
      /\ ~r.s.next /\ ~r.s.eos => r.s.n_sent >= Valid(r.s.text)
  <2>1. l >= 1
    BY <1>2
  <2>. QED BY <1>1, <2>1, Zenon DEF SentTo
<1> DEFINE rest == SubSeq(s.buffer, r.count + 1, l)
           st == IF r.s.next THEN "processing" ELSE "done"
<1>6. rest \in Seq(Tokens)
  BY <1>2, <1>4
<1> HIDE DEF rest, l
<1>7. z = [r.s EXCEPT !.sampled = s.buffer[l], !.buffer = rest, !.st = st]
  BY <1>1, <1>2, <1>3, <1>4 DEF LeftOver, Finish, SlotRec, l, rest
<1>8. z \in SlotRec
  BY <1>2, <1>3, <1>6, <1>7 DEF SlotRec
<1>9. /\ z.st = st /\ z.cache = r.s.cache /\ z.buffer = rest /\ z.rewinds = r.s.rewinds
      /\ z.n_decoded = r.s.n_decoded /\ z.replied = r.s.replied /\ z.word = r.s.word
      /\ z.eos = r.s.eos /\ z.n_sent = r.s.n_sent /\ z.text = r.s.text /\ z.stream = r.s.stream
      /\ z.sampled = s.buffer[l]
  BY <1>3, <1>7 DEF SlotRec
<1>10. z \in SlotOK
  BY <1>3, <1>8, <1>9, StreamedSame
<1>11. z.st \in {"processing", "done"} /\ (z.st = "processing" <=> r.s.next) /\ (z.st = "done" <=> ~r.s.next)
  BY <1>3, <1>9 DEF SlotRec
<1> HIDE DEF st
<1>12. \E m \in 1..l : /\ z.replied = s.replied \o SubSeq(s.buffer, 1, m)
                       /\ z.buffer = SubSeq(s.buffer, m + 1, l)
                       /\ z.st = "processing" /\ n = 0 => m = l
  <2>1. z.st = "processing" /\ n = 0 => r.count = l
    BY <1>4, <1>5, <1>11, Zenon
  <2>. QED BY <1>4, <1>9, <2>1 DEF rest
<1>13. z.st = "processing" => HasBudget(s.n_decoded) /\ ~z.word
  BY <1>5, <1>9, <1>11, Zenon
<1>14. z.st = "done" /\ ~z.eos => z.n_sent >= Valid(z.text)
  BY <1>5, <1>9, <1>11, Zenon
<1>. QED BY <1>4, <1>9, <1>10, <1>11, <1>12, <1>13, <1>14 DEF Handled, l

-----------------------------------------------------------------------------
(* The text of tokens                                                       *)

\* f puts the parts of seqs together, one after the other.
Joins(f, seqs) == f[1] = seqs[1] /\ \A k \in 2..Len(seqs) : f[k] = f[k - 1] \o seqs[k]

\* FlattenSeq puts the parts together.
LEMMA Flatten ==
    ASSUME NEW T, NEW seqs \in Seq(Seq(T)), seqs # <<>>
    PROVE  \E f : /\ Joins(f, seqs) /\ FlattenSeq(seqs) = f[Len(seqs)]
                  /\ \A k \in 1..Len(seqs) : f[k] \in Seq(T)
<1> DEFINE n == Len(seqs)
           l == n - 1
           X == Seq(T)
           a == seqs[1]
           G == [x \in X \X (1..l) |-> x[1] \o seqs[x[2] + 1]]
           Is(f) == f = [i \in 1..n |-> IF i = 1 THEN seqs[i] ELSE f[i - 1] \o seqs[i]]
           F == CHOOSE f : Is(f)
<1>0. n \in Nat /\ n >= 1 /\ l \in Nat /\ a \in X /\ \A i \in 1..n : seqs[i] \in X
  OBVIOUS
<1>6. FlattenSeq(seqs) = F[n]
  BY <1>0 DEF FlattenSeq
<1>7. ASSUME NEW q \in X, NEW k \in 1..l PROVE q \o seqs[k + 1] \in X
  <2>1. k + 1 \in 1..n
    BY <1>0
  <2>. QED BY <1>0, <2>1, ConcatProperties
<1> HIDE DEF n, X, a
<1>1. StaysIn(X, G, l)
  BY <1>7 DEF StaysIn
<1>2. \E f : Is(f)
  <2>1. PICK g \in [0..l -> X] : Solution(g, a, G, l)
    <3> HIDE DEF G, Is, F, l
    <3>. QED BY <1>0, <1>1, Recursion
  <2>2. ASSUME NEW k \in 1..l PROVE g[k] = g[k - 1] \o seqs[k + 1]
    <3>1. k - 1 \in 0..l
      BY <1>0
    <3>2. <<g[k - 1], k>> \in X \X (1..l)
      BY <3>1
    <3>3. G[<<g[k - 1], k>>] = g[k - 1] \o seqs[k + 1]
      BY <3>2
    <3>. QED BY <2>1, <3>3 DEF Solution
  <2> DEFINE f == [i \in 1..n |-> g[i - 1]]
  <2>3. ASSUME NEW i \in 1..n PROVE f[i] = IF i = 1 THEN seqs[i] ELSE f[i - 1] \o seqs[i]
    <3>1. CASE i = 1
      BY <2>1, <3>1 DEF Solution, a
    <3>2. CASE i # 1
      <4>1. i - 1 \in 1..l /\ i - 1 \in 1..n /\ (i - 1) + 1 = i
        BY <1>0, <3>2
      <4>2. g[i - 1] = g[(i - 1) - 1] \o seqs[i]
        BY <2>2, <4>1
      <4>. QED BY <3>2, <4>1, <4>2
    <3>. QED BY <3>1, <3>2
  <2>4. Is(f)
    <3>1. f = [i \in 1..n |-> f[i]]
      OBVIOUS
    <3> HIDE DEF f
    <3>. QED BY <2>3, <3>1
  <2>. QED BY <2>4
<1>3. Is(F)
  <2> HIDE DEF Is
  <2>. QED BY <1>2
<1> HIDE DEF F, G
<1>4. F[1] = seqs[1] /\ \A k \in 2..n : F[k] = F[k - 1] \o seqs[k]
  <2>1. ASSUME NEW k \in 1..n PROVE F[k] = IF k = 1 THEN seqs[k] ELSE F[k - 1] \o seqs[k]
    BY <1>3
  <2>2. 1 \in 1..n /\ \A k \in 2..n : k \in 1..n /\ k # 1
    BY <1>0
  <2>. QED BY <2>1, <2>2
<1> HIDE DEF Is
<1>5. \A k \in 1..n : F[k] \in X
  <2> DEFINE S == {k \in 0..l : F[k + 1] \in X}
  <2>1. 0 \in S
    BY <1>0, <1>4 DEF a
  <2>2. ASSUME NEW k \in 1..l, k - 1 \in S PROVE k \in S
    <3>1. k + 1 \in 2..n /\ k \in 0..l /\ (k - 1) + 1 = k /\ (k + 1) - 1 = k
      BY <1>0
    <3>2. F[k] \in X
      BY <2>2, <3>1
    <3>3. F[k + 1] = F[k] \o seqs[k + 1]
      BY <1>4, <3>1
    <3>. QED BY <1>7, <3>1, <3>2, <3>3
  <2> HIDE DEF S, l
  <2>3. 0..l \subseteq S
    BY <1>0, <2>1, <2>2, UpTo
  <2>4. ASSUME NEW k \in 1..n PROVE k - 1 \in 0..l /\ (k - 1) + 1 = k
    BY <1>0 DEF l
  <2>. QED BY <2>3, <2>4 DEF S
<1>. QED BY <1>4, <1>5, <1>6 DEF Joins, n, X

\* There is one way to put the parts together, whatever follows.
LEMMA JoinsAgree ==
    ASSUME NEW seqs, NEW more, NEW n \in Nat, n >= 1, Len(seqs) = n, Len(more) \in Nat, Len(more) >= n,
           \A k \in 1..n : more[k] = seqs[k], NEW f, NEW g, Joins(f, seqs), Joins(g, more)
    PROVE  f[n] = g[n]
<1> DEFINE l == n - 1
           S == {k \in 0..l : f[k + 1] = g[k + 1]}
<1>1. 0 \in S
  BY DEF Joins
<1>2. ASSUME NEW k \in 1..l, k - 1 \in S PROVE k \in S
  <2>1. k + 1 \in 2..n /\ k \in 0..l /\ (k - 1) + 1 = k /\ (k + 1) - 1 = k /\ k + 1 \in 2..Len(more) /\ k + 1 \in 1..n
    OBVIOUS
  <2>2. f[k] = g[k]
    BY <1>2, <2>1
  <2>3. f[k + 1] = f[k] \o seqs[k + 1] /\ g[k + 1] = g[k] \o more[k + 1]
    BY <2>1 DEF Joins
  <2>. QED BY <2>1, <2>2, <2>3
<1>3. l \in Nat
  OBVIOUS
<1> HIDE DEF S
<1>4. 0..l \subseteq S
  <2> HIDE DEF l
  <2>. QED BY <1>1, <1>2, <1>3, UpTo
<1>5. l \in S /\ l + 1 = n
  BY <1>3, <1>4
<1>. QED BY <1>5 DEF S

\* The text of tokens is a text, and a token more puts its piece behind it.
LEMMA TextFacts ==
    /\ Text(<<>>) = <<>>
    /\ \A u \in Seq(Tokens) : Text(u) \in Seq(Chars)
    /\ \A u \in Seq(Tokens) : \A t \in Tokens : Text(Append(u, t)) = Text(u) \o Piece[t]
<1> DEFINE P(u) == [i \in DOMAIN u |-> Piece[u[i]]]
<1>1. ASSUME NEW u \in Seq(Tokens)
      PROVE  P(u) \in Seq(Seq(Chars)) /\ Len(P(u)) = Len(u) /\ \A i \in 1..Len(u) : P(u)[i] = Piece[u[i]]
  <2>1. \A i \in 1..Len(u) : Piece[u[i]] \in Seq(Chars)
    BY VocabFacts
  <2>2. DOMAIN u = 1..Len(u) /\ Len(u) \in Nat
    OBVIOUS
  <2>. QED BY <2>1, <2>2
<1>2. Text(<<>>) = <<>>
  BY DEF Text, FlattenSeq
<1>3. ASSUME NEW u \in Seq(Tokens) PROVE Text(u) \in Seq(Chars)
  <2>1. CASE u = <<>>
    <3>1. Text(u) = <<>>
      BY <1>2, <2>1, Zenon
    <3>. QED BY <3>1
  <2>2. CASE u # <<>>
    <3>1. Text(u) = FlattenSeq(P(u))
      BY DEF Text
    <3>2. P(u) # <<>> /\ Len(P(u)) \in 1..Len(P(u))
      BY <1>1, <2>2
    <3>3. P(u) \in Seq(Seq(Chars))
      BY <1>1
    <3> DEFINE pu == P(u)
    <3> HIDE DEF P
    <3>4. PICK f : FlattenSeq(pu) = f[Len(pu)] /\ \A k \in 1..Len(pu) : f[k] \in Seq(Chars)
      <4> HIDE DEF pu
      <4>. QED BY <3>2, <3>3, Flatten DEF pu
    <3>. QED BY <3>1, <3>2, <3>4
  <2>. QED BY <2>1, <2>2
<1>4. ASSUME NEW u \in Seq(Tokens), NEW t \in Tokens PROVE Text(Append(u, t)) = Text(u) \o Piece[t]
  <2> DEFINE v == Append(u, t)
             n == Len(u)
  <2>0. v \in Seq(Tokens) /\ Len(v) = n + 1 /\ v[n + 1] = t /\ n \in Nat /\ \A i \in 1..n : v[i] = u[i]
    OBVIOUS
  <2> HIDE DEF v, n
  <2>1. P(v) \in Seq(Seq(Chars)) /\ Len(P(v)) = n + 1 /\ \A i \in 1..(n + 1) : P(v)[i] = Piece[v[i]]
    BY <1>1, <2>0
  <2>2. P(u) \in Seq(Seq(Chars)) /\ Len(P(u)) = n /\ \A i \in 1..n : P(u)[i] = Piece[u[i]]
    BY <1>1 DEF n
  <2>3. Text(v) = FlattenSeq(P(v)) /\ Text(u) = FlattenSeq(P(u))
    BY DEF Text
  <2> DEFINE pv == P(v)
             pu == P(u)
  <2> HIDE DEF P
  <2>e. /\ pv \in Seq(Seq(Chars)) /\ Len(pv) = n + 1 /\ \A i \in 1..(n + 1) : pv[i] = Piece[v[i]]
        /\ pu \in Seq(Seq(Chars)) /\ Len(pu) = n /\ \A i \in 1..n : pu[i] = Piece[u[i]]
        /\ Text(v) = FlattenSeq(pv) /\ Text(u) = FlattenSeq(pu)
    BY <2>1, <2>2, <2>3
  <2> HIDE DEF pv, pu
  <2>4. pv # <<>>
    BY <2>0, <2>e
  <2>5. PICK g : Joins(g, pv) /\ Text(v) = g[n + 1]
    BY <2>e, <2>4, Flatten
  <2>6. CASE n = 0
    <3>0. g[1] = pv[1] /\ 1 \in 1..(n + 1) /\ n + 1 = 1
      BY <2>5, <2>6 DEF Joins
    <3>1. u = <<>> /\ g[1] = Piece[t]
      BY <2>0, <2>e, <2>6, <3>0 DEF n
    <3>2. Piece[t] \in Seq(Chars)
      BY VocabFacts
    <3>3. <<>> \o Piece[t] = Piece[t]
      BY <3>2, ConcatEmptySeq
    <3>. QED BY <1>2, <2>5, <3>0, <3>1, <3>3 DEF v
  <2>7. CASE n # 0
    <3>1. pu # <<>> /\ n >= 1
      BY <2>0, <2>e, <2>7
    <3>2. PICK f : Joins(f, pu) /\ Text(u) = f[n]
      <4>1. pu \in Seq(Seq(Chars))
        BY <2>e
      <4>2. \E f : Joins(f, pu) /\ FlattenSeq(pu) = f[Len(pu)]
        BY <3>1, <4>1, Flatten
      <4>. QED BY <2>e, <4>2
    <3>3. ASSUME NEW k \in 1..n PROVE pv[k] = pu[k]
      <4>1. k \in 1..(n + 1)
        BY <2>0
      <4>2. pv[k] = Piece[v[k]] /\ pu[k] = Piece[u[k]] /\ v[k] = u[k]
        BY <2>0, <2>e, <4>1, Zenon
      <4>. QED BY <4>2
    <3>4. f[n] = g[n]
      <4>1. Len(pv) \in Nat /\ Len(pv) >= n
        BY <2>0, <2>e
      <4>2. n \in Nat /\ Len(pu) = n /\ Joins(g, pv) /\ Joins(f, pu)
        BY <2>0, <2>e, <2>5, <3>2
      <4>. QED BY <3>1, <3>3, <4>1, <4>2, JoinsAgree
    <3>5. g[n + 1] = g[n] \o pv[n + 1]
      <4>1. n + 1 \in 2..Len(pv) /\ (n + 1) - 1 = n
        BY <2>0, <2>e, <3>1
      <4>. QED BY <2>5, <4>1 DEF Joins
    <3>6. pv[n + 1] = Piece[t]
      BY <2>0, <2>e
    <3>. QED BY <2>5, <3>2, <3>4, <3>5, <3>6 DEF v
  <2>. QED BY <2>6, <2>7
<1>. QED BY <1>2, <1>3, <1>4

-----------------------------------------------------------------------------
(* check_ban_phrase and rewind_context                                      *)

\* check_ban_phrase finds a token of the buffer, or no phrase at all.
LEMMA BanAt ==
    ASSUME conf \in Confs, NEW s \in SlotRec
    PROVE  \/ /\ CheckBanPhrase(s) = -1
              /\ \A w \in conf.phrases : Occurs(Text(s.buffer), w) = {}
           \/ \E h \in 1..Len(s.buffer) : CheckBanPhrase(s) = Len(s.cache) - Len(s.buffer) + h
<1> DEFINE b == s.buffer
           l == Len(b)
           text == Text(b)
           at == UNION {Occurs(text, w) : w \in conf.phrases}
           Off(k) == Len(Text(SubSeq(b, 1, k - 1)))
           m == Min(at)
           hit == {k \in DOMAIN b : Off(k) <= m /\ m < Off(k + 1)}
<1>1. CheckBanPhrase(s) = IF at = {} THEN -1 ELSE Len(s.cache) - l + Min(hit)
  BY DEF CheckBanPhrase
<1>2. b \in Seq(Tokens) /\ l \in Nat /\ DOMAIN b = 1..l
  BY DEF SlotRec
<1>3. text \in Seq(Chars) /\ Len(text) \in Nat
  BY <1>2, TextFacts
<1>4. CASE at = {}
  <2>1. \A w \in conf.phrases : Occurs(text, w) = {}
    BY <1>4, Zenon
  <2>. QED BY <1>1, <1>4, <2>1
<1>5. CASE at # {}
  <2> HIDE DEF b, l, text
  <2>1. at \subseteq 0..(Len(text) - 1)
    <3>1. ASSUME NEW w \in conf.phrases PROVE Occurs(text, w) \subseteq 0..(Len(text) - 1)
      <4>1. Len(w) \in Nat /\ Len(w) > 0
        BY ConfFacts
      <4>. QED BY <1>3, <4>1 DEF Occurs
    <3>. QED BY <3>1
  <2> HIDE DEF at
  <2>2. m \in 0..(Len(text) - 1)
    <3>1. IsFiniteSet(0..(Len(text) - 1)) /\ 0..(Len(text) - 1) \subseteq Int
      BY <1>3, FS_Interval
    <3>2. IsFiniteSet(at) /\ at \subseteq Int
      BY <2>1, <3>1, FS_Subset
    <3>. QED BY <1>5, <2>1, <3>2, MinMax
  <2> HIDE DEF m
  <2>3. ASSUME NEW k \in 1..(l + 1) PROVE Off(k) \in Nat
    <3>1. SubSeq(b, 1, k - 1) \in Seq(Tokens)
      <4>1. k - 1 \in Nat /\ k - 1 <= Len(b)
        BY <1>2 DEF l
      <4>. QED BY <1>2, <4>1, Prefix
    <3>2. Text(SubSeq(b, 1, k - 1)) \in Seq(Chars)
      BY <3>1, TextFacts
    <3>. QED BY <3>2
  <2>4. Off(1) = 0
    <3>1. SubSeq(b, 1, 1 - 1) = <<>> /\ Len(<<>>) = 0
      BY <1>2
    <3>2. Text(<<>>) = <<>>
      BY TextFacts
    <3>3. Text(SubSeq(b, 1, 1 - 1)) = <<>>
      BY <3>1, <3>2, Zenon
    <3>. QED BY <3>1, <3>3
  <2>5. Off(l + 1) = Len(text)
    <3>1. SubSeq(b, 1, (l + 1) - 1) = b
      BY <1>2 DEF l
    <3>. QED BY <3>1 DEF text
  <2> HIDE DEF Off
  <2> DEFINE K == {k \in 1..l : m < Off(k + 1)}
  <2>6. l \in K
    <3>1. l # 0
      BY <1>2, <2>2, <2>4, <2>5
    <3>. QED BY <1>2, <1>3, <2>2, <2>5, <3>1
  <2>7. PICK k \in K : \A j \in K : ~(j < k)
    <3>1. K \subseteq Nat /\ K # {}
      <4>1. K \subseteq 1..l
        BY Zenon
      <4>2. 1..l \subseteq Nat
        BY <1>2
      <4> HIDE DEF K
      <4>. QED BY <2>6, <4>1, <4>2
    <3> HIDE DEF K
    <3>. QED BY <3>1, LeastNat
  <2>8. Off(k) <= m
    <3>1. CASE k = 1
      BY <2>2, <2>4, <3>1
    <3>2. CASE k # 1
      <4>1. k - 1 \in 1..l /\ (k - 1) + 1 = k /\ k \in 1..(l + 1)
        BY <1>2, <3>2
      <4>2. ~(m < Off(k))
        BY <2>7, <4>1
      <4>. QED BY <1>3, <2>2, <2>3, <4>1, <4>2
    <3>. QED BY <3>1, <3>2
  <2>9. k \in hit /\ hit \subseteq 1..l
    BY <1>2, <2>7, <2>8
  <2> HIDE DEF hit
  <2>10. Min(hit) \in 1..l
    <3>1. IsFiniteSet(1..l) /\ 1..l \subseteq Int
      BY <1>2, FS_Interval
    <3>2. IsFiniteSet(hit) /\ hit \subseteq Int /\ hit # {}
      BY <2>9, <3>1, FS_Subset
    <3>. QED BY <2>9, <3>2, MinMax
  <2>. QED BY <1>1, <1>5, <2>10 DEF l, b
<1>. QED BY <1>4, <1>5

RowRec == [pos : Int, tok : Tokens]

\* Checkpoints are at positions from -1.
MemRec == {m \in [rows : Seq(RowRec), rs : Seq(Tokens),
                  saved : SUBSET [pos : Int, rows : Seq(RowRec), rs : Seq(Tokens)]] :
             \A x \in m.saved : x.pos >= -1}

\* What is kept by a rewind ends before the token that is banned.
LEMMA KeepCacheBounds ==
    ASSUME conf \in Confs, NEW s, NEW m \in MemRec, NEW p \in Nat
    PROVE  /\ KeepCache(s, m, p) \in Nat /\ (p >= 1 => KeepCache(s, m, p) <= p - 1)
           /\ p = 0 => KeepCache(s, m, p) = 0
           /\ ~conf.recurrent /\ p >= 1 => KeepCache(s, m, p) = p - 1
           /\ (conf.recurrent /\ p >= 1 /\ \E x \in m.saved : x.pos = p - 2) => KeepCache(s, m, p) = p - 1
<1> DEFINE keep == Max({0, p - 1})
           older == {x.pos : x \in {y \in m.saved : y.pos <= keep - 1}}
<1>1. KeepCache(s, m, p) = IF conf.recurrent /\ older # {} THEN Max(older) + 1 ELSE keep
  BY DEF KeepCache
<1>2. keep \in Nat /\ (p >= 1 => keep = p - 1) /\ (p = 0 => keep = 0)
  <2>1. keep = IF 0 >= p - 1 THEN 0 ELSE p - 1
    BY MaxPair
  <2> HIDE DEF keep
  <2>. QED BY <2>1
<1> HIDE DEF keep
<1>3. older \subseteq Int /\ IsFiniteSet(older) /\ \A x \in older : -1 <= x /\ x <= keep - 1
  <2>1. older \subseteq -1..(keep - 1)
    BY <1>2 DEF MemRec
  <2> HIDE DEF older
  <2>2. IsFiniteSet(-1..(keep - 1))
    BY <1>2, FS_Interval
  <2>3. IsFiniteSet(older)
    BY <2>1, <2>2, FS_Subset
  <2>. QED BY <1>2, <2>1, <2>3
<1>4. older # {} => Max(older) \in older /\ \A x \in older : x <= Max(older)
  <2> HIDE DEF older
  <2>. QED BY <1>3, MinMax
<1>5. p >= 1 /\ (\E x \in m.saved : x.pos = p - 2) => p - 2 \in older
  BY <1>2
<1> HIDE DEF older
<1>6. older # {} => Max(older) \in Int /\ -1 <= Max(older) /\ Max(older) <= keep - 1
  BY <1>3, <1>4
<1>7. KeepCache(s, m, p) \in Nat /\ (p >= 1 => KeepCache(s, m, p) <= p - 1) /\ (p = 0 => KeepCache(s, m, p) = 0)
  BY <1>1, <1>2, <1>6
<1>8. ~conf.recurrent /\ p >= 1 => KeepCache(s, m, p) = p - 1
  BY <1>1, <1>2
<1>9. ASSUME conf.recurrent, p >= 1, \E x \in m.saved : x.pos = p - 2 PROVE KeepCache(s, m, p) = p - 1
  BY <1>1, <1>2, <1>4, <1>5, <1>6, <1>9
<1>. QED BY <1>7, <1>8, <1>9

\* The rows before a position are rows; of rows in order they are the first ones.
LEMMA RowsRmFacts ==
    ASSUME NEW rows \in Seq(RowRec), NEW p \in Int
    PROVE  /\ RowsRm(rows, p) \in Seq(RowRec)
           /\ (p \in 0..Len(rows) /\ \A k \in 1..Len(rows) : rows[k].pos = k - 1) =>
                RowsRm(rows, p) = SubSeq(rows, 1, p)
<1> DEFINE n == Len(rows)
           X == Seq(RowRec)
           a == <<>>
           Step(x, k) == IF rows[k].pos < p THEN Append(x, rows[k]) ELSE x
           G == [x \in X \X (1..n) |-> Step(x[1], x[2])]
           Is(f) == f = [k \in 0..n |-> IF k = 0 THEN <<>>
                                        ELSE IF rows[k].pos < p THEN Append(f[k - 1], rows[k]) ELSE f[k - 1]]
           Kept == CHOOSE f : Is(f)
<1>6. RowsRm(rows, p) = Kept[n]
  BY DEF RowsRm
<1>0. n \in Nat /\ a \in X
  OBVIOUS
<1>7. ASSUME NEW q \in X, NEW k \in 1..n PROVE Step(q, k) \in X
  OBVIOUS
<1> HIDE DEF n, X
<1>1. StaysIn(X, G, n)
  <2> HIDE DEF Step
  <2>. QED BY <1>7 DEF StaysIn
<1>2. \E f : Is(f)
  <2>1. PICK f \in [0..n -> X] : Solution(f, a, G, n)
    <3> HIDE DEF G, Is, Kept, Step, a
    <3>. QED BY <1>0, <1>1, Recursion
  <2>2. ASSUME NEW k \in 1..n PROVE f[k] = Step(f[k - 1], k)
    <3> HIDE DEF Step
    <3>1. k - 1 \in 0..n
      BY <1>0
    <3>2. <<f[k - 1], k>> \in X \X (1..n)
      BY <3>1
    <3>3. G[<<f[k - 1], k>>] = Step(f[k - 1], k)
      BY <3>2
    <3>. QED BY <2>1, <3>3 DEF Solution
  <2>3. ASSUME NEW k \in 0..n PROVE f[k] = IF k = 0 THEN <<>>
                                           ELSE IF rows[k].pos < p THEN Append(f[k - 1], rows[k]) ELSE f[k - 1]
    <3>1. k # 0 => k \in 1..n
      BY <1>0
    <3>. QED BY <2>1, <2>2, <3>1 DEF Solution
  <2>4. Is(f)
    BY <2>3
  <2>. QED BY <2>4
<1>3. Is(Kept)
  <2> HIDE DEF Is
  <2>. QED BY <1>2
<1> HIDE DEF Kept, G
<1>4. Kept[0] = a /\ \A k \in 1..n : Kept[k] = Step(Kept[k - 1], k)
  <2>1. ASSUME NEW k \in 0..n PROVE Kept[k] = IF k = 0 THEN <<>>
                                              ELSE IF rows[k].pos < p THEN Append(Kept[k - 1], rows[k]) ELSE Kept[k - 1]
    BY <1>3
  <2>2. 0 \in 0..n /\ \A k \in 1..n : k \in 0..n /\ k # 0
    BY <1>0
  <2>. QED BY <2>1, <2>2
<1> HIDE DEF Is
<1>5. Kept[n] \in X
  <2>1. Kept[0] \in X /\ \A k \in 1..n : Kept[k - 1] \in X => Kept[k] \in X
    <3> HIDE DEF Step
    <3>. QED BY <1>0, <1>4, <1>7
  <2>2. \A k \in 0..n : Kept[k] \in X
    <3> HIDE DEF Step
    <3>. QED BY <1>0, <2>1, Throughout
  <2>. QED BY <1>0, <2>2
<1>8. ASSUME p \in 0..n, \A k \in 1..n : rows[k].pos = k - 1 PROVE Kept[n] = SubSeq(rows, 1, p)
  <2> DEFINE at(k) == IF k <= p THEN k ELSE p
             S == {k \in 0..n : Kept[k] = SubSeq(rows, 1, at(k))}
  <2>1. 0 \in S
    <3>1. at(0) = 0 /\ SubSeq(rows, 1, 0) = <<>> /\ 0 \in 0..n
      BY <1>0, <1>8
    <3> HIDE DEF at
    <3>. QED BY <1>4, <3>1
  <2>2. ASSUME NEW k \in 1..n, k - 1 \in S PROVE k \in S
    <3>1. k \in 0..n /\ k - 1 \in 0..n /\ k \in 1..Len(rows) /\ rows[k] \in RowRec
      BY <1>0 DEF n
    <3>2. Kept[k - 1] = SubSeq(rows, 1, at(k - 1))
      BY <2>2
    <3>3. CASE k <= p
      <4>1. rows[k].pos < p /\ at(k - 1) = k - 1 /\ at(k) = k
        BY <1>8, <3>1, <3>3
      <4>2. Kept[k] = Append(SubSeq(rows, 1, k - 1), rows[k])
        BY <1>4, <3>2, <4>1
      <4>3. Append(SubSeq(rows, 1, k - 1), rows[k]) = SubSeq(rows, 1, k)
        <5>1. <<>> \in Seq(RowRec) /\ SubSeq(rows, 1, k - 1) \in Seq(RowRec) /\ SubSeq(rows, 1, k) \in Seq(RowRec)
          BY <3>1 DEF n
        <5>2. Append(<<>> \o SubSeq(rows, 1, k - 1), rows[k]) = <<>> \o SubSeq(rows, 1, k)
          BY <3>1, <5>1, OneMore
        <5>3. <<>> \o SubSeq(rows, 1, k - 1) = SubSeq(rows, 1, k - 1) /\ <<>> \o SubSeq(rows, 1, k) = SubSeq(rows, 1, k)
          BY <5>1, ConcatEmptySeq
        <5>. QED BY <5>2, <5>3
      <4> HIDE DEF at
      <4>. QED BY <3>1, <4>1, <4>2, <4>3
    <3>4. CASE ~(k <= p)
      <4>1. ~(rows[k].pos < p) /\ at(k - 1) = p /\ at(k) = p
        BY <1>8, <3>1, <3>4
      <4>2. Kept[k] = Kept[k - 1]
        BY <1>4, <4>1
      <4> HIDE DEF at
      <4>. QED BY <3>1, <3>2, <4>1, <4>2
    <3>. QED BY <3>3, <3>4
  <2>3. 0..n \subseteq S
    <3> HIDE DEF S
    <3>. QED BY <1>0, <2>1, <2>2, UpTo
  <2>4. n \in 0..n /\ at(n) = p
    BY <1>0, <1>8
  <2>. QED BY <2>3, <2>4
<1>. QED BY <1>5, <1>6, <1>8 DEF n, X

\* The rows of tokens.
LEMMA RowsFacts ==
    ASSUME NEW c \in Seq(Tokens), NEW from \in Int
    PROVE  /\ Rows(c, from) \in Seq(RowRec) /\ Len(Rows(c, from)) = Len(c)
           /\ \A i \in 1..Len(c) : Rows(c, from)[i] = [pos |-> from + i - 1, tok |-> c[i]]
<1> DEFINE R(i) == [pos |-> from + i - 1, tok |-> c[i]]
<1>1. DOMAIN c = 1..Len(c) /\ Len(c) \in Nat /\ \A i \in 1..Len(c) : c[i] \in Tokens /\ from + i - 1 \in Int
  OBVIOUS
<1>2. \A i \in 1..Len(c) : R(i) \in RowRec
  BY <1>1 DEF RowRec
<1>3. Rows(c, from) = [i \in 1..Len(c) |-> R(i)]
  BY <1>1 DEF Rows
<1> HIDE DEF R
<1>4. Rows(c, from) \in Seq(RowRec) /\ Len(Rows(c, from)) = Len(c) /\ \A i \in 1..Len(c) : Rows(c, from)[i] = R(i)
  BY <1>1, <1>2, <1>3
<1>. QED BY <1>4 DEF R

\* The highest position of rows, or -1.
LEMMA PosMaxFacts ==
    ASSUME NEW rows \in Seq(RowRec)
    PROVE  /\ PosMax(rows) \in Int /\ PosMax(rows) >= -1
           /\ (\A k \in 1..Len(rows) : rows[k].pos = k - 1) => PosMax(rows) = Len(rows) - 1
<1> DEFINE f == [i \in DOMAIN rows |-> rows[i].pos]
           S == {rows[i].pos : i \in DOMAIN rows} \cup {-1}
<1>1. DOMAIN rows = 1..Len(rows) /\ Len(rows) \in Nat /\ \A i \in 1..Len(rows) : rows[i].pos \in Int
  <2>1. DOMAIN rows = 1..Len(rows) /\ Len(rows) \in Nat /\ \A i \in 1..Len(rows) : rows[i] \in RowRec
    OBVIOUS
  <2>. QED BY <2>1 DEF RowRec
<1>2. IsFiniteSet({f[x] : x \in DOMAIN f}) /\ DOMAIN f = DOMAIN rows
  <2>1. IsFiniteSet(1..Len(rows))
    BY <1>1, FS_Interval
  <2>2. IsFiniteSet(DOMAIN f) /\ DOMAIN f = DOMAIN rows /\ f = [x \in DOMAIN f |-> f[x]]
    BY <1>1, <2>1
  <2> HIDE DEF f
  <2>. QED BY <2>2, FiniteRange
<1>3. {f[x] : x \in DOMAIN f} = {rows[i].pos : i \in DOMAIN rows}
  OBVIOUS
<1>4. IsFiniteSet(S) /\ S \subseteq Int /\ S # {} /\ -1 \in S
  <2>1. IsFiniteSet({rows[i].pos : i \in DOMAIN rows})
    BY <1>2, <1>3
  <2>2. IsFiniteSet(S)
    BY <2>1, FS_AddElement
  <2>. QED BY <1>1, <2>2
<1>5. PosMax(rows) \in S /\ \A x \in S : x <= PosMax(rows)
  <2>1. PosMax(rows) = Max(S)
    BY DEF PosMax
  <2> HIDE DEF S
  <2>. QED BY <1>4, <2>1, MinMax
<1>6. ASSUME \A k \in 1..Len(rows) : rows[k].pos = k - 1 PROVE PosMax(rows) = Len(rows) - 1
  <2>1. Len(rows) - 1 \in S /\ \A x \in S : x <= Len(rows) - 1
    <3>1. CASE Len(rows) = 0
      BY <1>1, <3>1
    <3>2. CASE Len(rows) # 0
      <4>1. Len(rows) \in DOMAIN rows /\ rows[Len(rows)].pos = Len(rows) - 1
        BY <1>1, <1>6, <3>2
      <4>2. \A i \in DOMAIN rows : rows[i].pos <= Len(rows) - 1
        BY <1>1, <1>6
      <4>. QED BY <1>1, <3>2, <4>1, <4>2
    <3>. QED BY <3>1, <3>2
  <2> HIDE DEF S
  <2> DEFINE top == PosMax(rows)
             l == Len(rows)
  <2>2. top <= l - 1 /\ l - 1 <= top
    <3> HIDE DEF top, l
    <3>. QED BY <1>5, <2>1, Zenon DEF top, l
  <2>3. top \in Int /\ l \in Int
    <3>1. top \in Int
      BY <1>4, <1>5, Zenon
    <3>2. Len(rows) \in Nat
      BY <1>1
    <3>. QED BY <3>1, <3>2
  <2> HIDE DEF top, l
  <2>4. top = l - 1
    BY <2>2, <2>3
  <2>. QED BY <2>4 DEF top, l
<1> HIDE DEF S
<1>. QED BY <1>4, <1>5, <1>6

\* The length of the buffer: 0 exactly when there is nothing to ban.
LEMMA NBufferFacts ==
    ASSUME conf \in Confs
    PROVE  NBuffer \in Nat /\ (NBuffer = 0 <=> conf.phrases = {})
<1> DEFINE P == conf.phrases
           f == [w \in P |-> Len(w)]
           S == {Len(w) : w \in P}
<1>1. IsFiniteSet(P) /\ conf.banbuffer \in Int /\ \A w \in P : Len(w) \in Nat /\ Len(w) > 0
  BY ConfFacts
<1>2. NBuffer = IF P = {} THEN 0 ELSE IF conf.banbuffer > 0 THEN conf.banbuffer ELSE Max(S) + 1
  BY DEF NBuffer
<1>3. ASSUME P # {} PROVE Max(S) \in Nat
  <2>1. IsFiniteSet(S)
    <3>1. DOMAIN f = P /\ f = [x \in DOMAIN f |-> f[x]] /\ S = {f[x] : x \in DOMAIN f}
      OBVIOUS
    <3> HIDE DEF f, S
    <3>. QED BY <1>1, <3>1, FiniteRange
  <2>2. S \subseteq Nat /\ S \subseteq Int /\ S # {}
    BY <1>1, <1>3
  <2> HIDE DEF S
  <2>. QED BY <2>1, <2>2, MinMax
<1> HIDE DEF S
<1>. QED BY <1>1, <1>2, <1>3

\* The operations on the memory of the slot keep its shape.
LEMMA MemFacts ==
    ASSUME conf \in Confs, NEW m \in MemRec
    PROVE  /\ SaveRewind(m) \in MemRec
           /\ \A n \in Int : DropOld(m, n) \in MemRec
           /\ \A toks \in Seq(Tokens) : \A from \in Int : Decoded(m, toks, from) \in MemRec
           /\ \A s : \A p \in Nat : RewindMem(s, m, p) \in MemRec
<1> DEFINE C == [pos : Int, rows : Seq(RowRec), rs : Seq(Tokens)]
           M == [rows : Seq(RowRec), rs : Seq(Tokens), saved : SUBSET C]
<1>0. /\ m.rows \in Seq(RowRec) /\ m.rs \in Seq(Tokens) /\ m.saved \subseteq C
      /\ \A x \in m.saved : x.pos >= -1
      /\ m = [rows |-> m.rows, rs |-> m.rs, saved |-> m.saved]
  BY DEF MemRec
<1>e. /\ \A x : [m EXCEPT !.saved = x] = [rows |-> m.rows, rs |-> m.rs, saved |-> x]
      /\ \A x \in Seq(RowRec), y \in Seq(Tokens) :
           [m EXCEPT !.rows = x, !.rs = y] = [rows |-> x, rs |-> y, saved |-> m.saved]
  <2>1. m \in M
    BY DEF MemRec
  <2> HIDE DEF C
  <2>2. ASSUME NEW x PROVE [m EXCEPT !.saved = x] = [rows |-> m.rows, rs |-> m.rs, saved |-> x]
    BY <2>1
  <2>3. ASSUME NEW x \in Seq(RowRec), NEW y \in Seq(Tokens)
        PROVE  [m EXCEPT !.rows = x, !.rs = y] = [rows |-> x, rs |-> y, saved |-> m.saved]
    <3> DEFINE u == [m EXCEPT !.rows = x, !.rs = y]
    <3>1. u.rows = x /\ u.rs = y /\ u.saved = m.saved
      BY <2>1
    <3>2. u \in M
      BY <2>1
    <3> HIDE DEF u
    <3>3. u = [rows |-> x, rs |-> y, saved |-> m.saved]
      BY <3>1, <3>2
    <3>. QED BY <3>3 DEF u
  <2>. QED BY <2>2, <2>3
<1>1. ASSUME NEW r \in Seq(RowRec), NEW q \in Seq(Tokens), NEW v, v \subseteq C, \A x \in v : x.pos >= -1
      PROVE  [rows |-> r, rs |-> q, saved |-> v] \in MemRec
  BY <1>1 DEF MemRec
<1>2. SaveRewind(m) \in MemRec
  <2> DEFINE top == PosMax(m.rows)
             new == [pos |-> top, rows |-> m.rows, rs |-> m.rs]
             v == {x \in m.saved : x.pos # top} \cup {new}
  <2>1. SaveRewind(m) = IF ~conf.recurrent \/ NBuffer = 0 THEN m ELSE [rows |-> m.rows, rs |-> m.rs, saved |-> v]
    <3>1. SaveRewind(m) = IF ~conf.recurrent \/ NBuffer = 0 THEN m ELSE [m EXCEPT !.saved = v]
      BY DEF SaveRewind
    <3> HIDE DEF v
    <3>. QED BY <1>e, <3>1
  <2>2. top \in Int /\ top >= -1
    BY <1>0, PosMaxFacts
  <2> HIDE DEF top
  <2>3. v \subseteq C /\ \A x \in v : x.pos >= -1
    BY <1>0, <2>2
  <2> HIDE DEF v
  <2>. QED BY <1>0, <1>1, <2>1, <2>3
<1>3. ASSUME NEW n \in Int PROVE DropOld(m, n) \in MemRec
  <2> DEFINE v == {x \in m.saved : x.pos >= n - NBuffer - 3}
  <2>1. DropOld(m, n) = [rows |-> m.rows, rs |-> m.rs, saved |-> v]
    <3>1. DropOld(m, n) = [m EXCEPT !.saved = v]
      BY DEF DropOld
    <3> HIDE DEF v
    <3>. QED BY <1>e, <3>1
  <2>2. v \subseteq C /\ \A x \in v : x.pos >= -1
    BY <1>0
  <2> HIDE DEF v
  <2>. QED BY <1>0, <1>1, <2>1, <2>2
<1>4. ASSUME NEW toks \in Seq(Tokens), NEW from \in Int PROVE Decoded(m, toks, from) \in MemRec
  <2> DEFINE r == m.rows \o Rows(toks, from)
             q == IF conf.recurrent THEN m.rs \o toks ELSE m.rs
  <2>2. r \in Seq(RowRec) /\ q \in Seq(Tokens)
    BY <1>0, RowsFacts, ConcatProperties
  <2>1. Decoded(m, toks, from) = [rows |-> r, rs |-> q, saved |-> m.saved]
    <3>1. Decoded(m, toks, from) = [m EXCEPT !.rows = r, !.rs = q]
      BY DEF Decoded
    <3> HIDE DEF r, q
    <3>. QED BY <1>e, <2>2, <3>1
  <2> HIDE DEF r, q
  <2>. QED BY <1>0, <1>1, <2>1, <2>2
<1>5. ASSUME NEW s, NEW p \in Nat PROVE RewindMem(s, m, p) \in MemRec
  <2> DEFINE n == KeepCache(s, m, p)
             at == {x \in m.saved : x.pos = n - 1}
             o == CHOOSE x \in at : TRUE
             r == IF at = {} THEN m.rows ELSE RowsRm(o.rows, n)
             q == IF at = {} THEN m.rs ELSE o.rs
             v == {x \in m.saved : x.pos < n}
  <2>1. RewindMem(s, m, p) = IF ~conf.recurrent THEN [rows |-> RowsRm(m.rows, n), rs |-> m.rs, saved |-> m.saved]
                             ELSE [rows |-> r, rs |-> q, saved |-> v]
    BY <1>0 DEF RewindMem
  <2>2. n \in Int
    <3>1. KeepCache(s, m, p) \in Nat
      BY KeepCacheBounds
    <3>. QED BY <3>1
  <2> HIDE DEF n
  <2>3. at # {} => o \in at
    BY Zenon
  <2>4. at # {} => o.rows \in Seq(RowRec) /\ o.rs \in Seq(Tokens)
    <3> HIDE DEF o
    <3>. QED BY <1>0, <2>3
  <2> HIDE DEF o, at
  <2>5. r \in Seq(RowRec) /\ q \in Seq(Tokens) /\ RowsRm(m.rows, n) \in Seq(RowRec)
    BY <1>0, <2>2, <2>4, RowsRmFacts
  <2>6. v \subseteq C /\ \A x \in v : x.pos >= -1
    BY <1>0
  <2> HIDE DEF r, q, v
  <2>. QED BY <1>0, <1>1, <2>1, <2>5, <2>6
<1>. QED BY <1>2, <1>3, <1>4, <1>5

\* rewind_context on the slot: the h-th token of the buffer and what follows are taken
\* back; the reply and its text stay.
RewoundTo(s, m, h, p, z) ==
  /\ z \in SlotOK
  /\ z.st = s.st /\ z.text = s.text /\ z.n_sent = s.n_sent /\ z.word = s.word /\ z.eos = s.eos
  /\ z.stream = s.stream /\ z.replied = s.replied
  /\ z.buffer = SubSeq(s.buffer, 1, h - 1)
  /\ z.cache = SubSeq(s.cache, 1, KeepCache(s, m, p))
  /\ KeepCache(s, m, p) <= Len(s.cache)
  /\ z.sampled = IF KeepCache(s, m, p) < Len(s.cache) THEN s.cache[KeepCache(s, m, p) + 1] ELSE NoTok
  /\ ~conf.saturate => z.n_decoded = s.n_decoded
  /\ conf.saturate => LET n == s.n_decoded - (Len(s.buffer) - h + 1) IN z.n_decoded = IF 0 >= n THEN 0 ELSE n

\* What a rewind keeps is inside the cache.
LEMMA KeepInCache ==
    ASSUME conf \in Confs, NEW s, NEW m \in MemRec, NEW a \in Nat, NEW b \in Nat, NEW h \in 1..b,
           NEW p \in Nat, p = a - b + h
    PROVE  KeepCache(s, m, p) \in Nat /\ KeepCache(s, m, p) <= a
<1>1. /\ KeepCache(s, m, p) \in Nat /\ (p >= 1 => KeepCache(s, m, p) <= p - 1)
      /\ p = 0 => KeepCache(s, m, p) = 0
  BY KeepCacheBounds
<1>2. PICK n \in Nat : n = KeepCache(s, m, p)
  BY <1>1
<1>3. n <= a
  BY <1>1, <1>2
<1>. QED BY <1>2, <1>3

\* rewind_context on the slot.
LEMMA RewindSlotFacts ==
    ASSUME conf \in Confs, NEW s \in SlotOK, NEW m \in MemRec, NEW h \in 1..Len(s.buffer),
           NEW p \in Nat, p = Len(s.cache) - Len(s.buffer) + h
    PROVE  RewoundTo(s, m, h, p, RewindSlot(s, m, p))
<1> DEFINE kept == p - (Len(s.cache) - Len(s.buffer) + 1)
           taken == SubSeq(s.buffer, kept + 1, Len(s.buffer))
           banned == IF conf.banned_n < 0 THEN taken ELSE SubSeq(taken, 1, Min({conf.banned_n, Len(taken)}))
           n == KeepCache(s, m, p)
           bans == s.bans \cup {[pos |-> p, tok |-> t] : t \in ToSet(banned)}
           sampled == IF n < Len(s.cache) THEN s.cache[n + 1] ELSE NoTok
           cache == SubSeq(s.cache, 1, n)
           buffer == SubSeq(s.buffer, 1, kept)
           n_decoded == IF conf.saturate THEN Max({0, s.n_decoded - (Len(s.cache) + 1 - p)}) ELSE s.n_decoded
           z == RewindSlot(s, m, p)
<1>1. z = [[s EXCEPT !.bans = bans, !.sampled = sampled, !.cache = cache, !.buffer = buffer,
                     !.n_decoded = n_decoded] EXCEPT !.rewinds = @ + 1]
  BY DEF RewindSlot, TakenBack
<1>2. /\ s \in SlotRec /\ s.cache \in Seq(Tokens) /\ s.buffer \in Seq(Tokens) /\ s.n_decoded \in Nat
      /\ s.bans \in SUBSET [pos : Nat, tok : Tokens] /\ s.rewinds \in Nat
      /\ Len(s.cache) \in Nat /\ Len(s.buffer) \in Nat
  BY DEF SlotOK, SlotRec
<1>3. conf.banned_n \in Int /\ conf.saturate \in BOOLEAN
  BY ConfFacts
<1>4. kept = h - 1 /\ kept \in Nat /\ kept + 1 \in Nat /\ kept < Len(s.buffer)
  BY <1>2
<1> HIDE DEF kept
<1>5. taken \in Seq(Tokens) /\ Len(taken) \in Nat
  BY <1>2, <1>4
<1> HIDE DEF taken
<1>6. banned \in Seq(Tokens)
  <2>1. CASE conf.banned_n < 0
    BY <1>5, <2>1
  <2>2. CASE ~(conf.banned_n < 0)
    <3> DEFINE u == Min({conf.banned_n, Len(taken)})
    <3>1. u = IF conf.banned_n <= Len(taken) THEN conf.banned_n ELSE Len(taken)
      BY <1>3, <1>5, MinPair
    <3>2. u \in Nat /\ u <= Len(taken)
      BY <1>3, <1>5, <2>2, <3>1
    <3> HIDE DEF u
    <3>3. SubSeq(taken, 1, u) \in Seq(Tokens)
      BY <1>5, <3>2, Prefix
    <3>. QED BY <2>2, <3>3 DEF u
  <2>. QED BY <1>3, <2>1, <2>2
<1> HIDE DEF banned
<1>7. bans \in SUBSET [pos : Nat, tok : Tokens]
  <2>1. ToSet(banned) \subseteq Tokens
    BY <1>6 DEF ToSet
  <2>2. \A t \in ToSet(banned) : [pos |-> p, tok |-> t] \in [pos : Nat, tok : Tokens]
    BY <2>1
  <2>. QED BY <1>2, <2>2
<1>8. n \in Nat /\ n <= Len(s.cache)
  BY <1>2, KeepInCache
<1> HIDE DEF n
<1>9. cache \in Seq(Tokens) /\ buffer \in Seq(Tokens) /\ sampled \in Tokens \cup {NoTok}
  <2>1. n < Len(s.cache) => n + 1 \in 1..Len(s.cache)
    BY <1>2, <1>8
  <2>. QED BY <1>2, <1>4, <1>8, <2>1, Prefix
<1>10. /\ n_decoded \in Nat
       /\ ~conf.saturate => n_decoded = s.n_decoded
       /\ conf.saturate => LET d == s.n_decoded - (Len(s.buffer) - h + 1) IN n_decoded = IF 0 >= d THEN 0 ELSE d
  <2> DEFINE d == s.n_decoded - (Len(s.cache) + 1 - p)
  <2>1. d \in Int /\ d = s.n_decoded - (Len(s.buffer) - h + 1)
    BY <1>2
  <2> HIDE DEF d
  <2>2. Max({0, d}) = IF 0 >= d THEN 0 ELSE d
    BY <2>1, MaxPair
  <2>3. n_decoded = IF conf.saturate THEN Max({0, d}) ELSE s.n_decoded
    BY DEF d
  <2>. QED BY <1>2, <1>3, <2>1, <2>2, <2>3
<1> HIDE DEF bans, sampled, cache, buffer, n_decoded
<1> DEFINE y == [s EXCEPT !.bans = bans, !.sampled = sampled, !.cache = cache, !.buffer = buffer, !.n_decoded = n_decoded]
<1>11. y \in SlotRec
  BY <1>2, <1>7, <1>9, <1>10 DEF SlotRec
<1>12. /\ y.st = s.st /\ y.text = s.text /\ y.n_sent = s.n_sent /\ y.word = s.word /\ y.eos = s.eos
       /\ y.stream = s.stream /\ y.replied = s.replied /\ y.buffer = buffer /\ y.cache = cache
       /\ y.sampled = sampled /\ y.n_decoded = n_decoded
  BY <1>2 DEF SlotRec
<1> HIDE DEF y
<1>13. z = [y EXCEPT !.rewinds = @ + 1]
  BY <1>1 DEF y
<1> HIDE DEF z
<1>14. z \in SlotRec
  <2>1. y.rewinds + 1 \in Nat
    BY <1>11 DEF SlotRec
  <2>. QED BY <1>11, <1>13, <2>1 DEF SlotRec
<1>15. /\ z.st = y.st /\ z.text = y.text /\ z.n_sent = y.n_sent /\ z.word = y.word /\ z.eos = y.eos
       /\ z.stream = y.stream /\ z.replied = y.replied /\ z.buffer = y.buffer /\ z.cache = y.cache
       /\ z.sampled = y.sampled /\ z.n_decoded = y.n_decoded
  BY <1>11, <1>13 DEF SlotRec
<1>16. z \in SlotOK
  BY <1>12, <1>14, <1>15, StreamedSame
<1>17. z.buffer = SubSeq(s.buffer, 1, h - 1) /\ z.cache = SubSeq(s.cache, 1, n)
  BY <1>4, <1>12, <1>15 DEF buffer, cache
<1>18. z.sampled = IF n < Len(s.cache) THEN s.cache[n + 1] ELSE NoTok
  BY <1>12, <1>15 DEF sampled
<1>19. z.n_decoded = n_decoded /\ z.st = s.st /\ z.text = s.text /\ z.n_sent = s.n_sent /\ z.word = s.word
       /\ z.eos = s.eos /\ z.stream = s.stream /\ z.replied = s.replied
  BY <1>12, <1>15
<1>. QED BY <1>8, <1>10, <1>16, <1>17, <1>18, <1>19 DEF RewoundTo, z, n

-----------------------------------------------------------------------------
(* buffer_and_check_string_ban                                              *)

\* The slot with one more token in the buffer.
Buffered(s, tok) == [s EXCEPT !.buffer = Append(@, tok), !.n_remaining = Remaining(s)]

\* What a slot must be before a token is handed to the buffer or to the reply.
Ready(s) ==
  /\ s \in SlotOK /\ s.st = "processing" /\ ~s.word
  /\ NBuffer = 0 => s.buffer = <<>>
  /\ s.n_decoded >= Len(s.replied) + Len(s.buffer) + 1
  /\ conf.saturate => s.n_decoded = Len(s.replied) + Len(s.buffer) + 1
  /\ conf.n_predict >= 1 => Len(s.replied) + Len(s.buffer) + 1 <= conf.n_predict

\* What it is afterwards: n_decoded counts the tokens of the reply, the limit holds, and
\* all is sent when the reply has ended.
Counted(s) ==
  /\ s \in SlotOK /\ s.st \in {"processing", "done"}
  /\ s.n_decoded >= Len(s.replied) + Len(s.buffer)
  /\ conf.n_predict >= 1 => Len(s.replied) <= conf.n_predict
  /\ s.st = "processing" =>
       /\ ~s.word /\ (NBuffer = 0 => s.buffer = <<>>)
       /\ conf.saturate => s.n_decoded = Len(s.replied) + Len(s.buffer)
       /\ conf.n_predict >= 1 => Len(s.replied) + Len(s.buffer) < conf.n_predict
  /\ s.st = "done" /\ ~s.eos => s.n_sent >= Valid(s.text)

\* The slot with the token in the buffer.
LEMMA BufferedFacts ==
    ASSUME conf \in Confs, NEW s \in SlotOK, NEW tok \in Tokens, NEW b, b = Buffered(s, tok)
    PROVE  /\ b \in SlotOK /\ b.buffer = Append(s.buffer, tok) /\ b.buffer # <<>>
           /\ Len(b.buffer) = Len(s.buffer) + 1 /\ b.buffer[Len(b.buffer)] = tok
           /\ b.st = s.st /\ b.cache = s.cache /\ b.replied = s.replied /\ b.n_decoded = s.n_decoded
           /\ b.word = s.word /\ b.eos = s.eos /\ b.text = s.text /\ b.n_sent = s.n_sent
           /\ b.stream = s.stream /\ b.bans = s.bans
<1>1. s \in SlotRec /\ s.buffer \in Seq(Tokens)
  BY DEF SlotOK, SlotRec
<1> DEFINE u == Append(s.buffer, tok)
           r == Remaining(s)
<1>2. u \in Seq(Tokens) /\ Len(u) = Len(s.buffer) + 1 /\ u[Len(u)] = tok /\ u # <<>>
  BY <1>1
<1>3. r \in Int
  BY <1>1, ConfFacts DEF Remaining, SlotRec
<1>4. b = [s EXCEPT !.buffer = u, !.n_remaining = r]
  BY DEF Buffered
<1> HIDE DEF u, r
<1>5. b \in SlotRec
  BY <1>1, <1>2, <1>3, <1>4 DEF SlotRec
<1>6. /\ b.buffer = u /\ b.st = s.st /\ b.cache = s.cache /\ b.replied = s.replied /\ b.n_decoded = s.n_decoded
      /\ b.word = s.word /\ b.eos = s.eos /\ b.text = s.text /\ b.n_sent = s.n_sent
      /\ b.stream = s.stream /\ b.bans = s.bans
  BY <1>1, <1>4 DEF SlotRec
<1>7. b \in SlotOK
  BY <1>5, <1>6, StreamedSame
<1>. QED BY <1>2, <1>6, <1>7 DEF u

Calm(s) == [s EXCEPT !.rewinds = 0]

\* The three ends of buffer_and_check_string_ban.
Rewound(b, m, r) ==
  \E h \in 1..Len(b.buffer) : \E p \in Nat :
    /\ p = Len(b.cache) - Len(b.buffer) + h /\ p = CheckBanPhrase(b)
    /\ RewoundTo(b, m, h, p, r.s) /\ r.m = RewindMem(b, m, p) /\ r.rewound = TRUE

Waits(b, m, tok, r) ==
  /\ r.s = [b EXCEPT !.sampled = tok] /\ r.m = m /\ r.rewound = FALSE
  /\ HasBudget(b.n_decoded) /\ Len(b.buffer) < NBuffer

Sends(b, m, r) ==
  \E n \in {0, 1} : r.s = SendTokenResults(Calm(b), n) /\ r.m = m /\ r.rewound = FALSE

\* buffer_and_check_string_ban takes tokens back, waits for more or sends; it takes none
\* back only when no phrase is found or no rewind is allowed.
LEMMA BufferAndCheckCases ==
    ASSUME conf \in Confs, NEW s \in SlotOK, NEW m \in MemRec, NEW tok \in Tokens,
           NEW b, b = Buffered(s, tok), NEW r, r = BufferAndCheck(s, m, tok)
    PROVE  \/ Rewound(b, m, r)
           \/ /\ CheckBanPhrase(b) < 0 \/ ~AllowRewind(b)
              /\ Waits(b, m, tok, r) \/ Sends(b, m, r)
<1> DEFINE next == HasNextToken(b, tok)
           ban == CheckBanPhrase(b)
<1>1. r = IF ban >= 0 /\ AllowRewind(b)
          THEN [s |-> RewindSlot(b, m, ban), m |-> RewindMem(b, m, ban), rewound |-> TRUE]
          ELSE [m |-> m, rewound |-> FALSE,
                s |-> IF next /\ Len(b.buffer) < NBuffer THEN [b EXCEPT !.sampled = tok]
                      ELSE SendTokenResults(Calm(b), IF next THEN 1 ELSE 0)]
  BY DEF BufferAndCheck, Buffered, Calm
<1>2. b \in SlotOK /\ b \in SlotRec /\ b.cache \in Seq(Tokens) /\ b.buffer \in Seq(Tokens)
  <2>1. b \in SlotOK
    BY BufferedFacts, Zenon
  <2>2. b \in SlotRec
    BY <2>1 DEF SlotOK
  <2>. QED BY <2>1, <2>2 DEF SlotRec
<1>3. /\ ban \in Int
      /\ ban = -1 \/ \E h \in 1..Len(b.buffer) : ban = Len(b.cache) - Len(b.buffer) + h
  <2>1. ban = -1 \/ \E h \in 1..Len(b.buffer) : ban = Len(b.cache) - Len(b.buffer) + h
    BY <1>2, BanAt
  <2>2. Len(b.cache) \in Int /\ Len(b.buffer) \in Int
    BY <1>2
  <2> HIDE DEF ban
  <2>3. ASSUME NEW h \in 1..Len(b.buffer) PROVE Len(b.cache) - Len(b.buffer) + h \in Int
    BY <2>2
  <2>4. CASE ban = -1
    <3>1. ban \in Int
      BY <2>4
    <3>. QED BY <2>4, <3>1
  <2>5. CASE ban # -1
    <3>1. PICK h \in 1..Len(b.buffer) : ban = Len(b.cache) - Len(b.buffer) + h
      BY <2>1, <2>5
    <3>2. ban \in Int
      BY <2>3, <3>1
    <3>. QED BY <2>1, <3>2
  <2>. QED BY <2>4, <2>5
<1>4. next => HasBudget(b.n_decoded)
  BY DEF HasNextToken
<1> HIDE DEF next, ban
<1>5. CASE ban >= 0 /\ AllowRewind(b)
  <2>1. r.s = RewindSlot(b, m, ban) /\ r.m = RewindMem(b, m, ban) /\ r.rewound = TRUE
    BY <1>1, <1>5
  <2>2. ban \in Nat
    BY <1>3, <1>5
  <2>3. PICK h \in 1..Len(b.buffer) : ban = Len(b.cache) - Len(b.buffer) + h
    BY <1>3, <1>5
  <2>4. RewoundTo(b, m, h, ban, r.s)
    BY <1>2, <2>1, <2>2, <2>3, RewindSlotFacts
  <2>. QED BY <2>1, <2>2, <2>3, <2>4 DEF Rewound, ban
<1>6. CASE ~(ban >= 0 /\ AllowRewind(b))
  <2>1. r.m = m /\ r.rewound = FALSE /\ r.s = IF next /\ Len(b.buffer) < NBuffer THEN [b EXCEPT !.sampled = tok]
                                              ELSE SendTokenResults(Calm(b), IF next THEN 1 ELSE 0)
    BY <1>1, <1>6
  <2>2. ban < 0 \/ ~AllowRewind(b)
    BY <1>3, <1>6
  <2>3. CASE next /\ Len(b.buffer) < NBuffer
    BY <1>4, <2>1, <2>2, <2>3 DEF Waits, ban
  <2>4. CASE ~(next /\ Len(b.buffer) < NBuffer)
    <3>1. r.s = SendTokenResults(Calm(b), IF next THEN 1 ELSE 0) /\ (IF next THEN 1 ELSE 0) \in {0, 1}
      BY <2>1, <2>4
    <3>. QED BY <2>1, <2>2, <3>1 DEF Sends, ban
  <2>. QED BY <2>3, <2>4
<1>. QED BY <1>5, <1>6

\* What send_token_results makes of a slot whose buffer holds the token just counted.
LEMMA HandledCounted ==
    ASSUME conf \in Confs, NEW s \in SlotOK, NEW n \in Nat, NEW z, Handled(s, n, z),
           s.n_decoded >= Len(s.replied) + Len(s.buffer),
           conf.saturate => s.n_decoded = Len(s.replied) + Len(s.buffer),
           conf.n_predict >= 1 => Len(s.replied) + Len(s.buffer) <= conf.n_predict,
           NBuffer = 0 => n = 0
    PROVE  Counted(z)
<1> DEFINE l == Len(s.buffer)
           k == Len(s.replied)
           d == s.n_decoded
           lz == Len(z.buffer)
           kz == Len(z.replied)
<1>1. s.buffer \in Seq(Tokens) /\ s.replied \in Seq(Tokens) /\ d \in Nat /\ l \in Nat /\ k \in Nat
  BY DEF SlotOK, SlotRec
<1>2. PICK m \in 1..l : /\ z.replied = s.replied \o SubSeq(s.buffer, 1, m)
                        /\ z.buffer = SubSeq(s.buffer, m + 1, l)
                        /\ z.st = "processing" /\ n = 0 => m = l
  BY DEF Handled
<1>3. kz = k + m
  <2>1. SubSeq(s.buffer, 1, m) \in Seq(Tokens) /\ Len(SubSeq(s.buffer, 1, m)) = m
    <3>1. m \in Nat /\ m <= Len(s.buffer)
      BY <1>1
    <3>. QED BY <1>1, <3>1, Prefix
  <2>. QED BY <1>1, <1>2, <2>1, ConcatProperties
<1>4. lz = l - m /\ z.buffer \in Seq(Tokens)
  <2>1. z.buffer \in Seq(Tokens)
    BY DEF Handled, SlotOK, SlotRec
  <2>2. Len(SubSeq(s.buffer, m + 1, l)) = IF m + 1 <= l THEN l - (m + 1) + 1 ELSE 0
    BY <1>1
  <2>. QED BY <1>1, <1>2, <2>1, <2>2
<1>5. z \in SlotOK /\ z.st \in {"processing", "done"} /\ z.n_decoded = d
  BY DEF Handled
<1>6. (z.st = "done" /\ ~z.eos => z.n_sent >= Valid(z.text)) /\ (z.st = "processing" => HasBudget(d) /\ ~z.word)
  BY Zenon DEF Handled
<1>7. conf.n_predict \in Int /\ conf.saturate \in BOOLEAN
  BY ConfFacts
<1>8. (z.st = "processing" /\ NBuffer = 0) => z.buffer = <<>>
  BY <1>1, <1>2, <1>4
<1>9. z.n_decoded >= kz + lz /\ (conf.n_predict >= 1 => kz <= conf.n_predict)
  <2> HIDE DEF d, l, k, lz, kz
  <2>1. d >= k + l /\ (conf.n_predict >= 1 => k + l <= conf.n_predict)
    BY DEF d, k, l
  <2>. QED BY <1>1, <1>3, <1>4, <1>5, <1>7, <2>1
<1>10. conf.saturate => z.n_decoded = kz + lz
  <2> HIDE DEF d, l, k, lz, kz
  <2>1. conf.saturate => d = k + l
    BY DEF d, k, l
  <2>. QED BY <1>1, <1>3, <1>4, <1>5, <2>1
<1>11. z.st = "processing" /\ conf.n_predict >= 1 => kz + lz < conf.n_predict
  <2> HIDE DEF d, l, k, lz, kz
  <2>1. d >= k + l
    BY DEF d, k, l
  <2>. QED BY <1>1, <1>3, <1>4, <1>6, <1>7, <2>1 DEF HasBudget
<1>12. z.st = "processing" =>
         /\ ~z.word /\ (NBuffer = 0 => z.buffer = <<>>)
         /\ conf.saturate => z.n_decoded = kz + lz
         /\ conf.n_predict >= 1 => kz + lz < conf.n_predict
  BY <1>6, <1>8, <1>10, <1>11, Zenon
<1>. QED BY <1>5, <1>6, <1>9, <1>12 DEF Counted

\* A slot that may go on counting keeps what only the other fields say.
LEMMA CalmFacts ==
    ASSUME NEW b \in SlotOK
    PROVE  /\ Calm(b) \in SlotOK /\ Calm(b).buffer = b.buffer /\ Calm(b).replied = b.replied
           /\ Calm(b).n_decoded = b.n_decoded /\ Calm(b).st = b.st /\ Calm(b).word = b.word
           /\ Calm(b).cache = b.cache
<1>1. b \in SlotRec
  BY DEF SlotOK
<1>2. Calm(b) \in SlotRec
  BY <1>1 DEF Calm, SlotRec
<1>3. /\ Calm(b).buffer = b.buffer /\ Calm(b).replied = b.replied
      /\ Calm(b).n_decoded = b.n_decoded /\ Calm(b).st = b.st /\ Calm(b).word = b.word
      /\ Calm(b).cache = b.cache /\ Calm(b).text = b.text /\ Calm(b).n_sent = b.n_sent
      /\ Calm(b).stream = b.stream /\ Calm(b).eos = b.eos
  BY <1>1 DEF Calm, SlotRec
<1>. QED BY <1>2, <1>3, StreamedSame

\* buffer_and_check_string_ban: the tokens taken back are taken off n_decoded under
\* saturate_predict, and off the reply always.
LEMMA BufferCounted ==
    ASSUME conf \in Confs, NEW s, Ready(s), NEW m \in MemRec, NEW tok \in Tokens, NBuffer > 0,
           NEW r, r = BufferAndCheck(s, m, tok)
    PROVE  Counted(r.s) /\ r.m \in MemRec /\ r.rewound \in BOOLEAN
<1> DEFINE b == Buffered(s, tok)
           l == Len(b.buffer)
           k == Len(b.replied)
           d == b.n_decoded
<1>1. s \in SlotOK
  BY DEF Ready
<1>2. /\ b \in SlotOK /\ b.buffer # <<>> /\ l = Len(s.buffer) + 1
      /\ b.st = s.st /\ b.replied = s.replied /\ d = s.n_decoded /\ b.word = s.word
  BY <1>1, BufferedFacts
<1>c. Rewound(b, m, r) \/ Waits(b, m, tok, r) \/ Sends(b, m, r)
  BY <1>1, BufferAndCheckCases
<1> HIDE DEF b
<1>3. b.buffer \in Seq(Tokens) /\ b.replied \in Seq(Tokens) /\ s.buffer \in Seq(Tokens) /\ s.replied \in Seq(Tokens)
      /\ d \in Nat
  BY <1>1, <1>2 DEF SlotOK, SlotRec
<1>4. l \in Nat /\ k \in Nat /\ l >= 1
  BY <1>2, <1>3
<1>n. NBuffer \in Nat /\ NBuffer # 0 /\ conf.n_predict \in Int /\ conf.saturate \in BOOLEAN
  BY NBufferFacts, ConfFacts
<1>5. /\ b.st = "processing" /\ ~b.word /\ d >= k + l /\ (conf.saturate => d = k + l)
      /\ conf.n_predict >= 1 => k + l <= conf.n_predict
  <2>1. Len(s.buffer) \in Nat /\ Len(s.replied) \in Nat /\ k = Len(s.replied)
    BY <1>2, <1>3
  <2>2. /\ s.st = "processing" /\ ~s.word
        /\ s.n_decoded >= Len(s.replied) + Len(s.buffer) + 1
        /\ conf.saturate => s.n_decoded = Len(s.replied) + Len(s.buffer) + 1
        /\ conf.n_predict >= 1 => Len(s.replied) + Len(s.buffer) + 1 <= conf.n_predict
    BY DEF Ready
  <2>3. k + l = Len(s.replied) + Len(s.buffer) + 1
    <3> DEFINE ls == Len(s.buffer)
               ks == Len(s.replied)
    <3>1. k = ks /\ l = ls + 1 /\ ls \in Nat /\ ks \in Nat
      BY <1>2, <2>1
    <3> HIDE DEF k, l, ls, ks
    <3>2. k + l = ks + ls + 1
      BY <3>1
    <3>. QED BY <3>2 DEF ls, ks
  <2>4. b.st = "processing" /\ ~b.word
    BY <1>2, <2>2
  <2>. QED BY <1>2, <2>2, <2>3, <2>4
<1>6. CASE Rewound(b, m, r)
  <2>1. PICK h \in 1..l : \E p \in Nat :
          RewoundTo(b, m, h, p, r.s) /\ r.m = RewindMem(b, m, p) /\ r.rewound = TRUE
    BY <1>6 DEF Rewound
  <2>2. PICK p \in Nat : RewoundTo(b, m, h, p, r.s) /\ r.m = RewindMem(b, m, p) /\ r.rewound = TRUE
    BY <2>1
  <2> DEFINE z == r.s
             n == d - (l - h + 1)
  <2>3. /\ z \in SlotOK /\ z.st = b.st /\ z.word = b.word /\ z.replied = b.replied
        /\ z.buffer = SubSeq(b.buffer, 1, h - 1)
        /\ ~conf.saturate => z.n_decoded = d
        /\ conf.saturate => z.n_decoded = IF 0 >= n THEN 0 ELSE n
    BY <2>2 DEF RewoundTo
  <2>4. Len(z.buffer) = h - 1
    <3>1. h - 1 \in Nat /\ h - 1 <= Len(b.buffer)
      BY <1>4
    <3>. QED BY <1>3, <2>3, <3>1, Prefix
  <2> DEFINE lz == Len(z.buffer)
             dz == z.n_decoded
  <2> HIDE DEF z
  <2>5. Len(z.replied) = k
    BY <2>3
  <2> HIDE DEF l, k, d, lz
  <2>6. conf.saturate => dz = k + lz
    BY <1>3, <1>4, <1>5, <2>3, <2>4 DEF lz
  <2>7. dz >= k + lz
    <3>1. CASE conf.saturate
      BY <1>4, <2>4, <2>6, <3>1 DEF lz
    <3>2. CASE ~conf.saturate
      BY <1>3, <1>4, <1>5, <2>3, <2>4, <3>2 DEF lz
    <3>. QED BY <3>1, <3>2
  <2>8. conf.n_predict >= 1 => k + lz < conf.n_predict /\ k <= conf.n_predict
    BY <1>n, <1>4, <1>5, <2>4 DEF lz
  <2>9. Counted(z)
    <3>1. z.st = "processing" /\ ~z.word /\ z \in SlotOK
      BY <1>5, <2>3
    <3>. QED BY <1>n, <2>5, <2>6, <2>7, <2>8, <3>1 DEF Counted, lz
  <2>10. r.m \in MemRec
    BY <2>2, MemFacts
  <2>. QED BY <2>2, <2>9, <2>10 DEF z
<1>7. CASE Waits(b, m, tok, r)
  <2> DEFINE z == r.s
  <2>1. z = [b EXCEPT !.sampled = tok] /\ r.m = m /\ r.rewound = FALSE /\ HasBudget(d)
    BY <1>7 DEF Waits
  <2>2. b \in SlotRec
    BY <1>2 DEF SlotOK
  <2> HIDE DEF z
  <2>3. z \in SlotRec
    BY <2>1, <2>2 DEF SlotRec
  <2>4. /\ z.st = b.st /\ z.word = b.word /\ z.replied = b.replied /\ z.buffer = b.buffer /\ z.n_decoded = d
        /\ z.text = b.text /\ z.n_sent = b.n_sent /\ z.stream = b.stream /\ z.eos = b.eos
    BY <2>1, <2>2 DEF SlotRec
  <2>5. z \in SlotOK
    BY <1>2, <2>3, <2>4, StreamedSame
  <2>6. conf.n_predict >= 1 => k + l < conf.n_predict /\ k <= conf.n_predict
    <3> HIDE DEF k, l, d
    <3>. QED BY <1>n, <1>3, <1>4, <1>5, <2>1 DEF HasBudget
  <2>7. z.st = "processing" /\ ~z.word /\ Len(z.replied) = k /\ Len(z.buffer) = l
    BY <1>5, <2>4
  <2>8. Counted(z)
    <3> HIDE DEF k, l, d
    <3>. QED BY <1>n, <1>5, <2>4, <2>5, <2>6, <2>7 DEF Counted
  <2>. QED BY <2>1, <2>8 DEF z
<1>8. CASE Sends(b, m, r)
  <2>1. PICK n \in {0, 1} : r.s = SendTokenResults(Calm(b), n) /\ r.m = m /\ r.rewound = FALSE
    BY <1>8 DEF Sends
  <2> DEFINE c == Calm(b)
  <2>2. c \in SlotOK /\ c.buffer = b.buffer /\ c.replied = b.replied /\ c.n_decoded = d /\ c.st = b.st /\ c.word = b.word
    BY <1>2, CalmFacts
  <2> HIDE DEF c
  <2>3. ~c.word /\ c.st = "processing" /\ c.buffer # <<>> /\ n \in Nat
    BY <1>2, <1>5, <2>2
  <2>4. Handled(c, n, r.s)
    BY <2>1, <2>2, <2>3, SendTokenResultsFacts DEF c
  <2>5. /\ c.n_decoded >= Len(c.replied) + Len(c.buffer)
        /\ conf.saturate => c.n_decoded = Len(c.replied) + Len(c.buffer)
        /\ conf.n_predict >= 1 => Len(c.replied) + Len(c.buffer) <= conf.n_predict
    BY <1>5, <2>2
  <2>6. Counted(r.s)
    BY <1>n, <2>2, <2>3, <2>4, <2>5, HandledCounted
  <2>. QED BY <2>1, <2>6
<1>. QED BY <1>c, <1>6, <1>7, <1>8

\* process_token for a draft's token, without a buffer.
LEMMA FinishCounted ==
    ASSUME conf \in Confs, NEW s, Ready(s), NEW tok \in Tokens, NBuffer = 0,
           NEW z, z = Finish(ProcessToken(s, tok, TRUE))
    PROVE  /\ Counted(z) /\ z.cache = s.cache /\ z.sampled = tok
           /\ z.replied = Append(s.replied, tok) /\ z.buffer = <<>>
<1> DEFINE p == ProcessToken(s, tok, TRUE)
<1>1. /\ s \in SlotOK /\ s.st = "processing" /\ ~s.word /\ s.buffer = <<>>
      /\ s.n_decoded >= Len(s.replied) + Len(s.buffer) + 1
      /\ conf.saturate => s.n_decoded = Len(s.replied) + Len(s.buffer) + 1
      /\ conf.n_predict >= 1 => Len(s.replied) + Len(s.buffer) + 1 <= conf.n_predict
  BY DEF Ready
<1>2. /\ p \in SlotOK
      /\ p.st = s.st /\ p.cache = s.cache /\ p.buffer = s.buffer /\ p.n_decoded = s.n_decoded
      /\ p.sampled = tok /\ p.replied = Append(s.replied, tok)
      /\ p.next => HasBudget(s.n_decoded) /\ p.word = s.word
      /\ ~p.next /\ ~p.eos => p.n_sent >= Valid(p.text)
  <2> DEFINE last == TRUE
             q == ProcessToken(s, tok, last)
  <2>1. last \in BOOLEAN
    OBVIOUS
  <2>2. last /\ q = p
    OBVIOUS
  <2> HIDE DEF last, p
  <2>3. /\ q \in SlotOK
        /\ q.st = s.st /\ q.cache = s.cache /\ q.buffer = s.buffer /\ q.n_decoded = s.n_decoded
        /\ q.sampled = tok /\ q.replied = Append(s.replied, tok)
        /\ q.next => HasBudget(s.n_decoded) /\ q.word = s.word
        /\ ~q.next /\ ~q.eos /\ (last \/ (q.word /\ ~s.word)) => q.n_sent >= Valid(q.text)
    BY <1>1, <2>1, ProcessTokenFacts
  <2> HIDE DEF q
  <2>. QED BY <2>2, <2>3, Zenon
<1> HIDE DEF p
<1>3. p \in SlotRec
  BY <1>2 DEF SlotOK
<1> DEFINE st == IF p.next THEN "processing" ELSE "done"
<1>4. z = [p EXCEPT !.st = st]
  BY <1>1, <1>2, <1>3 DEF Finish, p, SlotRec
<1>5. z \in SlotRec
  BY <1>3, <1>4 DEF SlotRec
<1>6. /\ z.st = st /\ z.cache = p.cache /\ z.buffer = p.buffer /\ z.n_decoded = p.n_decoded /\ z.sampled = p.sampled
      /\ z.replied = p.replied /\ z.word = p.word /\ z.eos = p.eos /\ z.n_sent = p.n_sent /\ z.text = p.text
      /\ z.stream = p.stream
  BY <1>3, <1>4 DEF SlotRec
<1>7. z \in SlotOK
  BY <1>2, <1>5, <1>6, StreamedSame
<1>8. z.st \in {"processing", "done"} /\ (z.st = "processing" <=> p.next) /\ (z.st = "done" <=> ~p.next)
  BY <1>3, <1>6 DEF SlotRec
<1> HIDE DEF st
<1>9. z.st = "processing" => HasBudget(s.n_decoded) /\ ~z.word
  BY <1>1, <1>2, <1>6, <1>8, Zenon
<1>10. z.st = "done" /\ ~z.eos => z.n_sent >= Valid(z.text)
  BY <1>2, <1>6, <1>8, Zenon
<1> DEFINE k == Len(s.replied)
           d == s.n_decoded
<1>11. Len(z.replied) = k + 1 /\ Len(z.buffer) = 0 /\ k \in Nat /\ d \in Nat
  <2>1. s.replied \in Seq(Tokens) /\ s.n_decoded \in Nat
    BY <1>1 DEF SlotOK, SlotRec
  <2>2. Len(Append(s.replied, tok)) = k + 1 /\ k \in Nat /\ d \in Nat
    BY <2>1
  <2>3. z.replied = Append(s.replied, tok) /\ z.buffer = <<>> /\ Len(<<>>) = 0
    BY <1>1, <1>2, <1>6
  <2>. QED BY <2>2, <2>3
<1>12. d >= k + 1 /\ (conf.saturate => d = k + 1) /\ (conf.n_predict >= 1 => k + 1 <= conf.n_predict)
  <2>1. Len(s.buffer) = 0 /\ k \in Nat
    BY <1>1, <1>11
  <2>. QED BY <1>1, <2>1
<1>13. conf.n_predict \in Int /\ conf.saturate \in BOOLEAN
  BY ConfFacts
<1>14. z.n_decoded = d /\ z.buffer = <<>>
  BY <1>1, <1>2, <1>6
<1> HIDE DEF k, d
<1>s. Len(z.replied) + Len(z.buffer) = k + 1
  <2> DEFINE lz == Len(z.buffer)
             kz == Len(z.replied)
  <2>1. lz = 0 /\ kz = k + 1 /\ k \in Nat
    BY <1>11
  <2> HIDE DEF lz, kz
  <2>2. kz + lz = k + 1
    BY <2>1
  <2>. QED BY <2>2 DEF lz, kz
<1>15. z.n_decoded >= Len(z.replied) + Len(z.buffer) /\ (conf.saturate => z.n_decoded = Len(z.replied) + Len(z.buffer))
  BY <1>12, <1>14, <1>s
<1>16. conf.n_predict >= 1 => Len(z.replied) <= conf.n_predict
  BY <1>11, <1>12
<1>17. z.st = "processing" /\ conf.n_predict >= 1 => Len(z.replied) + Len(z.buffer) < conf.n_predict
  <2>1. z.st = "processing" => HasBudget(d)
    BY <1>9 DEF d
  <2>2. HasBudget(d) /\ conf.n_predict >= 1 => k + 1 < conf.n_predict
    BY <1>11, <1>12, <1>13 DEF HasBudget
  <2>. QED BY <1>s, <2>1, <2>2
<1>18. Counted(z)
  BY <1>7, <1>8, <1>9, <1>10, <1>14, <1>15, <1>16, <1>17, Zenon DEF Counted
<1>. QED BY <1>2, <1>6, <1>14, <1>18

\* send_token_results for a single token, without a buffer.
LEMMA SingleCounted ==
    ASSUME conf \in Confs, NEW s, Ready(s), NEW tok \in Tokens, NBuffer = 0,
           NEW b, b = [s EXCEPT !.buffer = <<tok>>], NEW z, z = SendTokenResults(b, 0)
    PROVE  Counted(z) /\ Handled(b, 0, z) /\ b \in SlotOK /\ b.buffer = <<tok>> /\ b.cache = s.cache
           /\ b.replied = s.replied
<1>1. /\ s \in SlotOK /\ s.st = "processing" /\ ~s.word /\ s.buffer = <<>>
      /\ s.n_decoded >= Len(s.replied) + Len(s.buffer) + 1
      /\ conf.saturate => s.n_decoded = Len(s.replied) + Len(s.buffer) + 1
      /\ conf.n_predict >= 1 => Len(s.replied) + Len(s.buffer) + 1 <= conf.n_predict
  BY DEF Ready
<1>2. s \in SlotRec /\ s.replied \in Seq(Tokens)
  BY <1>1 DEF SlotOK, SlotRec
<1>3. <<tok>> \in Seq(Tokens) /\ <<tok>> # <<>> /\ Len(<<tok>>) = 1
  OBVIOUS
<1>4. b \in SlotRec
  BY <1>2, <1>3 DEF SlotRec
<1>5. /\ b.buffer = <<tok>> /\ b.st = s.st /\ b.word = s.word /\ b.replied = s.replied /\ b.n_decoded = s.n_decoded
      /\ b.text = s.text /\ b.n_sent = s.n_sent /\ b.stream = s.stream /\ b.eos = s.eos /\ b.cache = s.cache
  BY <1>2 DEF SlotRec
<1>6. b \in SlotOK
  BY <1>1, <1>4, <1>5, StreamedSame
<1>7. b.st = "processing" /\ ~b.word /\ b.buffer # <<>> /\ 0 \in Nat
  BY <1>1, <1>3, <1>5
<1>8. Handled(b, 0, z)
  BY <1>6, <1>7, SendTokenResultsFacts
<1>9. /\ b.n_decoded >= Len(b.replied) + Len(b.buffer)
      /\ conf.saturate => b.n_decoded = Len(b.replied) + Len(b.buffer)
      /\ conf.n_predict >= 1 => Len(b.replied) + Len(b.buffer) <= conf.n_predict
  <2>1. Len(s.replied) + Len(s.buffer) + 1 = Len(b.replied) + Len(b.buffer)
    BY <1>1, <1>2, <1>3, <1>5
  <2>. QED BY <1>1, <1>5, <2>1
<1>10. Counted(z)
  BY <1>6, <1>7, <1>8, <1>9, HandledCounted
<1>. QED BY <1>5, <1>6, <1>8, <1>10

-----------------------------------------------------------------------------
(* The reasoning budget                                                     *)

\* A matcher stands before a token of its tag; the sampler forces only when there is
\* something to force.
Matching(pat, pos) == pos \in Nat /\ (pat = <<>> => pos = 0) /\ (pat # <<>> => pos < Len(pat))

BudgetRec == [st : {"IDLE", "COUNTING", "WAITING_UTF8", "FORCING", "DONE"}, start : Nat, end : Nat,
              remaining : Int, force_pos : Nat]

BudgetOK(c) ==
  {b \in BudgetRec : /\ Matching(c.start, b.start) /\ Matching(c.end, b.end)
                     /\ b.force_pos <= Len(c.forced)
                     /\ b.st = "FORCING" => b.force_pos < Len(c.forced)
                     /\ b.st \in {"COUNTING", "WAITING_UTF8", "FORCING"} => c.forced # <<>>}

\* token_matcher::advance stays inside the tag and completes none that is empty.
LEMMA AdvanceFacts ==
    ASSUME NEW pat \in Seq(Tokens), NEW pos, Matching(pat, pos), NEW tok
    PROVE  Matching(pat, Advance(pat, pos, tok).pos) /\ (Advance(pat, pos, tok).hit => pat # <<>>)
<1>1. Len(pat) \in Nat /\ (pat # <<>> => Len(pat) > 0)
  OBVIOUS
<1>2. CASE pat = <<>>
  BY <1>2 DEF Advance, Matching
<1>3. CASE pat # <<>>
  BY <1>1, <1>3 DEF Advance, Matching
<1>. QED BY <1>2, <1>3

\* common_reasoning_budget_accept keeps its state machine in order.
LEMMA BudgetAcceptOK ==
    ASSUME NEW c \in Confs, NEW b \in BudgetOK(c), NEW tok
    PROVE  BudgetAccept(c, b, tok) \in BudgetOK(c)
<1> DEFINE y == BudgetAccept(c, b, tok)
           ms == Advance(c.start, b.start, tok)
           me == Advance(c.end, b.end, tok)
<1>1. /\ c.start \in Seq(Tokens) /\ c.end \in Seq(Tokens) /\ c.forced \in Seq(Tokens) /\ c.budget \in Int
      /\ c.start # <<>> => c.forced # <<>>
  BY ConfFacts
<1>2. /\ b \in BudgetRec /\ Matching(c.start, b.start) /\ Matching(c.end, b.end)
      /\ b.force_pos <= Len(c.forced)
      /\ b.st = "FORCING" => b.force_pos < Len(c.forced)
      /\ b.st \in {"COUNTING", "WAITING_UTF8", "FORCING"} => c.forced # <<>>
  BY DEF BudgetOK
<1>3. Matching(c.start, ms.pos) /\ (ms.hit => c.forced # <<>>)
  BY <1>1, <1>2, AdvanceFacts
<1>4. Matching(c.end, me.pos)
  BY <1>1, <1>2, AdvanceFacts
<1>5. ms.pos \in Nat /\ me.pos \in Nat
  BY <1>3, <1>4 DEF Matching
<1>l. Len(c.forced) \in Nat /\ (c.forced # <<>> => Len(c.forced) > 0)
  BY <1>1
<1>z. Matching(c.end, 0)
  BY <1>1, <1>2 DEF Matching
<1> HIDE DEF ms, me
<1>6. CASE b.st \in {"IDLE", "DONE"}
  <2>1. y = Watch(c, b, tok)
    BY <1>6 DEF BudgetAccept
  <2> DEFINE e == IF b.st = "DONE" THEN 0 ELSE b.end
             open == [b EXCEPT !.st = "COUNTING", !.start = ms.pos, !.remaining = c.budget, !.end = e]
  <2>2. y = IF ~ms.hit THEN [b EXCEPT !.start = ms.pos] ELSE IF c.budget <= 0 THEN Forcing(open) ELSE open
    BY <1>2, <2>1 DEF Watch, BudgetRec, ms
  <2>3. Matching(c.end, e) /\ e \in Nat
    BY <1>2, <1>z DEF Matching
  <2> HIDE DEF e
  <2>4. CASE ~ms.hit
    <3>1. y = [b EXCEPT !.start = ms.pos]
      BY <2>2, <2>4
    <3> HIDE DEF y
    <3>2. y \in BudgetRec /\ y.start = ms.pos /\ y.end = b.end /\ y.st = b.st /\ y.force_pos = b.force_pos
      BY <1>2, <1>5, <3>1 DEF BudgetRec
    <3>. QED BY <1>2, <1>3, <3>2 DEF BudgetOK, y
  <2>5. CASE ms.hit /\ c.budget <= 0
    <3>0. open \in BudgetRec /\ open.start = ms.pos /\ open.end = e
      BY <1>1, <1>2, <1>5, <2>3 DEF BudgetRec
    <3> HIDE DEF open
    <3>1. y = [open EXCEPT !.st = "FORCING", !.force_pos = 0]
      BY <2>2, <2>5 DEF Forcing
    <3> HIDE DEF y
    <3>2. y \in BudgetRec /\ y.start = ms.pos /\ y.end = e /\ y.st = "FORCING" /\ y.force_pos = 0
      BY <3>0, <3>1 DEF BudgetRec
    <3>. QED BY <1>3, <1>l, <2>3, <2>5, <3>2 DEF BudgetOK, y
  <2>6. CASE ms.hit /\ ~(c.budget <= 0)
    <3>1. y = open
      BY <2>2, <2>6
    <3>2. open \in BudgetRec /\ open.start = ms.pos /\ open.end = e /\ open.st = "COUNTING" /\ open.force_pos = b.force_pos
      BY <1>1, <1>2, <1>5, <2>3 DEF BudgetRec
    <3> HIDE DEF open, y
    <3>. QED BY <1>2, <1>3, <2>3, <2>6, <3>1, <3>2 DEF BudgetOK, y
  <2>. QED BY <2>4, <2>5, <2>6
<1>7. CASE b.st \in {"COUNTING", "WAITING_UTF8"}
  <2>1. y = Count(c, b, tok)
    BY <1>7 DEF BudgetAccept
  <2> DEFINE left == IF b.st = "COUNTING" THEN b.remaining - 1 ELSE b.remaining
             on == [b EXCEPT !.end = me.pos, !.remaining = left]
             off == [on EXCEPT !.end = 0]
  <2>2. y = IF me.hit THEN [b EXCEPT !.st = "DONE", !.end = me.pos]
            ELSE IF b.st = "COUNTING" /\ left > 0 THEN on
            ELSE IF PieceComplete(Piece[tok]) THEN Forcing(off)
            ELSE IF b.st = "COUNTING" THEN [on EXCEPT !.st = "WAITING_UTF8", !.end = 0] ELSE on
    BY <2>1 DEF Count, me
  <2>3. left \in Int
    BY <1>2 DEF BudgetRec
  <2> HIDE DEF left
  <2>4. /\ on \in BudgetRec /\ on.start = b.start /\ on.end = me.pos /\ on.st = b.st /\ on.force_pos = b.force_pos
    BY <1>2, <1>5, <2>3 DEF BudgetRec
  <2>5. on \in BudgetOK(c)
    <3> HIDE DEF on
    <3>. QED BY <1>2, <1>4, <2>4 DEF BudgetOK
  <2>6. [b EXCEPT !.st = "DONE", !.end = me.pos] \in BudgetOK(c)
    <3> DEFINE u == [b EXCEPT !.st = "DONE", !.end = me.pos]
    <3>1. u \in BudgetRec /\ u.start = b.start /\ u.end = me.pos /\ u.st = "DONE" /\ u.force_pos = b.force_pos
      BY <1>2, <1>5 DEF BudgetRec
    <3> HIDE DEF u
    <3>2. u \in BudgetOK(c)
      BY <1>2, <1>4, <3>1 DEF BudgetOK
    <3>. QED BY <3>2 DEF u
  <2> HIDE DEF on
  <2>7. Forcing(off) \in BudgetOK(c)
    <3>1. off \in BudgetRec /\ off.start = b.start /\ off.end = 0
      BY <2>4 DEF BudgetRec
    <3> HIDE DEF off
    <3> DEFINE u == Forcing(off)
    <3>2. u \in BudgetRec /\ u.start = b.start /\ u.end = 0 /\ u.st = "FORCING" /\ u.force_pos = 0
      BY <3>1 DEF BudgetRec, Forcing
    <3> HIDE DEF u
    <3>3. u \in BudgetOK(c)
      BY <1>2, <1>7, <1>l, <1>z, <3>2 DEF BudgetOK
    <3>. QED BY <3>3 DEF u
  <2>8. [on EXCEPT !.st = "WAITING_UTF8", !.end = 0] \in BudgetOK(c)
    <3> DEFINE u == [on EXCEPT !.st = "WAITING_UTF8", !.end = 0]
    <3>1. u \in BudgetRec /\ u.start = b.start /\ u.end = 0 /\ u.st = "WAITING_UTF8" /\ u.force_pos = b.force_pos
      BY <2>4 DEF BudgetRec
    <3> HIDE DEF u
    <3>2. u \in BudgetOK(c)
      BY <1>2, <1>7, <1>z, <3>1 DEF BudgetOK
    <3>. QED BY <3>2 DEF u
  <2> HIDE DEF off
  <2>. QED BY <2>2, <2>5, <2>6, <2>7, <2>8, Zenon
<1>8. CASE b.st = "FORCING"
  <2>1. y = ForceNext(c, b)
    BY <1>8 DEF BudgetAccept
  <2> DEFINE n == [b EXCEPT !.force_pos = @ + 1]
  <2>2. y = IF n.force_pos >= Len(c.forced) THEN [n EXCEPT !.st = "DONE"] ELSE n
    BY <2>1 DEF ForceNext
  <2>3. b.force_pos \in Nat
    BY <1>2 DEF BudgetRec
  <2>4. n \in BudgetRec /\ n.start = b.start /\ n.end = b.end /\ n.st = "FORCING" /\ n.force_pos = b.force_pos + 1
    BY <1>2, <1>8, <2>3 DEF BudgetRec
  <2> HIDE DEF n
  <2>5. CASE n.force_pos >= Len(c.forced)
    <3>1. y = [n EXCEPT !.st = "DONE"]
      BY <2>2, <2>5
    <3> HIDE DEF y
    <3>2. y \in BudgetRec /\ y.start = b.start /\ y.end = b.end /\ y.st = "DONE" /\ y.force_pos = b.force_pos + 1
      BY <2>4, <3>1 DEF BudgetRec
    <3>3. b.force_pos + 1 <= Len(c.forced)
      BY <1>2, <1>8, <1>l, <2>3
    <3>. QED BY <1>2, <3>2, <3>3 DEF BudgetOK, y
  <2>6. CASE ~(n.force_pos >= Len(c.forced))
    <3>1. y = n
      BY <2>2, <2>6
    <3>2. b.force_pos + 1 <= Len(c.forced) /\ b.force_pos + 1 < Len(c.forced)
      BY <1>l, <2>3, <2>4, <2>6
    <3> HIDE DEF y
    <3>. QED BY <1>2, <1>8, <2>4, <3>1, <3>2 DEF BudgetOK, y
  <2>. QED BY <2>5, <2>6
<1>. QED BY <1>2, <1>6, <1>7, <1>8 DEF BudgetRec

\* The budget after a sequence of tokens.
LEMMA BudgetAcceptAllIn ==
    ASSUME NEW c, NEW b, NEW toks \in Seq(Tokens), NEW X,
           b \in X[0],
           \A k \in 1..Len(toks) : \A x \in X[k - 1] : BudgetAccept(c, x, toks[k]) \in X[k]
    PROVE  BudgetAcceptAll(c, b, toks) \in X[Len(toks)]
<1> DEFINE n == Len(toks)
           a == b
           U == UNION {X[k] : k \in 0..n}
           G == [z \in U \X (1..n) |-> BudgetAccept(c, z[1], toks[z[2]])]
           Is(f) == f = [k \in 0..n |-> IF k = 0 THEN a ELSE BudgetAccept(c, f[k - 1], toks[k])]
           Seen == CHOOSE f : Is(f)
<1>6. BudgetAcceptAll(c, b, toks) = Seen[n]
  BY DEF BudgetAcceptAll
<1>0. n \in Nat /\ a \in X[0] /\ \A k \in 0..n : X[k] \subseteq U
  OBVIOUS
<1>7. ASSUME NEW k \in 1..n, NEW x \in X[k - 1] PROVE BudgetAccept(c, x, toks[k]) \in X[k]
  OBVIOUS
<1> HIDE DEF n, U, a
<1>1. ASSUME NEW k \in 1..n, NEW x \in X[k - 1]
      PROVE  G[<<x, k>>] = BudgetAccept(c, x, toks[k])
  <2>1. k - 1 \in 0..n
    BY <1>0
  <2>2. <<x, k>> \in U \X (1..n)
    BY <1>0, <2>1
  <2>. QED BY <2>2
<1>2. \E f : Is(f)
  <2>1. PICK f : /\ f = [k \in 0..n |-> f[k]] /\ Solution(f, a, G, n)
                 /\ \A k \in 0..n : f[k] \in X[k]
    <3>1. \A k \in 1..n : \A x \in X[k - 1] : G[<<x, k>>] \in X[k]
      BY <1>1, <1>7
    <3> HIDE DEF G, Is, Seen
    <3>. QED BY <1>0, <3>1, FamilyRecursion
  <2>2. ASSUME NEW k \in 1..n PROVE f[k] = BudgetAccept(c, f[k - 1], toks[k])
    <3>1. k - 1 \in 0..n
      BY <1>0
    <3>2. G[<<f[k - 1], k>>] = BudgetAccept(c, f[k - 1], toks[k])
      BY <1>1, <2>1, <3>1
    <3>. QED BY <2>1, <3>2 DEF Solution
  <2>3. ASSUME NEW k \in 0..n PROVE f[k] = IF k = 0 THEN a ELSE BudgetAccept(c, f[k - 1], toks[k])
    <3>1. k # 0 => k \in 1..n
      BY <1>0
    <3>. QED BY <2>1, <2>2, <3>1 DEF Solution
  <2>4. Is(f)
    BY <2>1, <2>3
  <2>. QED BY <2>4
<1>3. Is(Seen)
  <2> HIDE DEF Is
  <2>. QED BY <1>2
<1> HIDE DEF Seen, G
<1>4. Seen[0] = a /\ \A k \in 1..n : Seen[k] = BudgetAccept(c, Seen[k - 1], toks[k])
  <2>1. ASSUME NEW k \in 0..n PROVE Seen[k] = IF k = 0 THEN a ELSE BudgetAccept(c, Seen[k - 1], toks[k])
    BY <1>3
  <2>2. 0 \in 0..n /\ \A k \in 1..n : k \in 0..n /\ k # 0
    BY <1>0
  <2>. QED BY <2>1, <2>2
<1> HIDE DEF Is
<1>5. Seen[n] \in X[n]
  <2> DEFINE S == {k \in 0..n : Seen[k] \in X[k]}
  <2>1. 0 \in S
    BY <1>0, <1>4
  <2>2. ASSUME NEW k \in 1..n, k - 1 \in S PROVE k \in S
    <3>1. k \in 0..n /\ Seen[k - 1] \in X[k - 1]
      BY <1>0, <2>2
    <3>2. Seen[k] \in X[k]
      BY <1>4, <1>7, <3>1
    <3>. QED BY <3>1, <3>2
  <2> HIDE DEF S
  <2>3. 0..n \subseteq S
    BY <1>0, <2>1, <2>2, UpTo
  <2>4. n \in 0..n
    BY <1>0
  <2>. QED BY <2>3, <2>4 DEF S
<1>. QED BY <1>5, <1>6 DEF n

\* The loop of speculative_decoding_accept.
LEMMA ReplyWithAllIn ==
    ASSUME NEW s, NEW m, NEW ids \in Seq(Tokens), NEW X,
           [s |-> s, m |-> m, rewound |-> FALSE] \in X[0],
           \A k \in 1..Len(ids) : \A x \in X[k - 1] : ReplyWith(x, ids, k) \in X[k]
    PROVE  ReplyWithAll(s, m, ids) \in X[Len(ids)]
<1> DEFINE n == Len(ids)
           a == [s |-> s, m |-> m, rewound |-> FALSE]
           U == UNION {X[k] : k \in 0..n}
           G == [z \in U \X (1..n) |-> ReplyWith(z[1], ids, z[2])]
           Is(f) == f = [k \in 0..n |-> IF k = 0 THEN a ELSE ReplyWith(f[k - 1], ids, k)]
           Replied == CHOOSE f : Is(f)
<1>6. ReplyWithAll(s, m, ids) = Replied[n]
  BY DEF ReplyWithAll
<1>0. n \in Nat /\ a \in X[0] /\ \A k \in 0..n : X[k] \subseteq U
  OBVIOUS
<1>7. ASSUME NEW k \in 1..n, NEW x \in X[k - 1] PROVE ReplyWith(x, ids, k) \in X[k]
  OBVIOUS
<1> HIDE DEF n, U, a
<1>1. ASSUME NEW k \in 1..n, NEW x \in X[k - 1]
      PROVE  G[<<x, k>>] = ReplyWith(x, ids, k)
  <2>1. k - 1 \in 0..n
    BY <1>0
  <2>2. <<x, k>> \in U \X (1..n)
    BY <1>0, <2>1
  <2>. QED BY <2>2
<1>2. \E f : Is(f)
  <2>1. PICK f : /\ f = [k \in 0..n |-> f[k]] /\ Solution(f, a, G, n)
                 /\ \A k \in 0..n : f[k] \in X[k]
    <3>1. \A k \in 1..n : \A x \in X[k - 1] : G[<<x, k>>] \in X[k]
      BY <1>1, <1>7
    <3> HIDE DEF G, Is, Replied
    <3>. QED BY <1>0, <3>1, FamilyRecursion
  <2>2. ASSUME NEW k \in 1..n PROVE f[k] = ReplyWith(f[k - 1], ids, k)
    <3>1. k - 1 \in 0..n
      BY <1>0
    <3>2. G[<<f[k - 1], k>>] = ReplyWith(f[k - 1], ids, k)
      BY <1>1, <2>1, <3>1
    <3>. QED BY <2>1, <3>2 DEF Solution
  <2>3. ASSUME NEW k \in 0..n PROVE f[k] = IF k = 0 THEN a ELSE ReplyWith(f[k - 1], ids, k)
    <3>1. k # 0 => k \in 1..n
      BY <1>0
    <3>. QED BY <2>1, <2>2, <3>1 DEF Solution
  <2>4. Is(f)
    BY <2>1, <2>3
  <2>. QED BY <2>4
<1>3. Is(Replied)
  <2> HIDE DEF Is
  <2>. QED BY <1>2
<1> HIDE DEF Replied, G
<1>4. Replied[0] = a /\ \A k \in 1..n : Replied[k] = ReplyWith(Replied[k - 1], ids, k)
  <2>1. ASSUME NEW k \in 0..n PROVE Replied[k] = IF k = 0 THEN a ELSE ReplyWith(Replied[k - 1], ids, k)
    BY <1>3
  <2>2. 0 \in 0..n /\ \A k \in 1..n : k \in 0..n /\ k # 0
    BY <1>0
  <2>. QED BY <2>1, <2>2
<1> HIDE DEF Is
<1>5. Replied[n] \in X[n]
  <2> DEFINE S == {k \in 0..n : Replied[k] \in X[k]}
  <2>1. 0 \in S
    BY <1>0, <1>4
  <2>2. ASSUME NEW k \in 1..n, k - 1 \in S PROVE k \in S
    <3>1. k \in 0..n /\ Replied[k - 1] \in X[k - 1]
      BY <1>0, <2>2
    <3>2. Replied[k] \in X[k]
      BY <1>4, <1>7, <3>1
    <3>. QED BY <3>1, <3>2
  <2> HIDE DEF S
  <2>3. 0..n \subseteq S
    BY <1>0, <2>1, <2>2, UpTo
  <2>4. n \in 0..n
    BY <1>0
  <2>. QED BY <2>3, <2>4 DEF S
<1>. QED BY <1>5, <1>6 DEF n

-----------------------------------------------------------------------------
(* A pass                                                                   *)

\* The tokens the sampler may return are tokens.
LEMMA CandidateTokens ==
    ASSUME conf \in Confs, NEW b \in BudgetOK(conf), NEW bans, NEW p
    PROVE  Candidates(b, bans, p) \subseteq Tokens
<1>1. conf.toks \subseteq Tokens /\ conf.forced \in Seq(Tokens)
  BY ConfFacts
<1>2. b.force_pos \in Nat
  BY DEF BudgetOK, BudgetRec
<1>3. BudgetApply(conf, b, conf.toks) \subseteq Tokens
  <2>1. b.force_pos < Len(conf.forced) => conf.forced[b.force_pos + 1] \in Tokens
    <3>1. b.force_pos < Len(conf.forced) => b.force_pos + 1 \in 1..Len(conf.forced)
      BY <1>1, <1>2
    <3>. QED BY <1>1, <3>1
  <2>. QED BY <1>1, <2>1 DEF BudgetApply
<1>. QED BY <1>3 DEF Candidates

\* add_sampled_tokens: the slot with the token to decode in the cache.
LEMMA FedFacts ==
    ASSUME slot \in SlotOK
    PROVE  /\ Feed \in Seq(Tokens) /\ Fed \in SlotOK /\ Fed.cache = slot.cache \o Feed /\ Fed.cache \in Seq(Tokens)
           /\ Fed.st = slot.st /\ Fed.sampled = slot.sampled /\ Fed.buffer = slot.buffer /\ Fed.bans = slot.bans
           /\ Fed.rewinds = slot.rewinds /\ Fed.n_decoded = slot.n_decoded /\ Fed.replied = slot.replied
           /\ Fed.text = slot.text /\ Fed.n_sent = slot.n_sent /\ Fed.stream = slot.stream
           /\ Fed.word = slot.word /\ Fed.eos = slot.eos
<1>1. slot \in SlotRec /\ slot.cache \in Seq(Tokens) /\ slot.sampled \in Tokens \cup {NoTok}
  BY DEF SlotOK, SlotRec
<1>2. Feed \in Seq(Tokens)
  BY <1>1 DEF Feed
<1> DEFINE c == slot.cache \o Feed
<1>3. c \in Seq(Tokens)
  BY <1>1, <1>2, ConcatProperties
<1>4. Fed = [slot EXCEPT !.cache = c]
  BY DEF Fed
<1>5. c = slot.cache \o Feed
  OBVIOUS
<1> HIDE DEF c
<1>6. Fed \in SlotRec
  BY <1>1, <1>3, <1>4 DEF SlotRec
<1>7. /\ Fed.cache = c
      /\ Fed.st = slot.st /\ Fed.sampled = slot.sampled /\ Fed.buffer = slot.buffer /\ Fed.bans = slot.bans
      /\ Fed.rewinds = slot.rewinds /\ Fed.n_decoded = slot.n_decoded /\ Fed.replied = slot.replied
      /\ Fed.text = slot.text /\ Fed.n_sent = slot.n_sent /\ Fed.stream = slot.stream
      /\ Fed.word = slot.word /\ Fed.eos = slot.eos
  BY <1>1, <1>4 DEF SlotRec
<1>8. Fed \in SlotOK
  BY <1>6, <1>7, StreamedSame
<1>. QED BY <1>2, <1>3, <1>5, <1>7, <1>8

\* Counted speaks of the reply, its text and the counter only.
LEMMA CountedSame ==
    ASSUME NEW s, Counted(s), NEW t \in SlotOK, t.st = s.st, t.buffer = s.buffer, t.replied = s.replied,
           t.n_decoded = s.n_decoded, t.word = s.word, t.eos = s.eos, t.n_sent = s.n_sent, t.text = s.text
    PROVE  Counted(t)
BY DEF Counted

\* A token more is counted.
LEMMA CountUp ==
    ASSUME conf \in Confs, NEW s, Counted(s), s.st = "processing", NEW c \in Seq(Tokens),
           NEW t, t = [s EXCEPT !.n_decoded = @ + 1, !.cache = c]
    PROVE  /\ Ready(t) /\ t.cache = c /\ t.buffer = s.buffer /\ t.replied = s.replied /\ t.sampled = s.sampled
           /\ t.bans = s.bans /\ t.text = s.text
<1>1. s \in SlotOK /\ s \in SlotRec /\ s.n_decoded \in Nat
  BY DEF Counted, SlotOK, SlotRec
<1> DEFINE d == s.n_decoded + 1
<1>2. t = [s EXCEPT !.n_decoded = d, !.cache = c] /\ d \in Nat
  BY <1>1
<1> HIDE DEF d
<1>3. t \in SlotRec
  BY <1>1, <1>2 DEF SlotRec
<1>4. /\ t.n_decoded = d /\ t.cache = c
      /\ t.st = s.st /\ t.sampled = s.sampled /\ t.buffer = s.buffer /\ t.bans = s.bans
      /\ t.replied = s.replied /\ t.text = s.text /\ t.n_sent = s.n_sent /\ t.stream = s.stream
      /\ t.word = s.word /\ t.eos = s.eos
  BY <1>1, <1>2 DEF SlotRec
<1>5. t \in SlotOK
  BY <1>1, <1>3, <1>4, StreamedSame
<1>6. ~s.word /\ (NBuffer = 0 => s.buffer = <<>>)
  BY Zenon DEF Counted
<1> DEFINE l == Len(s.buffer)
           k == Len(s.replied)
<1>7. /\ s.n_decoded >= k + l /\ (conf.saturate => s.n_decoded = k + l)
      /\ conf.n_predict >= 1 => k + l < conf.n_predict
  BY Zenon DEF Counted
<1>8. l \in Nat /\ k \in Nat /\ conf.n_predict \in Int /\ conf.saturate \in BOOLEAN
  <2>1. s.buffer \in Seq(Tokens) /\ s.replied \in Seq(Tokens)
    BY <1>1 DEF SlotRec
  <2>. QED BY <2>1, ConfFacts
<1>9. Len(t.buffer) = l /\ Len(t.replied) = k
  BY <1>4
<1> HIDE DEF l, k
<1>10. /\ d >= k + l + 1 /\ (conf.saturate => d = k + l + 1)
       /\ conf.n_predict >= 1 => k + l + 1 <= conf.n_predict
  BY <1>1, <1>7, <1>8 DEF d
<1>11. Ready(t)
  BY <1>4, <1>5, <1>6, <1>9, <1>10, Zenon DEF Ready
<1>. QED BY <1>4, <1>11

\* A pass is a record of slot, memory and whether tokens were taken back.
Pass == {a \in [s : SlotOK, m : MemRec, rewound : BOOLEAN] : Counted(a.s)}

\* One token of a draft.
LEMMA ReplyWithPass ==
    ASSUME conf \in Confs, NEW ids \in Seq(Tokens), NEW i \in 1..Len(ids), NEW acc \in Pass
    PROVE  ReplyWith(acc, ids, i) \in Pass
<1> DEFINE c == IF i > 1 THEN Append(acc.s.cache, ids[i - 1]) ELSE acc.s.cache
           s == [acc.s EXCEPT !.n_decoded = @ + 1, !.cache = c]
           z == Finish(ProcessToken(s, ids[i], TRUE))
           r == BufferAndCheck(s, acc.m, ids[i])
<1>1. ReplyWith(acc, ids, i) = IF acc.s.st = "done" \/ acc.rewound THEN acc
                               ELSE IF NBuffer > 0 THEN r ELSE [acc EXCEPT !.s = z]
  BY DEF ReplyWith
<1>2. Counted(acc.s) /\ acc.s \in SlotOK /\ acc.m \in MemRec /\ acc \in [s : SlotOK, m : MemRec, rewound : BOOLEAN]
  BY DEF Pass
<1>3. acc.s.cache \in Seq(Tokens) /\ ids[i] \in Tokens
  BY <1>2 DEF SlotOK, SlotRec
<1>4. c \in Seq(Tokens)
  <2>1. i > 1 => i - 1 \in 1..Len(ids)
    OBVIOUS
  <2>. QED BY <1>3, <2>1
<1> HIDE DEF c
<1>n. NBuffer \in Nat
  BY NBufferFacts
<1>5. CASE ~(acc.s.st = "done" \/ acc.rewound)
  <2>1. acc.s.st = "processing"
    BY <1>2, <1>5 DEF Counted
  <2>2. Ready(s)
    BY <1>2, <1>4, <2>1, CountUp
  <2> HIDE DEF s
  <2>3. CASE NBuffer > 0
    <3>1. Counted(r.s) /\ r.m \in MemRec /\ r.rewound \in BOOLEAN
      BY <1>2, <1>3, <2>2, <2>3, BufferCounted
    <3>2. r = [s |-> r.s, m |-> r.m, rewound |-> r.rewound]
      BY DEF BufferAndCheck
    <3> HIDE DEF r
    <3>3. r.s \in SlotOK
      BY <3>1 DEF Counted
    <3>4. r \in Pass
      BY <3>1, <3>2, <3>3 DEF Pass
    <3>. QED BY <1>1, <1>5, <2>3, <3>4
  <2>4. CASE ~(NBuffer > 0)
    <3>0. NBuffer = 0
      BY <1>n, <2>4
    <3>1. Counted(z)
      BY <1>3, <2>2, <3>0, FinishCounted, Zenon
    <3> HIDE DEF z
    <3>2. z \in SlotOK
      BY <3>1 DEF Counted
    <3>3. [acc EXCEPT !.s = z] \in Pass
      BY <1>2, <3>1, <3>2 DEF Pass
    <3>. QED BY <1>1, <1>5, <2>4, <3>3
  <2>. QED BY <2>3, <2>4
<1>6. CASE acc.s.st = "done" \/ acc.rewound
  BY <1>1, <1>6
<1>. QED BY <1>5, <1>6

-----------------------------------------------------------------------------
(* The token limit and the text that is streamed                            *)

\* The tokens accepted from a draft are tokens.
LEMMA AcceptedTokens ==
    ASSUME conf \in Confs, NEW ids \in Accepted
    PROVE  ids \in Seq(Tokens) /\ ids # <<>> /\ Len(ids) \in Nat
<1> DEFINE T == conf.toks \cup ToSet(conf.forced)
<1>1. T \subseteq Tokens
  <2>1. conf.toks \subseteq Tokens /\ conf.forced \in Seq(Tokens)
    BY ConfFacts
  <2>. QED BY <2>1 DEF ToSet
<1>2. ids \in BoundedSeq(T, NDraftMax + 1) /\ ids # <<>>
  BY DEF Accepted
<1> HIDE DEF T
<1>3. ids \in Seq(T)
  BY <1>2 DEF BoundedSeq, SeqOf
<1>. QED BY <1>1, <1>2, <1>3

\* The invariant: the shapes of the four variables, and a slot whose reply is counted,
\* within its limit and sent as far as n_sent_text says.
ReplyInv ==
  /\ conf \in Confs /\ mem \in MemRec /\ rb \in BudgetOK(conf) /\ slot \in SlotOK
  /\ slot.st # "error" => Counted(slot)
  /\ slot.n_decoded >= Len(slot.replied) + Len(slot.buffer)
  /\ conf.n_predict >= 1 => Len(slot.replied) <= conf.n_predict

\* The first pass begins so.
LEMMA ReplyInit == Init => ReplyInv
<1> SUFFICES ASSUME Init PROVE ReplyInv
  OBVIOUS
<1>1. conf \in Confs
  BY DEF Init
<1>2. Prompt \in Seq(Tokens) /\ Front(Prompt) \in Seq(Tokens) /\ Len(Prompt) >= 2
  <2>1. Prompt \in Seq(Tokens) /\ Len(Prompt) >= 2
    BY VocabFacts
  <2>2. SubSeq(Prompt, 1, Len(Prompt) - 1) \in Seq(Tokens)
    BY <2>1
  <2>. QED BY <2>1, <2>2 DEF Front
<1>3. mem \in MemRec
  <2> DEFINE m0 == [rows |-> Rows(Front(Prompt), 0), rs |-> Front(Prompt), saved |-> {}]
             before == SaveRewind(m0)
  <2>1. Rows(Front(Prompt), 0) \in Seq(RowRec) /\ Rows(Prompt, 0) \in Seq(RowRec)
    BY <1>2, RowsFacts
  <2>2. m0 \in MemRec
    BY <1>2, <2>1 DEF MemRec
  <2> HIDE DEF m0
  <2>3. before \in MemRec
    BY <1>1, <2>2, MemFacts
  <2>4. mem = [before EXCEPT !.rows = Rows(Prompt, 0), !.rs = Prompt]
    BY DEF Init, m0
  <2> HIDE DEF before
  <2>5. /\ before \in [rows : Seq(RowRec), rs : Seq(Tokens), saved : SUBSET [pos : Int, rows : Seq(RowRec), rs : Seq(Tokens)]]
        /\ \A x \in before.saved : x.pos >= -1
    BY <2>3 DEF MemRec
  <2>6. mem.saved = before.saved
    BY <2>4, <2>5
  <2>7. mem \in [rows : Seq(RowRec), rs : Seq(Tokens), saved : SUBSET [pos : Int, rows : Seq(RowRec), rs : Seq(Tokens)]]
    BY <1>2, <2>1, <2>4, <2>5
  <2>. QED BY <2>5, <2>6, <2>7 DEF MemRec
<1>4. rb \in BudgetOK(conf)
  <2>1. rb = BudgetAcceptAll(conf, NewBudget(conf), conf.prefill)
    BY DEF Init
  <2>2. /\ conf.start \in Seq(Tokens) /\ conf.end \in Seq(Tokens) /\ conf.forced \in Seq(Tokens)
        /\ conf.budget \in Int /\ conf.prefill \in Seq(Tokens)
    BY <1>1, ConfFacts
  <2>3. NewBudget(conf) \in BudgetOK(conf)
    <3>1. NewBudget(conf) \in BudgetRec
      BY <2>2 DEF NewBudget, BudgetRec
    <3>2. Matching(conf.start, 0) /\ Matching(conf.end, 0) /\ 0 <= Len(conf.forced)
      BY <2>2 DEF Matching
    <3>. QED BY <3>1, <3>2 DEF NewBudget, BudgetOK
  <2> DEFINE X == [k \in 0..Len(conf.prefill) |-> BudgetOK(conf)]
             n == Len(conf.prefill)
  <2>4. n \in Nat /\ (\A k \in 0..n : X[k] = BudgetOK(conf)) /\ \A k \in 1..n : k - 1 \in 0..n /\ k \in 0..n
    BY <2>2
  <2>5. \A k \in 1..n : \A x \in X[k - 1] : BudgetAccept(conf, x, conf.prefill[k]) \in X[k]
    <3> HIDE DEF X
    <3>. QED BY <1>1, <2>4, BudgetAcceptOK
  <2> HIDE DEF X
  <2>6. NewBudget(conf) \in X[0] /\ X[n] = BudgetOK(conf)
    BY <2>3, <2>4
  <2>7. BudgetAcceptAll(conf, NewBudget(conf), conf.prefill) \in X[n]
    BY <2>2, <2>5, <2>6, BudgetAcceptAllIn
  <2>. QED BY <2>1, <2>6, <2>7
<1>5. slot \in SlotRec
  BY <1>2 DEF Init, SlotRec
<1>6. /\ slot.st = "processing" /\ slot.buffer = <<>> /\ slot.replied = <<>> /\ slot.n_decoded = 0
      /\ slot.text = <<>> /\ slot.n_sent = 0 /\ slot.stream = <<>> /\ slot.word = FALSE
  BY DEF Init
<1>7. slot \in SlotOK
  <2>1. 0 <= Len(<<>>) /\ SubSeq(<<>>, 1, 0) = <<>>
    OBVIOUS
  <2>2. slot.n_sent <= Len(slot.text) /\ slot.stream = SubSeq(slot.text, 1, slot.n_sent)
    BY <1>6, <2>1, Zenon
  <2>3. Streamed(slot)
    BY <2>2, Zenon DEF Streamed
  <2>. QED BY <1>5, <2>3, Zenon DEF SlotOK
<1>8. Len(slot.buffer) = 0 /\ Len(slot.replied) = 0 /\ 0 + 0 = 0
  BY <1>6
<1>9. conf.n_predict \in Int
  BY <1>1, ConfFacts
<1>10. Counted(slot)
  BY <1>6, <1>7, <1>8, <1>9 DEF Counted
<1>. QED BY <1>1, <1>3, <1>4, <1>6, <1>7, <1>8, <1>9, <1>10 DEF ReplyInv

\* Every pass keeps it.
LEMMA ReplyNext == ReplyInv /\ [Next]_vars => ReplyInv'
<1> SUFFICES ASSUME ReplyInv, [Next]_vars PROVE ReplyInv'
  OBVIOUS
<1>1. /\ conf \in Confs /\ mem \in MemRec /\ rb \in BudgetOK(conf) /\ slot \in SlotOK
      /\ slot.st # "error" => Counted(slot)
  BY DEF ReplyInv
<1>2. /\ Feed \in Seq(Tokens) /\ Fed \in SlotOK /\ Fed.cache = slot.cache \o Feed /\ Fed.cache \in Seq(Tokens)
      /\ Fed.st = slot.st /\ Fed.buffer = slot.buffer /\ Fed.n_decoded = slot.n_decoded /\ Fed.replied = slot.replied
      /\ Fed.text = slot.text /\ Fed.n_sent = slot.n_sent /\ Fed.word = slot.word /\ Fed.eos = slot.eos
  BY <1>1, FedFacts
<1>3. slot.st = "processing" => Counted(Fed)
  BY <1>1, <1>2, CountedSame
<1>f. Len(slot.cache) \in Int /\ Len(Fed.cache) \in Int
  <2>1. slot.cache \in Seq(Tokens)
    BY <1>1 DEF SlotOK, SlotRec
  <2>. QED BY <1>2, <2>1
<1>4. ASSUME NEW m \in MemRec, NEW b \in BudgetOK(conf), NEW s, Counted(s), conf' = conf, mem' = m, rb' = b, slot' = s
      PROVE  ReplyInv'
  <2>1. conf' \in Confs /\ mem' \in MemRec /\ rb' \in BudgetOK(conf')
    BY <1>1, <1>4
  <2>2. /\ s \in SlotOK /\ s.n_decoded >= Len(s.replied) + Len(s.buffer)
        /\ conf.n_predict >= 1 => Len(s.replied) <= conf.n_predict
    BY <1>4 DEF Counted
  <2>3. NBuffer' = NBuffer
    BY <1>4 DEF NBuffer
  <2>4. Counted(slot)'
    BY <1>4, <2>3, Zenon DEF Counted
  <2>. QED BY <1>4, <2>1, <2>2, <2>4 DEF ReplyInv
<1>5. CASE Generate
  <2> DEFINE n == Len(Fed.cache)
             m == Decoded(mem, Feed, Len(slot.cache))
             kept == IF slot.n_decoded > 0 THEN DropOld(m, n) ELSE m
             s == [Fed EXCEPT !.n_decoded = @ + 1]
             r(tok) == IF NBuffer = 0
                       THEN [s |-> SendTokenResults([s EXCEPT !.buffer = <<tok>>], 0), m |-> m]
                       ELSE BufferAndCheck(s, SaveRewind(kept), tok)
  <2>1. /\ slot.st = "processing" /\ conf' = conf
        /\ \E tok \in Candidates(rb, slot.bans, n) :
             rb' = BudgetAccept(conf, rb, tok) /\ slot' = r(tok).s /\ mem' = r(tok).m
    BY <1>5 DEF Generate
  <2>2. PICK tok \in Candidates(rb, slot.bans, n) :
          rb' = BudgetAccept(conf, rb, tok) /\ slot' = r(tok).s /\ mem' = r(tok).m
    BY <2>1
  <2>3. tok \in Tokens
    BY <1>1, CandidateTokens
  <2>4. rb' \in BudgetOK(conf)
    BY <1>1, <2>2, BudgetAcceptOK
  <2>5. m \in MemRec
    BY <1>1, <1>2, <1>f, MemFacts
  <2> HIDE DEF m
  <2>6. SaveRewind(kept) \in MemRec
    <3>1. kept \in MemRec
      BY <1>1, <1>f, <2>5, MemFacts
    <3> HIDE DEF kept
    <3>. QED BY <1>1, <3>1, MemFacts
  <2> HIDE DEF kept
  <2>7. Ready(s)
    <3> DEFINE F == Fed
    <3>0. F \in SlotRec
      BY <1>2 DEF SlotOK
    <3>f. s = [F EXCEPT !.n_decoded = @ + 1] /\ F = Fed
      OBVIOUS
    <3> HIDE DEF F, s
    <3>1. s = [Fed EXCEPT !.n_decoded = @ + 1, !.cache = Fed.cache]
      <4>1. s = [F EXCEPT !.n_decoded = @ + 1, !.cache = F.cache]
        BY <3>0, <3>f DEF SlotRec
      <4>. QED BY <3>f, <4>1
    <3> HIDE DEF s
    <3>2. Counted(F) /\ F.st = "processing" /\ F.cache \in Seq(Tokens)
      BY <1>2, <1>3, <2>1, <3>f
    <3>3. s = [F EXCEPT !.n_decoded = @ + 1, !.cache = F.cache]
      BY <3>f, <3>1
    <3>. QED BY <1>1, <3>2, <3>3, CountUp
  <2> HIDE DEF s
  <2>8. CASE NBuffer = 0
    <3>1. slot' = SendTokenResults([s EXCEPT !.buffer = <<tok>>], 0) /\ mem' = m
      BY <2>2, <2>8
    <3>2. Counted(slot')
      BY <1>1, <2>3, <2>7, <2>8, <3>1, SingleCounted
    <3>. QED BY <1>4, <2>1, <2>4, <2>5, <3>1, <3>2
  <2>9. CASE NBuffer # 0
    <3>1. slot' = BufferAndCheck(s, SaveRewind(kept), tok).s /\ mem' = BufferAndCheck(s, SaveRewind(kept), tok).m
      BY <2>2, <2>9
    <3>2. NBuffer > 0
      BY <1>1, <2>9, NBufferFacts
    <3>3. Counted(slot') /\ mem' \in MemRec
      BY <1>1, <2>3, <2>6, <2>7, <3>1, <3>2, BufferCounted
    <3>. QED BY <1>4, <2>1, <2>4, <3>3
  <2>. QED BY <2>8, <2>9
<1>6. CASE Speculate
  <2> DEFINE before == SaveRewind(DropOld(mem, Len(slot.cache)))
             M(ids) == Decoded(before, Feed \o Front(ids), Len(slot.cache))
  <2>1. /\ slot.st = "processing" /\ conf' = conf
        /\ \E ids \in Accepted :
             /\ rb' = BudgetAcceptAll(conf, rb, ids)
             /\ slot' = ReplyWithAll(Fed, M(ids), ids).s /\ mem' = ReplyWithAll(Fed, M(ids), ids).m
    BY <1>6 DEF Speculate
  <2>2. PICK ids \in Accepted : /\ rb' = BudgetAcceptAll(conf, rb, ids)
                                /\ slot' = ReplyWithAll(Fed, M(ids), ids).s
                                /\ mem' = ReplyWithAll(Fed, M(ids), ids).m
    BY <2>1
  <2>3. ids \in Seq(Tokens) /\ ids # <<>> /\ Len(ids) \in Nat
    BY <1>1, AcceptedTokens
  <2> DEFINE m == M(ids)
             N == Len(ids)
             X == [k \in 0..N |-> Pass]
             Y == [k \in 0..N |-> BudgetOK(conf)]
  <2>4. m \in MemRec
    <3>1. DropOld(mem, Len(slot.cache)) \in MemRec
      BY <1>1, <1>f, MemFacts
    <3>2. before \in MemRec
      BY <1>1, <3>1, MemFacts
    <3>3. Feed \o Front(ids) \in Seq(Tokens)
      <4>1. Front(ids) \in Seq(Tokens)
        BY <2>3 DEF Front
      <4>. QED BY <1>2, <4>1, ConcatProperties
    <3> HIDE DEF before
    <3>. QED BY <1>1, <1>f, <3>2, <3>3, MemFacts
  <2>5. slot' = ReplyWithAll(Fed, m, ids).s /\ mem' = ReplyWithAll(Fed, m, ids).m
    BY <2>2
  <2>6. /\ \A k \in 0..N : X[k] = Pass /\ Y[k] = BudgetOK(conf)
        /\ \A k \in 1..N : k - 1 \in 0..N /\ k \in 0..N
        /\ 0 \in 0..N /\ N \in 0..N
    BY <2>3
  <2> HIDE DEF m, X, Y
  <2>7. ReplyWithAll(Fed, m, ids) \in X[N]
    <3>1. [s |-> Fed, m |-> m, rewound |-> FALSE] \in X[0]
      BY <1>2, <1>3, <2>1, <2>4, <2>6 DEF Pass
    <3>2. \A k \in 1..N : \A x \in X[k - 1] : ReplyWith(x, ids, k) \in X[k]
      BY <1>1, <2>3, <2>6, ReplyWithPass
    <3>. QED BY <2>3, <3>1, <3>2, ReplyWithAllIn
  <2>8. Counted(slot') /\ mem' \in MemRec
    BY <2>5, <2>6, <2>7 DEF Pass
  <2>9. rb' \in BudgetOK(conf)
    <3>1. rb \in Y[0]
      BY <1>1, <2>6
    <3>2. \A k \in 1..N : \A x \in Y[k - 1] : BudgetAccept(conf, x, ids[k]) \in Y[k]
      BY <1>1, <2>6, BudgetAcceptOK
    <3>3. BudgetAcceptAll(conf, rb, ids) \in Y[N]
      BY <2>3, <3>1, <3>2, BudgetAcceptAllIn
    <3>. QED BY <2>2, <2>6, <3>3
  <2>. QED BY <1>4, <2>1, <2>8, <2>9
<1>7. CASE SamplingFails
  <2>1. /\ slot.st = "processing" /\ slot' = [Fed EXCEPT !.st = "error"] /\ conf' = conf /\ rb' = rb
        /\ mem' = Decoded(mem, Feed, Len(slot.cache))
    BY <1>7 DEF SamplingFails
  <2>2. mem' \in MemRec
    BY <1>1, <1>2, <1>f, <2>1, MemFacts
  <2>3. Fed \in SlotRec
    BY <1>2 DEF SlotOK
  <2>4. slot' \in SlotRec
    BY <2>1, <2>3 DEF SlotRec
  <2>5. /\ slot'.st = "error" /\ slot'.replied = Fed.replied /\ slot'.buffer = Fed.buffer
        /\ slot'.n_decoded = Fed.n_decoded /\ slot'.text = Fed.text /\ slot'.n_sent = Fed.n_sent
        /\ slot'.stream = Fed.stream /\ slot'.eos = Fed.eos
    BY <2>1, <2>3 DEF SlotRec
  <2>6. slot' \in SlotOK
    BY <1>2, <2>4, <2>5, StreamedSame
  <2>. QED BY <1>1, <1>2, <2>1, <2>2, <2>5, <2>6 DEF ReplyInv
<1>8. CASE Released \/ UNCHANGED vars
  <2>1. conf' = conf /\ slot' = slot /\ mem' = mem /\ rb' = rb
    BY <1>8 DEF Released, vars
  <2>2. NBuffer' = NBuffer
    BY <2>1 DEF NBuffer
  <2>. QED BY <2>1, <2>2 DEF ReplyInv, Counted
<1>. QED BY <1>5, <1>6, <1>7, <1>8 DEF Next

\* The invariant holds in every behaviour.
LEMMA ReplyAlways == Spec => []ReplyInv
  BY ReplyInit, ReplyNext, PTL DEF Spec

\* What the client gets is never longer than n_predict, and n_decoded never counts fewer
\* tokens than the reply has: a rewind (rewind_context) takes back no more of the count
\* than of the reply, a draft counts each token it hands on (speculative_decoding_accept),
\* and the tokens held in token_buffer are within the limit when send_token_results
\* sends them past it.
THEOREM LimitKept == Spec => []LimitHolds
<1>1. ReplyInv => LimitHolds
  <2> SUFFICES ASSUME ReplyInv PROVE LimitHolds
    OBVIOUS
  <2> DEFINE l == Len(slot.buffer)
             k == Len(slot.replied)
  <2>1. slot.buffer \in Seq(Tokens) /\ slot.replied \in Seq(Tokens)
    BY DEF ReplyInv, SlotOK, SlotRec
  <2>2. Len(Reply) = k + l
    BY <2>1 DEF Reply
  <2>3. slot.n_decoded >= k + l /\ (conf.n_predict >= 1 => k <= conf.n_predict)
    BY Zenon DEF ReplyInv
  <2>4. conf.saturate /\ slot.st = "processing" => slot.n_decoded = k + l
    <3>1. slot.st = "processing" => Counted(slot)
      BY DEF ReplyInv
    <3>. QED BY <3>1, Zenon DEF Counted
  <2> HIDE DEF l
  <2>. QED BY <2>2, <2>3, <2>4, Zenon DEF LimitHolds
<1>. QED BY <1>1, ReplyAlways, PTL

\* The stream a client sees is the generated text up to n_sent_text (process_token), over
\* cut characters, stop strings in mid-token and held-back beginnings of them, and a reply
\* that ended by a limit or a stop string has been sent to its last complete character.
THEOREM StreamCorrect == Spec => []StreamFollowsText
<1>1. ReplyInv => StreamFollowsText
  <2> SUFFICES ASSUME ReplyInv PROVE StreamFollowsText
    OBVIOUS
  <2>1. Streamed(slot)
    BY DEF ReplyInv, SlotOK
  <2>2. slot.st = "done" => Counted(slot)
    BY DEF ReplyInv
  <2>3. slot.st = "done" /\ ~slot.eos => slot.n_sent >= Valid(slot.text)
    BY <2>2, Zenon DEF Counted
  <2>. QED BY <2>1, <2>3, Zenon DEF StreamFollowsText, Streamed
<1>. QED BY <1>1, ReplyAlways, PTL

-----------------------------------------------------------------------------
(* Sequences, prefixes and rows                                             *)

\* Two sequences one after the other.
LEMMA Concat ==
    ASSUME NEW T, NEW a \in Seq(T), NEW b \in Seq(T)
    PROVE  /\ a \o b \in Seq(T) /\ Len(a \o b) = Len(a) + Len(b)
           /\ \A i \in 1..Len(a) : (a \o b)[i] = a[i]
           /\ \A i \in 1..Len(b) : (a \o b)[Len(a) + i] = b[i]
           /\ \A i \in (Len(a) + 1)..(Len(a) + Len(b)) : (a \o b)[i] = b[i - Len(a)]
OBVIOUS

\* The same for tokens, with the order of concatenation.
LEMMA ConcatTokens ==
    ASSUME NEW a \in Seq(Tokens), NEW b \in Seq(Tokens)
    PROVE  /\ a \o b \in Seq(Tokens) /\ Len(a \o b) = Len(a) + Len(b)
           /\ \A i \in 1..Len(a) : (a \o b)[i] = a[i]
           /\ \A i \in 1..Len(b) : (a \o b)[Len(a) + i] = b[i]
           /\ \A c \in Seq(Tokens) : (a \o b) \o c = a \o (b \o c)
BY ConcatAssociative

\* Rows from position 0 on.
LEMMA RowsInOrder ==
    ASSUME NEW c \in Seq(Tokens)
    PROVE  /\ Rows(c, 0) \in Seq(RowRec) /\ Len(Rows(c, 0)) = Len(c)
           /\ \A i \in 1..Len(c) : Rows(c, 0)[i] = [pos |-> i - 1, tok |-> c[i]]
           /\ \A i \in 1..Len(c) : Rows(c, 0)[i].pos = i - 1
<1> DEFINE x == Rows(c, 0)
<1>1. x \in Seq(RowRec) /\ Len(x) = Len(c) /\ \A i \in 1..Len(c) : x[i] = [pos |-> 0 + i - 1, tok |-> c[i]]
  BY RowsFacts
<1> HIDE DEF x
<1>2. ASSUME NEW i \in 1..Len(c) PROVE x[i] = [pos |-> i - 1, tok |-> c[i]] /\ x[i].pos = i - 1
  <2>1. 0 + i - 1 = i - 1
    OBVIOUS
  <2>2. x[i] = [pos |-> i - 1, tok |-> c[i]]
    BY <1>1, <2>1
  <2>. QED BY <2>2
<1>. QED BY <1>1, <1>2 DEF x

\* Rows that follow each other are the rows of the tokens one after the other.
LEMMA RowsJoin ==
    ASSUME NEW c \in Seq(Tokens), NEW f \in Seq(Tokens)
    PROVE  Rows(c, 0) \o Rows(f, Len(c)) = Rows(c \o f, 0)
<1> DEFINE n == Len(c)
           l == Len(f)
           d == c \o f
           x == Rows(c, 0)
           y == Rows(f, n)
           z == Rows(d, 0)
           u == x \o y
<1>1. n \in Nat /\ l \in Nat
  OBVIOUS
<1>2. /\ d \in Seq(Tokens) /\ Len(d) = n + l /\ \A i \in 1..n : d[i] = c[i]
      /\ \A i \in (n + 1)..(n + l) : d[i] = f[i - n]
  BY Concat
<1>3. y \in Seq(RowRec) /\ Len(y) = l /\ \A i \in 1..l : y[i] = [pos |-> n + i - 1, tok |-> f[i]]
  <2> HIDE DEF n
  <2>. QED BY <1>1, RowsFacts
<1> HIDE DEF d, n, l
<1>4. x \in Seq(RowRec) /\ Len(x) = n /\ \A i \in 1..n : x[i] = [pos |-> i - 1, tok |-> c[i]]
  BY RowsInOrder DEF n
<1>5. z \in Seq(RowRec) /\ Len(z) = n + l /\ \A i \in 1..(n + l) : z[i] = [pos |-> i - 1, tok |-> d[i]]
  BY <1>2, RowsInOrder
<1> HIDE DEF x, y, z
<1>6. /\ u \in Seq(RowRec) /\ Len(u) = n + l /\ \A i \in 1..n : u[i] = x[i]
      /\ \A i \in (n + 1)..(n + l) : u[i] = y[i - n]
  <2>1. /\ u \in Seq(RowRec) /\ Len(u) = Len(x) + Len(y) /\ \A i \in 1..Len(x) : u[i] = x[i]
        /\ \A i \in (Len(x) + 1)..(Len(x) + Len(y)) : u[i] = y[i - Len(x)]
    <3>1. x \in Seq(RowRec) /\ y \in Seq(RowRec)
      BY <1>3, <1>4
    <3>. QED BY <3>1, Concat, Zenon
  <2> HIDE DEF u
  <2>2. Len(x) = n /\ Len(y) = l
    BY <1>3, <1>4
  <2>. QED BY <2>1, <2>2, Zenon
<1> HIDE DEF u
<1>7. ASSUME NEW i \in 1..(n + l) PROVE u[i] = z[i]
  <2>1. CASE i <= n
    <3>1. i \in 1..n
      BY <1>1, <2>1
    <3>2. u[i] = [pos |-> i - 1, tok |-> c[i]]
      BY <1>4, <1>6, <3>1, Zenon
    <3>3. z[i] = [pos |-> i - 1, tok |-> c[i]]
      BY <1>2, <1>5, <3>1, Zenon
    <3>. QED BY <3>2, <3>3
  <2>2. CASE ~(i <= n)
    <3>1. i \in (n + 1)..(n + l) /\ i - n \in 1..l /\ n + (i - n) - 1 = i - 1
      BY <1>1, <2>2
    <3>2. u[i] = [pos |-> n + (i - n) - 1, tok |-> f[i - n]]
      BY <1>3, <1>6, <3>1
    <3>3. z[i] = [pos |-> i - 1, tok |-> f[i - n]]
      BY <1>2, <1>5, <3>1
    <3>. QED BY <3>1, <3>2, <3>3
  <2>. QED BY <2>1, <2>2
<1>8. u = z
  BY <1>5, <1>6, <1>7, SeqEqual
<1>. QED BY <1>8 DEF u, x, y, z, n, d

\* Rows in order, cut at a position and removed from it on.
LEMMA RowsCut ==
    ASSUME NEW c \in Seq(Tokens), NEW n \in Nat, n <= Len(c)
    PROVE  /\ RowsRm(Rows(c, 0), n) = Rows(SubSeq(c, 1, n), 0)
           /\ IsPrefix(Rows(SubSeq(c, 1, n), 0), Rows(c, 0))
<1> DEFINE x == Rows(c, 0)
           d == SubSeq(c, 1, n)
           y == Rows(d, 0)
<1>1. x \in Seq(RowRec) /\ Len(x) = Len(c) /\ \A i \in 1..Len(c) : x[i] = [pos |-> i - 1, tok |-> c[i]] /\ x[i].pos = i - 1
  BY RowsInOrder
<1>2. d \in Seq(Tokens) /\ Len(d) = n /\ \A i \in 1..n : d[i] = c[i]
  BY Prefix
<1> HIDE DEF d
<1>3. y \in Seq(RowRec) /\ Len(y) = n /\ \A i \in 1..n : y[i] = [pos |-> i - 1, tok |-> d[i]]
  BY <1>2, RowsInOrder
<1>4. Len(c) \in Nat /\ 1..n \subseteq 1..Len(c)
  OBVIOUS
<1> HIDE DEF x, y
<1>5. /\ SubSeq(x, 1, n) \in Seq(RowRec) /\ Len(SubSeq(x, 1, n)) = n
      /\ \A i \in 1..n : SubSeq(x, 1, n)[i] = x[i]
  BY <1>1, <1>4, Prefix
<1>6. \A i \in 1..n : SubSeq(x, 1, n)[i] = y[i]
  BY <1>1, <1>2, <1>3, <1>4, <1>5
<1>7. SubSeq(x, 1, n) = y
  BY <1>3, <1>5, <1>6, SeqEqual
<1>8. RowsRm(x, n) = SubSeq(x, 1, n)
  <2>1. n \in 0..Len(x) /\ n \in Int
    BY <1>1, <1>4
  <2>2. \A k \in 1..Len(x) : x[k].pos = k - 1
    BY <1>1
  <2>. QED BY <1>1, <2>1, <2>2, RowsRmFacts
<1>9. SubSeq(y, 1, Len(y)) = y
  BY <1>3
<1>10. IsPrefix(y, x)
  BY <1>1, <1>3, <1>7, <1>9 DEF IsPrefix
<1>. QED BY <1>7, <1>8, <1>10 DEF x, y, d

\* The last position of rows in order.
LEMMA RowsMax ==
    ASSUME NEW c \in Seq(Tokens)
    PROVE  PosMax(Rows(c, 0)) = Len(c) - 1
<1> DEFINE x == Rows(c, 0)
<1>1. x \in Seq(RowRec) /\ Len(x) = Len(c) /\ \A i \in 1..Len(c) : x[i].pos = i - 1
  BY RowsInOrder
<1> HIDE DEF x
<1>2. \A k \in 1..Len(x) : x[k].pos = k - 1
  BY <1>1
<1>. QED BY <1>1, <1>2, PosMaxFacts DEF x

\* A token more at the end of a reply.
LEMMA WholeMore ==
    ASSUME NEW a \in Seq(Tokens), NEW b \in Seq(Tokens), NEW c \in Seq(Tokens), NEW t \in Tokens
    PROVE  Append(a \o b \o c, t) = a \o b \o Append(c, t)
<1> DEFINE d == a \o b
<1>1. d \in Seq(Tokens)
  OBVIOUS
<1> HIDE DEF d
<1>2. d \o c \in Seq(Tokens) /\ <<t>> \in Seq(Tokens)
  BY <1>1
<1>3. Append(d \o c, t) = (d \o c) \o <<t>>
  BY <1>2, AppendIsConcat
<1>4. (d \o c) \o <<t>> = d \o (c \o <<t>>)
  BY <1>1, <1>2, ConcatAssociative
<1>5. c \o <<t>> = Append(c, t)
  BY AppendIsConcat
<1>. QED BY <1>3, <1>4, <1>5 DEF d

\* Tokens of the buffer sent: the whole is the same.
LEMMA WholeSent ==
    ASSUME NEW a \in Seq(Tokens), NEW b \in Seq(Tokens), NEW c \in Seq(Tokens), NEW k \in 0..Len(c)
    PROVE  a \o (b \o SubSeq(c, 1, k)) \o SubSeq(c, k + 1, Len(c)) = a \o b \o c
<1> DEFINE x == SubSeq(c, 1, k)
           y == SubSeq(c, k + 1, Len(c))
           d == a \o b
<1>1. x \in Seq(Tokens) /\ y \in Seq(Tokens) /\ d \in Seq(Tokens)
  OBVIOUS
<1>2. x \o y = c
  <2>1. x \o y = SubSeq(c, 1, Len(c))
    <3>1. 1 \in 1..(Len(c) + 1) /\ k \in (1 - 1)..Len(c) /\ Len(c) \in k..Len(c)
      OBVIOUS
    <3>. QED BY <3>1, ConcatAdjacentSubSeq
  <2>. QED BY <2>1, SubSeqFull
<1> HIDE DEF x, y
<1>3. a \o (b \o x) = d \o x
  <2>1. x \in Seq(Tokens)
    BY <1>1
  <2>2. (a \o b) \o x = a \o (b \o x)
    BY <2>1, ConcatAssociative
  <2>. QED BY <2>2
<1> HIDE DEF d
<1>4. (d \o x) \o y = d \o (x \o y)
  BY <1>1, ConcatAssociative, SMTT(40)
<1>. QED BY <1>2, <1>3, <1>4 DEF x, y, d

\* A prefix that reaches into the second of two sequences.
LEMMA PrefixAcross ==
    ASSUME NEW T, NEW e \in Seq(T), NEW c \in Seq(T), NEW k \in 0..Len(c)
    PROVE  SubSeq(e \o c, 1, Len(e) + k) = e \o SubSeq(c, 1, k)
<1> DEFINE n == Len(e) + k
<1>0. n \in Nat /\ n = Len(e) + k
  OBVIOUS
<1> HIDE DEF n
<1> DEFINE d == e \o c
           x == SubSeq(d, 1, n)
           u == SubSeq(c, 1, k)
           y == e \o u
           m == Len(e)
           l == Len(c)
<1>1. d \in Seq(T) /\ Len(d) = m + l /\ m \in Nat /\ l \in Nat
  OBVIOUS
<1>2. /\ \A i \in 1..m : d[i] = e[i]
      /\ \A i \in (m + 1)..(m + l) : d[i] = c[i - m]
  BY Concat
<1>3. u \in Seq(T) /\ Len(u) = k /\ \A i \in 1..k : u[i] = c[i]
  BY Prefix
<1> HIDE DEF d, u
<1>4. /\ y \in Seq(T) /\ Len(y) = m + Len(u) /\ \A i \in 1..m : y[i] = e[i]
      /\ \A i \in (m + 1)..(m + Len(u)) : y[i] = u[i - m]
  BY <1>3, Concat, ZenonT(40)
<1>5. n <= Len(d)
  BY <1>0, <1>1 DEF m, l
<1>6. x \in Seq(T) /\ Len(x) = n /\ \A i \in 1..n : x[i] = d[i]
  BY <1>0, <1>1, <1>5, Prefix
<1>9. n = m + k /\ n \in Nat
  BY <1>0
<1> HIDE DEF x, y, m, l
<1>7. ASSUME NEW i \in 1..n PROVE x[i] = y[i]
  <2>1. CASE i <= m
    BY <1>1, <1>2, <1>4, <1>6, <2>1
  <2>2. CASE i > m
    <3>1. i \in (m + 1)..(m + l) /\ i \in (m + 1)..(m + k) /\ i - m \in 1..k
      BY <1>1, <1>9, <2>2 DEF l
    <3>. QED BY <1>2, <1>3, <1>4, <1>6, <3>1
  <2>. QED BY <1>1, <2>1, <2>2
<1>8. x = y
  <2>1. Len(x) = Len(y)
    BY <1>3, <1>4, <1>6, <1>9
  <2>. QED BY <1>4, <1>6, <1>7, <2>1, SeqEqual
<1>. QED BY <1>8 DEF x, y, d, u, n

\* The prompt and a reply, cut inside the buffer: n tokens before the buffer, p with what is left of it.
CutAt(k, w, tok, h, n, d, p) ==
  /\ d \in Seq(Tokens) /\ Len(d) = n + Len(w) /\ p \in 1..Len(d) /\ d[p] \in Tokens
  /\ Append(SubSeq(d, 1, p - 1), d[p]) = Prompt \o k \o SubSeq(Append(w, tok), 1, h - 1)

\* The whole reply cut inside the buffer, with a token that never got there.
LEMMA WholeCut ==
    ASSUME NEW b \in Seq(Tokens), NEW c \in Seq(Tokens), NEW t \in Tokens, NEW h \in 1..(Len(c) + 1)
    PROVE  CutAt(b, c, t, h, Len(Prompt) + Len(b), Prompt \o b \o c, Len(Prompt) + Len(b) + h - 1)
<1> DEFINE a == Prompt
           n == Len(a) + Len(b)
           d == a \o b \o c
           p == n + h - 1
<1>0. a \in Seq(Tokens) /\ n \in Nat /\ n >= 1 /\ n = Len(a) + Len(b) /\ d = a \o b \o c /\ p = n + h - 1
  BY VocabFacts
<1> HIDE DEF a, n, d, p
<1> DEFINE e == a \o b
           l == Len(c)
<1>1. e \in Seq(Tokens) /\ Len(e) = n /\ d = e \o c /\ l \in Nat
  BY <1>0
<1> HIDE DEF e
<1>2. d \in Seq(Tokens) /\ Len(d) = n + l
  <2>1. e \o c \in Seq(Tokens) /\ Len(e \o c) = Len(e) + Len(c)
    BY <1>1, Concat, Zenon
  <2>. QED BY <1>1, <2>1
<1>3. p \in 1..(n + l) /\ h - 1 \in 0..l /\ p = n + (h - 1)
  BY <1>0, <1>1
<1>4. p \in 1..Len(d)
  BY <1>2, <1>3
<1>5. d[p] \in Tokens
  BY <1>2, <1>4
<1>6. Append(SubSeq(d, 1, p - 1), d[p]) = SubSeq(d, 1, p)
  <2>1. SubSeq(d, 1, p) = SubSeq(d, 1, p - 1) \o <<d[p]>>
    <3>1. 1 \in 1..Len(d) /\ p \in 1..Len(d)
      BY <1>4, <1>2
    <3>. QED BY <1>2, <3>1, SubSeqRecursiveSecond
  <2>2. SubSeq(d, 1, p - 1) \in Seq(Tokens)
    <3>1. p - 1 \in Nat /\ p - 1 <= Len(d)
      BY <1>2, <1>4
    <3>. QED BY <1>2, <3>1, Prefix
  <2>. QED BY <1>5, <2>1, <2>2, AppendIsConcat
<1>7. SubSeq(d, 1, p) = e \o SubSeq(c, 1, h - 1)
  <2>1. p \in Nat /\ p = Len(e) + (h - 1) /\ h - 1 \in 0..Len(c)
    BY <1>1, <1>3
  <2>2. e \in Seq(Tokens) /\ d = e \o c
    BY <1>1
  <2>3. SubSeq(e \o c, 1, Len(e) + (h - 1)) = e \o SubSeq(c, 1, h - 1)
    BY <2>1, <2>2, PrefixAcross, Zenon
  <2>. QED BY <2>1, <2>2, <2>3, Zenon
<1>8. SubSeq(Append(c, t), 1, h - 1) = SubSeq(c, 1, h - 1)
  <2>1. /\ Append(c, t) \in Seq(Tokens) /\ Len(Append(c, t)) = l + 1
        /\ \A i \in 1..Len(c) : Append(c, t)[i] = c[i]
    BY AppendProperties
  <2>2. h - 1 \in Nat /\ h - 1 <= l /\ h - 1 <= l + 1 /\ \A i \in 1..(h - 1) : i \in 1..Len(c)
    BY <1>1, <1>3
  <2> DEFINE x == Append(c, t)
             j == h - 1
  <2> HIDE DEF x, j
  <2>3. x \in Seq(Tokens) /\ j \in Nat /\ j <= Len(x) /\ j <= Len(c) /\ \A i \in 1..j : x[i] = c[i]
    BY <2>1, <2>2 DEF x, j
  <2>4. SubSeq(x, 1, j) = SubSeq(c, 1, j)
    BY <2>3, SamePrefix
  <2>. QED BY <2>4 DEF x, j
<1>9. Append(SubSeq(d, 1, p - 1), d[p]) = a \o b \o SubSeq(Append(c, t), 1, h - 1)
  BY <1>6, <1>7, <1>8 DEF e
<1>. QED BY <1>2, <1>4, <1>5, <1>9, Zenon DEF CutAt, l, a, n, d, p

-----------------------------------------------------------------------------
(* The context of the reply                                                 *)

\* The prompt and the reply, sent or held back.
Whole(s) == Prompt \o s.replied \o s.buffer

\* The memory holds exactly the tokens c.
RowsAre(m, c) == m.rows = Rows(c, 0) /\ (conf.recurrent => m.rs = c)

\* The checkpoints are of prefixes of c.
SavedOf(m, c) ==
  \A x \in m.saved : x.pos < Len(c) /\ x.rs = SubSeq(c, 1, x.pos + 1) /\ x.rows = Rows(x.rs, 0)

\* There is a checkpoint at every position from lo to hi.
Covers(m, lo, hi) == \A q \in lo..hi : \E x \in m.saved : x.pos = q

\* The memory after a rewind to before the token at p.
BackTo(s, m, c, p) ==
  LET z == RewindMem(s, m, p)
      d == SubSeq(c, 1, p - 1)
  IN /\ KeepCache(s, m, p) = p - 1 /\ RowsAre(z, d)
     /\ conf.recurrent => z.saved = {x \in m.saved : x.pos < p - 1} /\ SavedOf(z, d)

\* rewind_context on the memory: what is left is what stands before the token decoded again.
LEMMA RewindRows ==
    ASSUME conf \in Confs, NEW s, NEW m \in MemRec, NEW f \in Seq(Tokens), NEW c \in Seq(Tokens),
           Len(c) <= Len(f), c = SubSeq(f, 1, Len(c)), RowsAre(m, f),
           NEW p \in Nat, p >= 1, p <= Len(c),
           conf.recurrent => f = c /\ SavedOf(m, c) /\ \E x \in m.saved : x.pos = p - 2
    PROVE  BackTo(s, m, c, p)
<1> DEFINE n == KeepCache(s, m, p)
           z == RewindMem(s, m, p)
           d == SubSeq(c, 1, p - 1)
<1>1. n = p - 1
  BY KeepCacheBounds
<1>2. p - 1 \in Nat /\ p - 1 <= Len(f) /\ p - 1 <= Len(c)
  OBVIOUS
<1>3. /\ d \in Seq(Tokens) /\ Len(d) = p - 1
      /\ \A b \in Nat : b <= p - 1 => SubSeq(d, 1, b) = SubSeq(c, 1, b)
  BY <1>2, Prefix
<1>7. z = RewindMem(s, m, p) /\ d = SubSeq(c, 1, p - 1)
  OBVIOUS
<1> HIDE DEF n, z, d
<1>4. CASE ~conf.recurrent
  <2>1. z = [m EXCEPT !.rows = RowsRm(@, p - 1)]
    BY <1>1, <1>4, <1>7 DEF RewindMem, n
  <2>2. z.rows = RowsRm(m.rows, p - 1)
    BY <2>1 DEF MemRec
  <2>3. m.rows = Rows(f, 0)
    BY DEF RowsAre
  <2>4. RowsRm(Rows(f, 0), p - 1) = Rows(SubSeq(f, 1, p - 1), 0)
    BY <1>2, RowsCut
  <2>5. SubSeq(SubSeq(f, 1, Len(c)), 1, p - 1) = SubSeq(f, 1, p - 1)
    <3>1. Len(c) \in Nat
      OBVIOUS
    <3>. QED BY <1>2, <3>1, Prefix
  <2>6. z.rows = Rows(d, 0)
    BY <1>7, <2>2, <2>3, <2>4, <2>5
  <2>. QED BY <1>1, <1>4, <2>6 DEF n, RowsAre, BackTo, z, d
<1>5. CASE conf.recurrent
  <2> DEFINE at == {x \in m.saved : x.pos = p - 2}
             x == CHOOSE y \in at : TRUE
  <2>1. at # {} /\ \A y \in at : y \in m.saved /\ y.pos = p - 2
    BY <1>5
  <2>2. x \in at
    <3> HIDE DEF at
    <3>. QED BY <2>1
  <2>3. x \in m.saved /\ x.pos = p - 2
    BY <2>1, <2>2
  <2>4. x.rs = SubSeq(c, 1, x.pos + 1) /\ x.rows = Rows(x.rs, 0) /\ x.pos + 1 = p - 1
    BY <1>5, <2>3 DEF SavedOf
  <2>5. x.rs = d /\ x.rows = Rows(d, 0)
    BY <1>7, <2>4
  <2> DEFINE left == {y \in m.saved : y.pos < p - 1}
  <2>6. z = [rows |-> RowsRm(x.rows, p - 1), rs |-> x.rs, saved |-> left]
    <3> DEFINE at2 == {y \in m.saved : y.pos = n - 1}
               x2 == CHOOSE y \in at2 : TRUE
               left2 == {y \in m.saved : y.pos < n}
    <3>1. z = [rows  |-> IF at2 = {} THEN m.rows ELSE RowsRm(x2.rows, n),
               rs    |-> IF at2 = {} THEN m.rs ELSE x2.rs,
               saved |-> left2]
      BY <1>5, Zenon DEF RewindMem, n, z
    <3>2. n - 1 = p - 2
      BY <1>1
    <3>3. at2 = at
      BY <3>2, Zenon
    <3>4. left2 = left
      BY <1>1, Zenon
    <3>5. x2 = x
      BY <3>3, Zenon
    <3> HIDE DEF at, x, at2, x2, left, left2
    <3>. QED BY <1>1, <2>1, <3>1, <3>3, <3>4, <3>5, Zenon
  <2> HIDE DEF left
  <2> HIDE DEF at, x
  <2>7. RowsRm(Rows(d, 0), p - 1) = Rows(SubSeq(d, 1, p - 1), 0)
    <3>1. p - 1 <= Len(d)
      BY <1>2, <1>3
    <3>. QED BY <1>2, <1>3, <3>1, RowsCut
  <2>8. SubSeq(d, 1, p - 1) = d
    BY <1>2, <1>3
  <2>12. z.rows = RowsRm(x.rows, p - 1) /\ z.rs = x.rs /\ z.saved = left
    BY <2>6
  <2>9. z.rows = Rows(d, 0) /\ z.rs = d /\ z.saved = {y \in m.saved : y.pos < p - 1}
    BY <2>5, <2>7, <2>8, <2>12, Zenon DEF left
  <2>10. ASSUME NEW y \in z.saved
         PROVE  y.pos < Len(d) /\ y.rs = SubSeq(d, 1, y.pos + 1) /\ y.rows = Rows(y.rs, 0)
    <3>1. y \in m.saved /\ y.pos < p - 1
      BY <2>9, <2>10
    <3>2. y.pos \in Int /\ y.pos >= -1
      BY <3>1 DEF MemRec
    <3>3. y.rs = SubSeq(c, 1, y.pos + 1) /\ y.rows = Rows(y.rs, 0)
      BY <1>5, <3>1 DEF SavedOf
    <3>4. y.pos + 1 \in Nat /\ y.pos + 1 <= p - 1 /\ y.pos < Len(d)
      BY <1>2, <1>3, <3>1, <3>2
    <3>5. SubSeq(d, 1, y.pos + 1) = SubSeq(c, 1, y.pos + 1)
      BY <1>3, <3>4
    <3>. QED BY <3>3, <3>4, <3>5
  <2>11. SavedOf(z, d)
    BY <2>10 DEF SavedOf
  <2>13. RowsAre(z, d)
    BY <2>9 DEF RowsAre
  <2>. QED BY <1>1, <2>9, <2>11, <2>13, Zenon DEF n, BackTo, z, d
<1>6. conf.recurrent \in BOOLEAN
  BY ConfFacts
<1>. QED BY <1>4, <1>5, <1>6

\* send_token_results moves tokens from the buffer to the reply, and no further.
LEMMA HandledWhole ==
    ASSUME NEW s \in SlotOK, NEW n, NEW z, Handled(s, n, z)
    PROVE  /\ Whole(z) = Whole(s) /\ Len(z.buffer) \in Nat /\ Len(z.buffer) < Len(s.buffer)
           /\ Len(z.replied) \in Nat /\ Len(z.replied) >= Len(s.replied)
<1> DEFINE b == s.buffer
           k == s.replied
           l == Len(b)
<1>1. b \in Seq(Tokens) /\ k \in Seq(Tokens) /\ l \in Nat /\ Prompt \in Seq(Tokens) /\ Len(k) \in Nat
  BY VocabFacts DEF SlotOK, SlotRec
<1>2. PICK m \in 1..l : z.replied = k \o SubSeq(b, 1, m) /\ z.buffer = SubSeq(b, m + 1, l)
  BY DEF Handled
<1>3. Prompt \o (k \o SubSeq(b, 1, m)) \o SubSeq(b, m + 1, l) = Prompt \o k \o b
  <2>1. ASSUME NEW u \in Seq(Tokens), NEW x \in Seq(Tokens), NEW y \in Seq(Tokens), NEW j \in 0..Len(y)
        PROVE  u \o (x \o SubSeq(y, 1, j)) \o SubSeq(y, j + 1, Len(y)) = u \o x \o y
    BY WholeSent, ZenonT(40)
  <2>2. m \in 0..Len(b)
    BY <1>1
  <2> HIDE DEF b, k
  <2>. QED BY <1>1, <2>1, <2>2, ZenonT(40)
<1>4. Whole(z) = Whole(s)
  BY <1>2, <1>3, Zenon DEF Whole
<1>5. Len(z.buffer) = l - m
  <2>1. Len(SubSeq(b, m + 1, l)) = IF m + 1 <= l THEN l - (m + 1) + 1 ELSE 0
    BY <1>1
  <2>2. Len(z.buffer) = IF m + 1 <= l THEN l - (m + 1) + 1 ELSE 0
    BY <1>2, <2>1, Zenon
  <2> HIDE DEF l, b
  <2>. QED BY <1>1, <2>2
<1>6. Len(z.replied) = Len(k) + m
  <2>1. SubSeq(b, 1, m) \in Seq(Tokens) /\ Len(SubSeq(b, 1, m)) = m
    <3>1. m \in Nat /\ m <= Len(b)
      BY <1>1
    <3>. QED BY <1>1, <3>1, Prefix
  <2> DEFINE x == SubSeq(b, 1, m)
  <2> HIDE DEF x
  <2>2. Len(k \o x) = Len(k) + Len(x)
    BY <1>1, <2>1, Concat DEF x
  <2>. QED BY <1>2, <2>1, <2>2 DEF x
<1> DEFINE lz == Len(z.buffer)
           kz == Len(z.replied)
           ks == Len(k)
<1>7. lz = l - m /\ kz = ks + m /\ ks \in Nat
  BY <1>1, <1>5, <1>6
<1> HIDE DEF l, lz, kz, ks
<1>8. lz \in Nat /\ lz < l /\ kz \in Nat /\ kz >= ks
  BY <1>1, <1>7
<1>. QED BY <1>4, <1>8 DEF l, lz, kz, ks

\* A token is about to be handed on: the cache is the prompt and the reply, and the
\* memory holds it and, in a draft, what was decoded ahead of it.
Ahead(s, m, f) ==
  /\ s.cache = Whole(s) /\ RowsAre(m, f)
  /\ Len(s.cache) <= Len(f) /\ s.cache = SubSeq(f, 1, Len(s.cache))
  /\ NBuffer > 0 => Len(s.buffer) < NBuffer
  /\ conf.recurrent /\ NBuffer > 0 =>
       /\ f = s.cache /\ SavedOf(m, s.cache)
       /\ Covers(m, Len(Prompt) + Len(s.replied) - 2, Len(s.cache) - 1)

\* The slot is ready for the next pass.
Settled(s, m) ==
  /\ s.sampled \in Tokens /\ Append(s.cache, s.sampled) = Whole(s) /\ RowsAre(m, s.cache)
  /\ NBuffer > 0 => Len(s.buffer) < NBuffer
  /\ conf.recurrent /\ NBuffer > 0 =>
       /\ SavedOf(m, s.cache)
       /\ Covers(m, Len(Prompt) + Len(s.replied) - 2, Len(s.cache) - 1)

\* A token was handed on and nothing was taken back.
WentOn(s, tok, z) ==
  /\ z.cache = s.cache /\ z.sampled = tok /\ Append(z.cache, tok) = Whole(z)
  /\ NBuffer > 0 => Len(z.buffer) < NBuffer
  /\ Len(z.replied) \in Nat /\ Len(z.replied) >= Len(s.replied)

\* The whole reply with the token in the buffer.
LEMMA BufferedWhole ==
    ASSUME conf \in Confs, NEW s \in SlotOK, NEW tok \in Tokens, NEW b, b = Buffered(s, tok), s.cache = Whole(s)
    PROVE  Append(s.cache, tok) = Whole(b)
<1>1. s.buffer \in Seq(Tokens) /\ s.replied \in Seq(Tokens) /\ Prompt \in Seq(Tokens)
  BY VocabFacts DEF SlotOK, SlotRec
<1>2. Append(Prompt \o s.replied \o s.buffer, tok) = Prompt \o s.replied \o Append(s.buffer, tok)
  <2>1. ASSUME NEW u \in Seq(Tokens), NEW x \in Seq(Tokens), NEW y \in Seq(Tokens)
        PROVE  Append(u \o x \o y, tok) = u \o x \o Append(y, tok)
    BY WholeMore
  <2>. QED BY <1>1, <2>1
<1>3. b.buffer = Append(s.buffer, tok) /\ b.replied = s.replied
  BY BufferedFacts
<1>. QED BY <1>2, <1>3 DEF Whole

\* buffer_and_check_string_ban, when nothing is taken back.
LEMMA WentOnBuffered ==
    ASSUME conf \in Confs, NEW s, Ready(s), NEW m \in MemRec, NEW f, Ahead(s, m, f), NEW tok \in Tokens,
           NBuffer > 0, NEW b, b = Buffered(s, tok), NEW r, Waits(b, m, tok, r) \/ Sends(b, m, r)
    PROVE  WentOn(s, tok, r.s)
<1>1. s \in SlotOK /\ s.st = "processing" /\ ~s.word /\ s.cache = Whole(s) /\ Len(s.buffer) < NBuffer
  BY DEF Ready, Ahead
<1>2. /\ b \in SlotOK /\ b.buffer = Append(s.buffer, tok) /\ b.buffer # <<>>
      /\ Len(b.buffer) = Len(s.buffer) + 1 /\ b.buffer[Len(b.buffer)] = tok
      /\ b.st = s.st /\ b.cache = s.cache /\ b.replied = s.replied /\ b.word = s.word
  BY <1>1, BufferedFacts
<1>3. Append(s.cache, tok) = Whole(b)
  BY <1>1, BufferedWhole
<1>4. b \in SlotRec /\ Len(s.buffer) \in Nat /\ Len(s.replied) \in Nat /\ NBuffer \in Nat
  <2>1. s.buffer \in Seq(Tokens) /\ s.replied \in Seq(Tokens)
    BY <1>1 DEF SlotOK, SlotRec
  <2>. QED BY <1>2, <2>1, NBufferFacts DEF SlotOK
<1>5. CASE Waits(b, m, tok, r)
  <2> DEFINE z == r.s
  <2>1. z = [b EXCEPT !.sampled = tok] /\ r.m = m /\ r.rewound = FALSE /\ Len(b.buffer) < NBuffer
    BY <1>5 DEF Waits
  <2> HIDE DEF z
  <2>2. z.sampled = tok /\ z.cache = b.cache /\ z.replied = b.replied /\ z.buffer = b.buffer
    BY <1>4, <2>1 DEF SlotRec
  <2>3. Whole(z) = Whole(b)
    BY <2>2 DEF Whole
  <2>4. Append(z.cache, tok) = Whole(z)
    BY <1>2, <1>3, <2>2, <2>3
  <2>5. Len(z.buffer) < NBuffer
    BY <2>1, <2>2
  <2>6. z.cache = s.cache /\ Len(z.replied) = Len(s.replied)
    BY <1>2, <2>2
  <2>7. Len(z.replied) \in Nat /\ Len(z.replied) >= Len(s.replied)
    <3> DEFINE kz == Len(z.replied)
               ks == Len(s.replied)
    <3>1. kz = ks /\ ks \in Nat
      BY <1>4, <2>6
    <3> HIDE DEF kz, ks
    <3>2. kz \in Nat /\ kz >= ks
      BY <3>1
    <3>. QED BY <3>2 DEF kz, ks
  <2>. QED BY <2>1, <2>2, <2>4, <2>5, <2>6, <2>7 DEF WentOn, z
<1>6. CASE Sends(b, m, r)
  <2>1. PICK n \in {0, 1} : r.s = SendTokenResults(Calm(b), n) /\ r.m = m /\ r.rewound = FALSE
    BY <1>6 DEF Sends
  <2> DEFINE c == Calm(b)
             z == r.s
  <2>2. /\ c \in SlotOK /\ c.buffer = b.buffer /\ c.replied = b.replied /\ c.st = b.st /\ c.word = b.word
        /\ c.cache = b.cache
    BY <1>2, CalmFacts
  <2>7. z = SendTokenResults(c, n)
    BY <2>1
  <2> HIDE DEF c, z
  <2>3. ~c.word /\ c.st = "processing" /\ c.buffer # <<>> /\ n \in Nat
    BY <1>1, <1>2, <2>2
  <2>4. Handled(c, n, z)
    BY <2>2, <2>3, <2>7, SendTokenResultsFacts
  <2>5. /\ Whole(z) = Whole(c) /\ Len(z.buffer) \in Nat /\ Len(z.buffer) < Len(c.buffer)
        /\ Len(z.replied) \in Nat /\ Len(z.replied) >= Len(c.replied)
    BY <2>2, <2>4, HandledWhole
  <2>6. z.cache = c.cache /\ z.sampled = c.buffer[Len(c.buffer)]
    BY <2>4 DEF Handled
  <2>8. Whole(c) = Whole(b)
    BY <2>2 DEF Whole
  <2>9. z.cache = s.cache /\ z.sampled = tok /\ Append(z.cache, tok) = Whole(z)
    BY <1>2, <1>3, <2>2, <2>5, <2>6, <2>8
  <2>10. Len(z.buffer) < NBuffer
    <3> DEFINE lz == Len(z.buffer)
               ls == Len(s.buffer)
    <3>1. lz \in Nat /\ ls \in Nat /\ ls < NBuffer /\ NBuffer \in Nat /\ lz < ls + 1
      BY <1>1, <1>2, <1>4, <2>2, <2>5
    <3> HIDE DEF lz, ls
    <3>2. lz < NBuffer
      BY <3>1
    <3>. QED BY <3>2 DEF lz
  <2>11. Len(z.replied) >= Len(s.replied)
    BY <1>2, <2>2, <2>5
  <2>. QED BY <2>1, <2>5, <2>9, <2>10, <2>11 DEF WentOn, z
<1>. QED BY <1>5, <1>6

\* buffer_and_check_string_ban, when a banned phrase is taken back: the slot goes on as if
\* the token before the phrase had just been sampled.
LEMMA SettledRewound ==
    ASSUME conf \in Confs, NEW s, Ready(s), NEW m \in MemRec, NEW f \in Seq(Tokens), Ahead(s, m, f),
           NEW tok \in Tokens, NBuffer > 0, NEW b, b = Buffered(s, tok), NEW r, Rewound(b, m, r)
    PROVE  Settled(r.s, r.m) /\ r.s.st = "processing"
<1> DEFINE c == s.cache
           k == s.replied
           w == s.buffer
           n == Len(Prompt) + Len(k)
           l == Len(w)
           z == r.s
<1>0. s \in SlotOK
  BY DEF Ready
<1>1. /\ s \in SlotOK /\ s.st = "processing" /\ c = Whole(s) /\ l < NBuffer
      /\ RowsAre(m, f) /\ Len(c) <= Len(f) /\ c = SubSeq(f, 1, Len(c))
      /\ conf.recurrent => f = c /\ SavedOf(m, c) /\ Covers(m, n - 2, Len(c) - 1)
  BY DEF Ready, Ahead
<1>2. /\ b \in SlotOK /\ b.buffer = Append(w, tok) /\ Len(b.buffer) = l + 1
      /\ b.st = s.st /\ b.cache = c /\ b.replied = k
  BY <1>0, BufferedFacts
<1>3. /\ c \in Seq(Tokens) /\ k \in Seq(Tokens) /\ w \in Seq(Tokens) /\ Prompt \in Seq(Tokens)
      /\ Len(Prompt) >= 2 /\ Len(k) \in Nat /\ l \in Nat /\ NBuffer \in Nat
  BY <1>1, VocabFacts, NBufferFacts DEF SlotOK, SlotRec
<1>4. n \in Nat /\ n >= 2
  BY <1>3
<1>5. PICK h \in 1..(l + 1) : \E p \in Nat :
        p = Len(c) - (l + 1) + h /\ RewoundTo(b, m, h, p, z) /\ r.m = RewindMem(b, m, p)
  BY <1>2 DEF Rewound
<1>6. PICK p \in Nat : p = Len(c) - (l + 1) + h /\ RewoundTo(b, m, h, p, z) /\ r.m = RewindMem(b, m, p)
  BY <1>5
<1>7. c = Prompt \o k \o w /\ n = Len(Prompt) + Len(k) /\ h \in 1..(Len(w) + 1)
  BY <1>1 DEF Whole
<1> HIDE DEF c, k, w, n, l, z
<1> DEFINE q == n + h - 1
<1>24. CutAt(k, w, tok, h, n, c, q)
  <2>1. CutAt(k, w, tok, h, Len(Prompt) + Len(k), Prompt \o k \o w, Len(Prompt) + Len(k) + h - 1)
    BY <1>3, <1>7, WholeCut
  <2>. QED BY <1>7, <2>1, Zenon
<1> HIDE DEF q
<1>8. /\ Len(c) = n + Len(w) /\ q \in 1..Len(c) /\ c[q] \in Tokens
      /\ Append(SubSeq(c, 1, q - 1), c[q]) = Prompt \o k \o SubSeq(Append(w, tok), 1, h - 1)
  BY <1>24, Zenon DEF CutAt
<1>9. Len(c) = n + l
  BY <1>8 DEF l
<1>10. p = q
  BY <1>3, <1>4, <1>6, <1>9 DEF q
<1>23. /\ p \in 1..Len(c) /\ c[p] \in Tokens
       /\ Append(SubSeq(c, 1, p - 1), c[p]) = Prompt \o k \o SubSeq(Append(w, tok), 1, h - 1)
  BY <1>8, <1>10, Zenon
<1>11. /\ p >= 1 /\ p <= Len(c) /\ c[p] \in Tokens
       /\ Append(SubSeq(c, 1, p - 1), c[p]) = Prompt \o k \o SubSeq(Append(w, tok), 1, h - 1)
  <2>1. Len(c) \in Nat
    BY <1>3
  <2> DEFINE a == Len(c)
  <2>2. a \in Nat /\ p \in 1..a
    BY <1>23, <2>1
  <2> HIDE DEF a
  <2>3. p >= 1 /\ p <= a
    BY <2>2
  <2>. QED BY <1>23, <2>3 DEF a
<1>12. p = n + h - 1 /\ p - 2 \in (n - 2)..(Len(c) - 1)
  BY <1>3, <1>4, <1>9, <1>10 DEF q
<1> DEFINE d == SubSeq(c, 1, p - 1)
<1>13. /\ KeepCache(b, m, p) = p - 1 /\ RowsAre(r.m, d)
       /\ conf.recurrent => r.m.saved = {x \in m.saved : x.pos < p - 1} /\ SavedOf(r.m, d)
  <2>1. conf.recurrent => f = c /\ SavedOf(m, c) /\ \E x \in m.saved : x.pos = p - 2
    BY <1>1, <1>12 DEF Covers
  <2>2. BackTo(b, m, c, p)
    <3>1. Len(c) <= Len(f) /\ c = SubSeq(f, 1, Len(c)) /\ RowsAre(m, f) /\ c \in Seq(Tokens)
      BY <1>1, <1>3
    <3>2. p >= 1 /\ p <= Len(c)
      BY <1>11
    <3>. QED BY <2>1, <3>1, <3>2, RewindRows
  <2>3. r.m = RewindMem(b, m, p)
    BY <1>6
  <2>. QED BY <2>2, <2>3, Zenon DEF BackTo
<1>14. /\ z.st = b.st /\ z.replied = b.replied /\ z.buffer = SubSeq(b.buffer, 1, h - 1)
       /\ z.cache = SubSeq(c, 1, KeepCache(b, m, p))
       /\ z.sampled = IF KeepCache(b, m, p) < Len(c) THEN c[KeepCache(b, m, p) + 1] ELSE NoTok
  BY <1>2, <1>6 DEF RewoundTo
<1>15. Len(c) \in Nat /\ p - 1 < Len(c) /\ (p - 1) + 1 = p
  BY <1>3, <1>11
<1>16. z.cache = d /\ z.sampled = c[p]
  BY <1>13, <1>14, <1>15
<1>17. Append(z.cache, z.sampled) = Whole(z)
  <2>1. Whole(z) = Prompt \o k \o SubSeq(Append(w, tok), 1, h - 1)
    BY <1>2, <1>14, Zenon DEF Whole
  <2>. QED BY <1>11, <1>16, <2>1
<1>18. Len(z.buffer) < NBuffer
  <2>1. Len(SubSeq(b.buffer, 1, h - 1)) = h - 1
    <3>1. b.buffer \in Seq(Tokens)
      BY <1>2 DEF SlotOK, SlotRec
    <3>2. h - 1 \in Nat /\ h - 1 <= Len(b.buffer)
      BY <1>2, <1>3
    <3>. QED BY <3>1, <3>2, Prefix
  <2>2. Len(z.buffer) = h - 1
    BY <1>14, <2>1, Zenon
  <2>. QED BY <1>1, <1>3, <2>2
<1>19. Len(d) = p - 1
  BY <1>3, <1>11, Prefix
<1>20. conf.recurrent => SavedOf(r.m, z.cache) /\ Covers(r.m, Len(Prompt) + Len(z.replied) - 2, Len(z.cache) - 1)
  <2> SUFFICES ASSUME conf.recurrent
               PROVE  SavedOf(r.m, z.cache) /\ Covers(r.m, Len(Prompt) + Len(z.replied) - 2, Len(z.cache) - 1)
    OBVIOUS
  <2>1. SavedOf(r.m, z.cache)
    BY <1>13, <1>16
  <2>2. Len(Prompt) + Len(z.replied) - 2 = n - 2 /\ Len(z.cache) - 1 = p - 2
    <3>1. Len(z.replied) = Len(k) /\ Len(z.cache) = p - 1
      BY <1>2, <1>14, <1>16, <1>19
    <3>2. (p - 1) - 1 = p - 2
      OBVIOUS
    <3>. QED BY <1>7, <3>1, <3>2
  <2>3. ASSUME NEW i \in (n - 2)..(p - 2) PROVE \E x \in r.m.saved : x.pos = i
    <3>1. i \in (n - 2)..(Len(c) - 1) /\ i < p - 1
      BY <1>4, <1>12, <1>15
    <3>2. PICK x \in m.saved : x.pos = i
      BY <1>1, <3>1 DEF Covers
    <3>. QED BY <1>13, <3>1, <3>2
  <2>4. Covers(r.m, n - 2, p - 2)
    BY <2>3 DEF Covers
  <2>. QED BY <2>1, <2>2, <2>4
<1>21. RowsAre(r.m, z.cache) /\ z.sampled \in Tokens
  BY <1>11, <1>13, <1>16
<1>22. z.st = "processing"
  BY <1>1, <1>2, <1>14
<1>. QED BY <1>17, <1>18, <1>20, <1>21, <1>22 DEF Settled, z

\* The token is handed on, or the slot has gone back.
Kept(s, m, tok, r) ==
  \/ Settled(r.s, r.m) /\ r.s.st = "processing" /\ r.rewound = TRUE
  \/ WentOn(s, tok, r.s) /\ r.m = m /\ r.rewound = FALSE

\* buffer_and_check_string_ban and the context.
LEMMA BufferContext ==
    ASSUME conf \in Confs, NEW s, Ready(s), NEW m \in MemRec, NEW f \in Seq(Tokens), Ahead(s, m, f),
           NEW tok \in Tokens, NBuffer > 0, NEW r, r = BufferAndCheck(s, m, tok)
    PROVE  Kept(s, m, tok, r)
<1> DEFINE b == Buffered(s, tok)
<1>1. s \in SlotOK
  BY DEF Ready
<1>2. Rewound(b, m, r) \/ Waits(b, m, tok, r) \/ Sends(b, m, r)
  BY <1>1, BufferAndCheckCases
<1>3. b = Buffered(s, tok)
  OBVIOUS
<1> HIDE DEF b
<1>4. CASE Rewound(b, m, r)
  <2>1. r.rewound = TRUE
    BY <1>4 DEF Rewound
  <2>2. Settled(r.s, r.m) /\ r.s.st = "processing"
    BY <1>3, <1>4, SettledRewound
  <2>. QED BY <2>1, <2>2 DEF Kept
<1>5. CASE Waits(b, m, tok, r) \/ Sends(b, m, r)
  <2>1. WentOn(s, tok, r.s)
    BY <1>3, <1>5, WentOnBuffered
  <2>2. r.m = m /\ r.rewound = FALSE
    BY <1>5 DEF Waits, Sends
  <2>. QED BY <2>1, <2>2 DEF Kept
<1>. QED BY <1>2, <1>4, <1>5

\* A token handed on with nothing decoded ahead of it leaves the slot ready for the next pass.
LEMMA WentOnSettled ==
    ASSUME conf \in Confs, NEW s \in SlotOK, NEW m, Ahead(s, m, s.cache), NEW tok \in Tokens, NEW z, WentOn(s, tok, z)
    PROVE  Settled(z, m)
<1>1. /\ RowsAre(m, s.cache)
      /\ conf.recurrent /\ NBuffer > 0 =>
           SavedOf(m, s.cache) /\ Covers(m, Len(Prompt) + Len(s.replied) - 2, Len(s.cache) - 1)
  BY DEF Ahead
<1>2. /\ z.cache = s.cache /\ z.sampled = tok /\ Append(z.cache, tok) = Whole(z)
      /\ NBuffer > 0 => Len(z.buffer) < NBuffer
      /\ Len(z.replied) \in Nat /\ Len(z.replied) >= Len(s.replied)
  BY DEF WentOn
<1> DEFINE kz == Len(z.replied)
           ks == Len(s.replied)
           e == Len(s.cache)
           q == Len(Prompt)
<1>3. kz \in Nat /\ ks \in Nat /\ kz >= ks /\ e \in Nat /\ q \in Nat
  <2>1. s.replied \in Seq(Tokens) /\ s.cache \in Seq(Tokens) /\ Prompt \in Seq(Tokens)
    BY VocabFacts DEF SlotOK, SlotRec
  <2>. QED BY <1>2, <2>1
<1>4. Covers(m, q + ks - 2, e - 1) => Covers(m, q + kz - 2, e - 1)
  <2> HIDE DEF kz, ks, e, q
  <2>1. (q + kz - 2)..(e - 1) \subseteq (q + ks - 2)..(e - 1)
    BY <1>3
  <2>. QED BY <2>1 DEF Covers
<1>5. conf.recurrent /\ NBuffer > 0 => SavedOf(m, z.cache) /\ Covers(m, Len(Prompt) + Len(z.replied) - 2, Len(z.cache) - 1)
  <2> SUFFICES ASSUME conf.recurrent, NBuffer > 0
               PROVE  SavedOf(m, z.cache) /\ Covers(m, q + kz - 2, Len(z.cache) - 1)
    OBVIOUS
  <2>1. SavedOf(m, s.cache) /\ Covers(m, q + kz - 2, e - 1)
    BY <1>1, <1>4
  <2>. QED BY <1>2, <2>1
<1>. QED BY <1>1, <1>2, <1>5 DEF Settled

\* A token handed on without a buffer, alone or of a draft.
LEMMA WentOnSingle ==
    ASSUME conf \in Confs, NEW s, Ready(s), s.cache = Whole(s), NEW tok \in Tokens, NBuffer = 0
    PROVE  /\ WentOn(s, tok, SendTokenResults([s EXCEPT !.buffer = <<tok>>], 0))
           /\ WentOn(s, tok, Finish(ProcessToken(s, tok, TRUE)))
<1> DEFINE k == s.replied
<1>1. s \in SlotOK /\ s.buffer = <<>>
  BY DEF Ready
<1>2. k \in Seq(Tokens) /\ Prompt \in Seq(Tokens) /\ Len(k) \in Nat /\ <<>> \in Seq(Tokens) /\ <<tok>> \in Seq(Tokens)
  BY <1>1, VocabFacts DEF SlotOK, SlotRec
<1>3. s.cache = Prompt \o k \o <<>>
  BY <1>1 DEF Whole
<1> HIDE DEF k
<1>4. Append(s.cache, tok) = Prompt \o k \o <<tok>>
  <2>1. Append(Prompt \o k \o <<>>, tok) = Prompt \o k \o Append(<<>>, tok)
    BY <1>2, WholeMore
  <2>2. Append(<<>>, tok) = <<tok>>
    OBVIOUS
  <2>. QED BY <1>3, <2>1, <2>2
<1>5. WentOn(s, tok, SendTokenResults([s EXCEPT !.buffer = <<tok>>], 0))
  <2> DEFINE b == [s EXCEPT !.buffer = <<tok>>]
             z == SendTokenResults(b, 0)
  <2>1. b = [s EXCEPT !.buffer = <<tok>>] /\ z = SendTokenResults(b, 0)
    OBVIOUS
  <2> HIDE DEF b, z
  <2>2. Handled(b, 0, z) /\ b \in SlotOK /\ b.buffer = <<tok>> /\ b.cache = s.cache /\ b.replied = s.replied
    BY <2>1, SingleCounted
  <2>3. Whole(z) = Whole(b) /\ Len(z.replied) \in Nat /\ Len(z.replied) >= Len(b.replied)
    BY <2>2, HandledWhole
  <2>4. z.cache = b.cache /\ z.sampled = b.buffer[Len(b.buffer)]
    BY <2>2 DEF Handled
  <2>5. z.sampled = tok
    BY <2>2, <2>4
  <2>6. Whole(b) = Prompt \o k \o <<tok>>
    BY <2>2 DEF Whole, k
  <2>7. Append(z.cache, tok) = Whole(z) /\ z.cache = s.cache /\ Len(z.replied) >= Len(s.replied)
    BY <1>4, <2>2, <2>3, <2>4, <2>6
  <2>8. WentOn(s, tok, z)
    BY <2>3, <2>5, <2>7 DEF WentOn
  <2>. QED BY <2>8 DEF b, z
<1>6. WentOn(s, tok, Finish(ProcessToken(s, tok, TRUE)))
  <2> DEFINE z == Finish(ProcessToken(s, tok, TRUE))
  <2>1. z = Finish(ProcessToken(s, tok, TRUE))
    OBVIOUS
  <2> HIDE DEF z
  <2>2. z.cache = s.cache /\ z.sampled = tok /\ z.replied = Append(k, tok) /\ z.buffer = <<>>
    BY <2>1, FinishCounted, ZenonT(40) DEF k
  <2>3. Whole(z) = Prompt \o Append(k, tok) \o <<>>
    BY <2>2 DEF Whole
  <2>4. Prompt \o Append(k, tok) \o <<>> = Prompt \o k \o <<tok>>
    <3> DEFINE a == Prompt \o k
               d == Prompt \o Append(k, tok)
    <3>1. Append(k, tok) \in Seq(Tokens) /\ a \in Seq(Tokens)
      BY <1>2
    <3>2. d \in Seq(Tokens)
      BY <1>2, <3>1
    <3>3. Append(k, tok) = k \o <<tok>>
      BY <1>2, AppendIsConcat
    <3>4. (Prompt \o k) \o <<tok>> = Prompt \o (k \o <<tok>>)
      BY <1>2, ConcatAssociative
    <3> HIDE DEF d
    <3>5. d \o <<>> = d
      BY <3>2, ConcatEmptySeq
    <3>. QED BY <3>3, <3>4, <3>5 DEF d
  <2>5. Len(z.replied) = Len(k) + 1
    <3>1. Len(Append(k, tok)) = Len(k) + 1
      BY <1>2
    <3>. QED BY <2>2, <3>1
  <2>6. Len(z.replied) \in Nat /\ Len(z.replied) >= Len(s.replied)
    <3> DEFINE kz == Len(z.replied)
               ks == Len(k)
    <3>1. kz = ks + 1 /\ ks \in Nat
      BY <1>2, <2>5
    <3> HIDE DEF kz, ks
    <3>2. kz \in Nat /\ kz >= ks
      BY <3>1
    <3>. QED BY <3>2 DEF kz, ks, k
  <2>7. WentOn(s, tok, z)
    BY <1>4, <2>2, <2>3, <2>4, <2>6 DEF WentOn
  <2>. QED BY <2>7 DEF z
<1>. QED BY <1>5, <1>6

\* llama_decode on the memory: the rows of the new tokens follow, the checkpoints stay.
LEMMA DecodedRows ==
    ASSUME conf \in Confs, NEW m \in MemRec, NEW c \in Seq(Tokens), NEW f \in Seq(Tokens), RowsAre(m, c)
    PROVE  RowsAre(Decoded(m, f, Len(c)), c \o f) /\ Decoded(m, f, Len(c)).saved = m.saved
<1> DEFINE d == Decoded(m, f, Len(c))
           x == m.rows \o Rows(f, Len(c))
           y == IF conf.recurrent THEN m.rs \o f ELSE m.rs
<1>1. d = [m EXCEPT !.rows = x, !.rs = y]
  BY DEF Decoded
<1>2. d.rows = x /\ d.rs = y /\ d.saved = m.saved
  <2> HIDE DEF x, y
  <2>. QED BY <1>1 DEF MemRec
<1>3. x = Rows(c \o f, 0)
  BY RowsJoin DEF RowsAre
<1>4. conf.recurrent => y = c \o f
  BY DEF RowsAre
<1>5. RowsAre(d, c \o f)
  <2> HIDE DEF x, y, d
  <2>. QED BY <1>2, <1>3, <1>4 DEF RowsAre
<1>. QED BY <1>2, <1>5

\* llama_rewind_ckpt_discard: only checkpoints go, and none that the buffer can need.
LEMMA DroppedRows ==
    ASSUME conf \in Confs, NEW m \in MemRec, NEW n \in Int, NEW d, d = DropOld(m, n)
    PROVE  /\ d.rows = m.rows /\ d.rs = m.rs /\ d.saved \subseteq m.saved
           /\ \A lo \in Int : \A hi \in Int : lo >= n - NBuffer - 3 /\ Covers(m, lo, hi) => Covers(d, lo, hi)
<1> DEFINE S == {x \in m.saved : x.pos >= n - NBuffer - 3}
<1>1. d = [m EXCEPT !.saved = S]
  BY DEF DropOld
<1>2. d.rows = m.rows /\ d.rs = m.rs /\ d.saved = S
  <2> HIDE DEF S
  <2>. QED BY <1>1 DEF MemRec
<1>3. NBuffer \in Nat
  BY NBufferFacts
<1>4. ASSUME NEW lo \in Int, NEW hi \in Int, lo >= n - NBuffer - 3, Covers(m, lo, hi), NEW q \in lo..hi
      PROVE  \E x \in d.saved : x.pos = q
  <2>1. PICK x \in m.saved : x.pos = q
    BY <1>4 DEF Covers
  <2>2. q \in Int /\ q >= n - NBuffer - 3
    BY <1>3, <1>4
  <2>. QED BY <1>2, <2>1, <2>2
<1>5. ASSUME NEW lo \in Int, NEW hi \in Int, lo >= n - NBuffer - 3, Covers(m, lo, hi) PROVE Covers(d, lo, hi)
  BY <1>4, <1>5 DEF Covers
<1>6. d.saved \subseteq m.saved
  BY <1>2
<1>. QED BY <1>2, <1>5, <1>6

\* create_rewind_checkpoint adds one of the tokens in the memory.
LEMMA SavedRows ==
    ASSUME conf \in Confs, NEW m \in MemRec, NEW c \in Seq(Tokens), RowsAre(m, c), NEW d, d = SaveRewind(m)
    PROVE  /\ RowsAre(d, c)
           /\ conf.recurrent /\ NBuffer > 0 /\ SavedOf(m, c) =>
                SavedOf(d, c) /\ \A lo \in Int : Covers(m, lo, Len(c) - 2) => Covers(d, lo, Len(c) - 1)
<1>1. PosMax(m.rows) = Len(c) - 1 /\ Len(c) \in Nat
  BY RowsMax DEF RowsAre
<1>2. CASE ~conf.recurrent \/ NBuffer = 0
  <2>1. d = m
    BY <1>2 DEF SaveRewind
  <2>. QED BY <1>2, <2>1
<1>3. CASE conf.recurrent /\ NBuffer # 0
  <2> DEFINE new == [pos |-> PosMax(m.rows), rows |-> m.rows, rs |-> m.rs]
             S == {x \in m.saved : x.pos # PosMax(m.rows)} \cup {new}
  <2>1. d = [m EXCEPT !.saved = S]
    BY <1>3 DEF SaveRewind
  <2>2. d.rows = m.rows /\ d.rs = m.rs /\ d.saved = S
    <3> HIDE DEF S
    <3>. QED BY <2>1 DEF MemRec
  <2>3. RowsAre(d, c)
    BY <2>2 DEF RowsAre
  <2>4. new.pos = Len(c) - 1 /\ new.rows = Rows(c, 0) /\ new.rs = c
    BY <1>1, <1>3 DEF RowsAre
  <2>5. new \in d.saved /\ \A x \in d.saved : x = new \/ x \in m.saved
    BY <2>2
  <2>6. \A x \in m.saved : x.pos # Len(c) - 1 => x \in d.saved
    BY <1>1, <2>2
  <2> HIDE DEF new, S
  <2>7. ASSUME SavedOf(m, c) PROVE SavedOf(d, c)
    <3>1. SubSeq(c, 1, (Len(c) - 1) + 1) = c /\ Len(c) - 1 < Len(c)
      BY <1>1
    <3>2. new.pos < Len(c) /\ new.rs = SubSeq(c, 1, new.pos + 1) /\ new.rows = Rows(new.rs, 0)
      BY <2>4, <3>1
    <3>. QED BY <2>5, <2>7, <3>2 DEF SavedOf
  <2>8. ASSUME NEW lo \in Int, Covers(m, lo, Len(c) - 2), NEW q \in lo..(Len(c) - 1)
        PROVE  \E x \in d.saved : x.pos = q
    <3>1. CASE q = Len(c) - 1
      BY <2>4, <2>5, <3>1
    <3>2. CASE q # Len(c) - 1
      <4>1. q \in lo..(Len(c) - 2)
        BY <1>1, <3>2
      <4>2. PICK x \in m.saved : x.pos = q
        BY <2>8, <4>1 DEF Covers
      <4>. QED BY <2>6, <3>2, <4>2
    <3>. QED BY <3>1, <3>2
  <2>9. ASSUME NEW lo \in Int, Covers(m, lo, Len(c) - 2) PROVE Covers(d, lo, Len(c) - 1)
    BY <2>8, <2>9 DEF Covers
  <2>. QED BY <2>3, <2>7, <2>9
<1>4. conf.recurrent \in BOOLEAN /\ NBuffer \in Nat
  BY ConfFacts, NBufferFacts
<1>. QED BY <1>2, <1>3, <1>4

\* The slot before its first token.
Fresh(s, m) ==
  /\ s.sampled = NoTok /\ s.n_decoded = 0 /\ s.cache = Prompt /\ s.replied = <<>> /\ s.buffer = <<>>
  /\ RowsAre(m, Prompt)
  /\ conf.recurrent /\ NBuffer > 0 => SavedOf(m, Prompt) /\ Covers(m, Len(Prompt) - 2, Len(Prompt) - 2)

\* The cache with the token to decode, as every pass starts from it.
Standing(s, m, c) ==
  /\ s.cache = Whole(s) /\ RowsAre(m, c) /\ (NBuffer > 0 => Len(s.buffer) < NBuffer)
  /\ conf.recurrent /\ NBuffer > 0 =>
       SavedOf(m, c) /\ Covers(m, Len(Prompt) + Len(s.replied) - 2, Len(s.cache) - 2)

\* A pass starts from the context of the reply.
LEMMA FedStanding ==
    ASSUME conf \in Confs, slot \in SlotOK, mem \in MemRec, Settled(slot, mem) \/ Fresh(slot, mem)
    PROVE  Standing(Fed, mem, slot.cache)
<1>1. Fed.cache = slot.cache \o Feed /\ Fed.buffer = slot.buffer /\ Fed.replied = slot.replied
  BY FedFacts
<1>2. slot.cache \in Seq(Tokens) /\ slot.sampled \in Tokens \cup {NoTok} /\ NoTok \notin Tokens /\ Prompt \in Seq(Tokens)
      /\ Len(Prompt) \in Nat /\ NBuffer \in Nat
  BY VocabFacts, NBufferFacts DEF SlotOK, SlotRec
<1>3. CASE Settled(slot, mem)
  <2> DEFINE c == slot.cache
             t == slot.sampled
  <2>1. t \in Tokens /\ Append(c, t) = Whole(slot) /\ RowsAre(mem, c)
        /\ (NBuffer > 0 => Len(slot.buffer) < NBuffer)
        /\ (conf.recurrent /\ NBuffer > 0 =>
              SavedOf(mem, c) /\ Covers(mem, Len(Prompt) + Len(slot.replied) - 2, Len(c) - 1))
    BY <1>3 DEF Settled
  <2>2. Feed = <<t>>
    BY <1>2, <2>1 DEF Feed
  <2>3. c \in Seq(Tokens)
    BY <1>2
  <2> HIDE DEF c, t
  <2>4. Append(c, t) = c \o <<t>> /\ Len(Append(c, t)) = Len(c) + 1 /\ Len(c) \in Nat
    BY <2>1, <2>3, AppendIsConcat
  <2>5. Fed.cache = Append(c, t)
    BY <1>1, <2>2, <2>4 DEF c
  <2>6. Fed.cache = Whole(Fed)
    BY <1>1, <2>1, <2>5 DEF Whole
  <2>7. Len(Fed.cache) - 2 = Len(c) - 1
    <3>1. Len(Fed.cache) = Len(c) + 1
      BY <2>4, <2>5
    <3> DEFINE a == Len(c)
    <3>2. a \in Nat /\ Len(Fed.cache) = a + 1
      BY <2>4, <3>1
    <3> HIDE DEF a
    <3>3. Len(Fed.cache) - 2 = a - 1
      BY <3>2
    <3>. QED BY <3>3 DEF a
  <2>. QED BY <1>1, <2>1, <2>6, <2>7 DEF Standing, c
<1>4. CASE Fresh(slot, mem)
  <2>1. /\ slot.sampled = NoTok /\ slot.cache = Prompt /\ slot.replied = <<>> /\ slot.buffer = <<>> /\ RowsAre(mem, Prompt)
        /\ conf.recurrent /\ NBuffer > 0 => SavedOf(mem, Prompt) /\ Covers(mem, Len(Prompt) - 2, Len(Prompt) - 2)
    BY <1>4 DEF Fresh
  <2>2. Feed = <<>>
    BY <2>1 DEF Feed
  <2>3. Prompt \o <<>> = Prompt
    BY <1>2, ConcatEmptySeq
  <2>4. Fed.cache = Prompt
    BY <1>1, <2>1, <2>2, <2>3
  <2>5. Whole(Fed) = (Prompt \o <<>>) \o <<>>
    BY <1>1, <2>1 DEF Whole
  <2>6. Fed.cache = Whole(Fed)
    BY <2>3, <2>4, <2>5
  <2>7. Len(Fed.replied) = 0 /\ Len(Fed.buffer) = 0
    BY <1>1, <2>1
  <2>8. Len(Prompt) + Len(Fed.replied) - 2 = Len(Prompt) - 2 /\ Len(Fed.cache) - 2 = Len(Prompt) - 2
    BY <1>2, <2>4, <2>7
  <2>. QED BY <1>2, <2>1, <2>6, <2>7, <2>8 DEF Standing
<1>. QED BY <1>3, <1>4

\* Checkpoints of prefixes of a sequence are checkpoints of prefixes of a longer one.
LEMMA SavedLonger ==
    ASSUME NEW m \in MemRec, NEW d, d.saved \subseteq m.saved, NEW c \in Seq(Tokens), NEW f \in Seq(Tokens), SavedOf(m, c)
    PROVE  SavedOf(d, c \o f)
<1> DEFINE e == c \o f
           n == Len(c)
           l == Len(f)
<1>1. e \in Seq(Tokens) /\ Len(e) = n + l /\ n \in Nat /\ l \in Nat /\ \A i \in 1..n : e[i] = c[i]
  BY Concat
<1> HIDE DEF e
<1>2. ASSUME NEW x \in d.saved PROVE x.pos < Len(e) /\ x.rs = SubSeq(e, 1, x.pos + 1) /\ x.rows = Rows(x.rs, 0)
  <2>1. x \in m.saved
    BY <1>2
  <2>2. x.pos < n /\ x.rs = SubSeq(c, 1, x.pos + 1) /\ x.rows = Rows(x.rs, 0)
    BY <2>1 DEF SavedOf
  <2>3. x.pos \in Int /\ x.pos >= -1
    BY <2>1 DEF MemRec
  <2> DEFINE j == x.pos + 1
  <2>4. j \in Nat /\ j <= n /\ j <= Len(e) /\ x.pos < Len(e) /\ \A i \in 1..j : e[i] = c[i]
    <3> HIDE DEF n, l
    <3>. QED BY <1>1, <2>2, <2>3
  <2> HIDE DEF j
  <2>5. SubSeq(e, 1, j) = SubSeq(c, 1, j)
    BY <1>1, <2>4, SamePrefix
  <2>. QED BY <2>2, <2>4, <2>5 DEF j
<1>. QED BY <1>2 DEF SavedOf, e

\* A pass without a draft, decoded and with its checkpoint.
LEMMA GenerateAhead ==
    ASSUME conf \in Confs, slot \in SlotOK, mem \in MemRec, Standing(Fed, mem, slot.cache),
           NEW s, s.cache = Fed.cache, s.replied = Fed.replied, s.buffer = Fed.buffer,
           NEW m, m = Decoded(mem, Feed, Len(slot.cache)), NEW k, k = m \/ k = DropOld(m, Len(Fed.cache))
    PROVE  Ahead(s, SaveRewind(k), s.cache) /\ (NBuffer = 0 => Ahead(s, m, s.cache))
<1> DEFINE c == slot.cache
           f == c \o Feed
           n == Len(f)
           lo == Len(Prompt) + Len(s.replied) - 2
           q == SaveRewind(k)
<1>1. /\ Feed \in Seq(Tokens) /\ c \in Seq(Tokens) /\ Fed.cache = f /\ f \in Seq(Tokens)
      /\ Fed.replied \in Seq(Tokens) /\ Fed.buffer \in Seq(Tokens)
  BY FedFacts DEF SlotOK, SlotRec
<1>2. /\ Fed.cache = Whole(Fed) /\ RowsAre(mem, c) /\ (NBuffer > 0 => Len(Fed.buffer) < NBuffer)
      /\ conf.recurrent /\ NBuffer > 0 =>
           SavedOf(mem, c) /\ Covers(mem, Len(Prompt) + Len(Fed.replied) - 2, Len(Fed.cache) - 2)
  BY DEF Standing
<1>3. RowsAre(m, f) /\ m.saved = mem.saved /\ m \in MemRec
  <2> HIDE DEF c
  <2>1. RowsAre(Decoded(mem, Feed, Len(c)), f) /\ Decoded(mem, Feed, Len(c)).saved = mem.saved
    BY <1>1, <1>2, DecodedRows
  <2>2. Decoded(mem, Feed, Len(c)) \in MemRec
    <3>1. Len(c) \in Int
      BY <1>1
    <3>. QED BY <1>1, <3>1, MemFacts
  <2>. QED BY <2>1, <2>2 DEF c
<1>4. n \in Nat /\ Prompt \in Seq(Tokens) /\ Len(s.replied) \in Nat /\ Len(s.buffer) \in Nat /\ NBuffer \in Nat /\ lo \in Int
  <2>1. Len(Fed.replied) \in Nat /\ Len(Fed.buffer) \in Nat /\ n \in Nat
    BY <1>1
  <2>. QED BY <2>1, VocabFacts, NBufferFacts
<1>5. s.cache = f /\ s.cache = Whole(s)
  BY <1>1, <1>2 DEF Whole
<1> HIDE DEF f
<1>6. n = Len(Prompt) + Len(s.replied) + Len(s.buffer)
  <2>1. s.cache = Prompt \o s.replied \o s.buffer
    BY <1>5 DEF Whole
  <2> DEFINE x == s.replied
             y == s.buffer
             d == Prompt \o x
  <2>2. x \in Seq(Tokens) /\ y \in Seq(Tokens) /\ Prompt \in Seq(Tokens)
    BY <1>1, <1>4
  <2> HIDE DEF x, y
  <2>3. d \in Seq(Tokens) /\ Len(d) = Len(Prompt) + Len(x)
    BY <2>2
  <2> HIDE DEF d
  <2>4. Len(d \o y) = Len(d) + Len(y)
    BY <2>2, <2>3, Concat, Zenon
  <2>5. f = d \o y
    BY <1>5, <2>1 DEF d, x, y
  <2>. QED BY <2>3, <2>4, <2>5 DEF x, y
<1>7. k \in MemRec /\ RowsAre(k, f) /\ k.saved \subseteq mem.saved
  <2>1. CASE k = m
    BY <1>3, <2>1
  <2>2. CASE k = DropOld(m, Len(Fed.cache))
    <3>1. Len(Fed.cache) = n /\ n \in Int
      BY <1>1, <1>4
    <3> DEFINE e == DropOld(m, n)
    <3>2. k = e /\ e \in MemRec
      BY <1>3, <2>2, <3>1, MemFacts
    <3>5. e = DropOld(m, n)
      OBVIOUS
    <3> HIDE DEF e, n
    <3>3. e.rows = m.rows /\ e.rs = m.rs /\ e.saved \subseteq m.saved
      BY <1>3, <3>1, <3>5, DroppedRows
    <3>4. RowsAre(e, f)
      BY <1>3, <3>3 DEF RowsAre
    <3>. QED BY <1>3, <3>2, <3>3, <3>4
  <2>. QED BY <2>1, <2>2
<1>8. RowsAre(q, f)
  BY <1>1, <1>7, SavedRows DEF f
<1>9. f = SubSeq(f, 1, Len(f)) /\ Len(f) <= Len(f)
  BY <1>1, <1>4, SubSeqFull DEF f
<1>10. NBuffer > 0 => Len(s.buffer) < NBuffer
  BY <1>2
<1>11. ASSUME conf.recurrent, NBuffer > 0 PROVE SavedOf(q, f) /\ Covers(q, lo, n - 1)
  <2>1. SavedOf(mem, c) /\ Covers(mem, lo, n - 2)
    BY <1>1, <1>2, <1>11
  <2>2. SavedOf(k, f)
    <3> HIDE DEF c
    <3>1. SavedOf(k, c \o Feed)
      BY <1>1, <1>7, <2>1, SavedLonger
    <3>. QED BY <3>1 DEF f, c
  <2>3. Covers(m, lo, n - 2)
    BY <1>3, <2>1 DEF Covers
  <2>4. Covers(k, lo, n - 2)
    <3>1. CASE k = m
      BY <2>3, <3>1
    <3>2. CASE k = DropOld(m, Len(Fed.cache))
      <4>1. lo >= n - NBuffer - 3 /\ n - 2 \in Int /\ n \in Int /\ lo \in Int
        <5> DEFINE a == Len(Prompt)
                   b == Len(s.replied)
                   l == Len(s.buffer)
        <5>1. a \in Nat /\ b \in Nat /\ l \in Nat /\ n \in Nat /\ n = a + b + l /\ l < NBuffer /\ NBuffer \in Nat
          <6>1. a \in Nat
            BY <1>4
          <6>2. b \in Nat /\ l \in Nat /\ n \in Nat /\ NBuffer \in Nat
            BY <1>4
          <6>3. n = a + b + l
            BY <1>6
          <6>4. l < NBuffer
            BY <1>10, <1>11
          <6>. QED BY <6>1, <6>2, <6>3, <6>4
        <5>2. lo = a + b - 2
          OBVIOUS
        <5> HIDE DEF a, b, l, n, lo
        <5>. QED BY <5>1, <5>2
      <4>2. k = DropOld(m, n)
        BY <1>1, <3>2
      <4> HIDE DEF lo, n
      <4>3. Covers(m, lo, n - 2) => Covers(k, lo, n - 2)
        BY <1>3, <4>1, <4>2, DroppedRows
      <4>. QED BY <2>3, <4>3
    <3>. QED BY <3>1, <3>2
  <2>5. f \in Seq(Tokens) /\ n = Len(f)
    BY <1>1 DEF f
  <2> HIDE DEF lo, q, n
  <2>6. SavedOf(q, f) /\ (Covers(k, lo, Len(f) - 2) => Covers(q, lo, Len(f) - 1))
    BY <1>4, <1>7, <1>11, <2>2, <2>5, SavedRows DEF q
  <2>. QED BY <2>4, <2>5, <2>6
<1>12. Ahead(s, q, s.cache)
  BY <1>5, <1>8, <1>9, <1>10, <1>11 DEF Ahead
<1>13. ASSUME NBuffer = 0 PROVE Ahead(s, m, s.cache)
  BY <1>3, <1>5, <1>9, <1>13 DEF Ahead
<1>. QED BY <1>12, <1>13

\* The slot after k tokens of a draft; f is what was decoded, n tokens of it before the draft.
Going(f, n, m, ids, k, a) ==
  /\ a.s.st = "processing" /\ a.rewound = FALSE /\ a.m = m
  /\ NBuffer > 0 => Len(a.s.buffer) < NBuffer
  /\ k = 0 => a.s.cache = SubSeq(f, 1, n) /\ a.s.cache = Whole(a.s)
  /\ k > 0 => /\ a.s.cache = SubSeq(f, 1, n + k - 1) /\ a.s.sampled = ids[k]
              /\ Append(a.s.cache, ids[k]) = Whole(a.s)

Drafted(f, n, m, ids, k, a) ==
  \/ Settled(a.s, a.m) /\ a.s.st = "processing" /\ a.rewound = TRUE
  \/ Going(f, n, m, ids, k, a)
  \/ /\ a.s.st = "done" /\ a.m = m /\ a.s.sampled \in Tokens
     /\ \E j \in 0..Len(f) : a.s.cache = SubSeq(f, 1, j)

\* The context for the token at j of what was decoded.
Reached(s, m, f, j) ==
  Ahead(s, m, f) /\ s.cache = SubSeq(f, 1, j) /\ j \in 0..Len(f) /\ s.cache = Whole(s)

\* The next token of a draft finds the context of the reply.
LEMMA DraftAhead ==
    ASSUME conf \in Confs, ~(conf.recurrent /\ NBuffer > 0), NEW f \in Seq(Tokens), NEW n \in Nat, NEW m \in MemRec,
           NEW ids \in Seq(Tokens), Len(f) = n + Len(ids) - 1, \A i \in 1..(Len(ids) - 1) : f[n + i] = ids[i],
           RowsAre(m, f), NEW k \in 1..Len(ids), NEW a \in Pass, Going(f, n, m, ids, k - 1, a),
           NEW c, c = (IF k > 1 THEN Append(a.s.cache, ids[k - 1]) ELSE a.s.cache),
           NEW s, s.cache = c, s.replied = a.s.replied, s.buffer = a.s.buffer
    PROVE  Reached(s, m, f, n + k - 1)
<1> DEFINE N == Len(ids)
           j == n + k - 1
<1>1. N \in Nat /\ Len(f) = n + N - 1 /\ k \in 1..N
  OBVIOUS
<1>2. j \in 0..Len(f) /\ j \in Nat /\ j <= Len(f)
  BY <1>1
<1>3. a.s.cache \in Seq(Tokens)
  BY DEF Pass, SlotOK, SlotRec
<1>4. Whole(s) = Whole(a.s)
  BY DEF Whole
<1>5. s.cache = SubSeq(f, 1, j) /\ s.cache = Whole(s)
  <2>1. CASE k = 1
    <3>1. k - 1 = 0 /\ j = n /\ ~(k > 1)
      BY <2>1
    <3>2. a.s.cache = SubSeq(f, 1, n) /\ a.s.cache = Whole(a.s)
      BY <3>1 DEF Going
    <3>3. s.cache = a.s.cache
      BY <3>1
    <3>. QED BY <1>4, <3>1, <3>2, <3>3
  <2>2. CASE k > 1
    <3> DEFINE i == k - 1
    <3>1. i > 0 /\ n + i - 1 = j - 1 /\ i \in 1..(N - 1) /\ i \in 1..N /\ n + i = j
      BY <1>1, <2>2
    <3>2. a.s.cache = SubSeq(f, 1, n + i - 1) /\ Append(a.s.cache, ids[i]) = Whole(a.s)
      <4> HIDE DEF i
      <4>1. Going(f, n, m, ids, i, a)
        BY DEF i
      <4>. QED BY <3>1, <4>1 DEF Going
    <3>3. s.cache = Append(a.s.cache, ids[i])
      BY <2>2
    <3>4. f[j] = ids[i] /\ ids[i] \in Tokens
      <4>1. f[n + i] = ids[i]
        BY <3>1
      <4>2. ids[i] \in Tokens
        BY <3>1
      <4>. QED BY <3>1, <4>1, <4>2
    <3>5. a.s.cache = SubSeq(f, 1, j - 1)
      BY <3>1, <3>2
    <3>6. j \in 1..Len(f)
      BY <1>1, <2>2
    <3> HIDE DEF i, j
    <3>7. SubSeq(f, 1, j) = SubSeq(f, 1, j - 1) \o <<f[j]>>
      <4>1. 1 \in 1..Len(f)
        BY <3>6
      <4>. QED BY <3>6, <4>1, SubSeqRecursiveSecond
    <3>8. Append(a.s.cache, ids[i]) = a.s.cache \o <<ids[i]>>
      BY <1>3, <3>4, AppendIsConcat
    <3>. QED BY <1>4, <3>2, <3>3, <3>4, <3>5, <3>7, <3>8
  <2>. QED BY <2>1, <2>2
<1> HIDE DEF j
<1>6. Len(s.cache) = j
  <2>1. Len(SubSeq(f, 1, j)) = j
    BY <1>2, Prefix
  <2>. QED BY <1>5, <2>1
<1>7. NBuffer > 0 => Len(s.buffer) < NBuffer
  BY DEF Going
<1>8. Ahead(s, m, f)
  <2>1. Len(s.cache) <= Len(f) /\ s.cache = SubSeq(f, 1, Len(s.cache))
    BY <1>2, <1>5, <1>6
  <2>. QED BY <1>5, <1>7, <2>1 DEF Ahead
<1>. QED BY <1>2, <1>5, <1>8 DEF j, Reached

\* One token of a draft and the context.
LEMMA DraftStep ==
    ASSUME conf \in Confs, ~(conf.recurrent /\ NBuffer > 0), NEW f \in Seq(Tokens), NEW n \in Nat, NEW m \in MemRec,
           NEW ids \in Seq(Tokens), Len(f) = n + Len(ids) - 1, \A i \in 1..(Len(ids) - 1) : f[n + i] = ids[i],
           RowsAre(m, f), NEW k \in 1..Len(ids), NEW a \in Pass, Drafted(f, n, m, ids, k - 1, a)
    PROVE  Drafted(f, n, m, ids, k, ReplyWith(a, ids, k))
<1> DEFINE c == IF k > 1 THEN Append(a.s.cache, ids[k - 1]) ELSE a.s.cache
           s == [a.s EXCEPT !.n_decoded = @ + 1, !.cache = c]
           z == Finish(ProcessToken(s, ids[k], TRUE))
           r == BufferAndCheck(s, a.m, ids[k])
           y == ReplyWith(a, ids, k)
           j == n + k - 1
<1>1. y = IF a.s.st = "done" \/ a.rewound THEN a ELSE IF NBuffer > 0 THEN r ELSE [a EXCEPT !.s = z]
  BY DEF ReplyWith
<1>2. Counted(a.s) /\ a.s \in SlotOK /\ a.m \in MemRec /\ a \in [s : SlotOK, m : MemRec, rewound : BOOLEAN]
  BY DEF Pass
<1>3. a.s.cache \in Seq(Tokens) /\ ids[k] \in Tokens
  BY <1>2, SMTT(40) DEF SlotOK, SlotRec
<1>4. c \in Seq(Tokens)
  <2>1. k > 1 => k - 1 \in 1..Len(ids)
    OBVIOUS
  <2>. QED BY <1>3, <2>1
<1>5. c = IF k > 1 THEN Append(a.s.cache, ids[k - 1]) ELSE a.s.cache
  OBVIOUS
<1> HIDE DEF c, y
<1>n. NBuffer \in Nat
  BY NBufferFacts
<1>6. CASE a.s.st = "done" \/ a.rewound
  <2>1. y = a
    BY <1>1, <1>6
  <2>2. ~Going(f, n, m, ids, k - 1, a)
    BY <1>6 DEF Going
  <2>3. Drafted(f, n, m, ids, k, a)
    BY <2>2 DEF Drafted
  <2>. QED BY <2>1, <2>3 DEF y
<1>7. CASE ~(a.s.st = "done" \/ a.rewound)
  <2>1. a.s.st = "processing"
    BY <1>2, <1>7 DEF Counted
  <2>2. Going(f, n, m, ids, k - 1, a)
    BY <1>7 DEF Drafted
  <2>10. s = [a.s EXCEPT !.n_decoded = @ + 1, !.cache = c]
    OBVIOUS
  <2> HIDE DEF s
  <2>3. Ready(s) /\ s.cache = c /\ s.buffer = a.s.buffer /\ s.replied = a.s.replied
    <3> DEFINE q == a.s
    <3>1. Counted(q) /\ q.st = "processing" /\ s = [q EXCEPT !.n_decoded = @ + 1, !.cache = c]
      BY <1>2, <2>1, <2>10
    <3> HIDE DEF q
    <3>2. Ready(s) /\ s.cache = c /\ s.buffer = q.buffer /\ s.replied = q.replied
      <4>1. Ready(s)
        BY <1>4, <3>1, CountUp
      <4>2. s.cache = c /\ s.buffer = q.buffer /\ s.replied = q.replied
        <5>1. q \in SlotRec
          BY <3>1 DEF Counted, SlotOK
        <5>. QED BY <3>1, <5>1 DEF SlotRec
      <4>. QED BY <4>1, <4>2
    <3>. QED BY <3>2 DEF q
  <2>4. Ahead(s, m, f) /\ s.cache = SubSeq(f, 1, j) /\ j \in 0..Len(f) /\ s.cache = Whole(s)
    <3>1. s.cache = c /\ s.buffer = a.s.buffer /\ s.replied = a.s.replied
      BY <2>3
    <3>2. Reached(s, m, f, n + k - 1)
      BY <1>5, <2>2, <3>1, DraftAhead
    <3>. QED BY <3>2 DEF Reached
  <2>5. a.m = m
    BY <2>2 DEF Going
  <2>6. k > 0 /\ k # 0
    OBVIOUS
  <2>7. ASSUME NEW x, x.m = m, x.rewound = FALSE, WentOn(s, ids[k], x.s), x.s.st \in {"processing", "done"}
        PROVE  Drafted(f, n, m, ids, k, x)
    <3>1. /\ x.s.cache = s.cache /\ x.s.sampled = ids[k] /\ Append(x.s.cache, ids[k]) = Whole(x.s)
          /\ NBuffer > 0 => Len(x.s.buffer) < NBuffer
      BY <2>7 DEF WentOn
    <3>2. CASE x.s.st = "processing"
      <4>1. Going(f, n, m, ids, k, x)
        BY <2>4, <2>6, <2>7, <3>1, <3>2, Zenon DEF Going
      <4>. QED BY <4>1 DEF Drafted
    <3>3. CASE x.s.st = "done"
      <4>1. x.s.sampled \in Tokens /\ x.s.cache = SubSeq(f, 1, j)
        BY <1>3, <2>4, <3>1
      <4> HIDE DEF j
      <4>. QED BY <2>4, <2>7, <3>3, <4>1 DEF Drafted
    <3>. QED BY <2>7, <3>2, <3>3
  <2>8. CASE NBuffer > 0
    <3>1. y = r
      BY <1>1, <1>7, <2>8
    <3>2. Counted(r.s)
      BY <1>2, <1>3, <2>3, <2>8, BufferCounted
    <3>3. r = BufferAndCheck(s, m, ids[k])
      BY <2>5
    <3> HIDE DEF r
    <3>4. \/ Settled(r.s, r.m) /\ r.s.st = "processing" /\ r.rewound = TRUE
          \/ WentOn(s, ids[k], r.s) /\ r.m = m /\ r.rewound = FALSE
      <4> DEFINE tok == ids[k]
      <4>1. tok \in Tokens /\ Ready(s) /\ Ahead(s, m, f) /\ r = BufferAndCheck(s, m, tok)
        BY <1>3, <2>3, <2>4, <3>3
      <4> HIDE DEF tok
      <4>2. Kept(s, m, tok, r)
        BY <2>8, <4>1, BufferContext
      <4>. QED BY <4>2 DEF Kept, tok
    <3>5. r.s.st \in {"processing", "done"}
      BY <3>2 DEF Counted
    <3>6. Drafted(f, n, m, ids, k, r)
      <4>1. CASE Settled(r.s, r.m) /\ r.s.st = "processing" /\ r.rewound = TRUE
        BY <4>1 DEF Drafted
      <4>2. CASE WentOn(s, ids[k], r.s) /\ r.m = m /\ r.rewound = FALSE
        BY <2>7, <3>5, <4>2
      <4>. QED BY <3>4, <4>1, <4>2
    <3>. QED BY <3>1, <3>6 DEF y
  <2>9. CASE ~(NBuffer > 0)
    <3>0. NBuffer = 0
      BY <1>n, <2>9
    <3>1. y = [a EXCEPT !.s = z]
      BY <1>1, <1>7, <2>9
    <3>2. Counted(z)
      BY <1>3, <2>3, <3>0, FinishCounted, Zenon
    <3>3. WentOn(s, ids[k], z)
      BY <1>3, <2>3, <2>4, <3>0, WentOnSingle
    <3> HIDE DEF z
    <3>4. z.st \in {"processing", "done"} /\ z \in SlotOK
      BY <3>2 DEF Counted
    <3>5. y.s = z /\ y.m = a.m /\ y.rewound = a.rewound
      BY <1>2, <3>1
    <3>6. y.m = m /\ y.rewound = FALSE
      <4>1. a.rewound = FALSE
        BY <2>2 DEF Going
      <4>. QED BY <2>5, <3>5, <4>1
    <3>7. Drafted(f, n, m, ids, k, y)
      BY <2>7, <3>3, <3>4, <3>5, <3>6
    <3>. QED BY <3>7 DEF y
  <2>. QED BY <2>8, <2>9
<1>. QED BY <1>6, <1>7

\* What a pass leaves.
PassOK(s, m) ==
  /\ s.sampled \in Tokens /\ (s.st = "processing" => Settled(s, m))
  /\ IsPrefix(Rows(s.cache, 0), m.rows)

\* The rows of a prefix are a prefix of the rows.
LEMMA RowsPrefix ==
    ASSUME NEW m, NEW f \in Seq(Tokens), RowsAre(m, f), NEW j \in 0..Len(f)
    PROVE  IsPrefix(Rows(SubSeq(f, 1, j), 0), m.rows) /\ IsPrefix(Rows(f, 0), m.rows)
<1>1. j \in Nat /\ j <= Len(f) /\ Len(f) \in Nat /\ Len(f) <= Len(f) /\ SubSeq(f, 1, Len(f)) = f
  BY SubSeqFull
<1>2. IsPrefix(Rows(SubSeq(f, 1, j), 0), Rows(f, 0)) /\ IsPrefix(Rows(SubSeq(f, 1, Len(f)), 0), Rows(f, 0))
  BY <1>1, RowsCut
<1>. QED BY <1>1, <1>2 DEF RowsAre

\* A slot ready for the next pass has passed.
LEMMA SettledPass ==
    ASSUME NEW s \in SlotOK, NEW m, Settled(s, m)
    PROVE  PassOK(s, m)
<1>1. s.cache \in Seq(Tokens) /\ s.sampled \in Tokens /\ RowsAre(m, s.cache)
  BY DEF Settled, SlotOK, SlotRec
<1> DEFINE c == s.cache
<1>2. c \in Seq(Tokens) /\ RowsAre(m, c) /\ Len(c) \in 0..Len(c)
  BY <1>1
<1> HIDE DEF c
<1>3. IsPrefix(Rows(c, 0), m.rows)
  BY <1>2, RowsPrefix
<1>. QED BY <1>1, <1>3 DEF PassOK, c

\* A pass without a draft.
LEMMA SinglePass ==
    ASSUME conf \in Confs, slot \in SlotOK, mem \in MemRec, Standing(Fed, mem, slot.cache),
           NEW s, Ready(s), s.cache = Fed.cache, s.replied = Fed.replied, s.buffer = Fed.buffer,
           NEW m, m = Decoded(mem, Feed, Len(slot.cache)), NEW k, k = m \/ k = DropOld(m, Len(Fed.cache)),
           k \in MemRec, NEW tok \in Tokens
    PROVE  /\ NBuffer = 0 => PassOK(SendTokenResults([s EXCEPT !.buffer = <<tok>>], 0), m)
           /\ NBuffer > 0 => LET r == BufferAndCheck(s, SaveRewind(k), tok) IN PassOK(r.s, r.m)
<1>1. Ahead(s, SaveRewind(k), s.cache) /\ (NBuffer = 0 => Ahead(s, m, s.cache))
  BY GenerateAhead, Zenon
<1>2. s \in SlotOK /\ s.cache \in Seq(Tokens)
  BY DEF Ready, SlotOK, SlotRec
<1>3. ASSUME NBuffer = 0 PROVE PassOK(SendTokenResults([s EXCEPT !.buffer = <<tok>>], 0), m)
  <2> DEFINE z == SendTokenResults([s EXCEPT !.buffer = <<tok>>], 0)
  <2>1. Ahead(s, m, s.cache)
    BY <1>1, <1>3
  <2>2. s.cache = Whole(s)
    BY <2>1 DEF Ahead
  <2>3. WentOn(s, tok, z)
    BY <1>3, <2>2, WentOnSingle
  <2>4. Counted(z)
    BY <1>3, SingleCounted
  <2> HIDE DEF z
  <2>5. Settled(z, m)
    BY <1>2, <2>1, <2>3, WentOnSettled
  <2>6. z \in SlotOK
    BY <2>4 DEF Counted
  <2>7. PassOK(z, m)
    BY <2>5, <2>6, SettledPass
  <2>. QED BY <2>7 DEF z
<1>4. ASSUME NBuffer > 0 PROVE LET r == BufferAndCheck(s, SaveRewind(k), tok) IN PassOK(r.s, r.m)
  <2> DEFINE q == SaveRewind(k)
             f == s.cache
             r == BufferAndCheck(s, q, tok)
  <2>1. q \in MemRec
    BY MemFacts
  <2>2. r = BufferAndCheck(s, q, tok) /\ Ahead(s, q, f) /\ f \in Seq(Tokens)
    BY <1>1, <1>2
  <2>3. f = s.cache
    OBVIOUS
  <2> HIDE DEF q, r, f
  <2>4. Kept(s, q, tok, r)
    BY <1>4, <2>1, <2>2, BufferContext
  <2>5. Counted(r.s)
    BY <1>4, <2>1, <2>2, BufferCounted
  <2>6. r.s \in SlotOK
    BY <2>5 DEF Counted
  <2>7. Settled(r.s, r.m)
    <3>1. CASE Settled(r.s, r.m)
      BY <3>1
    <3>2. CASE WentOn(s, tok, r.s) /\ r.m = q
      <4> DEFINE z == r.s
      <4>1. WentOn(s, tok, z) /\ Ahead(s, q, s.cache)
        BY <2>2, <2>3, <3>2
      <4> HIDE DEF z
      <4>2. Settled(z, q)
        BY <1>2, <4>1, WentOnSettled
      <4>. QED BY <3>2, <4>2 DEF z
    <3>. QED BY <2>4, <3>1, <3>2 DEF Kept
  <2>8. PassOK(r.s, r.m)
    BY <2>6, <2>7, SettledPass
  <2>. QED BY <2>8 DEF r, q
<1>. QED BY <1>3, <1>4

\* What a draft decodes.
DraftFrom(f, n, ids) ==
  /\ f \in Seq(Tokens) /\ n \in Nat /\ Len(f) = n + Len(ids) - 1
  /\ \A i \in 1..(Len(ids) - 1) : f[n + i] = ids[i]

\* The accepted tokens but the last follow the cache.
LEMMA DraftTokens ==
    ASSUME NEW c \in Seq(Tokens), NEW ids \in Seq(Tokens), ids # <<>>, NEW f, f = c \o Front(ids)
    PROVE  DraftFrom(f, Len(c), ids) /\ SubSeq(f, 1, Len(c)) = c
<1> DEFINE d == Front(ids)
           n == Len(c)
           l == Len(ids)
<1>1. l \in Nat /\ l >= 1 /\ n \in Nat
  OBVIOUS
<1>2. d = SubSeq(ids, 1, l - 1)
  BY DEF Front
<1>3. d \in Seq(Tokens) /\ Len(d) = l - 1 /\ \A i \in 1..(l - 1) : d[i] = ids[i]
  <2>1. l - 1 \in Nat /\ l - 1 <= Len(ids)
    BY <1>1
  <2> HIDE DEF d
  <2>. QED BY <1>2, <2>1, Prefix
<1> HIDE DEF d
<1>4. f \in Seq(Tokens) /\ Len(f) = n + Len(d) /\ (\A i \in 1..n : f[i] = c[i]) /\ \A i \in 1..Len(d) : f[n + i] = d[i]
  <2>1. /\ c \o d \in Seq(Tokens) /\ Len(c \o d) = Len(c) + Len(d)
        /\ \A i \in 1..Len(c) : (c \o d)[i] = c[i]
        /\ \A i \in 1..Len(d) : (c \o d)[Len(c) + i] = d[i]
    <3>1. d \in Seq(Tokens)
      BY <1>3
    <3>. QED BY <3>1, ConcatTokens, Zenon
  <2>. QED BY <2>1 DEF d
<1>5. Len(f) = n + l - 1
  <2> HIDE DEF n, l
  <2>. QED BY <1>1, <1>3, <1>4
<1>6. \A i \in 1..(l - 1) : f[n + i] = ids[i]
  BY <1>3, <1>4
<1>7. SubSeq(f, 1, n) = SubSeq(c, 1, n)
  <2>1. n <= Len(f) /\ n <= Len(c)
    BY <1>1, <1>5
  <2>. QED BY <1>1, <1>4, <2>1, SamePrefix
<1>8. SubSeq(c, 1, n) = c
  BY SubSeqFull
<1>. QED BY <1>1, <1>4, <1>5, <1>6, <1>7, <1>8 DEF DraftFrom

\* What a draft decodes before its tokens are handed on.
LEMMA DraftContext ==
    ASSUME conf \in Confs, slot \in SlotOK, mem \in MemRec, Standing(Fed, mem, slot.cache),
           NEW ids \in Seq(Tokens), ids # <<>>,
           NEW m, m = Decoded(SaveRewind(DropOld(mem, Len(slot.cache))), Feed \o Front(ids), Len(slot.cache))
    PROVE  \E f \in Seq(Tokens) : /\ m \in MemRec /\ RowsAre(m, f) /\ DraftFrom(f, Len(Fed.cache), ids)
                                  /\ SubSeq(f, 1, Len(Fed.cache)) = Fed.cache
<1> DEFINE c == slot.cache
           g == Feed \o Front(ids)
           f == c \o g
           o == DropOld(mem, Len(c))
           b == SaveRewind(o)
           n == Len(Fed.cache)
<1>1. /\ Feed \in Seq(Tokens) /\ c \in Seq(Tokens) /\ Fed.cache = c \o Feed /\ Fed.cache \in Seq(Tokens)
      /\ Front(ids) \in Seq(Tokens) /\ Len(c) \in Int
  <2>1. Front(ids) \in Seq(Tokens)
    BY DEF Front
  <2>2. c \in Seq(Tokens)
    BY DEF SlotOK, SlotRec
  <2>. QED BY <2>1, <2>2, FedFacts
<1>2. Fed.cache = Whole(Fed) /\ RowsAre(mem, c) /\ (NBuffer > 0 => Len(Fed.buffer) < NBuffer)
  BY DEF Standing
<1>3. g \in Seq(Tokens)
  BY <1>1
<1>4. m = Decoded(b, g, Len(c))
  OBVIOUS
<1>5. f = Fed.cache \o Front(ids)
  <2>1. (c \o Feed) \o Front(ids) = c \o (Feed \o Front(ids))
    <3> DEFINE x == Feed
               y == Front(ids)
    <3>1. c \in Seq(Tokens) /\ x \in Seq(Tokens) /\ y \in Seq(Tokens)
      BY <1>1
    <3> HIDE DEF c, x, y
    <3>2. (c \o x) \o y = c \o (x \o y)
      BY <3>1, ConcatTokens, SMTT(40)
    <3>. QED BY <3>2 DEF x, y
  <2>. QED BY <1>1, <2>1
<1> HIDE DEF c, g
<1>6. b \in MemRec /\ RowsAre(b, c)
  <2>1. o \in MemRec
    BY <1>1, MemFacts
  <2>2. o.rows = mem.rows /\ o.rs = mem.rs
    <3>1. o = DropOld(mem, Len(c))
      OBVIOUS
    <3> HIDE DEF o
    <3>. QED BY <1>1, <3>1, DroppedRows
  <2> HIDE DEF o
  <2>3. RowsAre(o, c)
    BY <1>2, <2>2 DEF RowsAre
  <2>. QED BY <1>1, <2>1, <2>3, MemFacts, SavedRows
<1> HIDE DEF b
<1>7. m \in MemRec /\ RowsAre(m, f)
  BY <1>1, <1>3, <1>4, <1>6, MemFacts, DecodedRows, ZenonT(40)
<1>8. DraftFrom(f, n, ids) /\ SubSeq(f, 1, n) = Fed.cache
  <2> DEFINE e == Fed.cache
  <2>1. e \in Seq(Tokens) /\ f = e \o Front(ids)
    BY <1>1, <1>5
  <2> HIDE DEF e, f
  <2>2. DraftFrom(f, Len(e), ids) /\ SubSeq(f, 1, Len(e)) = e
    BY <2>1, DraftTokens
  <2>. QED BY <2>2 DEF e
<1>9. f \in Seq(Tokens)
  BY <1>8 DEF DraftFrom
<1> HIDE DEF f
<1>. QED BY <1>7, <1>8, <1>9

\* A pass with a draft.
LEMMA DraftPass ==
    ASSUME conf \in Confs, slot \in SlotOK, mem \in MemRec, Standing(Fed, mem, slot.cache), Counted(Fed),
           Fed.st = "processing", ~(conf.recurrent /\ NBuffer > 0), NEW ids \in Seq(Tokens), ids # <<>>,
           NEW m, m = Decoded(SaveRewind(DropOld(mem, Len(slot.cache))), Feed \o Front(ids), Len(slot.cache)),
           NEW r, r = ReplyWithAll(Fed, m, ids)
    PROVE  PassOK(r.s, r.m)
<1> DEFINE n == Len(Fed.cache)
           N == Len(ids)
<1>1. N \in Nat /\ N >= 1
  OBVIOUS
<1>2. Fed.cache = Whole(Fed) /\ (NBuffer > 0 => Len(Fed.buffer) < NBuffer)
  BY DEF Standing
<1>7. PICK f \in Seq(Tokens) : m \in MemRec /\ RowsAre(m, f) /\ DraftFrom(f, n, ids) /\ SubSeq(f, 1, n) = Fed.cache
  BY DraftContext
<1> HIDE DEF n
<1>9. f \in Seq(Tokens) /\ n \in Nat /\ Len(f) = n + Len(ids) - 1 /\ \A i \in 1..(Len(ids) - 1) : f[n + i] = ids[i]
  BY <1>7 DEF DraftFrom
<1> DEFINE X == [k \in 0..N |-> {a \in Pass : Drafted(f, n, m, ids, k, a)}]
<1>10. /\ \A k \in 0..N : X[k] = {a \in Pass : Drafted(f, n, m, ids, k, a)}
       /\ \A k \in 1..N : k - 1 \in 0..N /\ k \in 0..N
       /\ 0 \in 0..N /\ N \in 0..N
  BY <1>1
<1> HIDE DEF X
<1>11. r \in X[N]
  <2> DEFINE a == [s |-> Fed, m |-> m, rewound |-> FALSE]
  <2>1. a \in Pass
    <3>1. Fed \in SlotOK
      BY DEF Counted
    <3>. QED BY <1>7, <3>1 DEF Pass
  <2>2. Going(f, n, m, ids, 0, a)
    <3>1. a.s = Fed /\ a.m = m /\ a.rewound = FALSE /\ 0 = 0 /\ ~(0 > 0)
      OBVIOUS
    <3> HIDE DEF a
    <3>. QED BY <1>2, <1>7, <3>1 DEF Going
  <2>3. Drafted(f, n, m, ids, 0, a)
    BY <2>2 DEF Drafted
  <2>4. a \in X[0]
    <3> HIDE DEF a
    <3>. QED BY <1>10, <2>1, <2>3
  <2>5. ASSUME NEW k \in 1..N, NEW x \in X[k - 1] PROVE ReplyWith(x, ids, k) \in X[k]
    <3>1. x \in Pass /\ Drafted(f, n, m, ids, k - 1, x) /\ k \in 1..Len(ids)
      BY <1>10
    <3>2. ReplyWith(x, ids, k) \in Pass
      BY <3>1, ReplyWithPass
    <3>3. Drafted(f, n, m, ids, k, ReplyWith(x, ids, k))
      BY <1>7, <1>9, <3>1, DraftStep
    <3>. QED BY <1>10, <3>2, <3>3
  <2>6. ReplyWithAll(Fed, m, ids) \in X[N]
    BY <2>4, <2>5, ReplyWithAllIn
  <2>. QED BY <2>6
<1>12. r \in Pass /\ Drafted(f, n, m, ids, N, r)
  BY <1>10, <1>11
<1>13. r.s \in SlotOK
  BY <1>12 DEF Pass
<1>14. CASE Settled(r.s, r.m)
  BY <1>13, <1>14, SettledPass
<1>15. CASE Going(f, n, m, ids, N, r)
  <2>1. /\ r.m = m /\ (NBuffer > 0 => Len(r.s.buffer) < NBuffer) /\ r.s.cache = SubSeq(f, 1, n + N - 1)
        /\ r.s.sampled = ids[N] /\ Append(r.s.cache, ids[N]) = Whole(r.s)
    BY <1>1, <1>15 DEF Going
  <2>2. SubSeq(f, 1, n + N - 1) = f
    BY <1>9, SubSeqFull
  <2>3. ids[N] \in Tokens
    BY <1>1
  <2>4. Settled(r.s, r.m)
    BY <1>7, <2>1, <2>2, <2>3 DEF Settled
  <2>. QED BY <1>13, <2>4, SettledPass
<1>16. CASE r.s.st = "done" /\ r.m = m /\ r.s.sampled \in Tokens /\ \E j \in 0..Len(f) : r.s.cache = SubSeq(f, 1, j)
  <2>1. PICK j \in 0..Len(f) : r.s.cache = SubSeq(f, 1, j)
    BY <1>16
  <2>2. IsPrefix(Rows(SubSeq(f, 1, j), 0), m.rows)
    BY <1>7, <1>9, RowsPrefix
  <2>. QED BY <1>16, <2>1, <2>2 DEF PassOK
<1>. QED BY <1>12, <1>14, <1>15, <1>16 DEF Drafted

\* A draft of a recurrent model runs without banned phrases.
LEMMA DraftsSafe ==
    ASSUME SafeRequests(Confs), conf \in Confs, slot \in SlotOK, NDraftMax > 0
    PROVE  ~(conf.recurrent /\ NBuffer > 0)
<1>1. conf.draft > 0
  <2>1. conf.draft \in Nat /\ slot.n_remaining \in Int
    BY ConfFacts DEF SlotOK, SlotRec
  <2>2. CASE slot.n_remaining > 0
    <3>1. NDraftMax = Min({conf.draft, slot.n_remaining - 1})
      BY <2>2 DEF NDraftMax
    <3>2. Min({conf.draft, slot.n_remaining - 1}) = IF conf.draft <= slot.n_remaining - 1 THEN conf.draft ELSE slot.n_remaining - 1
      BY <2>1, MinPair
    <3> DEFINE x == conf.draft
               y == slot.n_remaining
    <3>3. x \in Nat /\ y \in Int /\ (IF x <= y - 1 THEN x ELSE y - 1) > 0
      BY <2>1, <3>1, <3>2
    <3> HIDE DEF x, y
    <3>4. x > 0
      BY <3>3
    <3>. QED BY <3>4 DEF x
  <2>3. CASE ~(slot.n_remaining > 0)
    BY <2>3 DEF NDraftMax
  <2>. QED BY <2>2, <2>3
<1>2. conf.recurrent => conf.phrases = {}
  BY <1>1 DEF SafeRequests
<1>3. conf.phrases = {} => NBuffer = 0
  BY NBufferFacts
<1>. QED BY <1>2, <1>3

\* The invariant: a slot that goes on is ready for its next pass, and a released one keeps
\* the rows cache_tokens promises.
ContextInv ==
  /\ slot.st = "processing" => Settled(slot, mem) \/ Fresh(slot, mem)
  /\ slot.sampled \in Tokens \/ slot.n_decoded = 0
  /\ IsPrefix(Rows(slot.cache, 0), mem.rows)

\* The first pass begins so.
LEMMA ContextInit == Init => ContextInv
<1> SUFFICES ASSUME Init PROVE ContextInv
  OBVIOUS
<1> DEFINE d == Front(Prompt)
           m0 == [rows |-> Rows(d, 0), rs |-> d, saved |-> {}]
           b == SaveRewind(m0)
           l == Len(Prompt)
<1>1. conf \in Confs
  BY DEF Init
<1>2. /\ slot.st = "processing" /\ slot.cache = Prompt /\ slot.sampled = NoTok /\ slot.buffer = <<>>
      /\ slot.replied = <<>> /\ slot.n_decoded = 0
  BY DEF Init
<1>3. Prompt \in Seq(Tokens) /\ l \in Nat /\ l >= 2 /\ d = SubSeq(Prompt, 1, l - 1)
  BY VocabFacts DEF Front
<1>4. d \in Seq(Tokens) /\ Len(d) = l - 1 /\ \A i \in 1..(l - 1) : d[i] = Prompt[i]
  <2>1. l - 1 \in Nat /\ l - 1 <= Len(Prompt)
    BY <1>3
  <2> HIDE DEF d
  <2>. QED BY <1>3, <2>1, Prefix
<1>5. mem = [b EXCEPT !.rows = Rows(Prompt, 0), !.rs = Prompt]
  BY DEF Init
<1> HIDE DEF d
<1>6. m0 \in MemRec
  BY <1>4, RowsInOrder DEF MemRec
<1>7. RowsAre(m0, d) /\ m0.saved = {}
  BY DEF RowsAre
<1> HIDE DEF m0
<1>8. b \in MemRec
  BY <1>1, <1>6, MemFacts
<1>9. conf.recurrent /\ NBuffer > 0 => SavedOf(b, d) /\ Covers(b, l - 2, l - 2)
  <2> SUFFICES ASSUME conf.recurrent, NBuffer > 0 PROVE SavedOf(b, d) /\ Covers(b, l - 2, l - 2)
    OBVIOUS
  <2>1. SavedOf(m0, d)
    BY <1>7 DEF SavedOf
  <2>2. l - 2 \in Int /\ Len(d) - 2 = l - 3 /\ Len(d) - 1 = l - 2
    BY <1>3, <1>4
  <2>3. Covers(m0, l - 2, Len(d) - 2)
    <3>1. (l - 2)..(l - 3) = {}
      BY <1>3
    <3>. QED BY <2>2, <3>1 DEF Covers
  <2>4. b = SaveRewind(m0)
    OBVIOUS
  <2> HIDE DEF b
  <2>5. SavedOf(b, d) /\ \A lo \in Int : Covers(m0, lo, Len(d) - 2) => Covers(b, lo, Len(d) - 1)
    BY <1>1, <1>4, <1>6, <1>7, <2>1, <2>4, SavedRows
  <2>6. Covers(b, l - 2, Len(d) - 1)
    BY <2>2, <2>3, <2>5
  <2>. QED BY <2>2, <2>5, <2>6
<1> HIDE DEF b
<1>10. mem.rows = Rows(Prompt, 0) /\ mem.rs = Prompt /\ mem.saved = b.saved
  <2>1. b \in [rows : Seq(RowRec), rs : Seq(Tokens), saved : SUBSET [pos : Int, rows : Seq(RowRec), rs : Seq(Tokens)]]
    BY <1>8 DEF MemRec
  <2>2. Rows(Prompt, 0) \in Seq(RowRec)
    BY <1>3, RowsInOrder
  <2>. QED BY <1>3, <1>5, <2>1, <2>2
<1>11. RowsAre(mem, Prompt)
  BY <1>10 DEF RowsAre
<1>12. conf.recurrent /\ NBuffer > 0 => SavedOf(mem, Prompt) /\ Covers(mem, l - 2, l - 2)
  <2> SUFFICES ASSUME conf.recurrent, NBuffer > 0 PROVE SavedOf(mem, Prompt) /\ Covers(mem, l - 2, l - 2)
    OBVIOUS
  <2>1. Covers(mem, l - 2, l - 2)
    BY <1>9, <1>10 DEF Covers
  <2>2. ASSUME NEW x \in mem.saved PROVE x.pos < l /\ x.rs = SubSeq(Prompt, 1, x.pos + 1) /\ x.rows = Rows(x.rs, 0)
    <3>1. x \in b.saved
      BY <1>10, <2>2
    <3>2. x.pos < Len(d) /\ x.rs = SubSeq(d, 1, x.pos + 1) /\ x.rows = Rows(x.rs, 0)
      BY <1>9, <3>1 DEF SavedOf
    <3>3. x.pos \in Int /\ x.pos >= -1
      BY <1>8, <3>1 DEF MemRec
    <3> DEFINE j == x.pos + 1
    <3>4. j \in Nat /\ j <= l - 1 /\ x.pos < l
      BY <1>3, <1>4, <3>2, <3>3
    <3>5. SubSeq(d, 1, j) = SubSeq(Prompt, 1, j)
      <4>1. \A i \in 1..j : d[i] = Prompt[i]
        BY <1>3, <1>4, <3>4
      <4>2. j <= Len(d) /\ j <= Len(Prompt)
        BY <1>3, <1>4, <3>4
      <4> HIDE DEF j
      <4>. QED BY <1>3, <1>4, <3>4, <4>1, <4>2, SamePrefix
    <3>. QED BY <3>2, <3>4, <3>5
  <2>3. SavedOf(mem, Prompt)
    BY <2>2 DEF SavedOf
  <2>. QED BY <2>1, <2>3
<1>13. Fresh(slot, mem)
  BY <1>2, <1>11, <1>12 DEF Fresh
<1>14. IsPrefix(Rows(Prompt, 0), mem.rows)
  <2>1. 0 \in 0..Len(Prompt)
    BY <1>3
  <2>. QED BY <1>3, <1>11, <2>1, RowsPrefix
<1>. QED BY <1>2, <1>13, <1>14 DEF ContextInv

\* Every pass keeps it.
LEMMA ContextNext ==
    ASSUME SafeRequests(Confs)
    PROVE  ReplyInv /\ ContextInv /\ [Next]_vars => ContextInv'
<1> SUFFICES ASSUME ReplyInv, ContextInv, [Next]_vars PROVE ContextInv'
  OBVIOUS
<1>1. /\ conf \in Confs /\ mem \in MemRec /\ rb \in BudgetOK(conf) /\ slot \in SlotOK
      /\ slot.st # "error" => Counted(slot)
  BY DEF ReplyInv
<1>2. /\ slot.st = "processing" => Settled(slot, mem) \/ Fresh(slot, mem)
      /\ slot.sampled \in Tokens \/ slot.n_decoded = 0
      /\ IsPrefix(Rows(slot.cache, 0), mem.rows)
  BY DEF ContextInv
<1>3. /\ Feed \in Seq(Tokens) /\ Fed \in SlotOK /\ Fed.cache = slot.cache \o Feed /\ Fed.cache \in Seq(Tokens)
      /\ Fed.st = slot.st /\ Fed.buffer = slot.buffer /\ Fed.n_decoded = slot.n_decoded /\ Fed.replied = slot.replied
      /\ Fed.text = slot.text /\ Fed.n_sent = slot.n_sent /\ Fed.word = slot.word /\ Fed.eos = slot.eos
      /\ Fed.sampled = slot.sampled
  BY <1>1, FedFacts
<1>4. slot.st = "processing" => Counted(Fed)
  BY <1>1, <1>3, CountedSame
<1>5. slot.st = "processing" => Standing(Fed, mem, slot.cache)
  BY <1>1, <1>2, FedStanding
<1>6. Len(slot.cache) \in Int /\ Len(Fed.cache) \in Int /\ slot.cache \in Seq(Tokens)
  <2>1. slot.cache \in Seq(Tokens)
    BY <1>1 DEF SlotOK, SlotRec
  <2>. QED BY <1>3, <2>1
<1>7. ASSUME conf' = conf, PassOK(slot', mem') PROVE ContextInv'
  <2>1. NBuffer' = NBuffer
    BY <1>7 DEF NBuffer
  <2>2. /\ slot'.sampled \in Tokens /\ IsPrefix(Rows(slot'.cache, 0), mem'.rows)
        /\ slot'.st = "processing" => Settled(slot', mem')
    BY <1>7 DEF PassOK
  <2>3. Settled(slot', mem') => Settled(slot, mem)'
    BY <1>7, <2>1 DEF Settled, RowsAre
  <2>. QED BY <2>2, <2>3 DEF ContextInv
<1>8. CASE Generate
  <2> DEFINE n == Len(Fed.cache)
             m == Decoded(mem, Feed, Len(slot.cache))
             kept == IF slot.n_decoded > 0 THEN DropOld(m, n) ELSE m
             s == [Fed EXCEPT !.n_decoded = @ + 1]
             r(tok) == IF NBuffer = 0
                       THEN [s |-> SendTokenResults([s EXCEPT !.buffer = <<tok>>], 0), m |-> m]
                       ELSE BufferAndCheck(s, SaveRewind(kept), tok)
  <2>1. /\ slot.st = "processing" /\ conf' = conf
        /\ \E tok \in Candidates(rb, slot.bans, n) :
             rb' = BudgetAccept(conf, rb, tok) /\ slot' = r(tok).s /\ mem' = r(tok).m
    BY <1>8 DEF Generate
  <2>2. PICK tok \in Candidates(rb, slot.bans, n) : slot' = r(tok).s /\ mem' = r(tok).m
    BY <2>1
  <2>3. tok \in Tokens
    BY <1>1, CandidateTokens
  <2>4. m \in MemRec
    BY <1>1, <1>3, <1>6, MemFacts
  <2>5. kept \in MemRec /\ (kept = m \/ kept = DropOld(m, n))
    <3> HIDE DEF m
    <3>. QED BY <1>1, <1>6, <2>4, MemFacts
  <2>6. Ready(s) /\ s.cache = Fed.cache /\ s.replied = Fed.replied /\ s.buffer = Fed.buffer
    <3> DEFINE F == Fed
    <3>0. F \in SlotRec
      BY <1>3 DEF SlotOK
    <3>f. s = [F EXCEPT !.n_decoded = @ + 1] /\ F = Fed
      OBVIOUS
    <3> HIDE DEF F, s
    <3>1. s = [F EXCEPT !.n_decoded = @ + 1, !.cache = F.cache]
      BY <3>0, <3>f DEF SlotRec
    <3>2. Counted(F) /\ F.st = "processing" /\ F.cache \in Seq(Tokens)
      BY <1>3, <1>4, <2>1, <3>f
    <3>3. Ready(s)
      BY <1>1, <3>1, <3>2, CountUp
    <3>4. s.cache = F.cache /\ s.replied = F.replied /\ s.buffer = F.buffer
      BY <3>0, <3>f DEF SlotRec
    <3>. QED BY <3>f, <3>3, <3>4
  <2>7. m = Decoded(mem, Feed, Len(slot.cache))
    OBVIOUS
  <2> HIDE DEF s, m, kept
  <2>8. Standing(Fed, mem, slot.cache)
    BY <1>5, <2>1
  <2>9. /\ NBuffer = 0 => PassOK(SendTokenResults([s EXCEPT !.buffer = <<tok>>], 0), m)
        /\ NBuffer > 0 => PassOK(BufferAndCheck(s, SaveRewind(kept), tok).s, BufferAndCheck(s, SaveRewind(kept), tok).m)
    BY <1>1, <2>3, <2>5, <2>6, <2>7, <2>8, SinglePass, Zenon
  <2>10. CASE NBuffer = 0
    <3>1. slot' = SendTokenResults([s EXCEPT !.buffer = <<tok>>], 0) /\ mem' = m
      BY <2>2, <2>10
    <3>. QED BY <1>7, <2>1, <2>9, <2>10, <3>1
  <2>11. CASE NBuffer # 0
    <3>1. slot' = BufferAndCheck(s, SaveRewind(kept), tok).s /\ mem' = BufferAndCheck(s, SaveRewind(kept), tok).m
      BY <2>2, <2>11
    <3>2. NBuffer > 0
      BY <1>1, <2>11, NBufferFacts
    <3>. QED BY <1>7, <2>1, <2>9, <3>1, <3>2
  <2>. QED BY <2>10, <2>11
<1>9. CASE Speculate
  <2> DEFINE before == SaveRewind(DropOld(mem, Len(slot.cache)))
             M(ids) == Decoded(before, Feed \o Front(ids), Len(slot.cache))
  <2>1. /\ slot.st = "processing" /\ conf' = conf /\ NDraftMax > 0
        /\ \E ids \in Accepted :
             slot' = ReplyWithAll(Fed, M(ids), ids).s /\ mem' = ReplyWithAll(Fed, M(ids), ids).m
    BY <1>9 DEF Speculate
  <2>2. PICK ids \in Accepted : slot' = ReplyWithAll(Fed, M(ids), ids).s /\ mem' = ReplyWithAll(Fed, M(ids), ids).m
    BY <2>1
  <2>3. ids \in Seq(Tokens) /\ ids # <<>>
    BY <1>1, AcceptedTokens
  <2>5. ~(conf.recurrent /\ NBuffer > 0)
    BY <1>1, <2>1, DraftsSafe
  <2> DEFINE m == M(ids)
             r == ReplyWithAll(Fed, m, ids)
  <2>6. m = Decoded(SaveRewind(DropOld(mem, Len(slot.cache))), Feed \o Front(ids), Len(slot.cache))
        /\ r = ReplyWithAll(Fed, m, ids) /\ slot' = r.s /\ mem' = r.m
    BY <2>2
  <2> HIDE DEF m, r
  <2>7. Standing(Fed, mem, slot.cache) /\ Counted(Fed) /\ Fed.st = "processing"
    BY <1>3, <1>4, <1>5, <2>1
  <2>8. PassOK(r.s, r.m)
    BY <1>1, <2>3, <2>5, <2>6, <2>7, DraftPass
  <2>. QED BY <1>7, <2>1, <2>6, <2>8
<1>10. CASE SamplingFails
  <2>1. /\ slot.st = "processing" /\ slot' = [Fed EXCEPT !.st = "error"]
        /\ mem' = Decoded(mem, Feed, Len(slot.cache))
    BY <1>10 DEF SamplingFails
  <2>2. slot'.st = "error" /\ slot'.cache = Fed.cache /\ slot'.sampled = Fed.sampled /\ slot'.n_decoded = Fed.n_decoded
    <3>1. Fed \in SlotRec
      BY <1>3 DEF SlotOK
    <3>. QED BY <2>1, <3>1 DEF SlotRec
  <2>3. RowsAre(mem, slot.cache)
    BY <1>5, <2>1 DEF Standing
  <2> DEFINE c == slot.cache
             f == c \o Feed
  <2>4. RowsAre(mem', f) /\ f \in Seq(Tokens)
    <3>1. c \in Seq(Tokens) /\ RowsAre(mem, c) /\ mem' = Decoded(mem, Feed, Len(c)) /\ f \in Seq(Tokens)
      BY <1>3, <1>6, <2>1, <2>3
    <3> HIDE DEF c
    <3>2. RowsAre(Decoded(mem, Feed, Len(c)), f)
      BY <1>1, <1>3, <3>1, DecodedRows
    <3>. QED BY <3>1, <3>2
  <2>5. IsPrefix(Rows(f, 0), mem'.rows)
    <3> HIDE DEF f
    <3>1. 0 \in 0..Len(f)
      BY <2>4
    <3>. QED BY <2>4, <3>1, RowsPrefix
  <2>. QED BY <1>2, <1>3, <2>2, <2>5 DEF ContextInv
<1>11. CASE Released \/ UNCHANGED vars
  <2>1. conf' = conf /\ slot' = slot /\ mem' = mem
    BY <1>11 DEF Released, vars
  <2>2. NBuffer' = NBuffer
    BY <2>1 DEF NBuffer
  <2>3. (Settled(slot, mem) => Settled(slot, mem)') /\ (Fresh(slot, mem) => Fresh(slot, mem)')
    BY <2>1, <2>2 DEF Settled, Fresh, RowsAre
  <2>. QED BY <1>2, <2>1, <2>3 DEF ContextInv
<1>. QED BY <1>8, <1>9, <1>10, <1>11 DEF Next

\* The invariant holds in every behaviour.
LEMMA ContextAlways ==
    ASSUME SafeRequests(Confs)
    PROVE  Spec => [](ReplyInv /\ ContextInv)
  BY ContextInit, ContextNext, ReplyInit, ReplyNext, PTL DEF Spec

\* The context the next token is sampled from is the prompt and exactly the reply, and the
\* KV rows and the recurrent state are those of cache_tokens, through every rewind
\* (rewind_context, with the checkpoints of a recurrent model), every draft with rejected
\* tokens (speculative_decoding_accept) and every failure of the sampler.  The requests are
\* all but those of a recurrent model that drafts and bans at once.
THEOREM ContextKept ==
    ASSUME SafeRequests(Confs)
    PROVE  Spec => []ContextMatchesReply
<1>1. ReplyInv /\ ContextInv => ContextMatchesReply
  <2> SUFFICES ASSUME ReplyInv, ContextInv PROVE ContextMatchesReply
    OBVIOUS
  <2>1. conf \in Confs /\ mem \in MemRec /\ rb \in BudgetOK(conf) /\ slot \in SlotOK
    BY DEF ReplyInv
  <2>2. slot \in SlotRec /\ slot.n_sent <= Len(slot.text)
    BY <2>1 DEF SlotOK, Streamed
  <2>3. slot.sampled \in Tokens \/ slot.n_decoded = 0
    BY DEF ContextInv
  <2>4. TypeOK
    <3>1. /\ slot.st \in {"processing", "done", "error"}
          /\ slot.cache \in Seq(Tokens) /\ slot.buffer \in Seq(Tokens) /\ slot.replied \in Seq(Tokens)
          /\ slot.rewinds \in Nat /\ slot.n_decoded \in Nat /\ slot.sampled \in Tokens \cup {NoTok}
          /\ slot.bans \in SUBSET [pos : Nat, tok : Tokens] /\ slot.text \in Seq(Chars) /\ slot.n_sent \in Nat
      BY <2>2 DEF SlotRec
    <3>2. slot.sampled \in Tokens \cup (IF slot.n_decoded = 0 THEN {NoTok} ELSE {})
      BY <2>3, <3>1
    <3>3. slot.n_sent \in 0..Len(slot.text)
      BY <2>2, <3>1
    <3>4. \A x \in slot.bans : x.pos \in Nat /\ x.tok \in Tokens
      BY <3>1
    <3>5. /\ rb \in BudgetRec /\ Matching(conf.start, rb.start) /\ Matching(conf.end, rb.end)
          /\ rb.force_pos <= Len(conf.forced)
      BY <2>1 DEF BudgetOK
    <3>6. conf.start \in Seq(Tokens) /\ conf.end \in Seq(Tokens) /\ conf.forced \in Seq(Tokens)
      BY <2>1, ConfFacts
    <3>7. rb.start \in 0..Len(conf.start) /\ rb.end \in 0..Len(conf.end)
      <4>1. ASSUME NEW pat \in Seq(Tokens), NEW pos, Matching(pat, pos) PROVE pos \in 0..Len(pat)
        BY <4>1 DEF Matching
      <4>. QED BY <3>5, <3>6, <4>1
    <3>8. rb.force_pos \in 0..Len(conf.forced) /\ rb.st \in {"IDLE", "COUNTING", "WAITING_UTF8", "FORCING", "DONE"}
      BY <3>5, <3>6 DEF BudgetRec
    <3>. QED BY <2>1, <3>1, <3>2, <3>3, <3>4, <3>7, <3>8 DEF TypeOK
  <2>5. ASSUME slot.st = "processing"
        PROVE  /\ slot.cache \o Feed = Prompt \o Reply
               /\ mem.rows = Rows(slot.cache, 0) /\ (conf.recurrent => mem.rs = slot.cache)
    <3>1. Standing(Fed, mem, slot.cache)
      BY <2>1, <2>5, FedStanding DEF ContextInv
    <3>2. Fed.cache = slot.cache \o Feed /\ Fed.replied = slot.replied /\ Fed.buffer = slot.buffer
      BY <2>1, FedFacts
    <3>3. Fed.cache = Whole(Fed) /\ RowsAre(mem, slot.cache)
      BY <3>1 DEF Standing
    <3>4. slot.cache \o Feed = (Prompt \o slot.replied) \o slot.buffer
      BY <3>2, <3>3 DEF Whole
    <3>5. (Prompt \o slot.replied) \o slot.buffer = Prompt \o (slot.replied \o slot.buffer)
      <4> DEFINE x == slot.replied
                 y == slot.buffer
      <4>1. Prompt \in Seq(Tokens) /\ x \in Seq(Tokens) /\ y \in Seq(Tokens)
        BY <2>2, VocabFacts DEF SlotRec
      <4> HIDE DEF x, y
      <4>2. (Prompt \o x) \o y = Prompt \o (x \o y)
        BY <4>1, ConcatTokens
      <4>. QED BY <4>2 DEF x, y
    <3>. QED BY <3>3, <3>4, <3>5 DEF Reply, RowsAre
  <2>. QED BY <2>4, <2>5 DEF ContextMatchesReply, ContextInv
<1>. QED BY <1>1, ContextAlways, PTL

-----------------------------------------------------------------------------
(* Banned phrases in the buffer                                             *)

\* Part of a text: the same characters at the same places.
LEMMA PartOf ==
    ASSUME NEW t \in Seq(Chars), NEW x \in Seq(Chars), NEW o \in Nat, o + Len(x) <= Len(t),
           \A i \in 1..Len(x) : x[i] = t[o + i], NEW i \in Nat, NEW l \in Nat, i + l <= Len(x)
    PROVE  SubSeq(t, o + i + 1, o + i + l) = SubSeq(x, i + 1, i + l)
<1> DEFINE a == SubSeq(t, o + i + 1, o + i + l)
           b == SubSeq(x, i + 1, i + l)
           n == Len(t)
           k == Len(x)
<1>1. n \in Nat /\ k \in Nat /\ o + k <= n /\ i + l <= k
  OBVIOUS
<1>2. \A j \in (i + 1)..(i + l) : j \in 1..k
  BY <1>1
<1>3. \A j \in (o + i + 1)..(o + i + l) : j \in 1..n
  BY <1>1
<1>4. /\ b \in Seq(Chars) /\ Len(b) = (IF i + 1 <= i + l THEN (i + l) - (i + 1) + 1 ELSE 0)
      /\ \A j \in 1..((i + l) - (i + 1) + 1) : b[j] = x[(i + 1) + j - 1]
  <2>1. \A j \in (i + 1)..(i + l) : x[j] \in Chars
    BY <1>2
  <2>2. i + 1 \in Int /\ i + l \in Int
    OBVIOUS
  <2> DEFINE p == i + 1
             q == i + l
  <2> HIDE DEF p, q
  <2>3. p \in Int /\ q \in Int /\ \A j \in p..q : x[j] \in Chars
    BY <2>1, <2>2 DEF p, q
  <2>4. /\ SubSeq(x, p, q) \in Seq(Chars) /\ Len(SubSeq(x, p, q)) = (IF p <= q THEN q - p + 1 ELSE 0)
        /\ \A j \in 1..(q - p + 1) : SubSeq(x, p, q)[j] = x[p + j - 1]
    BY <2>3, SubSeqProperties, SMTT(40)
  <2>. QED BY <2>4 DEF p, q
<1>5. /\ a \in Seq(Chars) /\ Len(a) = (IF o + i + 1 <= o + i + l THEN (o + i + l) - (o + i + 1) + 1 ELSE 0)
      /\ \A j \in 1..((o + i + l) - (o + i + 1) + 1) : a[j] = t[(o + i + 1) + j - 1]
  <2>1. \A j \in (o + i + 1)..(o + i + l) : t[j] \in Chars
    BY <1>3
  <2>2. o + i + 1 \in Int /\ o + i + l \in Int
    OBVIOUS
  <2> DEFINE p == o + i + 1
             q == o + i + l
  <2> HIDE DEF p, q
  <2>3. p \in Int /\ q \in Int /\ \A j \in p..q : t[j] \in Chars
    BY <2>1, <2>2 DEF p, q
  <2>4. /\ SubSeq(t, p, q) \in Seq(Chars) /\ Len(SubSeq(t, p, q)) = (IF p <= q THEN q - p + 1 ELSE 0)
        /\ \A j \in 1..(q - p + 1) : SubSeq(t, p, q)[j] = t[p + j - 1]
    BY <2>3, SubSeqProperties
  <2>. QED BY <2>4 DEF p, q
<1> HIDE DEF a, b, n, k
<1>6. Len(a) = l /\ Len(b) = l
  BY <1>4, <1>5
<1>7. ASSUME NEW j \in 1..l PROVE a[j] = b[j]
  <2>1. b[j] = x[i + j]
    <3>1. j \in 1..((i + l) - (i + 1) + 1) /\ (i + 1) + j - 1 = i + j
      OBVIOUS
    <3>. QED BY <1>4, <3>1
  <2>2. a[j] = t[o + (i + j)]
    <3>1. j \in 1..((o + i + l) - (o + i + 1) + 1) /\ (o + i + 1) + j - 1 = o + (i + j)
      OBVIOUS
    <3>. QED BY <1>5, <3>1
  <2>3. i + j \in 1..k
    BY <1>1
  <2>. QED BY <2>1, <2>2, <2>3 DEF k
<1>8. a = b
  BY <1>4, <1>5, <1>6, <1>7, SeqEqual
<1>. QED BY <1>8 DEF a, b

\* A word that does not occur in a text occurs in no part of it.
LEMMA OccursPart ==
    ASSUME NEW t \in Seq(Chars), NEW x \in Seq(Chars), NEW o \in Nat, o + Len(x) <= Len(t),
           \A i \in 1..Len(x) : x[i] = t[o + i], NEW w, Len(w) \in Nat
    PROVE  \A i \in Occurs(x, w) : o + i \in Occurs(t, w)
<1> DEFINE l == Len(w)
           n == Len(t)
           k == Len(x)
<1>1. n \in Nat /\ k \in Nat /\ l \in Nat /\ o + k <= n
  OBVIOUS
<1>2. ASSUME NEW i \in Occurs(x, w) PROVE o + i \in Occurs(t, w)
  <2>1. i \in 0..(k - l) /\ SubSeq(x, i + 1, i + l) = w
    BY DEF Occurs
  <2>2. i \in Nat /\ i + l <= k /\ o + i \in 0..(n - l)
    <3> HIDE DEF k, l, n
    <3>. QED BY <1>1, <2>1
  <2>3. SubSeq(t, o + i + 1, o + i + l) = SubSeq(x, i + 1, i + l)
    <3> HIDE DEF l
    <3>. QED BY <1>1, <2>2, PartOf
  <2>. QED BY <2>1, <2>2, <2>3 DEF Occurs
<1>. QED BY <1>2

\* The text of tokens one after the other.
LEMMA TextConcat ==
    ASSUME NEW u \in Seq(Tokens), NEW v \in Seq(Tokens)
    PROVE  Text(u \o v) = Text(u) \o Text(v)
<1> DEFINE n == Len(v)
           S == {k \in 0..n : Text(u \o SubSeq(v, 1, k)) = Text(u) \o Text(SubSeq(v, 1, k))}
<1>0. n \in Nat /\ Text(u) \in Seq(Chars) /\ u \in Seq(Tokens)
  BY TextFacts
<1>1. 0 \in S
  <2>1. SubSeq(v, 1, 0) = <<>>
    BY SubSeqEmpty
  <2>2. u \o <<>> = u
    BY ConcatEmptySeq
  <2>3. Text(u) \o <<>> = Text(u)
    <3> DEFINE x == Text(u)
    <3>1. x \in Seq(Chars)
      BY <1>0
    <3> HIDE DEF x
    <3>2. x \o <<>> = x
      BY <3>1, ConcatEmptySeq
    <3>. QED BY <3>2 DEF x
  <2>4. Text(<<>>) = <<>>
    BY TextFacts
  <2>5. 0 \in 0..n
    BY <1>0
  <2>. QED BY <2>1, <2>2, <2>3, <2>4, <2>5
<1>2. ASSUME NEW k \in 1..n, k - 1 \in S PROVE k \in S
  <2> DEFINE a == SubSeq(v, 1, k - 1)
             t == v[k]
  <2>1. t \in Tokens /\ k \in 1..Len(v) /\ k - 1 \in Nat /\ k - 1 <= Len(v) /\ k \in 0..n
    BY <1>0
  <2>2. a \in Seq(Tokens)
    BY <2>1, Prefix
  <2>3. Text(u \o a) = Text(u) \o Text(a)
    BY <1>2
  <2>4. SubSeq(v, 1, k) = a \o <<t>>
    <3>1. 1 \in 1..Len(v)
      BY <2>1
    <3>. QED BY <2>1, <3>1, SubSeqRecursiveSecond
  <2> HIDE DEF a, t
  <2>5. a \o <<t>> = Append(a, t)
    BY <2>1, <2>2, AppendIsConcat
  <2>6. u \o Append(a, t) = Append(u \o a, t) /\ u \o a \in Seq(Tokens)
    <3>1. <<t>> \in Seq(Tokens)
      BY <2>1
    <3>2. (u \o a) \o <<t>> = u \o (a \o <<t>>) /\ u \o a \in Seq(Tokens)
      BY <2>2, <3>1, ConcatTokens, SMTT(40)
    <3> DEFINE x == u \o a
    <3>3. x \in Seq(Tokens)
      BY <3>2
    <3> HIDE DEF x
    <3>4. Append(x, t) = x \o <<t>>
      BY <2>1, <3>3, AppendIsConcat
    <3>. QED BY <2>5, <3>2, <3>4 DEF x
  <2>7. Text(Append(u \o a, t)) = Text(u \o a) \o Piece[t]
    BY <2>1, <2>6, TextFacts
  <2>8. Text(Append(a, t)) = Text(a) \o Piece[t]
    BY <2>1, <2>2, TextFacts
  <2>9. (Text(u) \o Text(a)) \o Piece[t] = Text(u) \o (Text(a) \o Piece[t])
    <3> DEFINE x == Text(u)
               y == Text(a)
               z == Piece[t]
    <3>1. x \in Seq(Chars) /\ y \in Seq(Chars) /\ z \in Seq(Chars)
      BY <2>1, <2>2, TextFacts, VocabFacts
    <3> HIDE DEF x, y, z
    <3>2. (x \o y) \o z = x \o (y \o z)
      BY <3>1, ConcatAssociative, SMTT(40)
    <3>. QED BY <3>2 DEF x, y, z
  <2>. QED BY <2>1, <2>3, <2>4, <2>5, <2>6, <2>7, <2>8, <2>9
<1> HIDE DEF S
<1>3. 0..n \subseteq S
  BY <1>0, <1>1, <1>2, UpTo
<1>4. n \in 0..n /\ SubSeq(v, 1, n) = v
  BY <1>0, SubSeqFull
<1>. QED BY <1>3, <1>4 DEF S

\* No banned phrase in the text of the tokens.
Clean(u) == \A w \in conf.phrases : Occurs(Text(u), w) = {}

\* The beginning and the end of a clean buffer are clean.
LEMMA CleanParts ==
    ASSUME conf \in Confs, NEW u \in Seq(Tokens), NEW v \in Seq(Tokens), Clean(u \o v)
    PROVE  Clean(u) /\ Clean(v)
<1> DEFINE x == Text(u)
           y == Text(v)
           t == x \o y
<1>1. x \in Seq(Chars) /\ y \in Seq(Chars) /\ Text(u \o v) = t
  BY TextFacts, TextConcat
<1>2. \A w \in conf.phrases : Len(w) \in Nat /\ Occurs(t, w) = {}
  BY <1>1, ConfFacts DEF Clean
<1> HIDE DEF x, y
<1>3. /\ t \in Seq(Chars) /\ Len(t) = Len(x) + Len(y) /\ (\A i \in 1..Len(x) : x[i] = t[0 + i])
      /\ \A i \in 1..Len(y) : y[i] = t[Len(x) + i]
  <2>1. /\ t \in Seq(Chars) /\ Len(t) = Len(x) + Len(y)
        /\ \A i \in 1..Len(x) : t[i] = x[i]
        /\ \A i \in 1..Len(y) : t[Len(x) + i] = y[i]
    BY <1>1
  <2>. QED BY <2>1
<1>4. Len(x) \in Nat /\ 0 + Len(x) <= Len(t) /\ Len(x) + Len(y) <= Len(t) /\ 0 \in Nat
  BY <1>1, <1>3
<1> HIDE DEF t
<1>5. ASSUME NEW w \in conf.phrases PROVE Occurs(x, w) = {} /\ Occurs(y, w) = {}
  <2>1. \A i \in Occurs(x, w) : 0 + i \in Occurs(t, w)
    BY <1>1, <1>2, <1>3, <1>4, OccursPart
  <2>2. \A i \in Occurs(y, w) : Len(x) + i \in Occurs(t, w)
    BY <1>1, <1>2, <1>3, <1>4, OccursPart
  <2>. QED BY <1>2, <2>1, <2>2
<1>. QED BY <1>5 DEF Clean, x, y

\* So are the first and the last tokens of it.
LEMMA CleanCut ==
    ASSUME conf \in Confs, NEW u \in Seq(Tokens), Clean(u), NEW k \in 0..Len(u)
    PROVE  Clean(SubSeq(u, 1, k)) /\ Clean(SubSeq(u, k + 1, Len(u)))
<1> DEFINE a == SubSeq(u, 1, k)
           b == SubSeq(u, k + 1, Len(u))
<1>1. k \in Nat /\ Len(u) \in Nat /\ k <= Len(u) /\ Len(u) <= Len(u)
  OBVIOUS
<1>2. a \o b = SubSeq(u, 1, Len(u)) /\ SubSeq(u, 1, Len(u)) = u
  BY <1>1, Joined, SubSeqFull
<1>3. a \in Seq(Tokens) /\ b \in Seq(Tokens)
  <2>1. \A i \in (k + 1)..Len(u) : u[i] \in Tokens
    BY <1>1
  <2>. QED BY <1>1, <2>1, Prefix, SubSeqProperties
<1> HIDE DEF a, b
<1>4. Clean(a) /\ Clean(b)
  BY <1>2, <1>3, CleanParts
<1>. QED BY <1>4 DEF a, b

\* buffer_and_check_string_ban leaves no banned phrase in the buffer: it takes the phrase
\* back, or hands on tokens of a buffer that has none.
LEMMA BufferStepClean ==
    ASSUME conf \in Confs, conf.rewind_max = 0, NEW s, Ready(s), s.cache = Whole(s), Clean(s.buffer),
           NEW m \in MemRec, NEW tok \in Tokens, NBuffer > 0, NEW r, r = BufferAndCheck(s, m, tok)
    PROVE  Clean(r.s.buffer)
<1> DEFINE b == Buffered(s, tok)
<1>1. s \in SlotOK /\ s.st = "processing" /\ ~s.word
  BY DEF Ready
<1>2. \/ Rewound(b, m, r)
      \/ /\ CheckBanPhrase(b) < 0 \/ ~AllowRewind(b)
         /\ Waits(b, m, tok, r) \/ Sends(b, m, r)
  BY <1>1, BufferAndCheckCases
<1>3. /\ b \in SlotOK /\ b.buffer = Append(s.buffer, tok) /\ b.buffer # <<>>
      /\ Len(b.buffer) = Len(s.buffer) + 1 /\ b.st = s.st /\ b.cache = s.cache /\ b.word = s.word
  BY <1>1, BufferedFacts
<1> HIDE DEF b
<1>4. s.buffer \in Seq(Tokens) /\ b \in SlotRec /\ b.buffer \in Seq(Tokens)
  BY <1>1, <1>3 DEF SlotOK, SlotRec
<1>5. CASE Rewound(b, m, r)
  <2>1. PICK h \in 1..Len(b.buffer) : r.s.buffer = SubSeq(b.buffer, 1, h - 1)
    BY <1>5 DEF Rewound, RewoundTo
  <2> DEFINE u == s.buffer
             v == b.buffer
             l == Len(u)
  <2>2. u \in Seq(Tokens) /\ v = Append(u, tok) /\ l = Len(u) /\ l \in Nat /\ Len(v) = l + 1 /\ Clean(u) /\ h \in 1..(l + 1)
    BY <1>3, <1>4, <2>1
  <2> HIDE DEF u, v, l
  <2>3. h - 1 \in 0..l /\ h - 1 \in Nat /\ h - 1 <= Len(u) /\ h - 1 <= Len(v)
    BY <2>2
  <2>4. v \in Seq(Tokens) /\ \A i \in 1..(h - 1) : u[i] = v[i]
    BY <2>2, <2>3
  <2>5. SubSeq(u, 1, h - 1) = SubSeq(v, 1, h - 1)
    BY <2>2, <2>3, <2>4, SamePrefix
  <2>6. Clean(SubSeq(u, 1, h - 1))
    BY <2>2, <2>3, CleanCut
  <2>. QED BY <2>1, <2>5, <2>6 DEF u, v
<1>6. CASE (CheckBanPhrase(b) < 0 \/ ~AllowRewind(b)) /\ (Waits(b, m, tok, r) \/ Sends(b, m, r))
  <2>1. CheckBanPhrase(b) < 0
    <3>1. AllowRewind(b)
      BY DEF AllowRewind
    <3>. QED BY <1>6, <3>1
  <2>2. Clean(b.buffer)
    <3>1. \/ \A w \in conf.phrases : Occurs(Text(b.buffer), w) = {}
          \/ \E h \in 1..Len(b.buffer) : CheckBanPhrase(b) = Len(b.cache) - Len(b.buffer) + h
      BY <1>4, BanAt
    <3>2. ASSUME NEW h \in 1..Len(b.buffer) PROVE ~(CheckBanPhrase(b) = Len(b.cache) - Len(b.buffer) + h)
      <4> DEFINE c == Len(s.cache)
                 l == Len(s.buffer)
      <4>1. c \in Nat /\ l \in Nat /\ c >= l
        <5> DEFINE p == Prompt \o s.replied
                   u == s.buffer
        <5>1. p \in Seq(Tokens) /\ u \in Seq(Tokens) /\ s.cache = p \o u
          <6>1. s.replied \in Seq(Tokens) /\ Prompt \in Seq(Tokens)
            BY <1>1, VocabFacts DEF SlotOK, SlotRec
          <6>. QED BY <1>4, <6>1 DEF Whole
        <5> HIDE DEF p, u
        <5>2. Len(p \o u) = Len(p) + Len(u) /\ Len(p) \in Nat /\ Len(u) \in Nat
          BY <5>1
        <5> DEFINE lp == Len(p)
                   lu == Len(u)
        <5>3. c = lp + lu /\ lp \in Nat /\ lu \in Nat
          BY <5>1, <5>2
        <5>4. l = lu
          BY DEF u
        <5> HIDE DEF lp, lu, c, l
        <5>. QED BY <5>3, <5>4
      <4>2. h \in 1..(l + 1) /\ Len(b.cache) - Len(b.buffer) + h = c - (l + 1) + h
        BY <1>3
      <4> HIDE DEF c, l
      <4>3. c - (l + 1) + h >= 0
        BY <4>1, <4>2
      <4> DEFINE e == c - (l + 1) + h
                 v == CheckBanPhrase(b)
      <4>4. e \in Int /\ e >= 0 /\ v < 0 /\ Len(b.cache) - Len(b.buffer) + h = e
        <5>1. e \in Int /\ e >= 0
          BY <4>1, <4>2, <4>3
        <5>2. v < 0
          BY <2>1
        <5>3. Len(b.cache) - Len(b.buffer) + h = e
          BY <4>2, Zenon
        <5> HIDE DEF e, v
        <5>. QED BY <5>1, <5>2, <5>3, Zenon
      <4> HIDE DEF e, v
      <4>5. v # e
        BY <4>4
      <4>. QED BY <4>4, <4>5 DEF v
    <3>. QED BY <3>1, <3>2 DEF Clean
  <2>3. CASE Waits(b, m, tok, r)
    <3>1. r.s = [b EXCEPT !.sampled = tok]
      BY <2>3 DEF Waits
    <3>2. r.s.buffer = b.buffer
      BY <1>4, <3>1 DEF SlotRec
    <3>. QED BY <2>2, <3>2
  <2>4. CASE Sends(b, m, r)
    <3>1. PICK n \in {0, 1} : r.s = SendTokenResults(Calm(b), n)
      BY <2>4 DEF Sends
    <3> DEFINE c == Calm(b)
               z == r.s
    <3>2. c \in SlotOK /\ c.buffer = b.buffer /\ c.st = b.st /\ c.word = b.word /\ z = SendTokenResults(c, n)
      BY <1>3, <3>1, CalmFacts
    <3> HIDE DEF c, z
    <3>3. ~c.word /\ c.st = "processing" /\ c.buffer # <<>> /\ n \in Nat
      BY <1>1, <1>3, <3>2
    <3>4. Handled(c, n, z)
      BY <3>2, <3>3, SendTokenResultsFacts
    <3>5. PICK k \in 1..Len(c.buffer) : z.buffer = SubSeq(c.buffer, k + 1, Len(c.buffer))
      BY <3>4 DEF Handled
    <3> DEFINE u == c.buffer
    <3>6. u \in Seq(Tokens) /\ Clean(u) /\ k \in 0..Len(u)
      BY <1>4, <2>2, <3>2, <3>5
    <3> HIDE DEF u
    <3>7. Clean(SubSeq(u, k + 1, Len(u)))
      BY <3>6, CleanCut
    <3>. QED BY <3>5, <3>7 DEF u, z
  <2>. QED BY <1>6, <2>3, <2>4
<1>. QED BY <1>2, <1>5, <1>6

\* One token of a draft leaves the buffer clean.
LEMMA DraftStepClean ==
    ASSUME conf \in Confs, conf.rewind_max = 0, ~(conf.recurrent /\ NBuffer > 0), NEW f \in Seq(Tokens),
           NEW n \in Nat, NEW m \in MemRec,
           NEW ids \in Seq(Tokens), Len(f) = n + Len(ids) - 1, \A i \in 1..(Len(ids) - 1) : f[n + i] = ids[i],
           RowsAre(m, f), NEW k \in 1..Len(ids), NEW a \in Pass, Drafted(f, n, m, ids, k - 1, a), Clean(a.s.buffer)
    PROVE  Clean(ReplyWith(a, ids, k).s.buffer)
<1> DEFINE c == IF k > 1 THEN Append(a.s.cache, ids[k - 1]) ELSE a.s.cache
           s == [a.s EXCEPT !.n_decoded = @ + 1, !.cache = c]
           z == Finish(ProcessToken(s, ids[k], TRUE))
           r == BufferAndCheck(s, a.m, ids[k])
           y == ReplyWith(a, ids, k)
<1>1. y = IF a.s.st = "done" \/ a.rewound THEN a ELSE IF NBuffer > 0 THEN r ELSE [a EXCEPT !.s = z]
  BY DEF ReplyWith
<1>2. Counted(a.s) /\ a.s \in SlotOK /\ a.m \in MemRec
  BY DEF Pass
<1>3. a.s.cache \in Seq(Tokens) /\ ids[k] \in Tokens
  BY <1>2, SMTT(40) DEF SlotOK, SlotRec
<1>4. c \in Seq(Tokens)
  <2>1. k > 1 => k - 1 \in 1..Len(ids)
    OBVIOUS
  <2>. QED BY <1>3, <2>1
<1>5. c = IF k > 1 THEN Append(a.s.cache, ids[k - 1]) ELSE a.s.cache
  OBVIOUS
<1> HIDE DEF c, y
<1>6. CASE a.s.st = "done" \/ a.rewound
  <2>1. y = a
    BY <1>1, <1>6
  <2>. QED BY <2>1 DEF y
<1>7. CASE ~(NBuffer > 0)
  <2>1. conf.phrases = {}
    BY <1>7, NBufferFacts
  <2>. QED BY <2>1 DEF Clean
<1>8. CASE ~(a.s.st = "done" \/ a.rewound) /\ NBuffer > 0
  <2>1. a.s.st = "processing"
    BY <1>2, <1>8 DEF Counted
  <2>2. Going(f, n, m, ids, k - 1, a)
    BY <1>8 DEF Drafted
  <2>3. s = [a.s EXCEPT !.n_decoded = @ + 1, !.cache = c]
    OBVIOUS
  <2> HIDE DEF s
  <2>4. Ready(s) /\ s.cache = c /\ s.buffer = a.s.buffer /\ s.replied = a.s.replied
    <3> DEFINE q == a.s
    <3>1. Counted(q) /\ q.st = "processing" /\ s = [q EXCEPT !.n_decoded = @ + 1, !.cache = c]
      BY <1>2, <2>1, <2>3
    <3> HIDE DEF q
    <3>2. Ready(s)
      BY <1>4, <3>1, CountUp
    <3>3. s.cache = c /\ s.buffer = q.buffer /\ s.replied = q.replied
      <4>1. q \in SlotRec
        BY <3>1 DEF Counted, SlotOK
      <4>. QED BY <3>1, <4>1 DEF SlotRec
    <3>. QED BY <3>2, <3>3 DEF q
  <2>5. s.cache = Whole(s)
    <3>1. s.cache = c /\ s.buffer = a.s.buffer /\ s.replied = a.s.replied
      BY <2>4
    <3>2. Reached(s, m, f, n + k - 1)
      BY <1>5, <2>2, <3>1, DraftAhead
    <3>. QED BY <3>2 DEF Reached
  <2> DEFINE tok == ids[k]
             v == a.m
  <2>6. r = BufferAndCheck(s, v, tok) /\ tok \in Tokens /\ v \in MemRec /\ Clean(s.buffer)
    BY <1>2, <1>3, <2>4
  <2> HIDE DEF r, tok, v
  <2>7. Clean(r.s.buffer)
    BY <1>8, <2>4, <2>5, <2>6, BufferStepClean
  <2>8. y = r
    BY <1>1, <1>8
  <2>. QED BY <2>7, <2>8 DEF y
<1>. QED BY <1>6, <1>7, <1>8

\* A pass with a draft leaves the buffer clean.
LEMMA DraftPassClean ==
    ASSUME conf \in Confs, conf.rewind_max = 0, slot \in SlotOK, mem \in MemRec, Standing(Fed, mem, slot.cache),
           Counted(Fed), Fed.st = "processing", ~(conf.recurrent /\ NBuffer > 0), Clean(Fed.buffer),
           NEW ids \in Seq(Tokens), ids # <<>>,
           NEW m, m = Decoded(SaveRewind(DropOld(mem, Len(slot.cache))), Feed \o Front(ids), Len(slot.cache)),
           NEW r, r = ReplyWithAll(Fed, m, ids)
    PROVE  Clean(r.s.buffer)
<1> DEFINE n == Len(Fed.cache)
           N == Len(ids)
<1>1. PICK f \in Seq(Tokens) : /\ m \in MemRec /\ RowsAre(m, f) /\ DraftFrom(f, n, ids) /\ SubSeq(f, 1, n) = Fed.cache
  BY DraftContext
<1>2. Fed.cache = Whole(Fed) /\ (NBuffer > 0 => Len(Fed.buffer) < NBuffer) /\ N \in Nat
  BY DEF Standing
<1> HIDE DEF n
<1>3. n \in Nat /\ Len(f) = n + Len(ids) - 1 /\ \A i \in 1..(Len(ids) - 1) : f[n + i] = ids[i]
  BY <1>1 DEF DraftFrom
<1> DEFINE X == [k \in 0..N |-> {a \in Pass : Drafted(f, n, m, ids, k, a) /\ Clean(a.s.buffer)}]
<1>4. /\ \A k \in 0..N : X[k] = {a \in Pass : Drafted(f, n, m, ids, k, a) /\ Clean(a.s.buffer)}
      /\ \A k \in 1..N : k - 1 \in 0..N /\ k \in 0..N
      /\ 0 \in 0..N /\ N \in 0..N
  BY <1>2
<1> HIDE DEF X
<1> DEFINE a == [s |-> Fed, m |-> m, rewound |-> FALSE]
<1>5. a \in Pass
  <2>1. Fed \in SlotOK
    BY DEF Counted
  <2>. QED BY <1>1, <2>1 DEF Pass
<1>6. Drafted(f, n, m, ids, 0, a) /\ Clean(a.s.buffer)
  <2>1. a.s = Fed /\ a.m = m /\ a.rewound = FALSE /\ 0 = 0 /\ ~(0 > 0)
    OBVIOUS
  <2> HIDE DEF a
  <2>2. Going(f, n, m, ids, 0, a)
    BY <1>1, <1>2, <2>1 DEF Going
  <2>. QED BY <2>1, <2>2 DEF Drafted
<1>7. a \in X[0]
  <2> HIDE DEF a
  <2>. QED BY <1>4, <1>5, <1>6
<1>8. ASSUME NEW k \in 1..N, NEW x \in X[k - 1] PROVE ReplyWith(x, ids, k) \in X[k]
  <2>1. x \in Pass /\ Drafted(f, n, m, ids, k - 1, x) /\ Clean(x.s.buffer) /\ k \in 1..Len(ids)
    BY <1>4
  <2>2. ReplyWith(x, ids, k) \in Pass
    BY <2>1, ReplyWithPass
  <2>3. Drafted(f, n, m, ids, k, ReplyWith(x, ids, k))
    BY <1>1, <1>3, <2>1, DraftStep
  <2>4. Clean(ReplyWith(x, ids, k).s.buffer)
    BY <1>1, <1>3, <2>1, DraftStepClean
  <2>. QED BY <1>4, <2>2, <2>3, <2>4
<1>9. ReplyWithAll(Fed, m, ids) \in X[N]
  BY <1>7, <1>8, ReplyWithAllIn
<1>. QED BY <1>4, <1>9

\* The invariant: with unlimited rewinds the buffer is clean.
CleanInv == conf.rewind_max = 0 => Clean(slot.buffer)

LEMMA CleanInit == Init => CleanInv
<1> SUFFICES ASSUME Init PROVE CleanInv
  OBVIOUS
<1>1. conf \in Confs /\ slot.buffer = <<>> /\ Text(<<>>) = <<>>
  BY TextFacts DEF Init
<1>2. ASSUME NEW w \in conf.phrases PROVE Occurs(<<>>, w) = {}
  <2>1. Len(w) \in Nat /\ Len(w) > 0
    BY <1>1, ConfFacts
  <2>2. 0 .. Len(<<>>) - Len(w) = {}
    BY <2>1
  <2>. QED BY <2>2 DEF Occurs
<1>. QED BY <1>1, <1>2 DEF CleanInv, Clean

\* Every pass keeps it.
LEMMA CleanNext ==
    ASSUME SafeRequests(Confs)
    PROVE  ReplyInv /\ ContextInv /\ CleanInv /\ [Next]_vars => CleanInv'
<1> SUFFICES ASSUME ReplyInv, ContextInv, CleanInv, [Next]_vars, conf'.rewind_max = 0 PROVE Clean(slot.buffer)'
  BY DEF CleanInv
<1>1. /\ conf \in Confs /\ mem \in MemRec /\ rb \in BudgetOK(conf) /\ slot \in SlotOK
      /\ slot.st # "error" => Counted(slot)
  BY DEF ReplyInv
<1>2. conf' = conf
  BY DEF Next, Generate, Speculate, SamplingFails, Released, vars
<1>3. conf.rewind_max = 0 /\ Clean(slot.buffer)
  BY <1>2 DEF CleanInv
<1>4. ASSUME Clean(slot'.buffer) PROVE Clean(slot.buffer)'
  BY <1>2, <1>4 DEF Clean
<1>5. /\ Feed \in Seq(Tokens) /\ Fed \in SlotOK /\ Fed.cache = slot.cache \o Feed /\ Fed.cache \in Seq(Tokens)
      /\ Fed.st = slot.st /\ Fed.buffer = slot.buffer /\ Fed.n_decoded = slot.n_decoded /\ Fed.replied = slot.replied
      /\ Fed.text = slot.text /\ Fed.n_sent = slot.n_sent /\ Fed.word = slot.word /\ Fed.eos = slot.eos
  BY <1>1, FedFacts
<1>6. slot.st = "processing" => Counted(Fed)
  BY <1>1, <1>5, CountedSame
<1>7. slot.st = "processing" => Standing(Fed, mem, slot.cache)
  BY <1>1, FedStanding DEF ContextInv
<1>8. Len(slot.cache) \in Int /\ Len(Fed.cache) \in Int
  <2>1. slot.cache \in Seq(Tokens)
    BY <1>1 DEF SlotOK, SlotRec
  <2>. QED BY <1>5, <2>1
<1>9. CASE ~(NBuffer > 0)
  <2>1. conf.phrases = {}
    BY <1>1, <1>9, NBufferFacts
  <2>. QED BY <1>4, <2>1 DEF Clean
<1>10. CASE Generate /\ NBuffer > 0
  <2> DEFINE n == Len(Fed.cache)
             m == Decoded(mem, Feed, Len(slot.cache))
             kept == IF slot.n_decoded > 0 THEN DropOld(m, n) ELSE m
             q == SaveRewind(kept)
             s == [Fed EXCEPT !.n_decoded = @ + 1]
  <2>1. slot.st = "processing" /\ \E tok \in Candidates(rb, slot.bans, n) : slot' = BufferAndCheck(s, q, tok).s
    BY <1>10 DEF Generate
  <2>2. PICK tok \in Candidates(rb, slot.bans, n) : slot' = BufferAndCheck(s, q, tok).s
    BY <2>1
  <2>3. tok \in Tokens
    BY <1>1, CandidateTokens
  <2>4. q \in MemRec
    <3>1. m \in MemRec
      BY <1>1, <1>5, <1>8, MemFacts
    <3> HIDE DEF m
    <3>2. kept \in MemRec
      BY <1>1, <1>8, <3>1, MemFacts
    <3> HIDE DEF kept
    <3>. QED BY <1>1, <3>2, MemFacts
  <2>5. Ready(s) /\ s.cache = Fed.cache /\ s.replied = Fed.replied /\ s.buffer = Fed.buffer
    <3> DEFINE F == Fed
    <3>0. F \in SlotRec
      BY <1>5 DEF SlotOK
    <3>f. s = [F EXCEPT !.n_decoded = @ + 1] /\ F = Fed
      OBVIOUS
    <3> HIDE DEF F, s
    <3>1. s = [F EXCEPT !.n_decoded = @ + 1, !.cache = F.cache]
      BY <3>0, <3>f DEF SlotRec
    <3>2. Counted(F) /\ F.st = "processing" /\ F.cache \in Seq(Tokens)
      BY <1>5, <1>6, <2>1, <3>f
    <3>3. Ready(s)
      BY <1>1, <3>1, <3>2, CountUp
    <3>4. s.cache = F.cache /\ s.replied = F.replied /\ s.buffer = F.buffer
      BY <3>0, <3>f DEF SlotRec
    <3>. QED BY <3>f, <3>3, <3>4
  <2> DEFINE r == BufferAndCheck(s, q, tok)
  <2>6. r = BufferAndCheck(s, q, tok) /\ slot' = r.s
    BY <2>2
  <2> HIDE DEF s, q, r
  <2>7. s.cache = Whole(s) /\ Clean(s.buffer)
    <3>1. Fed.cache = Whole(Fed)
      BY <1>7, <2>1 DEF Standing
    <3>. QED BY <1>3, <1>5, <2>5, <3>1 DEF Whole
  <2>8. Clean(r.s.buffer)
    BY <1>1, <1>3, <1>10, <2>3, <2>4, <2>5, <2>6, <2>7, BufferStepClean
  <2>. QED BY <1>4, <2>6, <2>8
<1>11. CASE Speculate /\ NBuffer > 0
  <2> DEFINE before == SaveRewind(DropOld(mem, Len(slot.cache)))
             M(ids) == Decoded(before, Feed \o Front(ids), Len(slot.cache))
  <2>1. /\ slot.st = "processing" /\ NDraftMax > 0
        /\ \E ids \in Accepted : slot' = ReplyWithAll(Fed, M(ids), ids).s
    BY <1>11 DEF Speculate
  <2>2. PICK ids \in Accepted : slot' = ReplyWithAll(Fed, M(ids), ids).s
    BY <2>1
  <2>3. ids \in Seq(Tokens) /\ ids # <<>>
    BY <1>1, AcceptedTokens
  <2>4. ~(conf.recurrent /\ NBuffer > 0)
    BY <1>1, <2>1, DraftsSafe
  <2> DEFINE m == M(ids)
             r == ReplyWithAll(Fed, m, ids)
  <2>5. m = Decoded(SaveRewind(DropOld(mem, Len(slot.cache))), Feed \o Front(ids), Len(slot.cache))
        /\ r = ReplyWithAll(Fed, m, ids) /\ slot' = r.s
    BY <2>2
  <2> HIDE DEF m, r
  <2>6. Standing(Fed, mem, slot.cache) /\ Counted(Fed) /\ Fed.st = "processing" /\ Clean(Fed.buffer)
    BY <1>3, <1>5, <1>6, <1>7, <2>1
  <2>7. Clean(r.s.buffer)
    BY <1>1, <1>3, <2>3, <2>4, <2>5, <2>6, DraftPassClean
  <2>. QED BY <1>4, <2>5, <2>7
<1>12. CASE SamplingFails
  <2>1. slot' = [Fed EXCEPT !.st = "error"]
    BY <1>12 DEF SamplingFails
  <2>2. slot'.buffer = slot.buffer
    <3>1. Fed \in SlotRec
      BY <1>5 DEF SlotOK
    <3>2. slot'.buffer = Fed.buffer
      BY <2>1, <3>1 DEF SlotRec
    <3>. QED BY <1>5, <3>2
  <2>. QED BY <1>3, <1>4, <2>2
<1>13. CASE Released \/ UNCHANGED vars
  <2>1. slot' = slot
    BY <1>13 DEF Released, vars
  <2>. QED BY <1>3, <1>4, <2>1
<1>. QED BY <1>9, <1>10, <1>11, <1>12, <1>13 DEF Next

\* With unlimited rewinds token_buffer never holds a banned phrase between two passes,
\* whatever tokens the phrase is cut into and however many of them one draft brings:
\* buffer_and_check_string_ban looks at the whole buffer after every token, and what
\* rewind_context or send_token_results leave of a clean buffer is clean.
THEOREM BufferStaysClean ==
    ASSUME SafeRequests(Confs)
    PROVE  Spec => []BufferClean
<1>1. CleanInv => BufferClean
  BY DEF CleanInv, Clean, BufferClean
<1>. QED BY <1>1, CleanInit, CleanNext, ContextInit, ContextNext, ReplyInit, ReplyNext, PTL DEF Spec

-----------------------------------------------------------------------------
(* Stop strings in the stream                                               *)

\* Where the text breaks off inside w.
Open(t, w) == {i \in 0 .. Len(t) - 1 : i + Len(w) > Len(t) /\ \A j \in 1 .. Len(t) - i : t[i + j] = w[j]}

\* No stop string in the text.
NoStop(t) == \A w \in conf.stops : Occurs(t, w) = {}

\* The text does not break off inside a stop string.
Closed(t) == \A w \in conf.stops : Open(t, w) = {}

\* The characters of an occurrence.
LEMMA OccursAt ==
    ASSUME NEW t \in Seq(Chars), NEW w, Len(w) \in Nat, NEW i \in Occurs(t, w), NEW j \in 1..Len(w)
    PROVE  t[i + j] = w[j] /\ i \in Nat /\ i + Len(w) <= Len(t)
<1> DEFINE l == Len(w)
           n == Len(t)
<1>1. i \in 0..(n - l) /\ SubSeq(t, i + 1, i + l) = w /\ n \in Nat /\ l \in Nat
  BY DEF Occurs
<1> DEFINE p == i + 1
           q == i + l
<1>2. p \in Int /\ q \in Int /\ \A k \in p..q : k \in 1..n
  BY <1>1
<1>3. \A k \in p..q : t[k] \in Chars
  BY <1>2
<1>4. j \in 1..(q - p + 1) /\ p + j - 1 = i + j
  BY <1>1
<1> HIDE DEF p, q
<1>5. SubSeq(t, p, q)[j] = t[p + j - 1]
  BY <1>2, <1>3, <1>4, SubSeqProperties
<1>6. SubSeq(t, p, q) = w
  BY <1>1 DEF p, q
<1>7. i \in Nat /\ i + l <= n
  <2> HIDE DEF l, n
  <2>. QED BY <1>1
<1>. QED BY <1>4, <1>5, <1>6, <1>7

\* A part of a text.
LEMMA PartFacts ==
    ASSUME NEW t \in Seq(Chars), NEW n \in Nat, NEW e \in Nat, n <= e, e <= Len(t), NEW q, q = SubSeq(t, n + 1, e)
    PROVE  q \in Seq(Chars) /\ Len(q) = e - n /\ n + Len(q) <= Len(t) /\ \A i \in 1..Len(q) : q[i] = t[n + i]
<1> DEFINE p == n + 1
<1>1. p \in Int /\ e \in Int /\ \A k \in p..e : k \in 1..Len(t)
  OBVIOUS
<1>2. \A k \in p..e : t[k] \in Chars
  BY <1>1
<1>3. q = SubSeq(t, p, e)
  OBVIOUS
<1> HIDE DEF p
<1>4. /\ q \in Seq(Chars) /\ Len(q) = (IF p <= e THEN e - p + 1 ELSE 0)
      /\ \A j \in 1..(e - p + 1) : q[j] = t[p + j - 1]
  BY <1>1, <1>2, <1>3, SubSeqProperties
<1> DEFINE l == Len(q)
<1>5. l = e - n
  BY <1>4 DEF p
<1>6. \A i \in 1..l : i \in 1..(e - p + 1) /\ p + i - 1 = n + i
  <2> HIDE DEF l
  <2>. QED BY <1>5 DEF p
<1>7. \A i \in 1..l : q[i] = t[n + i]
  BY <1>4, <1>6
<1>. QED BY <1>4, <1>5, <1>7

\* What is sent without a stop string in it, and does not break off inside one, has no
\* part of a later occurrence.
LEMMA Crossing ==
    ASSUME NEW t \in Seq(Chars), NEW n \in Nat, n <= Len(t), NEW p, p = SubSeq(t, 1, n),
           NEW w, Len(w) \in Nat, Len(w) > 0, Occurs(p, w) = {}, Open(p, w) = {}
    PROVE  (\A i \in Occurs(t, w) : i >= n) /\ \A i \in Open(t, w) : i >= n
<1> DEFINE l == Len(w)
           m == Len(t)
<1>1. l \in Nat /\ m \in Nat /\ n <= m /\ l > 0
  OBVIOUS
<1>2. p \in Seq(Chars) /\ Len(p) = n /\ \A i \in 1..n : p[i] = t[i]
  BY Prefix
<1>3. ASSUME NEW i \in Occurs(t, w), ~(i >= n) PROVE FALSE
  <2>1. i \in 0..(m - l) /\ SubSeq(t, i + 1, i + l) = w
    BY DEF Occurs
  <2> HIDE DEF l, m
  <2>2. i \in Nat /\ i < n
    BY <1>1, <1>3, <2>1
  <2>3. CASE i + l <= n
    <3>1. SubSeq(t, 0 + i + 1, 0 + i + l) = SubSeq(p, i + 1, i + l)
      <4>1. 0 + Len(p) <= Len(t) /\ i + l <= Len(p) /\ 0 \in Nat
        BY <1>1, <1>2, <2>3
      <4>2. \A k \in 1..Len(p) : p[k] = t[0 + k]
        BY <1>2
      <4>. QED BY <1>1, <1>2, <2>2, <4>1, <4>2, PartOf
    <3>2. SubSeq(p, i + 1, i + l) = w
      <4>1. 0 + i + 1 = i + 1 /\ 0 + i + l = i + l
        BY <1>1, <2>2
      <4>. QED BY <2>1, <3>1, <4>1, Zenon
    <3>3. i \in 0..(Len(p) - l)
      BY <1>1, <1>2, <2>2, <2>3
    <3>4. i \in Occurs(p, w)
      BY <3>2, <3>3 DEF Occurs, l
    <3>. QED BY <3>4
  <2>4. CASE ~(i + l <= n)
    <3>1. ASSUME NEW j \in 1..(n - i) PROVE p[i + j] = w[j]
      <4>1. j \in 1..l /\ i + j \in 1..n
        BY <1>1, <2>2, <2>4
      <4>2. t[i + j] = w[j]
        BY <1>1, <4>1, OccursAt DEF l
      <4>. QED BY <1>2, <4>1, <4>2
    <3>2. i \in 0..(n - 1) /\ i + l > n
      BY <1>1, <2>2, <2>4
    <3>3. i \in Open(p, w)
      BY <1>2, <3>1, <3>2 DEF Open, l
    <3>. QED BY <3>3
  <2>. QED BY <2>3, <2>4
<1>4. ASSUME NEW i \in Open(t, w), ~(i >= n) PROVE FALSE
  <2>1. i \in 0..(m - 1) /\ i + l > m /\ \A j \in 1..(m - i) : t[i + j] = w[j]
    BY DEF Open
  <2> HIDE DEF l, m
  <2>2. i \in 0..(n - 1) /\ i + l > n
    BY <1>1, <1>4, <2>1
  <2>3. ASSUME NEW j \in 1..(n - i) PROVE p[i + j] = w[j]
    <3>1. j \in 1..(m - i) /\ i + j \in 1..n
      BY <1>1, <2>1, <2>2
    <3>. QED BY <1>2, <2>1, <3>1
  <2>4. i \in Open(p, w)
    BY <1>2, <2>2, <2>3 DEF Open, l
  <2>. QED BY <2>4
<1>5. (\A i \in Occurs(t, w) : i \in Int) /\ \A i \in Open(t, w) : i \in Int
  BY <1>1 DEF Occurs, Open
<1>. QED BY <1>3, <1>4, <1>5

\* An occurrence in the part of a text up to e that begins behind n is one of the part behind n.
LEMMA OccursBehind ==
    ASSUME NEW t \in Seq(Chars), NEW n \in Nat, NEW e \in Nat, NEW f \in Nat, n <= f, e <= f, f <= Len(t),
           NEW u, u = SubSeq(t, 1, e), NEW q, q = SubSeq(t, n + 1, f), NEW w, Len(w) \in Nat,
           NEW i \in Occurs(u, w), i >= n
    PROVE  i - n \in Occurs(q, w) /\ i + Len(w) <= e
<1> DEFINE l == Len(w)
<1>0. e <= Len(t) /\ l \in Nat
  OBVIOUS
<1>1. u \in Seq(Chars) /\ Len(u) = e /\ \A k \in 1..e : u[k] = t[k]
  BY <1>0, Prefix
<1>2. q \in Seq(Chars) /\ Len(q) = f - n /\ n + Len(q) <= Len(t) /\ \A k \in 1..Len(q) : q[k] = t[n + k]
  BY PartFacts
<1>3. i \in 0..(Len(u) - l) /\ SubSeq(u, i + 1, i + l) = w
  BY DEF Occurs
<1> HIDE DEF l
<1>4. i \in Nat /\ i + l <= e /\ i - n \in Nat /\ (i - n) + l <= f - n /\ i - n \in 0..((f - n) - l)
  BY <1>0, <1>1, <1>3
<1>5. SubSeq(t, 0 + i + 1, 0 + i + l) = SubSeq(u, i + 1, i + l)
  <2>1. 0 + Len(u) <= Len(t) /\ i + l <= Len(u) /\ 0 \in Nat
    BY <1>0, <1>1, <1>4
  <2>2. \A k \in 1..Len(u) : u[k] = t[0 + k]
    BY <1>1
  <2>. QED BY <1>0, <1>1, <1>4, <2>1, <2>2, PartOf
<1> DEFINE a == i - n
<1>6. a \in Nat /\ a + l <= Len(q) /\ n + a = i
  BY <1>2, <1>4, SMTT(40)
<1>7. SubSeq(t, n + a + 1, n + a + l) = SubSeq(q, a + 1, a + l)
  <2> HIDE DEF a
  <2>1. a \in Nat /\ l \in Nat /\ a + l <= Len(q) /\ q \in Seq(Chars)
    BY <1>0, <1>2, <1>6
  <2>2. n + Len(q) <= Len(t) /\ \A k \in 1..Len(q) : q[k] = t[n + k]
    BY <1>2
  <2>3. ASSUME NEW b \in Nat, b + l <= Len(q)
        PROVE  SubSeq(t, n + b + 1, n + b + l) = SubSeq(q, b + 1, b + l)
    BY <2>1, <2>2, <2>3, PartOf
  <2>. QED BY <2>1, <2>3
<1>8. SubSeq(q, a + 1, a + l) = w
  <2>1. 0 + i + 1 = n + a + 1 /\ 0 + i + l = n + a + l
    BY <1>0, <1>4, <1>6
  <2> HIDE DEF a
  <2>. QED BY <1>3, <1>5, <1>7, <2>1
<1>9. a \in 0..(Len(q) - l)
  BY <1>2, <1>4
<1> HIDE DEF a
<1>10. a \in Occurs(q, w)
  BY <1>8, <1>9 DEF Occurs, l
<1>. QED BY <1>4, <1>10 DEF a, l

\* find_stopping_strings finds the first of the occurrences it looks at.
LEMMA FullStopFirst ==
    ASSUME conf \in Confs, NEW q \in Seq(Chars), NEW last \in Int, NEW w \in conf.stops, NEW i \in Occurs(q, w),
           i >= Len(q) - Len(w) - last
    PROVE  FullStop(q, last) \in Nat /\ FullStop(q, last) <= i
<1> DEFINE at == {k \in 0 .. Len(q) : \E v \in conf.stops :
                    k \in Occurs(q, v) /\ k >= Len(q) - Len(v) - last}
<1>1. FullStop(q, last) = IF at = {} THEN -1 ELSE Min(at)
  BY DEF FullStop
<1>2. at \subseteq 0..Len(q) /\ Len(q) \in Nat /\ Len(w) \in Nat
  BY ConfFacts
<1>3. i \in 0..Len(q)
  BY <1>2 DEF Occurs
<1>4. i \in at
  BY <1>3
<1> HIDE DEF at
<1>5. IsFiniteSet(at) /\ at \subseteq Int
  <2>1. IsFiniteSet(0..Len(q)) /\ 0..Len(q) \subseteq Int
    BY <1>2, FS_Interval
  <2>. QED BY <1>2, <2>1, FS_Subset
<1>6. Min(at) \in at /\ Min(at) <= i
  BY <1>4, <1>5, MinMax
<1> DEFINE least == Min(at)
<1>7. FullStop(q, last) = least /\ least \in 0..Len(q) /\ least <= i
  BY <1>1, <1>2, <1>4, <1>6
<1> HIDE DEF least
<1>8. least \in Nat
  BY <1>2, <1>7
<1>. QED BY <1>7, <1>8

\* A text that breaks off inside a stop string behind n ends with the beginning of one.
LEMMA OpenPartial ==
    ASSUME conf \in Confs, NEW t \in Seq(Chars), NEW n \in Nat, n <= Len(t), NEW q, q = SubSeq(t, n + 1, Len(t)),
           NEW w \in conf.stops, NEW i \in Open(t, w), i >= n
    PROVE  PartialStop(q)
<1> DEFINE l == Len(w)
           m == Len(t)
           k == m - i
           x == SubSeq(w, 1, k)
<1>1. l \in Nat /\ m \in Nat /\ l > 0
  BY ConfFacts
<1>2. q \in Seq(Chars) /\ Len(q) = m - n /\ \A j \in 1..Len(q) : q[j] = t[n + j]
  <2>1. m \in Nat /\ n <= m /\ m <= Len(t)
    OBVIOUS
  <2>2. q = SubSeq(t, n + 1, m)
    OBVIOUS
  <2> HIDE DEF m
  <2>. QED BY <2>1, <2>2, PartFacts
<1>3. i \in 0..(m - 1) /\ i + l > m /\ \A j \in 1..(m - i) : t[i + j] = w[j]
  BY DEF Open
<1>4. x = [j \in 1..k |-> w[j]]
  BY <1>1, <1>3
<1> HIDE DEF l, m
<1>5. k \in 1..l /\ k \in Nat /\ k <= m - n
  BY <1>1, <1>3
<1>6. Len(x) = k /\ \A j \in 1..k : x[j] = w[j]
  BY <1>4, <1>5
<1> HIDE DEF k, x
<1>7. Reverse(x) = [j \in 1..k |-> x[(k - j) + 1]]
  BY <1>6 DEF Reverse
<1>8. Reverse(q) = [j \in 1..(m - n) |-> q[((m - n) - j) + 1]]
  BY <1>2 DEF Reverse
<1>9. ASSUME NEW j \in 1..k PROVE Reverse(x)[j] = Reverse(q)[j]
  <2>1. (k - j) + 1 \in 1..k /\ j \in 1..(m - n) /\ ((m - n) - j) + 1 \in 1..(m - n)
    BY <1>1, <1>5
  <2>2. Reverse(x)[j] = w[(k - j) + 1]
    BY <1>6, <1>7, <2>1
  <2>3. Reverse(q)[j] = t[n + (((m - n) - j) + 1)]
    BY <1>2, <1>8, <2>1
  <2>4. n + (((m - n) - j) + 1) = i + ((k - j) + 1) /\ (k - j) + 1 \in 1..(m - i)
    BY <1>1, <1>3, <1>5 DEF k
  <2>. QED BY <1>3, <2>2, <2>3, <2>4
<1>10. Len(Reverse(x)) = k /\ Len(Reverse(q)) = m - n
  <2>1. Len(Reverse(x)) = k
    BY <1>5, <1>7
  <2> DEFINE d == m - n
             b == Reverse(q)
  <2>2. d \in Nat /\ b = [j \in 1..d |-> q[(d - j) + 1]]
    <3>1. d \in Nat
      BY <1>1, <1>5
    <3>2. b = [j \in 1..d |-> q[(d - j) + 1]]
      BY <1>8, Zenon
    <3>. QED BY <3>1, <3>2
  <2> HIDE DEF d, b
  <2>3. Len(b) = d
    BY <2>2
  <2>. QED BY <2>1, <2>3 DEF d, b
<1>11. SubSeq(Reverse(x), 1, k) = SubSeq(Reverse(q), 1, k)
  <2> DEFINE a == Reverse(x)
             b == Reverse(q)
  <2> HIDE DEF a, b
  <2>1. SubSeq(a, 1, k) = [j \in 1..k |-> a[j]] /\ SubSeq(b, 1, k) = [j \in 1..k |-> b[j]]
    BY <1>5
  <2>2. \A j \in 1..k : a[j] = b[j]
    BY <1>9 DEF a, b
  <2>. QED BY <2>1, <2>2 DEF a, b
<1>12. IsSuffix(x, q)
  BY <1>5, <1>10, <1>11 DEF IsSuffix, IsPrefix
<1>. QED BY <1>5, <1>12 DEF PartialStop, x, l

\* The slot has met no stop string: none in its text, and the text that was sent does not
\* break off inside one.
Quiet(s) == ~s.eos /\ NoStop(s.text) /\ NoStop(s.stream) /\ Closed(s.stream)

\* The text v with the token of the text str.
Added(s, v, str) ==
  /\ v.tested = SubSeq(v.all, s.n_sent + 1, Len(v.all)) /\ v.len = Len(str)
  /\ Len(v.all) = Len(s.text) + Len(str) /\ str \in Seq(Chars)
  /\ \A j \in 1..Len(str) : v.all[Len(s.text) + j] = str[j]
  /\ SubSeq(v.all, 1, Len(s.text)) = s.text /\ SubSeq(v.all, 1, s.n_sent) = SubSeq(s.text, 1, s.n_sent)

LEMMA TestedFacts ==
    ASSUME NEW s \in SlotOK, NEW tok \in Tokens, NEW v, v = WithToken(s, tok),
           NEW str, str = (IF tok = Eog THEN <<>> ELSE Piece[tok])
    PROVE  Added(s, v, str)
<1> DEFINE t == s.text
           n == s.n_sent
           all == t \o str
<1>1. str \in Seq(Chars) /\ t \in Seq(Chars) /\ n \in Nat /\ n <= Len(t)
  BY VocabFacts DEF SlotOK, SlotRec, Streamed
<1>2. v.all = all /\ v.len = Len(str) /\ v.tested = SubSeq(all, n + 1, Len(all))
  BY DEF WithToken
<1> HIDE DEF t, n
<1>3. /\ all \in Seq(Chars) /\ Len(all) = Len(t) + Len(str)
      /\ \A i \in 1..Len(t) : all[i] = t[i]
      /\ \A j \in 1..Len(str) : all[Len(t) + j] = str[j]
  BY <1>1
<1> HIDE DEF all
<1>4. SubSeq(all, 1, Len(t)) = SubSeq(t, 1, Len(t)) /\ SubSeq(t, 1, Len(t)) = t
  <2>1. Len(t) \in Nat /\ Len(t) <= Len(all) /\ Len(t) <= Len(t)
    BY <1>1, <1>3
  <2>. QED BY <1>1, <1>3, <2>1, SamePrefix, SubSeqFull
<1>5. SubSeq(all, 1, n) = SubSeq(t, 1, n)
  <2>1. n <= Len(all) /\ \A i \in 1..n : all[i] = t[i]
    BY <1>1, <1>3
  <2>. QED BY <1>1, <1>3, <2>1, SamePrefix
<1>. QED BY <1>1, <1>2, <1>3, <1>4, <1>5 DEF t, n, Added

\* An occurrence in the text with the token.
Found(s, v, w, i) ==
  /\ i \in Nat /\ i >= s.n_sent /\ i + Len(w) > Len(s.text) /\ i + Len(w) <= Len(v.all)
  /\ i - s.n_sent \in Occurs(v.tested, w)
  /\ i - s.n_sent >= Len(v.tested) - Len(w) - v.len

\* A stop string the token completes lies in the text that was not sent, where
\* find_stopping_strings looks for it.
LEMMA FreshStop ==
    ASSUME conf \in Confs, NEW s \in SlotOK, Quiet(s), NEW tok \in Tokens, NEW v, v = WithToken(s, tok),
           NEW w \in conf.stops
    PROVE  /\ \A i \in Occurs(v.all, w) : Found(s, v, w, i)
           /\ Open(v.all, w) # {} => PartialStop(v.tested)
<1> DEFINE str == IF tok = Eog THEN <<>> ELSE Piece[tok]
           t == s.text
           n == s.n_sent
           all == v.all
           q == v.tested
           l == Len(w)
           p == s.stream
<1>1. /\ q = SubSeq(all, n + 1, Len(all)) /\ v.len = Len(str) /\ Len(all) = Len(t) + Len(str) /\ str \in Seq(Chars)
      /\ SubSeq(all, 1, Len(t)) = t /\ SubSeq(all, 1, n) = SubSeq(t, 1, n)
  <2>1. str = IF tok = Eog THEN <<>> ELSE Piece[tok]
    OBVIOUS
  <2> HIDE DEF str
  <2>2. Added(s, v, str)
    BY <2>1, TestedFacts
  <2>. QED BY <2>2, Zenon DEF Added
<1>2. t \in Seq(Chars) /\ n \in Nat /\ n <= Len(t) /\ p = SubSeq(t, 1, n)
  BY DEF SlotOK, SlotRec, Streamed, Quiet
<1>3. all \in Seq(Chars) /\ Len(t) <= Len(all) /\ Len(q) = Len(all) - n
  BY WithTokenFacts
<1>4. l \in Nat /\ l > 0
  BY ConfFacts
<1>5. Occurs(t, w) = {} /\ Occurs(p, w) = {} /\ Open(p, w) = {}
  BY DEF Quiet, NoStop, Closed
<1> DEFINE d == v.len
<1>6. d = Len(str) /\ d \in Nat
  BY <1>1
<1> HIDE DEF str, t, n, all, q, p, d
<1>7. n <= Len(all) /\ p = SubSeq(all, 1, n) /\ Len(t) \in Nat /\ Len(all) \in Nat
  BY <1>1, <1>2, <1>3
<1>8. (\A i \in Occurs(all, w) : i >= n) /\ \A i \in Open(all, w) : i >= n
  BY <1>2, <1>3, <1>4, <1>5, <1>7, Crossing
<1>9. ASSUME NEW i \in Occurs(all, w)
      PROVE  /\ i \in Nat /\ i >= n /\ i + l > Len(t) /\ i + l <= Len(all) /\ i - n \in Occurs(q, w)
             /\ i - n >= Len(q) - l - d
  <2>1. i \in 0..(Len(all) - l) /\ SubSeq(all, i + 1, i + l) = w
    BY DEF Occurs
  <2>2. i \in Nat /\ i >= n /\ i + l <= Len(all)
    <3> HIDE DEF l
    <3>. QED BY <1>4, <1>7, <1>8, <2>1
  <2>3. i + l > Len(t)
    <3> SUFFICES ASSUME i + l <= Len(t) PROVE FALSE
      <4> HIDE DEF l
      <4>. QED BY <1>4, <1>7, <2>2
    <3>1. \A k \in 1..Len(t) : t[k] = all[0 + k]
      <4>1. Len(t) \in Nat /\ Len(t) <= Len(all)
        BY <1>3, <1>7
      <4>2. \A k \in 1..Len(t) : SubSeq(all, 1, Len(t))[k] = all[k]
        BY <1>3, <4>1, Prefix
      <4>. QED BY <1>1, <4>2
    <3>2. 0 + Len(t) <= Len(all) /\ 0 \in Nat
      BY <1>3, <1>7
    <3> HIDE DEF l
    <3>3. SubSeq(all, 0 + i + 1, 0 + i + l) = SubSeq(t, i + 1, i + l)
      <4>1. ASSUME NEW b \in Nat, b + l <= Len(t)
            PROVE  SubSeq(all, 0 + b + 1, 0 + b + l) = SubSeq(t, b + 1, b + l)
        BY <1>2, <1>3, <1>4, <3>1, <3>2, <4>1, PartOf
      <4>. QED BY <2>2, <4>1
    <3>4. 0 + i + 1 = i + 1 /\ 0 + i + l = i + l
      BY <1>4, <2>2
    <3>5. SubSeq(t, i + 1, i + l) = w
      BY <2>1, <3>3, <3>4, Zenon
    <3>6. i \in 0..(Len(t) - l)
      BY <1>4, <1>7, <2>2
    <3>7. i \in Occurs(t, w)
      BY <3>5, <3>6 DEF Occurs, l
    <3>. QED BY <1>5, <3>7
  <2>4. i - n \in Occurs(q, w)
    <3> DEFINE e == Len(all)
    <3>1. e \in Nat /\ n <= e /\ e <= e /\ e <= Len(all) /\ all = SubSeq(all, 1, e) /\ q = SubSeq(all, n + 1, e)
      BY <1>1, <1>3, <1>7, SubSeqFull
    <3> HIDE DEF e
    <3>. QED BY <1>2, <1>3, <1>4, <2>2, <3>1, OccursBehind
  <2>5. i - n >= Len(q) - l - d
    <3> DEFINE a == Len(all)
               b == Len(t)
               c == Len(q)
               g == Len(str)
    <3>1. a = b + g /\ c = a - n /\ d = g /\ d \in Nat /\ a \in Nat /\ b \in Nat /\ i + l > b
      BY <1>1, <1>3, <1>6, <1>7, <2>3
    <3> HIDE DEF a, b, c, g, l
    <3>2. i - n >= c - l - d
      BY <1>2, <1>4, <2>2, <3>1
    <3>. QED BY <3>2 DEF c
  <2>. QED BY <2>2, <2>3, <2>4, <2>5
<1>10. ASSUME NEW i \in Open(all, w) PROVE PartialStop(q)
  BY <1>1, <1>2, <1>3, <1>7, <1>8, OpenPartial
<1>11. \A i \in Occurs(all, w) : Found(s, v, w, i)
  BY <1>9 DEF Found, t, n, all, q, d, l
<1>12. Open(all, w) # {} => PartialStop(q)
  BY <1>10
<1>. QED BY <1>11, <1>12 DEF all, q

\* A token that ends inside a character completes no stop string.
LEMMA CutStop ==
    ASSUME conf \in Confs, SafeStops(Confs), NEW s \in SlotOK, Quiet(s), NEW tok \in Sampled(conf), tok \in Tokens,
           NEW v, v = WithToken(s, tok), v.cut
    PROVE  NoStop(v.all)
<1> DEFINE str == IF tok = Eog THEN <<>> ELSE Piece[tok]
           t == s.text
           all == v.all
<1>1. /\ v.len = Len(str) /\ Len(all) = Len(t) + Len(str) /\ str \in Seq(Chars)
      /\ \A j \in 1..Len(str) : all[Len(t) + j] = str[j]
  <2>1. str = IF tok = Eog THEN <<>> ELSE Piece[tok]
    OBVIOUS
  <2> HIDE DEF str
  <2>2. Added(s, v, str)
    BY <2>1, TestedFacts
  <2>. QED BY <2>2, Zenon DEF Added
<1>2. all \in Seq(Chars) /\ Len(t) <= Len(all) /\ Valid(all) < Len(all) /\ t \in Seq(Chars)
  <2>1. t \in Seq(Chars)
    BY DEF SlotOK, SlotRec
  <2>. QED BY <2>1, WithTokenFacts
<1> HIDE DEF all
<1>3. all # <<>> /\ Last(all) = Lead
  <2>1. Len(all) \in Nat /\ ~(Len(all) < Len(all))
    BY <1>2
  <2>. QED BY <1>2, <2>1 DEF Valid
<1>4. ASSUME NEW w \in conf.stops, NEW i \in Occurs(all, w) PROVE FALSE
  <2> DEFINE l == Len(w)
             b == Len(t)
             g == Len(str)
             a == Len(all)
  <2>1. l \in Nat /\ l > 0
    BY ConfFacts
  <2>2. i \in Nat /\ i + l > b /\ i + l <= a
    <3>1. Found(s, v, w, i)
      BY <1>4, FreshStop DEF all
    <3>. QED BY <3>1 DEF Found, all
  <2>3. all[i + l] = w[l]
    <3>1. l \in 1..Len(w)
      BY <2>1
    <3>. QED BY <1>2, <2>1, <3>1, OccursAt
  <2>4. a = b + g /\ g \in Nat /\ b \in Nat /\ a \in Nat
    <3> HIDE DEF str, t
    <3>. QED BY <1>1, <1>2
  <2> DEFINE j == i + l - b
  <2>5. j \in 1..g /\ b + j = i + l /\ g >= 1 /\ g \in 1..g /\ b + g = a
    <3> HIDE DEF l, b, g, a
    <3>. QED BY <2>1, <2>2, <2>4
  <2>6. str[j] = w[l]
    BY <1>1, <2>3, <2>5
  <2>7. str[g] = Lead
    <3>1. Last(all) = all[a]
      BY DEF Last
    <3>2. all[b + g] = str[g]
      BY <1>1, <2>5
    <3>. QED BY <1>3, <2>5, <3>1, <3>2
  <2>8. str = Piece[tok] /\ str # <<>>
    <3>1. str # <<>>
      BY <1>1, <2>5
    <3>. QED BY <3>1
  <2>9. Last(str) = Lead
    BY <2>7 DEF Last
  <2>10. w[l] \notin ToSet(Piece[tok])
    <3>1. Piece[tok] # <<>> /\ Last(Piece[tok]) = Lead
      BY <2>8, <2>9
    <3>. QED BY <3>1 DEF SafeStops
  <2>11. str[j] \in ToSet(str)
    BY <1>1, <2>5 DEF ToSet
  <2>. QED BY <2>6, <2>8, <2>10, <2>11
<1>. QED BY <1>4 DEF NoStop, all

\* The beginning of a text without a stop string has none.
LEMMA NoStopPrefix ==
    ASSUME conf \in Confs, NEW t \in Seq(Chars), NoStop(t), NEW e \in 0..Len(t)
    PROVE  NoStop(SubSeq(t, 1, e))
<1> DEFINE p == SubSeq(t, 1, e)
<1>1. e \in Nat /\ e <= Len(t) /\ 0 \in Nat
  OBVIOUS
<1>2. p \in Seq(Chars) /\ Len(p) = e /\ \A i \in 1..e : p[i] = t[i]
  BY <1>1, Prefix
<1> HIDE DEF p
<1>3. 0 + Len(p) <= Len(t) /\ \A i \in 1..Len(p) : p[i] = t[0 + i]
  BY <1>1, <1>2
<1>4. ASSUME NEW w \in conf.stops PROVE Occurs(p, w) = {}
  <2>1. Len(w) \in Nat /\ Occurs(t, w) = {}
    BY ConfFacts DEF NoStop
  <2>2. \A i \in Occurs(p, w) : 0 + i \in Occurs(t, w)
    BY <1>1, <1>2, <1>3, <2>1, OccursPart
  <2>. QED BY <2>1, <2>2
<1>. QED BY <1>4 DEF NoStop, p

\* What process_token keeps of the text has no stop string, and does not break off inside one
\* when it is sent.
LEMMA CheckedStop ==
    ASSUME conf \in Confs, SafeStops(Confs), NEW s \in SlotOK, Quiet(s), NEW tok \in Sampled(conf), tok \in Tokens,
           NEW v, v = WithToken(s, tok), NEW c, c = Checked(s, tok, v)
    PROVE  NoStop(c.text) /\ (c.stop < 0 /\ ~c.hold /\ tok # Eog => Closed(c.text))
<1> DEFINE stop == IF v.cut THEN -1 ELSE FullStop(v.tested, v.len)
           all == v.all
           n == s.n_sent
           q == v.tested
           d == v.len
<1>1. /\ c.stop = stop /\ c.text = IF stop >= 0 THEN SubSeq(all, 1, n + stop) ELSE all
      /\ c.hold = (v.cut \/ (stop < 0 /\ tok # Eog /\ PartialStop(q)))
  BY DEF Checked
<1>2. /\ all \in Seq(Chars) /\ Len(s.text) <= Len(all) /\ d \in Nat /\ v.cut \in BOOLEAN
      /\ q \in Seq(Chars) /\ Len(q) = Len(all) - n
  BY WithTokenFacts
<1>3. n \in Nat /\ n <= Len(s.text) /\ s.text \in Seq(Chars) /\ s.stream = SubSeq(s.text, 1, n)
  BY DEF SlotOK, SlotRec, Streamed, Quiet
<1>4. q = SubSeq(all, n + 1, Len(all)) /\ SubSeq(all, 1, n) = SubSeq(s.text, 1, n)
  <2> DEFINE str == IF tok = Eog THEN <<>> ELSE Piece[tok]
  <2>1. str = IF tok = Eog THEN <<>> ELSE Piece[tok]
    OBVIOUS
  <2> HIDE DEF str
  <2>2. Added(s, v, str)
    BY <2>1, TestedFacts
  <2>. QED BY <2>2, Zenon DEF Added
<1>5. ASSUME NEW w \in conf.stops PROVE \A i \in Occurs(all, w) : Found(s, v, w, i)
  BY FreshStop
<1>6. ~PartialStop(q) => Closed(all)
  <2>1. ASSUME NEW w \in conf.stops PROVE Open(all, w) # {} => PartialStop(q)
    BY FreshStop
  <2>. QED BY <2>1 DEF Closed
<1>7. v.cut => NoStop(all)
  BY CutStop
<1>8. \A w \in conf.stops : Len(w) \in Nat /\ Len(w) > 0
  BY ConfFacts
<1>9. stop \in Int /\ stop <= Len(q)
  <2>1. CASE v.cut
    BY <1>2, <2>1
  <2>2. CASE ~v.cut
    <3> HIDE DEF q, d
    <3>0. d \in Int
      BY <1>2
    <3>1. FullStop(q, d) \in -1..Len(q)
      BY <1>2, <3>0, FullStopAt
    <3>2. stop = FullStop(q, d)
      BY <2>2 DEF q, d
    <3>. QED BY <1>2, <3>1, <3>2
  <2>. QED BY <2>1, <2>2
<1>10. CASE v.cut
  <2>1. stop = -1 /\ c.text = all /\ c.hold
    <3>1. stop = -1 /\ ~(stop >= 0)
      BY <1>10
    <3>2. c.hold
      BY <1>1, <1>10, Zenon
    <3>. QED BY <1>1, <3>1, <3>2, Zenon
  <2>. QED BY <1>7, <1>10, <2>1
<1>11. CASE ~v.cut
  <2>1. stop = FullStop(q, d)
    BY <1>11
  <2>2. c.stop = stop
    BY <1>1
  <2> HIDE DEF stop, q, d, n, all
  <2>3. ASSUME NEW w \in conf.stops, NEW k \in Occurs(q, w), k >= Len(q) - Len(w) - d
        PROVE  stop \in Nat /\ stop <= k
    <3>1. d \in Int
      BY <1>2
    <3>. QED BY <1>2, <2>1, <2>3, <3>1, FullStopFirst
  <2>4. ASSUME NEW w \in conf.stops, NEW i \in Occurs(all, w)
        PROVE  i \in Nat /\ i >= n /\ stop \in Nat /\ stop <= i - n
    <3>1. Found(s, v, w, i)
      BY <1>5, <2>4 DEF all
    <3>2. i \in Nat /\ i >= n /\ i - n \in Occurs(q, w) /\ i - n >= Len(q) - Len(w) - d
      BY <3>1 DEF Found, n, q, d
    <3>. QED BY <2>3, <3>2
  <2>5. CASE stop < 0
    <3>1. c.text = all
      BY <1>1, <1>9, <2>5 DEF all
    <3>2. NoStop(all)
      <4>1. ASSUME NEW w \in conf.stops, NEW i \in Occurs(all, w) PROVE FALSE
        <5>1. stop \in Nat
          BY <2>4
        <5>. QED BY <2>5, <5>1
      <4>. QED BY <4>1 DEF NoStop
    <3>3. ~c.hold /\ tok # Eog => ~PartialStop(q)
      BY <1>1, <2>5 DEF q
    <3>. QED BY <1>6, <3>1, <3>2, <3>3
  <2>6. CASE ~(stop < 0)
    <3> DEFINE e == n + stop
               u == SubSeq(all, 1, e)
               a == Len(all)
    <3>1. c.text = u
      <4>1. stop >= 0
        BY <1>9, <2>6
      <4>. QED BY <1>1, <4>1, Zenon
    <3>2. e \in Nat /\ a \in Nat /\ n <= a /\ e <= a /\ n <= e /\ stop \in Nat /\ a <= Len(all) /\ e <= Len(all)
      <4> DEFINE b == Len(s.text)
                 g == Len(q)
      <4>1. b \in Nat /\ n \in Nat /\ n <= b /\ b <= a /\ a \in Nat /\ g = a - n /\ stop \in Int /\ stop <= g
        BY <1>2, <1>3, <1>9
      <4> HIDE DEF a, b, g
      <4>2. e \in Nat /\ a \in Nat /\ n <= a /\ e <= a /\ n <= e /\ stop \in Nat
        BY <2>6, <4>1
      <4>. QED BY <4>2 DEF a
    <3>3. q = SubSeq(all, n + 1, a) /\ SubSeq(u, 1, n) = SubSeq(all, 1, n) /\ u \in Seq(Chars) /\ Len(u) = e
      <4> HIDE DEF e
      <4>. QED BY <1>2, <1>3, <1>4, <3>2, Prefix
    <3> DEFINE p == s.stream
    <3>4. p = SubSeq(u, 1, n) /\ n <= Len(u)
      <4> HIDE DEF u
      <4>. QED BY <1>3, <1>4, <3>2, <3>3
    <3>5. u = SubSeq(all, 1, e)
      OBVIOUS
    <3> HIDE DEF u, e, a, p
    <3>6. ASSUME NEW w \in conf.stops, NEW i \in Occurs(u, w) PROVE FALSE
      <4>1. Len(w) \in Nat /\ Len(w) > 0 /\ Occurs(p, w) = {} /\ Open(p, w) = {}
        BY <1>8 DEF Quiet, NoStop, Closed, p
      <4>2. i >= n
        BY <1>3, <3>3, <3>4, <3>6, <4>1, Crossing
      <4>3. i - n \in Occurs(q, w) /\ i + Len(w) <= e
        <5>1. all \in Seq(Chars) /\ n \in Nat /\ e \in Nat /\ a \in Nat /\ n <= a /\ e <= a /\ a <= Len(all)
          BY <1>2, <1>3, <3>2
        <5>2. u = SubSeq(all, 1, e) /\ q = SubSeq(all, n + 1, a) /\ Len(w) \in Nat
          BY <3>3, <3>5, <4>1
        <5>. QED BY <3>6, <4>2, <5>1, <5>2, OccursBehind
      <4>4. i \in Occurs(all, w)
        <5>1. \A k \in 1..Len(u) : u[k] = all[0 + k]
          <6>1. \A k \in 1..e : SubSeq(all, 1, e)[k] = all[k]
            BY <1>2, <3>2, Prefix
          <6>. QED BY <3>3, <3>5, <6>1
        <5>2. 0 + Len(u) <= Len(all) /\ 0 \in Nat
          BY <3>2, <3>3
        <5>3. 0 + i \in Occurs(all, w)
          BY <1>2, <3>3, <3>6, <4>1, <5>1, <5>2, OccursPart
        <5>4. 0 + i = i
          BY <4>3, <3>6 DEF Occurs
        <5>. QED BY <5>3, <5>4
      <4>5. i \in Nat /\ stop <= i - n
        BY <2>4, <3>6, <4>4
      <4> DEFINE l == Len(w)
      <4>6. l \in Nat /\ l > 0 /\ i + l <= e
        BY <4>1, <4>3
      <4> HIDE DEF l
      <4>. QED BY <1>3, <3>2, <4>5, <4>6 DEF e
    <3>7. NoStop(u)
      BY <3>6 DEF NoStop
    <3>. QED BY <2>2, <2>6, <3>1, <3>7
  <2>. QED BY <2>5, <2>6
<1>. QED BY <1>10, <1>11

\* What is streamed with a token is the beginning of the text; as long as the reply goes on,
\* all of it or nothing new.
SentOf(s, tok, last, c, p) ==
  /\ \E e \in 0..Len(c.text) : p.stream = SubSeq(c.text, 1, e)
  /\ (c.next \/ ~last) /\ tok # Eog => p.text = c.text /\ p.stream = (IF c.hold THEN s.stream ELSE c.text)
  /\ p.next = c.next /\ (c.stop >= 0 => p.word) /\ p.eos = (s.eos \/ tok = Eog)

LEMMA SendingStream ==
    ASSUME conf \in Confs, NEW s \in SlotOK, ~s.eos, NEW tok \in Tokens, NEW last \in BOOLEAN,
           NEW c, c = Checked(s, tok, WithToken(s, tok)), NEW p, p = Sending(s, tok, last, c)
    PROVE  SentOf(s, tok, last, c, p)
<1> DEFINE sent   == IF c.hold THEN s.n_sent ELSE Len(c.text)
           end    == IF c.cut THEN Valid(c.text) ELSE Len(c.text)
           tail   == SubSeq(c.text, sent + 1, end)
           late   == IF c.cut /\ last /\ ~c.next THEN FullStop(tail, end - sent) ELSE -1
           stopat == IF late >= 0 THEN sent + late ELSE end
           free   == last /\ ~c.next /\ sent < stopat
           chunk  == IF c.cut \/ tok = Eog THEN <<>> ELSE SubSeq(c.text, s.n_sent + 1, sent)
           held   == IF free THEN SubSeq(c.text, sent + 1, stopat) ELSE <<>>
           text   == IF late >= 0 THEN SubSeq(c.text, 1, stopat) ELSE c.text
           n_sent == IF free THEN stopat ELSE sent
           all    == c.text
           n      == s.n_sent
<1>1. /\ c.stop \in Int /\ c.cut \in BOOLEAN /\ c.next \in BOOLEAN
      /\ c.hold \in BOOLEAN /\ all \in Seq(Chars)
      /\ n <= Len(all) /\ \A i \in 1..n : all[i] = s.text[i]
      /\ c.cut => c.stop < 0 /\ c.hold
      /\ c.next => tok # Eog
  <2>1. c.next <=> c.stop < 0 /\ ~c.limit /\ tok # Eog
    BY CheckedFacts
  <2>. QED BY <2>1, CheckedFacts
<1>2. /\ s \in SlotRec /\ n \in Nat /\ n <= Len(s.text) /\ s.text \in Seq(Chars)
      /\ s.stream \in Seq(Chars) /\ s.stream = SubSeq(s.text, 1, n)
  BY DEF SlotOK, SlotRec, Streamed
<1>3. /\ p.text = text /\ p.stream = s.stream \o chunk \o held
      /\ p.eos = (s.eos \/ tok = Eog) /\ p.next = c.next /\ p.word = (s.word \/ c.stop >= 0 \/ late >= 0)
  BY <1>2 DEF Sending, SlotRec
<1>4. /\ sent \in Nat /\ n <= sent /\ sent <= Len(all) /\ (c.hold => sent = n) /\ (~c.hold => sent = Len(all))
      /\ end \in Nat /\ end <= Len(all) /\ (~c.cut => end = Len(all)) /\ Len(all) \in Nat
  BY <1>1, <1>2, ValidFacts
<1> HIDE DEF sent, end
<1>5. late \in Int /\ (late >= 0 => sent + late <= Len(all) /\ last /\ ~c.next)
  <2>1. CASE c.cut /\ last /\ ~c.next
    <3>1. sent <= end => tail \in Seq(Chars) /\ Len(tail) = end - sent
      <4> HIDE DEF all
      <4>1. tail = SubSeq(all, sent + 1, end)
        BY DEF all
      <4>. QED BY <1>1, <1>4, <4>1, PartFacts
    <3>2. ~(sent <= end) => tail = <<>>
      <4>1. sent + 1 \in Int /\ end \in Int /\ (~(sent <= end) => sent + 1 > end)
        BY <1>4
      <4>. QED BY <4>1, SubSeqEmpty
    <3>3. tail \in Seq(Chars) /\ Len(tail) <= Len(all) - sent
      BY <1>4, <3>1, <3>2
    <3> HIDE DEF tail
    <3>4. end - sent \in Int
      BY <1>4
    <3>5. FullStop(tail, end - sent) \in -1..Len(tail)
      BY <3>3, <3>4, FullStopAt
    <3>. QED BY <1>4, <2>1, <3>3, <3>5
  <2>2. CASE ~(c.cut /\ last /\ ~c.next)
    BY <2>2
  <2>. QED BY <2>1, <2>2
<1> HIDE DEF late
<1>6. stopat \in Nat /\ stopat <= Len(all)
  BY <1>4, <1>5
<1>7. free => sent < stopat /\ last /\ ~c.next
  OBVIOUS
<1> HIDE DEF stopat
<1>8. s.stream = SubSeq(all, 1, n)
  <2> HIDE DEF all, n
  <2>1. SubSeq(s.text, 1, n) = SubSeq(all, 1, n)
    BY <1>1, <1>2, SamePrefix
  <2>. QED BY <1>2, <2>1
<1>9. PICK e \in n..Len(all) : s.stream \o chunk = SubSeq(all, 1, e) /\ (free => e = sent) /\ (tok # Eog => e = sent)
  <2>1. CASE c.cut \/ tok = Eog
    <3>1. chunk = <<>>
      BY <2>1
    <3>2. s.stream \o <<>> = s.stream
      BY <1>2, ConcatEmptySeq
    <3>3. c.cut => n = sent
      BY <1>1, <1>4
    <3>4. free /\ ~c.cut => n = sent
      <4> SUFFICES ASSUME free, ~c.cut PROVE n = sent
        OBVIOUS
      <4>1. late < 0
        BY <1>5 DEF late
      <4>2. stopat = Len(all)
        BY <1>4, <1>5, <4>1 DEF stopat
      <4>3. sent # Len(all)
        BY <1>4, <1>7, <4>2
      <4>. QED BY <1>1, <1>4, <4>3
    <3>5. n \in n..Len(all)
      BY <1>1, <1>2, <1>4
    <3>. QED BY <1>8, <2>1, <3>1, <3>2, <3>3, <3>4, <3>5
  <2>2. CASE ~(c.cut \/ tok = Eog)
    <3>1. chunk = SubSeq(all, n + 1, sent)
      BY <2>2
    <3> HIDE DEF all, n
    <3>2. SubSeq(all, 1, n) \o SubSeq(all, n + 1, sent) = SubSeq(all, 1, sent)
      BY <1>1, <1>2, <1>4, Joined
    <3>3. sent \in n..Len(all)
      BY <1>2, <1>4
    <3>4. s.stream \o chunk = SubSeq(all, 1, sent)
      BY <1>8, <3>1, <3>2
    <3> HIDE DEF chunk
    <3>. QED BY <3>3, <3>4
  <2>. QED BY <2>1, <2>2
<1>10. e \in Nat /\ e <= Len(all) /\ e \in 0..Len(all)
  BY <1>2, <1>4
<1>11. s.stream \o chunk \in Seq(Chars)
  <2> HIDE DEF all, chunk
  <2>. QED BY <1>1, <1>9, <1>10, Prefix
<1>12. ~free => p.stream = SubSeq(all, 1, e)
  <2> SUFFICES ASSUME ~free PROVE p.stream = SubSeq(all, 1, e)
    OBVIOUS
  <2>1. held = <<>>
    OBVIOUS
  <2> DEFINE y == s.stream \o chunk
  <2>2. y \in Seq(Chars) /\ p.stream = y \o <<>> /\ y = SubSeq(all, 1, e)
    BY <1>3, <1>9, <1>11, <2>1, Zenon
  <2> HIDE DEF y
  <2>3. y \o <<>> = y
    BY <2>2, ConcatEmptySeq
  <2>. QED BY <2>2, <2>3
<1>13. free => p.stream = SubSeq(all, 1, stopat)
  <2> SUFFICES ASSUME free PROVE p.stream = SubSeq(all, 1, stopat)
    OBVIOUS
  <2>1. held = SubSeq(all, sent + 1, stopat) /\ e = sent /\ sent <= stopat
    BY <1>4, <1>6, <1>7, <1>9
  <2> HIDE DEF all, held, chunk, free
  <2>2. SubSeq(all, 1, sent) \o SubSeq(all, sent + 1, stopat) = SubSeq(all, 1, stopat)
    BY <1>1, <1>4, <1>6, <2>1, Joined
  <2>. QED BY <1>3, <1>9, <2>1, <2>2, Zenon
<1>14. \E k \in 0..Len(all) : p.stream = SubSeq(all, 1, k)
  <2>1. stopat \in 0..Len(all)
    BY <1>4, <1>6
  <2> HIDE DEF free, all
  <2>. QED BY <1>10, <1>12, <1>13, <2>1
<1>15. ASSUME c.next \/ ~last, tok # Eog PROVE p.text = all /\ p.stream = (IF c.hold THEN s.stream ELSE all)
  <2>1. ~free /\ ~(late >= 0)
    BY <1>5, <1>15
  <2>2. p.text = all
    BY <1>3, <2>1
  <2>3. p.stream = SubSeq(all, 1, sent)
    BY <1>9, <1>12, <1>15, <2>1
  <2>4. c.hold => SubSeq(all, 1, sent) = s.stream
    BY <1>4, <1>8
  <2>5. ~c.hold => SubSeq(all, 1, sent) = all
    <3> HIDE DEF all
    <3>. QED BY <1>1, <1>4, SubSeqFull
  <2>. QED BY <2>2, <2>3, <2>4, <2>5
<1>16. c.stop >= 0 => p.word
  <2>1. (c.stop >= 0) \in BOOLEAN /\ s.word \in BOOLEAN
    BY <1>1, <1>2 DEF SlotRec
  <2>. QED BY <1>3, <2>1, Zenon
<1>. QED BY <1>3, <1>14, <1>15, <1>16, Zenon DEF SentOf

\* process_token streams no stop string, and a slot that goes on is quiet.
LEMMA StopToken ==
    ASSUME conf \in Confs, SafeStops(Confs), NEW s \in SlotOK, Quiet(s), NEW tok \in Sampled(conf), tok \in Tokens,
           NEW last \in BOOLEAN, NEW p, p = ProcessToken(s, tok, last)
    PROVE  NoStop(p.stream) /\ (p.next \/ (LimitOnly(p) /\ ~last) => Quiet(p))
<1> DEFINE v == WithToken(s, tok)
           c == Checked(s, tok, v)
<1>1. c = Checked(s, tok, WithToken(s, tok)) /\ p = Sending(s, tok, last, c) /\ ~s.eos
  BY DEF ProcessToken, Quiet
<1>2. NoStop(c.text) /\ (c.stop < 0 /\ ~c.hold /\ tok # Eog => Closed(c.text))
  <2> HIDE DEF v
  <2>1. v = WithToken(s, tok)
    BY DEF v
  <2>2. c = Checked(s, tok, v)
    OBVIOUS
  <2> HIDE DEF c
  <2>. QED BY <2>1, <2>2, CheckedStop
<1>3. c.text \in Seq(Chars) /\ c.stop \in Int /\ c.hold \in BOOLEAN /\ c.next \in BOOLEAN
      /\ (c.next => c.stop < 0 /\ tok # Eog)
  <2>1. /\ c.stop \in Int /\ c.limit \in BOOLEAN /\ c.next \in BOOLEAN /\ c.hold \in BOOLEAN /\ c.text \in Seq(Chars)
        /\ c.next <=> c.stop < 0 /\ ~c.limit /\ tok # Eog
    BY CheckedFacts
  <2>. QED BY <2>1
<1> HIDE DEF c, v
<1>4. SentOf(s, tok, last, c, p)
  BY <1>1, SendingStream
<1>5. PICK e \in 0..Len(c.text) : p.stream = SubSeq(c.text, 1, e)
  BY <1>4 DEF SentOf
<1>6. NoStop(p.stream)
  <2> DEFINE t == c.text
  <2>1. t \in Seq(Chars) /\ NoStop(t) /\ e \in 0..Len(t) /\ p.stream = SubSeq(t, 1, e)
    BY <1>2, <1>3, <1>5
  <2> HIDE DEF t
  <2>2. NoStop(SubSeq(t, 1, e))
    BY <2>1, NoStopPrefix
  <2>. QED BY <2>1, <2>2
<1>7. ASSUME p.next \/ (LimitOnly(p) /\ ~last) PROVE Quiet(p)
  <2>1. p.next = c.next /\ (c.stop >= 0 => p.word) /\ p.eos = (s.eos \/ tok = Eog)
    BY <1>4 DEF SentOf
  <2>2. tok # Eog /\ c.stop < 0 /\ (c.next \/ ~last)
    <3>1. CASE p.next
      BY <1>3, <2>1, <3>1
    <3>2. CASE LimitOnly(p) /\ ~last
      <4>1. ~p.eos /\ ~p.word
        BY <3>2 DEF LimitOnly
      <4>2. ~(c.stop >= 0) /\ tok # Eog
        BY <2>1, <4>1, Zenon
      <4>. QED BY <1>3, <3>2, <4>2
    <3>. QED BY <1>7, <3>1, <3>2
  <2>3. p.text = c.text /\ p.stream = (IF c.hold THEN s.stream ELSE c.text)
    BY <1>4, <2>2, Zenon DEF SentOf
  <2>4. ~p.eos
    BY <1>1, <2>1, <2>2, Zenon
  <2>5. Closed(p.stream)
    <3>1. CASE c.hold
      BY <2>3, <3>1 DEF Quiet
    <3>2. CASE ~c.hold
      BY <1>2, <2>2, <2>3, <3>2
    <3>. QED BY <3>1, <3>2
  <2>. QED BY <1>2, <1>6, <2>3, <2>4, <2>5 DEF Quiet
<1>. QED BY <1>6, <1>7

\* The loop of send_token_results stays in a family of sets that each of its steps respects.
LEMMA SendLoopIn ==
    ASSUME NEW s, Len(s.buffer) \in Nat, NEW n, NEW X,
           [s |-> s, count |-> 0, on |-> TRUE] \in X[0],
           \A k \in 1..Len(s.buffer) : \A x \in X[k - 1] : SendToken(s, n, x, k) \in X[k]
    PROVE  \E r \in X[Len(s.buffer)] : SendTokenResults(s, n) = LeftOver(s, r)
<1> DEFINE l == Len(s.buffer)
           a == [s |-> s, count |-> 0, on |-> TRUE]
           U == UNION {X[k] : k \in 0..l}
           G == [z \in U \X (1..l) |-> SendToken(s, n, z[1], z[2])]
           Is(f) == f = [k \in 0..l |-> IF k = 0 THEN a ELSE SendToken(s, n, f[k - 1], k)]
           Sent == CHOOSE f : Is(f)
<1>6. SendTokenResults(s, n) = LeftOver(s, Sent[l])
  BY DEF SendTokenResults
<1>0. l \in Nat /\ a \in X[0] /\ \A k \in 0..l : X[k] \subseteq U
  OBVIOUS
<1>7. ASSUME NEW k \in 1..l, NEW x \in X[k - 1] PROVE SendToken(s, n, x, k) \in X[k]
  OBVIOUS
<1> HIDE DEF l, U, a
<1>1. ASSUME NEW k \in 1..l, NEW x \in X[k - 1]
      PROVE  G[<<x, k>>] = SendToken(s, n, x, k)
  <2>1. k - 1 \in 0..l
    BY <1>0
  <2>2. <<x, k>> \in U \X (1..l)
    BY <1>0, <2>1
  <2>. QED BY <2>2
<1>2. \E f : Is(f)
  <2>1. PICK f : /\ f = [k \in 0..l |-> f[k]] /\ Solution(f, a, G, l)
                 /\ \A k \in 0..l : f[k] \in X[k]
    <3>1. \A k \in 1..l : \A x \in X[k - 1] : G[<<x, k>>] \in X[k]
      BY <1>1, <1>7
    <3> HIDE DEF G, Is, Sent
    <3>. QED BY <1>0, <3>1, FamilyRecursion
  <2>2. ASSUME NEW k \in 1..l PROVE f[k] = SendToken(s, n, f[k - 1], k)
    <3>1. k - 1 \in 0..l
      BY <1>0
    <3>2. G[<<f[k - 1], k>>] = SendToken(s, n, f[k - 1], k)
      BY <1>1, <2>1, <3>1
    <3>. QED BY <2>1, <3>2 DEF Solution
  <2>3. ASSUME NEW k \in 0..l PROVE f[k] = IF k = 0 THEN a ELSE SendToken(s, n, f[k - 1], k)
    <3>1. k # 0 => k \in 1..l
      BY <1>0
    <3>. QED BY <2>1, <2>2, <3>1 DEF Solution
  <2>4. Is(f)
    BY <2>1, <2>3
  <2>. QED BY <2>4
<1>3. Is(Sent)
  <2> HIDE DEF Is
  <2>. QED BY <1>2
<1> HIDE DEF Sent, G
<1>4. Sent[0] = a /\ \A k \in 1..l : Sent[k] = SendToken(s, n, Sent[k - 1], k)
  <2>1. ASSUME NEW k \in 0..l PROVE Sent[k] = IF k = 0 THEN a ELSE SendToken(s, n, Sent[k - 1], k)
    BY <1>3
  <2>2. 0 \in 0..l /\ \A k \in 1..l : k \in 0..l /\ k # 0
    BY <1>0
  <2>. QED BY <2>1, <2>2
<1> HIDE DEF Is
<1>5. Sent[l] \in X[l]
  <2> DEFINE S == {k \in 0..l : Sent[k] \in X[k]}
  <2>1. 0 \in S
    BY <1>0, <1>4
  <2>2. ASSUME NEW k \in 1..l, k - 1 \in S PROVE k \in S
    <3>1. k \in 0..l /\ Sent[k - 1] \in X[k - 1]
      BY <1>0, <2>2
    <3>2. Sent[k] \in X[k]
      BY <1>4, <1>7, <3>1
    <3>. QED BY <3>1, <3>2
  <2> HIDE DEF S
  <2>3. 0..l \subseteq S
    BY <1>0, <2>1, <2>2, UpTo
  <2>4. l \in 0..l
    BY <1>0
  <2>. QED BY <2>3, <2>4 DEF S
<1>. QED BY <1>5, <1>6 DEF l

\* The loop of send_token_results before its last token, or with a next token to come, is quiet.
Quieted(r, more) ==
  NoStop(r.s.stream) /\ (r.s.next => Quiet(r.s)) /\ (r.on /\ more => Quiet(r.s))

\* Quiet speaks of the text and the stream only.
LEMMA QuietSame ==
    ASSUME NEW s, NEW y, y.text = s.text, y.stream = s.stream, y.eos = s.eos
    PROVE  Quiet(s) <=> Quiet(y)
BY DEF Quiet

\* One token of the buffer.
LEMMA QuietedStep ==
    ASSUME conf \in Confs, SafeStops(Confs), NEW s \in SlotOK, s.buffer \in Seq(Sampled(conf)), NEW n \in Nat,
           NEW k \in 1..Len(s.buffer), NEW acc \in SendAcc, Quieted(acc, TRUE),
           NEW y, y = SendToken(s, n, acc, k)
    PROVE  y \in SendAcc /\ Quieted(y, k < Len(s.buffer))
<1> DEFINE tok == s.buffer[k]
           last == (k = Len(s.buffer))
           p == ProcessToken(acc.s, tok, last)
           first == Len(s.cache) - Len(s.buffer) + 1
           q == [p EXCEPT !.bans = {x \in @ : x.pos # first + acc.count}]
           on == IF p.next THEN n = 0 \/ acc.count + 1 < n ELSE LimitOnly(p)
<1>1. CASE ~acc.on
  <2>1. y = acc
    BY <1>1 DEF SendToken
  <2>. QED BY <1>1, <2>1 DEF Quieted
<1>2. CASE acc.on
  <2>1. tok \in Tokens /\ tok \in Sampled(conf) /\ last \in BOOLEAN /\ acc.s \in SlotOK /\ Quiet(acc.s)
    <3>1. s.buffer \in Seq(Tokens)
      BY DEF SlotOK, SlotRec
    <3>2. Quiet(acc.s) /\ acc.s \in SlotOK
      BY <1>2 DEF Quieted, SendAcc
    <3>. QED BY <3>1, <3>2
  <2>2. y = [s |-> q, count |-> acc.count + 1, on |-> on]
    BY <1>2 DEF SendToken, Processed
  <2>3. k < Len(s.buffer) => ~last
    OBVIOUS
  <2> HIDE DEF tok, last
  <2>4. NoStop(p.stream) /\ (p.next \/ (LimitOnly(p) /\ ~last) => Quiet(p))
    BY <2>1, StopToken
  <2>5. p \in SlotOK
    BY <2>1, ProcessTokenFacts
  <2> HIDE DEF p
  <2>6. q.next = p.next /\ q.eos = p.eos /\ q.text = p.text /\ q.stream = p.stream
    BY <2>5 DEF SlotOK, SlotRec
  <2>7. on => p.next \/ LimitOnly(p)
    OBVIOUS
  <2> HIDE DEF q, on
  <2>8. y.s = q /\ y.on = on
    BY <2>2
  <2>9. Quiet(p) <=> Quiet(q)
    BY <2>6, QuietSame
  <2>10. HandedOn(s, n, acc, k, y)
    BY <1>2, SendTokenFacts
  <2>11. y \in SendAcc
    BY <2>10 DEF HandedOn
  <2>12. Quieted(y, k < Len(s.buffer))
    <3> DEFINE more == k < Len(s.buffer)
    <3>1. more => ~last
      BY <2>3
    <3> HIDE DEF more
    <3>2. Quieted(y, more)
      BY <2>4, <2>6, <2>7, <2>8, <2>9, <3>1, Zenon DEF Quieted
    <3>. QED BY <3>2 DEF more
  <2>. QED BY <2>11, <2>12
<1>. QED BY <1>1, <1>2 DEF SendAcc

\* A slot whose stream has no stop string, and that is quiet as long as it goes on.
Hushed(s) ==
  /\ s.buffer \in Seq(Sampled(conf)) /\ NoStop(s.stream)
  /\ s.st = "processing" => Quiet(s)

\* send_token_results streams no stop string.
LEMMA SendHushed ==
    ASSUME conf \in Confs, SafeStops(Confs), NEW s \in SlotOK, Quiet(s), s.buffer \in Seq(Sampled(conf)),
           s.buffer # <<>>, NEW n \in Nat, ~s.word, s.st = "processing", NEW z, z = SendTokenResults(s, n)
    PROVE  Hushed(z)
<1> DEFINE l == Len(s.buffer)
           a == [s |-> s, count |-> 0, on |-> TRUE]
           X == [k \in 0..l |-> {r \in SendAcc : Quieted(r, k < l)}]
<1>1. l \in Nat /\ l >= 1
  OBVIOUS
<1>2. /\ \A k \in 0..l : X[k] = {r \in SendAcc : Quieted(r, k < l)}
      /\ \A k \in 1..l : k - 1 \in 0..l /\ k \in 0..l /\ ((k - 1 < l) = TRUE)
      /\ 0 \in 0..l /\ l \in 0..l /\ ((0 < l) = TRUE)
  <2> HIDE DEF l
  <2>. QED BY <1>1
<1> HIDE DEF X
<1>3. a \in X[0]
  <2>1. a \in SendAcc
    BY DEF SendAcc
  <2>2. a.s = s
    OBVIOUS
  <2> HIDE DEF a
  <2>3. Quieted(a, TRUE)
    BY <2>2 DEF Quieted, Quiet
  <2>. QED BY <1>2, <2>1, <2>3
<1>4. ASSUME NEW k \in 1..l, NEW x \in X[k - 1] PROVE SendToken(s, n, x, k) \in X[k]
  <2>1. x \in SendAcc /\ Quieted(x, k - 1 < l)
    BY <1>2
  <2>2. Quieted(x, TRUE)
    BY <1>2, <2>1
  <2>3. SendToken(s, n, x, k) \in SendAcc /\ Quieted(SendToken(s, n, x, k), k < l)
    BY <2>1, <2>2, QuietedStep
  <2>. QED BY <1>2, <2>3
<1>5. PICK r \in X[l] : z = LeftOver(s, r)
  BY <1>1, <1>3, <1>4, SendLoopIn
<1>6. r \in SendAcc /\ NoStop(r.s.stream) /\ (r.s.next => Quiet(r.s))
  BY <1>2, <1>5 DEF Quieted
<1>7. r.s \in SlotRec
  BY <1>6 DEF SendAcc, SlotOK
<1>8. /\ z.stream = r.s.stream /\ z.text = r.s.text /\ z.eos = r.s.eos
      /\ z.st = IF r.s.next THEN r.s.st ELSE "done"
  <2> DEFINE u == Last(s.buffer)
             v == SubSeq(r.s.buffer, r.count + 1, Len(s.buffer))
             y == r.s
  <2>1. z = Finish([y EXCEPT !.sampled = u, !.buffer = v]) /\ y \in SlotRec
    BY <1>5, <1>7 DEF LeftOver
  <2> HIDE DEF u, v, y
  <2>2. /\ z.stream = y.stream /\ z.text = y.text /\ z.eos = y.eos
        /\ z.st = IF y.next THEN y.st ELSE "done"
    BY <2>1 DEF Finish, SlotRec
  <2>. QED BY <2>2 DEF y
<1>9. NoStop(z.stream) /\ (z.st = "processing" => Quiet(z))
  <2>1. z.st = "processing" => r.s.next
    BY <1>8
  <2>2. Quiet(r.s) <=> Quiet(z)
    <3> DEFINE y == r.s
    <3>1. z.text = y.text /\ z.stream = y.stream /\ z.eos = y.eos
      BY <1>8
    <3> HIDE DEF y
    <3>2. Quiet(y) <=> Quiet(z)
      BY <3>1, QuietSame
    <3>. QED BY <3>2 DEF y
  <2>. QED BY <1>6, <1>8, <2>1, <2>2
<1>10. Handled(s, n, z)
  BY SendTokenResultsFacts
<1>11. PICK m \in 1..l : z.buffer = SubSeq(s.buffer, m + 1, l)
  BY <1>10 DEF Handled
<1>12. z.buffer \in Seq(Sampled(conf))
  <2> DEFINE u == s.buffer
             C == Sampled(conf)
  <2>1. u \in Seq(C) /\ m + 1 \in Int /\ l \in Int /\ \A i \in (m + 1)..l : i \in 1..Len(u)
    BY <1>1
  <2>2. \A i \in (m + 1)..l : u[i] \in C
    BY <2>1
  <2> HIDE DEF u, C
  <2>3. SubSeq(u, m + 1, l) \in Seq(C)
    BY <2>1, <2>2, SubSeqProperties
  <2>. QED BY <1>11, <2>3 DEF u, C
<1>. QED BY <1>9, <1>12 DEF Hushed

\* buffer_and_check_string_ban streams no stop string: what it takes back was not sent.
LEMMA BufferHushed ==
    ASSUME conf \in Confs, SafeStops(Confs), NEW s, Ready(s), Hushed(s), NEW m \in MemRec, NEW tok \in Tokens,
           tok \in Sampled(conf), NEW r, r = BufferAndCheck(s, m, tok)
    PROVE  Hushed(r.s)
<1> DEFINE b == Buffered(s, tok)
           C == Sampled(conf)
<1>1. s \in SlotOK /\ s.st = "processing" /\ ~s.word /\ Quiet(s) /\ s.buffer \in Seq(C) /\ NoStop(s.stream)
  BY DEF Ready, Hushed
<1>2. /\ b \in SlotOK /\ b.buffer = Append(s.buffer, tok) /\ b.buffer # <<>>
      /\ b.st = s.st /\ b.word = s.word /\ b.eos = s.eos /\ b.text = s.text /\ b.stream = s.stream
  BY <1>1, BufferedFacts
<1>3. \/ Rewound(b, m, r)
      \/ Waits(b, m, tok, r)
      \/ Sends(b, m, r)
  BY <1>1, BufferAndCheckCases
<1> HIDE DEF b
<1>4. b.buffer \in Seq(C) /\ Quiet(b) /\ NoStop(b.stream)
  <2>1. Append(s.buffer, tok) \in Seq(C)
    BY <1>1
  <2>. QED BY <1>1, <1>2, <2>1, QuietSame
<1>5. CASE Rewound(b, m, r)
  <2>1. PICK h \in 1..Len(b.buffer) : \E p \in Nat : RewoundTo(b, m, h, p, r.s)
    BY <1>5 DEF Rewound
  <2> DEFINE z == r.s
  <2>2. z.text = b.text /\ z.stream = b.stream /\ z.eos = b.eos /\ z.buffer = SubSeq(b.buffer, 1, h - 1)
    BY <2>1 DEF RewoundTo
  <2>3. z.buffer \in Seq(C)
    <3> HIDE DEF C, z
    <3>1. h - 1 \in Nat /\ h - 1 <= Len(b.buffer)
      BY <1>4
    <3>. QED BY <1>4, <2>2, <3>1, Prefix
  <2> HIDE DEF z
  <2>4. Quiet(z)
    BY <1>4, <2>2, QuietSame
  <2>. QED BY <1>4, <2>2, <2>3, <2>4 DEF Hushed, z
<1>6. CASE Waits(b, m, tok, r)
  <2> DEFINE z == r.s
  <2>1. z = [b EXCEPT !.sampled = tok] /\ b \in SlotRec
    BY <1>2, <1>6 DEF Waits, SlotOK
  <2> HIDE DEF z
  <2>2. z.text = b.text /\ z.stream = b.stream /\ z.eos = b.eos /\ z.buffer = b.buffer
    BY <2>1 DEF SlotRec
  <2>3. Quiet(z)
    BY <1>4, <2>2, QuietSame
  <2>. QED BY <1>4, <2>2, <2>3 DEF Hushed, z
<1>7. CASE Sends(b, m, r)
  <2>1. PICK n \in {0, 1} : r.s = SendTokenResults(Calm(b), n)
    BY <1>7 DEF Sends
  <2> DEFINE c == Calm(b)
             z == r.s
  <2>2. c \in SlotOK /\ c.buffer = b.buffer /\ c.st = b.st /\ c.word = b.word
    BY <1>2, CalmFacts
  <2>3. c.text = b.text /\ c.stream = b.stream /\ c.eos = b.eos
    <3>1. b \in SlotRec
      BY <1>2 DEF SlotOK
    <3>. QED BY <3>1 DEF Calm, SlotRec
  <2>4. z = SendTokenResults(c, n) /\ n \in Nat
    BY <2>1
  <2> HIDE DEF c, z
  <2>5. Quiet(c) /\ c.buffer \in Seq(C) /\ c.buffer # <<>> /\ ~c.word /\ c.st = "processing"
    BY <1>1, <1>2, <1>4, <2>2, <2>3, QuietSame
  <2>6. Hushed(z)
    BY <2>2, <2>4, <2>5, SendHushed
  <2>. QED BY <2>6 DEF z
<1>. QED BY <1>3, <1>5, <1>6, <1>7

\* process_token for a draft's token, without a buffer.
LEMMA FinishHushed ==
    ASSUME conf \in Confs, SafeStops(Confs), NEW s, Ready(s), Hushed(s), NEW tok \in Tokens, tok \in Sampled(conf),
           NEW z, z = Finish(ProcessToken(s, tok, TRUE))
    PROVE  Hushed(z)
<1> DEFINE last == TRUE
           p == ProcessToken(s, tok, last)
<1>1. s \in SlotOK /\ Quiet(s) /\ s.buffer \in Seq(Sampled(conf))
  BY DEF Ready, Hushed
<1>2. z = Finish(p) /\ last \in BOOLEAN
  OBVIOUS
<1> HIDE DEF last
<1>3. NoStop(p.stream) /\ (p.next \/ (LimitOnly(p) /\ ~last) => Quiet(p))
  BY <1>1, <1>2, StopToken
<1>4. p \in SlotOK /\ p.buffer = s.buffer
  BY <1>1, <1>2, ProcessTokenFacts
<1> HIDE DEF p
<1>5. p \in SlotRec
  BY <1>4 DEF SlotOK
<1>6. /\ z.stream = p.stream /\ z.text = p.text /\ z.eos = p.eos /\ z.buffer = p.buffer
      /\ z.st = IF p.next THEN p.st ELSE "done"
  BY <1>2, <1>5 DEF Finish, SlotRec
<1>7. z.st = "processing" => p.next
  BY <1>6
<1>8. Quiet(p) <=> Quiet(z)
  BY <1>6, QuietSame
<1>. QED BY <1>1, <1>3, <1>4, <1>6, <1>7, <1>8 DEF Hushed

\* send_token_results for a single token, without a buffer.
LEMMA SingleHushed ==
    ASSUME conf \in Confs, SafeStops(Confs), NEW s, Ready(s), Hushed(s), NEW tok \in Tokens, tok \in Sampled(conf),
           NEW z, z = SendTokenResults([s EXCEPT !.buffer = <<tok>>], 0)
    PROVE  Hushed(z)
<1> DEFINE u == <<tok>>
           b == [s EXCEPT !.buffer = u]
<1>1. s \in SlotOK /\ s \in SlotRec /\ s.st = "processing" /\ ~s.word /\ Quiet(s)
  BY DEF Ready, Hushed, SlotOK
<1>2. u \in Seq(Tokens) /\ u \in Seq(Sampled(conf)) /\ u # <<>>
  OBVIOUS
<1> HIDE DEF u
<1>3. b \in SlotRec
  BY <1>1, <1>2 DEF SlotRec
<1>4. /\ b.buffer = u /\ b.st = s.st /\ b.word = s.word /\ b.text = s.text /\ b.n_sent = s.n_sent
      /\ b.stream = s.stream /\ b.eos = s.eos
  BY <1>1 DEF SlotRec
<1>5. z = SendTokenResults(b, 0) /\ 0 \in Nat
  BY DEF u
<1> HIDE DEF b
<1>6. b \in SlotOK
  BY <1>1, <1>3, <1>4, StreamedSame
<1>7. Quiet(b)
  BY <1>1, <1>4, QuietSame
<1>. QED BY <1>1, <1>2, <1>4, <1>5, <1>6, <1>7, SendHushed

\* A token more in the counter and in the cache.
LEMMA HushedSame ==
    ASSUME NEW s, Hushed(s), NEW t, t.buffer = s.buffer, t.st = s.st, t.text = s.text, t.stream = s.stream,
           t.eos = s.eos
    PROVE  Hushed(t)
BY QuietSame DEF Hushed

\* One token of a draft.
LEMMA ReplyHushed ==
    ASSUME conf \in Confs, SafeStops(Confs), NEW ids \in Seq(Tokens), ids \in Seq(Sampled(conf)), NEW i \in 1..Len(ids),
           NEW acc \in Pass, Hushed(acc.s)
    PROVE  Hushed(ReplyWith(acc, ids, i).s)
<1> DEFINE c == IF i > 1 THEN Append(acc.s.cache, ids[i - 1]) ELSE acc.s.cache
           s == [acc.s EXCEPT !.n_decoded = @ + 1, !.cache = c]
           z == Finish(ProcessToken(s, ids[i], TRUE))
           r == BufferAndCheck(s, acc.m, ids[i])
           y == ReplyWith(acc, ids, i)
<1>1. y = IF acc.s.st = "done" \/ acc.rewound THEN acc ELSE IF NBuffer > 0 THEN r ELSE [acc EXCEPT !.s = z]
  BY DEF ReplyWith
<1>2. Counted(acc.s) /\ acc.s \in SlotOK /\ acc.m \in MemRec /\ acc \in [s : SlotOK, m : MemRec, rewound : BOOLEAN]
  BY DEF Pass
<1>3. acc.s.cache \in Seq(Tokens) /\ ids[i] \in Tokens /\ ids[i] \in Sampled(conf)
  BY <1>2 DEF SlotOK, SlotRec
<1>4. c \in Seq(Tokens)
  <2>1. i > 1 => i - 1 \in 1..Len(ids)
    OBVIOUS
  <2>. QED BY <1>3, <2>1
<1> HIDE DEF c, y
<1>5. CASE acc.s.st = "done" \/ acc.rewound
  <2>1. y = acc
    BY <1>1, <1>5
  <2>. QED BY <2>1 DEF y
<1>6. CASE ~(acc.s.st = "done" \/ acc.rewound)
  <2>1. acc.s.st = "processing"
    BY <1>2, <1>6 DEF Counted
  <2> DEFINE q == acc.s
  <2>2. Counted(q) /\ q.st = "processing" /\ s = [q EXCEPT !.n_decoded = @ + 1, !.cache = c] /\ Hushed(q)
    BY <1>2, <2>1
  <2> HIDE DEF q, s
  <2>3. Ready(s)
    BY <1>4, <2>2, CountUp
  <2>4. s.buffer = q.buffer /\ s.st = q.st /\ s.text = q.text /\ s.stream = q.stream /\ s.eos = q.eos
    <3>1. q \in SlotRec
      BY <2>2 DEF Counted, SlotOK
    <3>. QED BY <2>2, <3>1 DEF SlotRec
  <2>5. Hushed(s)
    BY <2>2, <2>4, HushedSame
  <2> DEFINE tok == ids[i]
  <2>6. tok \in Tokens /\ tok \in Sampled(conf) /\ r = BufferAndCheck(s, acc.m, tok)
        /\ z = Finish(ProcessToken(s, tok, TRUE))
    BY <1>3
  <2> HIDE DEF tok, r, z
  <2>7. Hushed(r.s) /\ Hushed(z)
    BY <1>2, <2>3, <2>5, <2>6, BufferHushed, FinishHushed
  <2>8. y.s = r.s \/ y.s = z
    <3>1. CASE NBuffer > 0
      BY <1>1, <1>6, <3>1
    <3>2. CASE ~(NBuffer > 0)
      <4>1. y = [acc EXCEPT !.s = z]
        BY <1>1, <1>6, <3>2
      <4>. QED BY <1>2, <4>1
    <3>. QED BY <3>1, <3>2
  <2>. QED BY <2>7, <2>8 DEF y
<1>. QED BY <1>5, <1>6

\* The tokens the sampler may return.
LEMMA CandidatesSampled ==
    ASSUME conf \in Confs, NEW b \in BudgetOK(conf), NEW bans, NEW p
    PROVE  Candidates(b, bans, p) \subseteq Sampled(conf)
<1>1. conf.forced \in Seq(Tokens)
  BY ConfFacts
<1>2. b.force_pos \in Nat
  BY DEF BudgetOK, BudgetRec
<1>3. BudgetApply(conf, b, conf.toks) \subseteq Sampled(conf)
  <2>1. b.force_pos < Len(conf.forced) => conf.forced[b.force_pos + 1] \in ToSet(conf.forced)
    <3>1. b.force_pos < Len(conf.forced) => b.force_pos + 1 \in DOMAIN conf.forced
      BY <1>1, <1>2
    <3>. QED BY <3>1 DEF ToSet
  <2>. QED BY <2>1 DEF BudgetApply, Sampled
<1>. QED BY <1>3 DEF Candidates

\* The tokens accepted from a draft.
LEMMA AcceptedSampled ==
    ASSUME NEW ids \in Accepted
    PROVE  ids \in Seq(Sampled(conf))
<1> DEFINE T == Sampled(conf)
<1>1. ids \in BoundedSeq(T, NDraftMax + 1)
  BY DEF Accepted, Sampled
<1> HIDE DEF T
<1>2. ids \in Seq(T)
  BY <1>1 DEF BoundedSeq, SeqOf
<1>. QED BY <1>2 DEF T

\* A pass with a draft streams no stop string.
LEMMA DraftHushed ==
    ASSUME conf \in Confs, SafeStops(Confs), NEW s, Counted(s), Hushed(s), NEW m \in MemRec, NEW ids \in Seq(Tokens),
           ids \in Seq(Sampled(conf)), NEW r, r = ReplyWithAll(s, m, ids)
    PROVE  Hushed(r.s)
<1> DEFINE N == Len(ids)
           X == [k \in 0..N |-> {a \in Pass : Hushed(a.s)}]
           a == [s |-> s, m |-> m, rewound |-> FALSE]
<1>1. N \in Nat
  OBVIOUS
<1>2. /\ \A k \in 0..N : X[k] = {x \in Pass : Hushed(x.s)}
      /\ \A k \in 1..N : k - 1 \in 0..N /\ k \in 0..N
      /\ 0 \in 0..N /\ N \in 0..N
  BY <1>1
<1> HIDE DEF X
<1>3. a \in X[0]
  <2>1. s \in SlotOK
    BY DEF Counted
  <2>2. a \in Pass /\ a.s = s
    BY <2>1 DEF Pass
  <2> HIDE DEF a
  <2>. QED BY <1>2, <2>2
<1>4. ASSUME NEW k \in 1..N, NEW x \in X[k - 1] PROVE ReplyWith(x, ids, k) \in X[k]
  <2>1. x \in Pass /\ Hushed(x.s) /\ k \in 1..Len(ids)
    BY <1>2
  <2>2. ReplyWith(x, ids, k) \in Pass
    BY <2>1, ReplyWithPass
  <2>3. Hushed(ReplyWith(x, ids, k).s)
    BY <2>1, ReplyHushed
  <2>. QED BY <1>2, <2>2, <2>3
<1>5. ReplyWithAll(s, m, ids) \in X[N]
  BY <1>3, <1>4, ReplyWithAllIn
<1>. QED BY <1>2, <1>5

\* The invariant: no stop string in the stream, none in the text of a slot that goes on, and
\* its stream does not break off inside one; the buffer holds what the sampler returned.
StopInv == Hushed(slot)

LEMMA StopInit == Init => StopInv
<1> SUFFICES ASSUME Init PROVE StopInv
  OBVIOUS
<1>1. /\ conf \in Confs /\ slot.buffer = <<>> /\ slot.text = <<>> /\ slot.stream = <<>> /\ slot.eos = FALSE
  BY DEF Init
<1>2. ASSUME NEW w \in conf.stops PROVE Occurs(<<>>, w) = {} /\ Open(<<>>, w) = {}
  <2>1. Len(w) \in Nat /\ Len(w) > 0
    BY <1>1, ConfFacts
  <2>2. 0 .. Len(<<>>) - Len(w) = {} /\ 0 .. Len(<<>>) - 1 = {}
    BY <2>1
  <2>. QED BY <2>2 DEF Occurs, Open
<1>3. NoStop(<<>>) /\ Closed(<<>>)
  BY <1>2 DEF NoStop, Closed
<1>4. <<>> \in Seq(Sampled(conf))
  OBVIOUS
<1>. QED BY <1>1, <1>3, <1>4 DEF StopInv, Hushed, Quiet

\* Every pass keeps it.
LEMMA StopNext ==
    ASSUME SafeStops(Confs)
    PROVE  ReplyInv /\ StopInv /\ [Next]_vars => StopInv'
<1> SUFFICES ASSUME ReplyInv, StopInv, [Next]_vars PROVE StopInv'
  OBVIOUS
<1>1. /\ conf \in Confs /\ mem \in MemRec /\ rb \in BudgetOK(conf) /\ slot \in SlotOK
      /\ slot.st # "error" => Counted(slot)
  BY DEF ReplyInv
<1>2. conf' = conf
  BY DEF Next, Generate, Speculate, SamplingFails, Released, vars
<1>3. ASSUME Hushed(slot') PROVE StopInv'
  BY <1>2, <1>3 DEF StopInv, Hushed, Quiet, NoStop, Closed
<1>4. /\ Feed \in Seq(Tokens) /\ Fed \in SlotOK /\ Fed.cache = slot.cache \o Feed /\ Fed.cache \in Seq(Tokens)
      /\ Fed.st = slot.st /\ Fed.buffer = slot.buffer /\ Fed.n_decoded = slot.n_decoded /\ Fed.replied = slot.replied
      /\ Fed.text = slot.text /\ Fed.n_sent = slot.n_sent /\ Fed.word = slot.word /\ Fed.eos = slot.eos
      /\ Fed.stream = slot.stream
  BY <1>1, FedFacts
<1>5. slot.st = "processing" => Counted(Fed)
  BY <1>1, <1>4, CountedSame
<1>6. Hushed(Fed)
  BY <1>4, HushedSame DEF StopInv
<1>7. Len(slot.cache) \in Int /\ Len(Fed.cache) \in Int
  <2>1. slot.cache \in Seq(Tokens)
    BY <1>1 DEF SlotOK, SlotRec
  <2>. QED BY <1>4, <2>1
<1>8. CASE Generate
  <2> DEFINE n == Len(Fed.cache)
             m == Decoded(mem, Feed, Len(slot.cache))
             kept == IF slot.n_decoded > 0 THEN DropOld(m, n) ELSE m
             q == SaveRewind(kept)
             s == [Fed EXCEPT !.n_decoded = @ + 1]
             r(tok) == IF NBuffer = 0
                       THEN [s |-> SendTokenResults([s EXCEPT !.buffer = <<tok>>], 0), m |-> m]
                       ELSE BufferAndCheck(s, q, tok)
  <2>1. slot.st = "processing" /\ \E tok \in Candidates(rb, slot.bans, n) : slot' = r(tok).s
    BY <1>8 DEF Generate
  <2>2. PICK tok \in Candidates(rb, slot.bans, n) : slot' = r(tok).s
    BY <2>1
  <2>3. tok \in Tokens /\ tok \in Sampled(conf)
    BY <1>1, CandidateTokens, CandidatesSampled
  <2>4. q \in MemRec
    <3>1. m \in MemRec
      BY <1>1, <1>4, <1>7, MemFacts
    <3> HIDE DEF m
    <3>2. kept \in MemRec
      BY <1>1, <1>7, <3>1, MemFacts
    <3> HIDE DEF kept
    <3>. QED BY <1>1, <3>2, MemFacts
  <2>5. Ready(s) /\ Hushed(s)
    <3> DEFINE F == Fed
    <3>0. F \in SlotRec
      BY <1>4 DEF SlotOK
    <3>f. s = [F EXCEPT !.n_decoded = @ + 1] /\ F = Fed
      OBVIOUS
    <3> HIDE DEF F, s
    <3>1. s = [F EXCEPT !.n_decoded = @ + 1, !.cache = F.cache]
      BY <3>0, <3>f DEF SlotRec
    <3>2. Counted(F) /\ F.st = "processing" /\ F.cache \in Seq(Tokens) /\ Hushed(F)
      BY <1>4, <1>5, <1>6, <2>1, <3>f
    <3>3. Ready(s)
      BY <1>1, <3>1, <3>2, CountUp
    <3>4. s.buffer = F.buffer /\ s.st = F.st /\ s.text = F.text /\ s.stream = F.stream /\ s.eos = F.eos
      BY <3>0, <3>f DEF SlotRec
    <3>5. Hushed(s)
      BY <3>2, <3>4, HushedSame
    <3>. QED BY <3>3, <3>5
  <2> HIDE DEF s, q, m
  <2>6. CASE NBuffer = 0
    <3>1. slot' = SendTokenResults([s EXCEPT !.buffer = <<tok>>], 0)
      BY <2>2, <2>6
    <3>2. Hushed(slot')
      BY <1>1, <2>3, <2>5, <3>1, SingleHushed
    <3>. QED BY <1>3, <3>2
  <2>7. CASE NBuffer # 0
    <3>1. slot' = BufferAndCheck(s, q, tok).s
      BY <2>2, <2>7
    <3>2. Hushed(BufferAndCheck(s, q, tok).s)
      BY <1>1, <2>3, <2>4, <2>5, BufferHushed
    <3>. QED BY <1>3, <3>1, <3>2
  <2>. QED BY <2>6, <2>7
<1>9. CASE Speculate
  <2> DEFINE before == SaveRewind(DropOld(mem, Len(slot.cache)))
             M(ids) == Decoded(before, Feed \o Front(ids), Len(slot.cache))
  <2>1. /\ slot.st = "processing"
        /\ \E ids \in Accepted : slot' = ReplyWithAll(Fed, M(ids), ids).s
    BY <1>9 DEF Speculate
  <2>2. PICK ids \in Accepted : slot' = ReplyWithAll(Fed, M(ids), ids).s
    BY <2>1
  <2>3. ids \in Seq(Tokens) /\ ids # <<>> /\ ids \in Seq(Sampled(conf))
    BY <1>1, AcceptedTokens, AcceptedSampled
  <2>4. M(ids) \in MemRec
    <3>1. DropOld(mem, Len(slot.cache)) \in MemRec
      BY <1>1, <1>7, MemFacts
    <3>2. before \in MemRec
      BY <1>1, <3>1, MemFacts
    <3>3. Feed \o Front(ids) \in Seq(Tokens)
      <4>1. Front(ids) \in Seq(Tokens)
        BY <2>3 DEF Front
      <4>. QED BY <1>4, <4>1, ConcatProperties
    <3> HIDE DEF before
    <3>. QED BY <1>1, <1>7, <3>2, <3>3, MemFacts
  <2>5. Hushed(slot')
    <3> HIDE DEF M
    <3>. QED BY <1>1, <1>5, <1>6, <2>1, <2>2, <2>3, <2>4, DraftHushed
  <2>. QED BY <1>3, <2>5
<1>10. CASE SamplingFails
  <2>1. slot' = [Fed EXCEPT !.st = "error"] /\ Fed \in SlotRec
    BY <1>4, <1>10 DEF SamplingFails, SlotOK
  <2>2. slot'.buffer = Fed.buffer /\ slot'.stream = Fed.stream /\ slot'.st = "error"
    BY <2>1 DEF SlotRec
  <2>. QED BY <1>3, <1>6, <2>2 DEF Hushed
<1>11. CASE Released \/ UNCHANGED vars
  <2>1. slot' = slot
    BY <1>11 DEF Released, vars
  <2>2. Hushed(slot')
    BY <2>1 DEF StopInv
  <2>. QED BY <1>3, <2>2
<1>. QED BY <1>8, <1>9, <1>10, <1>11 DEF Next

\* No stop string is streamed, in one chunk or over several, from a buffer that was held
\* back, from a draft or from the text the last token of a reply releases: process_token
\* finds a stop string when its last character comes, and sends nothing that could be the
\* beginning of one.
THEOREM StopsHeld ==
    ASSUME SafeStops(Confs)
    PROVE  Spec => []StopNeverStreamed
<1>1. StopInv => StopNeverStreamed
  BY DEF StopInv, Hushed, NoStop, StopNeverStreamed
<1>. QED BY <1>1, StopInit, StopNext, ReplyInit, ReplyNext, PTL DEF Spec
=============================================================================
