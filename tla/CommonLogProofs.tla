--------------------------- MODULE CommonLogProofs ---------------------------
(***************************************************************************)
(* Proofs about CommonLog, for every initial capacity and any number of    *)
(* messages: the type invariant and the safety invariants of the model,    *)
(* and that the logger implements the queue of LogFifo.                    *)
(***************************************************************************)
EXTENDS CommonLog, TLAPS

\* Indices of the ring: % is only applied to sums below twice the size.
LEMMA ModTwice ==
    ASSUME NEW n \in Nat \ {0}, NEW x \in 0..2*n-1
    PROVE  (x < n => x % n = x) /\ (x >= n => x % n = x - n)
<1>1. CASE x < n
  BY <1>1, SMT
<1>2. CASE x >= n
  <2>1. x = n * 1 + (x - n) /\ x - n \in 0..n-1
    BY <1>2
  <2>. QED BY <2>1, <1>2, SMT
<1>. QED BY <1>1, <1>2

\* The threads: the worker has ended exactly when a pause has been answered.
Threads ==
    /\ ctl = "idle" <=> running
    /\ ctl = "idle" => worker # "exited"
    /\ ctl = "paused" => worker = "exited"

\* After its end the worker leaves an empty ring and no message unprinted.
Ended == worker = "exited" => head = tail /\ printed = accepted

\* The inductive invariant.
IInv ==
    /\ TypeOK /\ Threads /\ Ended
    /\ RingHoldsPending /\ InOrder /\ NoSleepOverEntries

\* Init establishes the inductive invariant.
LEMMA InitIInv == Init => IInv
<1> SUFFICES ASSUME Init PROVE IInv
  OBVIOUS
<1> USE DEF Init
<1>1. TypeOK
  BY CapacityAssumption DEF TypeOK, Entry, Blank
<1>2. RingHoldsPending
  BY CapacityAssumption DEF RingHoldsPending, Pending, Taken, HoldsMessages
<1>. QED BY <1>1, <1>2 DEF IInv, Threads, Ended, InOrder, NoSleepOverEntries

\* The ring in one formula without %: the successor of an index, and the
\* index at distance k from h, in a ring of n entries.
LEMMA RingIndex ==
    ASSUME NEW n \in Nat \ {0}, NEW h \in 0..n-1, NEW k \in 0..n
    PROVE  /\ (h + k) % n \in 0..n-1
           /\ h + k < n => (h + k) % n = h + k
           /\ h + k >= n => (h + k) % n = h + k - n
<1>1. PICK x \in 0..2*n-1 : x = h + k
  OBVIOUS
<1>2. (x < n => x % n = x) /\ (x >= n => x % n = x - n)
  BY ModTwice
<1>. QED BY <1>1, <1>2

\* What the invariant needs of an index: the ring of the current state.
LEMMA IdxIndex ==
    ASSUME TypeOK
    PROVE  /\ \A k \in 0..size : /\ Idx(k) \in 0..size-1
                                 /\ head + k < size => Idx(k) = head + k
                                 /\ head + k >= size => Idx(k) = head + k - size
           /\ \A i \in 0..size-1 : /\ Succ(i) \in 0..size-1
                                   /\ i + 1 < size => Succ(i) = i + 1
                                   /\ i + 1 >= size => Succ(i) = 0
<1>1. size \in Nat \ {0} /\ head \in 0..size-1
  BY DEF TypeOK
<1>2. ASSUME NEW k \in 0..size
      PROVE  /\ Idx(k) \in 0..size-1
             /\ head + k < size => Idx(k) = head + k
             /\ head + k >= size => Idx(k) = head + k - size
  BY <1>1, RingIndex DEF Idx
<1>3. ASSUME NEW i \in 0..size-1
      PROVE  /\ Succ(i) \in 0..size-1
             /\ i + 1 < size => Succ(i) = i + 1
             /\ i + 1 >= size => Succ(i) = 0
  <2>1. 1 \in 0..size
    BY <1>1
  <2>2. /\ (i + 1) % size \in 0..size-1
        /\ i + 1 < size => (i + 1) % size = i + 1
        /\ i + 1 >= size => (i + 1) % size = i + 1 - size
    BY <1>1, <2>1, RingIndex
  <2>. QED BY <1>1, <2>2 DEF Succ
<1>. QED BY <1>2, <1>3

\* The entries in use are fewer than the size, the free slot behind them is
\* the tail, and none of them is the tail.
LEMMA PendingRing ==
    ASSUME TypeOK
    PROVE  /\ Pending \in 0..size-1
           /\ Pending = 0 <=> head = tail
           /\ Idx(Pending) = tail
           /\ \A k \in 0..Pending-1 : Idx(k) # tail
           /\ Pending < size - 1 <=> Succ(tail) # head
<1>1. size \in Nat \ {0} /\ head \in 0..size-1 /\ tail \in 0..size-1
  BY DEF TypeOK
<1>2. Pending \in 0..size-1 /\ (Pending = 0 <=> head = tail)
  BY <1>1 DEF Pending
<1>3. Idx(Pending) = tail
  <2>1. /\ Pending \in 0..size
        /\ head + Pending < size => Idx(Pending) = head + Pending
        /\ head + Pending >= size => Idx(Pending) = head + Pending - size
    BY <1>2, <1>1, IdxIndex
  <2>. QED BY <2>1, <1>1 DEF Pending
<1>4. ASSUME NEW k \in 0..Pending-1 PROVE Idx(k) # tail
  <2>1. /\ k \in 0..size
        /\ head + k < size => Idx(k) = head + k
        /\ head + k >= size => Idx(k) = head + k - size
    BY <1>2, <1>1, IdxIndex
  <2>. QED BY <2>1, <1>1 DEF Pending
<1>5. Pending < size - 1 <=> Succ(tail) # head
  <2>1. /\ tail + 1 < size => Succ(tail) = tail + 1
        /\ tail + 1 >= size => Succ(tail) = 0
    BY <1>1, IdxIndex
  <2>. QED BY <2>1, <1>1 DEF Pending
<1>. QED BY <1>2, <1>3, <1>4, <1>5

\* add() without expansion puts the message behind the pending ones; with
\* expansion it moves them to the front first.
LEMMA AddIInv == ASSUME IInv, Add PROVE IInv'
<1> USE DEF IInv, Notify
<1>a. TypeOK /\ accepted \in Nat
  BY DEF TypeOK
<1>b. ctl = "idle" /\ running
  BY DEF Add, Threads
<1>c. accepted = Taken + Pending /\ HoldsMessages(Pending)
  BY <1>b DEF RingHoldsPending
<1>d. Taken' = Taken /\ Taken \in Nat
  BY <1>a DEF Add, Taken, TypeOK
<1> DEFINE new == [msg |-> accepted + 1, is_end |-> FALSE]
           ent == [entries EXCEPT ![tail] = new]
<1>e. new \in Entry /\ Blank \in Entry /\ ent \in [0..size-1 -> Entry]
  BY <1>a DEF Entry, Blank, TypeOK
<1>f. \A k \in 0..Pending : ent[Idx(k)] = [msg |-> Taken + k + 1, is_end |-> FALSE]
  <2> TAKE k \in 0..Pending
  <2>1. CASE k = Pending
    BY <2>1, <1>a, <1>c, <1>d, PendingRing DEF TypeOK
  <2>2. CASE k # Pending
    <3>1. k \in 0..Pending-1 /\ k \in 0..size
      BY <2>2, <1>a, PendingRing DEF TypeOK
    <3>2. Idx(k) \in 0..size-1 /\ Idx(k) # tail
      BY <3>1, <1>a, IdxIndex, PendingRing
    <3>3. ent[Idx(k)] = entries[Idx(k)]
      BY <3>2, <1>a DEF TypeOK
    <3>. QED BY <3>1, <3>3, <1>c DEF HoldsMessages
  <2>. QED BY <2>1, <2>2
<1>1. CASE Succ(tail) # head
  <2>1. /\ entries' = ent /\ tail' = Succ(tail) /\ size' = size /\ head' = head
    BY <1>1 DEF Add
  <2>2. TypeOK'
    BY <1>a, <1>e, <2>1, IdxIndex DEF Add, TypeOK
  <2>3. Pending' = Pending + 1
    <3>1. /\ tail + 1 < size => Succ(tail) = tail + 1
          /\ tail + 1 >= size => Succ(tail) = 0
      BY <1>a, IdxIndex DEF TypeOK
    <3>. QED BY <3>1, <2>1, <1>1, <1>a DEF Pending, TypeOK
  <2>4. HoldsMessages(Pending)'
    <3> SUFFICES ASSUME NEW k \in 0..Pending'-1
                 PROVE  entries'[Idx(k)'] = [msg |-> Taken' + k + 1, is_end |-> FALSE]
      BY DEF HoldsMessages
    <3>1. k \in 0..Pending
      BY <2>3, <1>a, PendingRing DEF TypeOK
    <3>2. Idx(k)' = Idx(k)
      BY <2>1 DEF Idx
    <3>. QED BY <3>1, <3>2, <2>1, <1>f, <1>d
  <2>5. accepted' = Taken' + Pending'
    BY <1>c, <1>d, <2>3, <1>a, PendingRing DEF Add, TypeOK
  <2>. QED BY <2>2, <2>4, <2>5, <1>b
           DEF Add, Threads, Ended, RingHoldsPending, InOrder, NoSleepOverEntries
<1>2. CASE Succ(tail) = head
  <2>1. entries' = Expanded(ent) /\ size' = 2 * size /\ head' = 0 /\ tail' = size
    BY <1>2 DEF Add
  <2>0. size \in Nat \ {0} /\ 2 * size \in Nat \ {0} /\ size \in 0..2*size-1 /\ 0 \in 0..2*size-1
    BY <1>a DEF TypeOK
  <2>2. \A k \in 0..size-1 : Idx(k) \in 0..size-1
    <3> TAKE k \in 0..size-1
    <3>1. k \in 0..size
      BY <2>0
    <3>. QED BY <3>1, <1>a, IdxIndex
  <2>3. entries' \in [0..size'-1 -> Entry]
    <3>1. \A i \in 0..2*size-1 :
              (IF i < size THEN ent[(head + i) % size] ELSE Blank) \in Entry
      BY <2>2, <1>a, <1>e DEF Idx, TypeOK
    <3>. QED BY <3>1, <2>1 DEF Expanded
  <2>4. TypeOK'
    <3>1. accepted' \in Nat /\ worker' \in {"check", "asleep", "print", "exited"}
      BY <1>a DEF Add, TypeOK
    <3>2. UNCHANGED <<running, cur, file, ctl, printed>>
      BY DEF Add
    <3>. QED BY <3>1, <3>2, <2>0, <1>a, <2>1, <2>3 DEF TypeOK
  <2>5. Pending' = Pending + 1 /\ Pending = size - 1
    BY <1>a, <2>1, <1>2, PendingRing DEF Pending, TypeOK
  <2>6. HoldsMessages(Pending)'
    <3> SUFFICES ASSUME NEW k \in 0..Pending'-1
                 PROVE  entries'[Idx(k)'] = [msg |-> Taken' + k + 1, is_end |-> FALSE]
      BY DEF HoldsMessages
    <3>1. k \in 0..Pending /\ k \in 0..size-1 /\ k \in 0..2*size-1
      BY <2>5, <1>a, PendingRing DEF TypeOK
    <3>2. Idx(k)' = k
      <4>1. k < 2 * size => k % (2 * size) = k
        BY <3>1, <2>0, ModTwice
      <4>. QED BY <4>1, <3>1, <2>0, <2>1 DEF Idx
    <3>3. entries'[k] = ent[Idx(k)]
      BY <3>1, <2>1, <1>a DEF Expanded, Idx, TypeOK
    <3>. QED BY <3>1, <3>2, <3>3, <1>f, <1>d
  <2>7. accepted' = Taken' + Pending'
    BY <1>c, <1>d, <2>5, <1>a DEF Add, TypeOK
  <2>. QED BY <2>4, <2>6, <2>7, <1>b
           DEF Add, Threads, Ended, RingHoldsPending, InOrder, NoSleepOverEntries
<1>. QED BY <1>1, <1>2

\* The worker takes the oldest entry: the others move one closer to the head.
LEMMA TakeRing ==
    ASSUME TypeOK, TypeOK', head # tail, head' = Succ(head), UNCHANGED <<entries, size, tail>>
    PROVE  /\ Pending' = Pending - 1 /\ Pending \in 1..size-1
           /\ Idx(0) = head
           /\ \A k \in 0..Pending-2 : Idx(k)' = Idx(k + 1)
<1>1. size \in Nat \ {0} /\ head \in 0..size-1 /\ tail \in 0..size-1
  BY DEF TypeOK
<1>2. /\ head + 1 < size => Succ(head) = head + 1
      /\ head + 1 >= size => Succ(head) = 0
  BY <1>1, IdxIndex
<1>3. Pending' = Pending - 1 /\ Pending \in 1..size-1
  BY <1>1, <1>2 DEF Pending
<1>4. Idx(0) = head
  <2>1. 0 \in 0..size /\ head + 0 < size
    BY <1>1
  <2>2. head + 0 < size => Idx(0) = head + 0
    BY <2>1, IdxIndex
  <2>. QED BY <2>1, <2>2, <1>1
<1>5. ASSUME NEW k \in 0..Pending-2 PROVE Idx(k)' = Idx(k + 1)
  <2>1. k \in 0..size /\ k + 1 \in 0..size /\ head' \in 0..size-1
    BY <1>3, <1>1, IdxIndex
  <2>2. /\ head' + k < size => (head' + k) % size = head' + k
        /\ head' + k >= size => (head' + k) % size = head' + k - size
    BY <2>1, <1>1, RingIndex
  <2>3. /\ head + (k + 1) < size => Idx(k + 1) = head + (k + 1)
        /\ head + (k + 1) >= size => Idx(k + 1) = head + (k + 1) - size
    BY <2>1, IdxIndex
  <2>4. Idx(k)' = (head' + k) % size
    BY DEF Idx
  <2>. QED BY <2>1, <2>2, <2>3, <2>4, <1>1, <1>2, <1>3
<1>. QED BY <1>3, <1>4, <1>5

\* The worker's turn: it sleeps on an empty ring, takes the next message, or
\* meets the end marker with nothing left to print.
LEMMA WorkerTakeIInv == ASSUME IInv, WorkerTake PROVE IInv'
<1> USE DEF IInv
<1>a. worker = "check" /\ Taken = printed /\ TypeOK /\ printed \in Nat /\ accepted \in Nat
  BY DEF WorkerTake, Taken, TypeOK
<1>1. CASE head = tail
  <2>1. worker' = "asleep" /\ UNCHANGED <<ring, running, cur, file, ctl, accepted, printed>>
    BY <1>1 DEF WorkerTake, ring
  <2>2. Taken' = Taken /\ Pending' = Pending /\ \A k : Idx(k)' = Idx(k)
    BY <2>1, <1>a DEF Taken, Pending, Idx, ring
  <2>3. RingHoldsPending'
    BY <2>1, <2>2, <1>1 DEF RingHoldsPending, HoldsMessages, ring
  <2>4. TypeOK'
    BY <2>1 DEF TypeOK, ring
  <2>. QED BY <1>1, <1>a, <2>1, <2>3, <2>4
           DEF Threads, Ended, InOrder, NoSleepOverEntries, ring
<1>2. CASE head # tail
  <2>1. /\ cur' = entries[head] /\ head' = Succ(head)
        /\ worker' = IF entries[head].is_end THEN "exited" ELSE "print"
        /\ UNCHANGED <<entries, size, tail, running, file, ctl, accepted, printed>>
    BY <1>2 DEF WorkerTake
  <2>2. TypeOK'
    <3>1. head' \in 0..size-1 /\ cur' \in Entry
      BY <2>1, <1>a, IdxIndex DEF TypeOK
    <3>. QED BY <2>1, <3>1 DEF TypeOK
  <2>3. /\ Pending' = Pending - 1 /\ Pending \in 1..size-1
        /\ Idx(0) = head
        /\ \A k \in 0..Pending-2 : Idx(k)' = Idx(k + 1)
    BY <2>1, <2>2, <1>2, <1>a, TakeRing
  <2>4. ctl \in {"idle", "join"}
    BY <1>a DEF Threads, TypeOK
  <2> DEFINE n == IF ctl = "idle" THEN Pending ELSE Pending - 1
  <2>5. accepted = printed + n /\ HoldsMessages(n) /\ n \in Nat
    BY <2>4, <2>3, <1>2, <1>a DEF RingHoldsPending, TypeOK
  <2>6. CASE n = 0
    <3>1. ctl = "join" /\ Pending = 1
      BY <2>6, <2>4, <2>3, <1>a DEF TypeOK
    <3>2. entries[head].is_end
      BY <3>1, <2>3, <1>2 DEF RingHoldsPending
    <3>3. worker' = "exited" /\ accepted = printed
      BY <3>2, <2>1, <2>5, <2>6, <1>a
    <3>4. head' = tail'
      BY <3>1, <2>1, <2>2, <2>3 DEF Pending, TypeOK
    <3>. QED BY <3>1, <3>3, <3>4, <2>1, <2>2
             DEF Threads, Ended, RingHoldsPending, InOrder, NoSleepOverEntries
  <2>7. CASE n # 0
    <3>1. entries[head] = [msg |-> printed + 1, is_end |-> FALSE]
      <4>1. 0 \in 0..n-1
        BY <2>7, <2>3, <2>4, <1>a DEF TypeOK
      <4>2. entries[Idx(0)] = [msg |-> Taken + 0 + 1, is_end |-> FALSE]
        BY <4>1, <2>5 DEF HoldsMessages
      <4>. QED BY <4>2, <2>3, <1>a
    <3>2. worker' = "print" /\ Taken' = printed + 1 /\ cur'.msg = printed' + 1 /\ ~cur'.is_end
      BY <3>1, <2>1 DEF Taken
    <3>3. ASSUME NEW k \in 0..n-2
          PROVE  entries'[Idx(k)'] = [msg |-> Taken' + k + 1, is_end |-> FALSE]
      <4>1. k + 1 \in 0..n-1 /\ k \in 0..Pending-2
        BY <2>3, <2>5
      <4>2. Idx(k)' = Idx(k + 1)
        BY <4>1, <2>3
      <4>3. entries[Idx(k + 1)] = [msg |-> Taken + (k + 1) + 1, is_end |-> FALSE]
        BY <4>1, <2>5 DEF HoldsMessages
      <4>4. Taken + (k + 1) + 1 = Taken' + k + 1
        BY <3>2, <1>a, <4>1
      <4>. QED BY <4>2, <4>3, <4>4, <2>1
    <3>4. CASE ctl = "idle"
      <4>1. Pending' - 1 = n - 2 /\ accepted' = Taken' + Pending'
        BY <3>4, <2>3, <2>5, <2>1, <3>2, <1>a DEF TypeOK
      <4>2. HoldsMessages(Pending)'
        BY <4>1, <3>3 DEF HoldsMessages
      <4>. QED BY <3>4, <4>1, <4>2, <3>2, <2>1, <2>2
               DEF Threads, Ended, RingHoldsPending, InOrder, NoSleepOverEntries
    <3>5. CASE ctl = "join"
      <4>1. Pending' - 1 - 1 = n - 2 /\ accepted' = Taken' + Pending' - 1
        BY <3>5, <2>3, <2>5, <2>1, <3>2, <1>a DEF TypeOK
      <4>2. HoldsMessages(Pending - 1)'
        BY <4>1, <3>3 DEF HoldsMessages
      <4>3. entries'[Idx(Pending - 1)'].is_end
        <5>1. Pending - 2 \in 0..Pending-2 /\ Pending - 2 + 1 = Pending - 1
          BY <3>5, <2>3, <2>5, <2>7, <1>a DEF TypeOK
        <5>2. Idx(Pending - 2)' = (head' + (Pending' - 2)) % size'
          BY DEF Idx
        <5>. QED BY <5>1, <5>2, <2>1, <2>3, <3>5, <1>2 DEF RingHoldsPending, Idx
      <4>. QED BY <3>5, <4>1, <4>2, <4>3, <3>2, <2>1, <2>2
               DEF Threads, Ended, RingHoldsPending, InOrder, NoSleepOverEntries
    <3>. QED BY <3>4, <3>5, <2>4
  <2>. QED BY <2>6, <2>7
<1>. QED BY <1>1, <1>2

\* Printing completes what the worker holds.
LEMMA WorkerPrintIInv == ASSUME IInv, WorkerPrint PROVE IInv'
<1> USE DEF IInv
<1>1. /\ worker = "print" /\ worker' = "check" /\ printed' = cur.msg
      /\ UNCHANGED <<entries, size, head, tail, running, cur, file, ctl, accepted>>
  BY DEF WorkerPrint, ring
<1>2. printed' = printed + 1 /\ printed \in Nat
  BY <1>1 DEF InOrder, TypeOK
<1>3. Taken' = Taken /\ Pending' = Pending /\ \A k : Idx(k)' = Idx(k)
  BY <1>1, <1>2 DEF Taken, Pending, Idx
<1>4. RingHoldsPending'
  BY <1>1, <1>3 DEF RingHoldsPending, HoldsMessages
<1>5. TypeOK'
  BY <1>1, <1>2 DEF TypeOK
<1>. QED BY <1>1, <1>4, <1>5 DEF Threads, Ended, InOrder, NoSleepOverEntries

\* pause() puts the end marker behind the pending messages, or, when only one
\* slot is free, makes the ring look empty.
LEMMA PauseIInv == ASSUME IInv, Pause PROVE IInv'
<1> USE DEF IInv, Notify
<1>1. /\ ctl = "idle" /\ ctl' = "join" /\ running' = FALSE
      /\ entries' = [entries EXCEPT ![tail].is_end = TRUE] /\ tail' = Succ(tail)
      /\ UNCHANGED <<size, head, cur, file, accepted, printed>>
      /\ worker' = IF worker = "asleep" THEN "check" ELSE worker
  BY DEF Pause
<1>2. TypeOK'
  <2>1. entries' \in [0..size-1 -> Entry]
    BY <1>1 DEF TypeOK, Entry
  <2>2. tail' \in 0..size-1
    BY <1>1, IdxIndex DEF TypeOK
  <2>. QED BY <1>1, <2>1, <2>2 DEF TypeOK
<1>3. Taken' = Taken /\ \A k : Idx(k)' = Idx(k)
  BY <1>1 DEF Taken, Idx
<1>4. /\ Pending \in 0..size-1 /\ Idx(Pending) = tail
      /\ \A k \in 0..Pending-1 : Idx(k) # tail
      /\ Pending < size - 1 <=> Succ(tail) # head
  BY PendingRing
<1>5. ASSUME head' # tail' PROVE Pending' = Pending + 1
  <2>1. /\ tail + 1 < size => Succ(tail) = tail + 1
        /\ tail + 1 >= size => Succ(tail) = 0
    BY IdxIndex DEF TypeOK
  <2>2. size \in Nat /\ head \in 0..size-1 /\ tail \in 0..size-1
    BY DEF TypeOK
  <2>3. head # Succ(tail) /\ Pending' = IF head <= Succ(tail) THEN Succ(tail) - head
                                        ELSE Succ(tail) - head + size
    BY <1>1, <1>5 DEF Pending
  <2> HIDE DEF IInv
  <2>. QED BY <2>1, <2>2, <2>3 DEF Pending
<1>6. accepted = Taken + Pending /\ HoldsMessages(Pending)
  BY <1>1 DEF RingHoldsPending
<1>7. \A k \in 0..Pending-1 : entries'[Idx(k)] = entries[Idx(k)]
  <2> TAKE k \in 0..Pending-1
  <2>1. k \in 0..size
    BY <1>4 DEF TypeOK
  <2>2. Idx(k) \in 0..size-1 /\ Idx(k) # tail
    BY <2>1, <1>4, IdxIndex
  <2>. QED BY <2>2, <1>1 DEF TypeOK
<1>8. ASSUME head' # tail'
      PROVE  /\ accepted' = Taken' + Pending' - 1 /\ HoldsMessages(Pending - 1)'
             /\ entries'[Idx(Pending - 1)'].is_end
  <2>1. Pending' - 1 = Pending /\ Taken \in Nat
    BY <1>8, <1>4, <1>5 DEF TypeOK, Taken
  <2>2. accepted' = Taken' + Pending' - 1
    BY <2>1, <1>6, <1>1, <1>3, <1>4, <1>5, <1>8 DEF TypeOK
  <2>3. HoldsMessages(Pending - 1)'
    BY <2>1, <1>3, <1>6, <1>7 DEF HoldsMessages
  <2>4. Idx(Pending - 1)' = tail
    BY <2>1, <1>1, <1>4 DEF Idx
  <2>5. entries'[tail].is_end
    BY <1>1 DEF TypeOK, Entry
  <2>. QED BY <2>2, <2>3, <2>4, <2>5
<1>. QED BY <1>1, <1>2, <1>8
         DEF Threads, Ended, RingHoldsPending, InOrder, NoSleepOverEntries

\* join, the change of the output and resume act on an empty ring whose worker
\* has ended.
LEMMA ControlIInv == ASSUME IInv, Join \/ Reconfigure \/ Resume PROVE IInv'
<1> USE DEF IInv
<1>1. /\ UNCHANGED <<entries, size, head, tail, cur, accepted, printed>>
      /\ worker = "exited" /\ head = tail /\ printed = accepted
  BY DEF Join, Reconfigure, Resume, Threads, Ended, ring
<1>2. TypeOK'
  BY DEF Join, Reconfigure, Resume, TypeOK, ring
<1>3. Pending' = 0 /\ Taken' = printed
  BY <1>1 DEF Join, Reconfigure, Resume, Pending, Taken, TypeOK
<1>4. RingHoldsPending'
  BY <1>1, <1>3 DEF RingHoldsPending, HoldsMessages, TypeOK, Join, Reconfigure, Resume
<1>. QED BY <1>1, <1>2, <1>4 DEF Join, Reconfigure, Resume, Threads, Ended, InOrder,
                                NoSleepOverEntries

\* Every step preserves the inductive invariant.
LEMMA NextIInv == IInv /\ [Next]_vars => IInv'
<1> SUFFICES ASSUME IInv, [Next]_vars PROVE IInv'
  OBVIOUS
<1>1. CASE UNCHANGED vars
  BY <1>1 DEF vars, IInv, TypeOK, Threads, Ended, RingHoldsPending, HoldsMessages, Pending,
              Idx, Taken, InOrder, NoSleepOverEntries
<1>. QED BY <1>1, AddIInv, WorkerTakeIInv, WorkerPrintIInv, PauseIInv, ControlIInv
         DEF Next, WorkerStep

\* The inductive invariant holds in every reachable state.
LEMMA Inductive == Spec => []IInv
BY InitIInv, NextIInv, PTL DEF Spec

\* The ring stays a function on its indices, through every expansion, and head
\* and tail stay indices of it.
THEOREM TypeCorrect == Spec => []TypeOK
<1>1. IInv => TypeOK
  BY DEF IInv
<1>. QED BY <1>1, Inductive, PTL

\* Messages are printed one by one in the order of their acceptance by add(),
\* for every capacity and any number of pauses and expansions.
THEOREM PrintsInOrder == Spec => []InOrder
<1>1. IInv => InOrder
  BY DEF IInv
<1>. QED BY <1>1, Inductive, PTL

\* The ring always holds exactly the accepted messages that are not printed.
THEOREM RingExact == Spec => []RingHoldsPending
<1>1. IInv => RingHoldsPending
  BY DEF IInv
<1>. QED BY <1>1, Inductive, PTL

\* A worker that ended for a pause has printed every accepted message.
THEOREM PauseDrainsRing == Spec => []PauseDrains
<1>1. IInv => PauseDrains
  BY DEF IInv, Ended, PauseDrains
<1>. QED BY <1>1, Inductive, PTL

\* The output file and the colours change only while no worker prints.
THEOREM ReconfigurationAlone == Spec => []NoPrintWhileReconfiguring
<1>1. IInv => NoPrintWhileReconfiguring
  BY DEF IInv, Threads, NoPrintWhileReconfiguring
<1>. QED BY <1>1, Inductive, PTL

\* The worker never sleeps while the ring has an entry.
THEOREM NoLostWakeup == Spec => []NoSleepOverEntries
<1>1. IInv => NoSleepOverEntries
  BY DEF IInv
<1>. QED BY <1>1, Inductive, PTL

-----------------------------------------------------------------------------
(* The refinement: what the ring owes is the run of messages from printed + 1 *)
(* to accepted.                                                               *)

\* The messages after p, up to a.
Run(p, a) == [k \in 1..(a - p) |-> p + k]

\* The queue operations on such a run.
LEMMA RunOps ==
    ASSUME NEW p \in Nat, NEW a \in Nat, p <= a
    PROVE  /\ Append(Run(p, a), a + 1) = Run(p, a + 1)
           /\ p < a => /\ Run(p, a) # <<>> /\ Head(Run(p, a)) = p + 1
                       /\ Tail(Run(p, a)) = Run(p + 1, a)
           /\ p = a => Run(p, a) = <<>>
<1>1. Run(p, a) \in Seq(Nat) /\ Len(Run(p, a)) = a - p
  BY DEF Run
<1>2. Append(Run(p, a), a + 1) = Run(p, a + 1)
  BY <1>1 DEF Run
<1>3. ASSUME p < a
      PROVE  /\ Run(p, a) # <<>> /\ Head(Run(p, a)) = p + 1
             /\ Tail(Run(p, a)) = Run(p + 1, a)
  <2>1. Run(p, a) # <<>> /\ Head(Run(p, a)) = p + 1
    BY <1>1, <1>3 DEF Run
  <2>2. Tail(Run(p, a)) = Run(p + 1, a)
    BY <1>1, <1>3 DEF Run
  <2>. QED BY <2>1, <2>2
<1>4. p = a => Run(p, a) = <<>>
  BY <1>1 DEF Run
<1>. QED BY <1>2, <1>3, <1>4

\* A ring that pause() has filled up still holds every message accepted.
FullRing ==
    ctl = "join" /\ head = tail /\ worker # "exited" =>
        /\ accepted = Taken + size - 1
        /\ HoldsMessages(size - 1)

\* What the logger owes, as a run.
LEMMA OwedRun ==
    ASSUME IInv, FullRing
    PROVE  /\ printed \in Nat /\ accepted \in Nat /\ printed <= accepted
           /\ Owed = Run(printed, accepted)
<1> USE DEF IInv
<1>1. /\ size \in Nat \ {0} /\ printed \in Nat /\ accepted \in Nat /\ Taken \in Nat
      /\ worker = "print" => Taken = printed + 1 /\ cur.msg = printed + 1
      /\ worker # "print" => Taken = printed
  BY DEF TypeOK, Taken, InOrder
<1>2. Pending \in 0..size-1 /\ (Pending = 0 <=> head = tail)
  BY PendingRing
<1>3. InRing \in Nat /\ accepted = Taken + InRing /\ HoldsMessages(InRing)
  <2>1. CASE ctl = "join" /\ worker # "exited" /\ head = tail
    BY <2>1, <1>1 DEF InRing, FullRing
  <2>2. CASE ctl = "join" /\ worker # "exited" /\ head # tail
    BY <2>2, <1>1, <1>2 DEF InRing, RingHoldsPending
  <2>3. CASE worker = "exited"
    BY <2>3, <1>1, <1>2 DEF InRing, Ended, HoldsMessages
  <2>4. CASE worker # "exited" /\ ctl = "idle"
    BY <2>4, <1>1, <1>2 DEF InRing, RingHoldsPending
  <2>. QED BY <2>1, <2>2, <2>3, <2>4 DEF TypeOK, Threads
<1>4. \A k \in 0..InRing-1 : entries[Idx(k)].msg = Taken + k + 1
  <2> HIDE DEF IInv
  <2> TAKE k \in 0..InRing-1
  <2>1. entries[Idx(k)] = [msg |-> Taken + k + 1, is_end |-> FALSE]
    BY <1>3 DEF HoldsMessages
  <2>. QED BY <2>1
<1>5. InRing + Taken - printed = accepted - printed
  BY <1>1, <1>3
<1>6. CASE worker = "print"
  <2>1. \A k \in 1..(accepted - printed) : k # 1 => k - 2 \in 0..InRing-1
    BY <1>6, <1>1, <1>3
  <2>2. \A k \in 1..(accepted - printed) :
          (IF k = 1 THEN cur.msg ELSE entries[Idx(k - 2)].msg) = printed + k
    <3> TAKE k \in 1..(accepted - printed)
    <3>1. k # 1 => entries[Idx(k - 2)].msg = Taken + (k - 2) + 1
      BY <2>1, <1>4
    <3>. QED BY <3>1, <1>1, <1>6
  <2>. QED BY <2>2, <1>1, <1>3, <1>5, <1>6 DEF Owed, Run
<1>7. CASE worker # "print"
  <2>1. \A k \in 1..(accepted - printed) : entries[Idx(k - 1)].msg = printed + k
    <3> TAKE k \in 1..(accepted - printed)
    <3>1. k - 1 \in 0..InRing-1
      BY <1>7, <1>1, <1>3
    <3>2. entries[Idx(k - 1)].msg = Taken + (k - 1) + 1
      BY <3>1, <1>4
    <3>. QED BY <3>2, <1>1, <1>7
  <2>. QED BY <2>1, <1>1, <1>3, <1>5, <1>7 DEF Owed, Run
<1>. QED BY <1>1, <1>3, <1>6, <1>7

OwesRun == printed <= accepted /\ Owed = Run(printed, accepted)

\* A full ring after a step owes the worker a run.
LEMMA OwedRunNext == IInv' /\ FullRing' => OwesRun'
<1>1. IInv /\ FullRing => OwesRun
  BY OwedRun DEF OwesRun
<1>. QED BY <1>1, PTL

\* Only a pause that finds one free entry fills the ring; then nothing moves.
LEMMA FullRingStep == ASSUME IInv, FullRing, Next PROVE FullRing'
<1> USE DEF IInv
<1>1. Pending \in 0..size-1 /\ (Pending = 0 <=> head = tail) /\ (Pending < size - 1 <=> Succ(tail) # head)
  BY PendingRing
<1>2. CASE Add
  BY <1>2 DEF Add, Threads, FullRing
<1>3. CASE WorkerTake
  <2>1. CASE ctl # "join"
    BY <1>3, <2>1 DEF WorkerTake, FullRing
  <2>2. CASE head = tail
    BY <1>3, <2>2 DEF WorkerTake, FullRing, HoldsMessages, Idx, Taken
  <2>3. CASE ctl = "join" /\ head # tail
    <3>1. SUFFICES ASSUME head' = tail' PROVE worker' = "exited"
      BY DEF FullRing
    <3>2. head' = Succ(head) /\ tail' = tail
      BY <1>3, <2>3 DEF WorkerTake
    <3>3. Pending = 1
      <4>1. /\ head + 1 < size => Succ(head) = head + 1
            /\ head + 1 >= size => Succ(head) = 0
        BY IdxIndex DEF TypeOK
      <4>2. size \in Nat \ {0} /\ head \in 0..size-1 /\ tail \in 0..size-1
        BY DEF TypeOK
      <4>3. tail = Succ(head) /\ head # tail
        BY <3>1, <3>2, <2>3
      <4> HIDE DEF IInv
      <4>. QED BY <4>1, <4>2, <4>3 DEF Pending
    <3>4. Idx(0) = head
      BY IdxIndex DEF TypeOK
    <3>5. entries[head].is_end
      BY <2>3, <3>3, <3>4 DEF RingHoldsPending
    <3>. QED BY <3>5, <1>3, <2>3 DEF WorkerTake
  <2>. QED BY <2>1, <2>2, <2>3
<1>4. CASE WorkerPrint
  <2>1. UNCHANGED <<entries, size, head, tail, ctl, accepted>> /\ Taken' = Taken /\ worker # "exited"
    BY <1>4 DEF WorkerPrint, Taken, InOrder, ring
  <2>. QED BY <2>1 DEF FullRing, HoldsMessages, Idx
<1>5. CASE Pause
  <2>1. SUFFICES ASSUME head' = tail' PROVE accepted' = Taken' + size' - 1 /\ HoldsMessages(size - 1)'
    BY DEF FullRing
  <2>2. ctl = "idle" /\ UNCHANGED <<size, head, accepted>> /\ Taken' = Taken /\ Succ(tail) = head
    BY <1>5, <2>1 DEF Pause, Notify, Taken
  <2>3. Pending = size - 1 /\ accepted = Taken + Pending /\ HoldsMessages(Pending)
    BY <2>2, <1>1 DEF RingHoldsPending, TypeOK
  <2>4. ASSUME NEW k \in 0..size-2 PROVE entries'[Idx(k)] = entries[Idx(k)]
    <3>1. k \in 0..size /\ k \in 0..Pending-1
      BY <2>3 DEF TypeOK
    <3>2. Idx(k) \in 0..size-1
      BY <3>1, IdxIndex
    <3>3. Idx(k) # tail
      BY <3>1, PendingRing
    <3>. QED BY <3>2, <3>3, <1>5 DEF Pause, TypeOK
  <2>5. \A k \in 0..size-2 : entries'[Idx(k)'] = [msg |-> Taken' + k + 1, is_end |-> FALSE]
    <3>1. SUFFICES ASSUME NEW k \in 0..size-2
                   PROVE  entries'[Idx(k)'] = [msg |-> Taken' + k + 1, is_end |-> FALSE]
      OBVIOUS
    <3>2. Idx(k)' = Idx(k)
      BY <2>2 DEF Idx
    <3>3. k \in 0..Pending-1
      BY <2>3 DEF TypeOK
    <3>4. entries[Idx(k)] = [msg |-> Taken + k + 1, is_end |-> FALSE]
      BY <2>3, <3>3 DEF HoldsMessages
    <3> HIDE DEF IInv
    <3>. QED BY <2>2, <2>4, <3>2, <3>4
  <2>. QED BY <2>2, <2>3, <2>5 DEF HoldsMessages, TypeOK
<1>6. CASE Join \/ Reconfigure \/ Resume
  BY <1>6 DEF Join, Reconfigure, Resume, FullRing
<1>. QED BY <1>2, <1>3, <1>4, <1>5, <1>6 DEF Next, WorkerStep

\* Every step of the logger is a step of the queue, or changes nothing of it.
LEMMA FifoStep ==
    ASSUME IInv, FullRing, IInv', FullRing', [Next]_vars
    PROVE  [Fifo!Next]_(Fifo!fifo)
<1>1. /\ printed \in Nat /\ accepted \in Nat /\ printed <= accepted
      /\ Owed = Run(printed, accepted)
  BY OwedRun
<1>2. printed' <= accepted' /\ Owed' = Run(printed', accepted')
  BY OwedRunNext DEF OwesRun
<1>3. CASE Add
  <2>1. Owed' = Append(Owed, accepted + 1)
    BY <1>1, <1>2, <1>3, RunOps DEF Add
  <2>2. Fifo!Accept
    BY <2>1, <1>3 DEF Add, Fifo!Accept
  <2>. QED BY <2>2 DEF Fifo!Next
<1>4. CASE WorkerTake
  BY <1>1, <1>2, <1>4 DEF WorkerTake, Fifo!fifo
<1>5. CASE WorkerPrint
  <2>1. printed' = printed + 1 /\ accepted' = accepted
    BY <1>5 DEF WorkerPrint, IInv, InOrder
  <2>2. printed < accepted
    BY <1>1, <1>2, <2>1
  <2>3. Owed # <<>> /\ Head(Owed) = printed + 1 /\ Owed' = Tail(Owed)
    BY <1>1, <1>2, <2>1, <2>2, RunOps
  <2>4. Fifo!Write
    BY <2>1, <2>3, <1>5 DEF WorkerPrint, Fifo!Write
  <2>. QED BY <2>4 DEF Fifo!Next
<1>6. CASE Pause
  <2>1. Owed' = Owed
    BY <1>1, <1>2, <1>6 DEF Pause
  <2>2. Fifo!Close
    BY <2>1, <1>6 DEF Pause, Fifo!Close, IInv, Threads
  <2>. QED BY <2>2 DEF Fifo!Next
<1>7. CASE Join
  BY <1>1, <1>2, <1>7 DEF Join, Fifo!fifo
<1>8. CASE Reconfigure \/ Resume
  <2>1. Owed' = Owed /\ ~running /\ printed = accepted
    BY <1>1, <1>2, <1>8 DEF Reconfigure, Resume, IInv, Threads, Ended, TypeOK
  <2>2. Owed = <<>>
    BY <1>1, <2>1, RunOps
  <2>3. Fifo!SetFile \/ Fifo!Open
    BY <2>1, <2>2, <1>8 DEF Reconfigure, Resume, Fifo!SetFile, Fifo!Open
  <2>. QED BY <2>3 DEF Fifo!Next
<1>9. CASE UNCHANGED vars
  BY <1>1, <1>2, <1>9 DEF vars, Fifo!fifo
<1>. QED BY <1>3, <1>4, <1>5, <1>6, <1>7, <1>8, <1>9 DEF Next, WorkerStep

\* The ring buffer, the worker thread and the pauses of common/log.cpp implement an
\* unbounded queue that is written in order and whose output is replaced only when it
\* is empty, for every capacity and any number of messages.
THEOREM LogImplementsFifo == Spec => ImplementsFifo
<1>1. Init => Fifo!Init /\ FullRing
  <2> SUFFICES ASSUME Init PROVE Fifo!Init /\ FullRing
    OBVIOUS
  <2>1. FullRing
    BY DEF Init, FullRing
  <2>2. Owed = Run(printed, accepted)
    BY <2>1, InitIInv, OwedRun
  <2>3. Owed = <<>>
    BY <2>2, RunOps DEF Init
  <2>. QED BY <2>1, <2>3 DEF Init, Fifo!Init
<1>2. IInv /\ FullRing /\ [Next]_vars => FullRing'
  <2>1. CASE UNCHANGED vars
    BY <2>1 DEF vars, FullRing, HoldsMessages, Idx, Taken
  <2>. QED BY <2>1, FullRingStep
<1>3. IInv /\ FullRing /\ IInv' /\ FullRing' /\ [Next]_vars => [Fifo!Next]_(Fifo!fifo)
  BY FifoStep
<1>. QED BY <1>1, <1>2, <1>3, Inductive, PTL DEF Spec, ImplementsFifo, Fifo!Spec
=============================================================================
