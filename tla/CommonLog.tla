------------------------------ MODULE CommonLog ------------------------------
(***************************************************************************)
(* The logger of common/log.cpp: any thread calls add, which writes the    *)
(* message into a ring buffer under the mutex; a worker thread takes the   *)
(* entries out and prints them without the mutex.  A controlling thread    *)
(* pauses and resumes the worker, also around every change of the output   *)
(* file or of the colours (log.h: "not thread-safe", so there is one).     *)
(*                                                                         *)
(* A message is its position in the order in which add accepted it, so     *)
(* that losing, repeating or reordering messages shows in the numbers.     *)
(***************************************************************************)
EXTENDS Naturals, Sequences

CONSTANTS Capacity,     \* initial size of the ring (256 in the code)
          Files,        \* what set_file / set_file_ptr may install
          MaxMessages   \* bound: messages accepted in one behaviour

ASSUME CapacityAssumption == Capacity \in Nat \ {0}
ASSUME MaxMessagesAssumption == MaxMessages \in Nat
ASSUME FilesAssumption == Files # {}

VARIABLES
    entries,    \* the ring: [0..size-1 -> Entry]
    size,       \* entries.size()
    head, tail,
    running,
    worker,     \* "check": before the predicate, "asleep": in cv.wait,
                \* "print": has copied an entry to cur, "exited"
    cur,        \* the worker's copy of the entry it prints
    file,       \* output installed last
    ctl,        \* controlling thread: "idle", "join" or "paused"
    accepted,   \* messages accepted by add so far
    printed     \* messages printed so far

vars == <<entries, size, head, tail, running, worker, cur, file, ctl, accepted, printed>>
ring == <<entries, size, head, tail>>

Entry == [msg : Nat, is_end : BOOLEAN]
Blank == [msg |-> 0, is_end |-> FALSE]

Init ==
    /\ size = Capacity
    /\ entries = [i \in 0..Capacity-1 |-> Blank]
    /\ head = 0 /\ tail = 0
    /\ running = TRUE /\ worker = "check" /\ cur = Blank
    /\ file \in Files /\ ctl = "idle"
    /\ accepted = 0 /\ printed = 0

\* Mutant: the index does not wrap.
SuccNoWrap(i) == i + 1

\* (i + 1) % entries.size()
Succ(i) == (i + 1) % size

\* Mutant: the notification is forgotten.
NotifyForgotten == worker' = worker

\* cv.notify_one(): the worker is the only thread that waits.
Notify == worker' = IF worker = "asleep" THEN "check" ELSE worker

\* Mutant: the expansion copies the ring as it lies in memory.
ExpandedAsIs(ent) == [i \in 0..2*size-1 |-> IF i < size THEN ent[i] ELSE Blank]

\* The expansion when the tail has caught up with the head: twice the size,
\* the entries moved to the front in order.
Expanded(ent) ==
    [i \in 0..2*size-1 |-> IF i < size THEN ent[(head + i) % size] ELSE Blank]

Add ==
    /\ accepted < MaxMessages
    /\ running
    /\ accepted' = accepted + 1
    /\ LET ent == [entries EXCEPT ![tail] = [msg |-> accepted + 1, is_end |-> FALSE]]
       IN  IF Succ(tail) = head
           THEN /\ entries' = Expanded(ent)
                /\ size' = 2 * size
                /\ head' = 0 /\ tail' = size
           ELSE /\ entries' = ent
                /\ tail' = Succ(tail)
                /\ UNCHANGED <<size, head>>
    /\ Notify
    /\ UNCHANGED <<running, cur, file, ctl, printed>>

\* Mutant: the worker ends when it sees that running is false.
WorkerTakeUntilStopped ==
    /\ worker = "check"
    /\ IF head = tail
       THEN worker' = "asleep" /\ UNCHANGED <<cur, head>>
       ELSE /\ cur' = entries[head]
            /\ head' = Succ(head)
            /\ worker' = IF ~running THEN "exited" ELSE "print"
    /\ UNCHANGED <<entries, size, tail, running, file, ctl, accepted, printed>>

\* One turn of the worker: the predicate of cv.wait, then the copy.
WorkerTake ==
    /\ worker = "check"
    /\ IF head = tail
       THEN worker' = "asleep" /\ UNCHANGED <<cur, head>>
       ELSE /\ cur' = entries[head]
            /\ head' = Succ(head)
            /\ worker' = IF entries[head].is_end THEN "exited" ELSE "print"
    /\ UNCHANGED <<entries, size, tail, running, file, ctl, accepted, printed>>

WorkerPrint ==
    /\ worker = "print"
    /\ printed' = cur.msg
    /\ worker' = "check"
    /\ UNCHANGED <<ring, running, cur, file, ctl, accepted>>

\* Mutant: the tail does not move past the end marker.
PauseInPlace ==
    /\ ctl = "idle"
    /\ running' = FALSE
    /\ entries' = [entries EXCEPT ![tail].is_end = TRUE]
    /\ Notify
    /\ ctl' = "join"
    /\ UNCHANGED <<size, head, tail, cur, file, accepted, printed>>

\* pause(): the end marker goes into the slot at the tail; unlike add, pause
\* does not look whether the tail has caught up with the head.
Pause ==
    /\ ctl = "idle"
    /\ running' = FALSE
    /\ entries' = [entries EXCEPT ![tail].is_end = TRUE]
    /\ tail' = Succ(tail)
    /\ Notify
    /\ ctl' = "join"
    /\ UNCHANGED <<size, head, cur, file, accepted, printed>>

\* Mutant: pause() does not wait for the worker.
JoinEarly ==
    /\ ctl = "join"
    /\ ctl' = "paused"
    /\ UNCHANGED <<ring, running, worker, cur, file, accepted, printed>>

\* thrd.join()
Join ==
    /\ ctl = "join" /\ worker = "exited"
    /\ ctl' = "paused"
    /\ UNCHANGED <<ring, running, worker, cur, file, accepted, printed>>

\* The change between pause() and resume() in set_file, set_file_ptr and
\* set_colors.
Reconfigure ==
    /\ ctl = "paused"
    /\ file' \in Files
    /\ UNCHANGED <<ring, running, worker, cur, ctl, accepted, printed>>

\* resume(): a new worker starts on the ring as it is.
Resume ==
    /\ ctl = "paused"
    /\ running' = TRUE /\ worker' = "check" /\ ctl' = "idle"
    /\ UNCHANGED <<ring, cur, file, accepted, printed>>

WorkerStep == WorkerTake \/ WorkerPrint
Next == Add \/ WorkerStep \/ Pause \/ Join \/ Reconfigure \/ Resume

Spec == Init /\ [][Next]_vars

\* The worker keeps running, and join returns once it has ended.
FairSpec == Spec /\ WF_vars(WorkerStep) /\ WF_vars(Join)

-----------------------------------------------------------------------------
(* Properties                                                               *)

\* Type invariant: the ring is a function on its indices, head and tail are
\* indices of it.
TypeOK ==
    /\ size \in Nat \ {0}
    /\ entries \in [0..size-1 -> Entry]
    /\ head \in 0..size-1 /\ tail \in 0..size-1
    /\ running \in BOOLEAN
    /\ worker \in {"check", "asleep", "print", "exited"}
    /\ cur \in Entry /\ file \in Files
    /\ ctl \in {"idle", "join", "paused"}
    /\ accepted \in Nat /\ printed \in Nat

\* Messages come out one by one in the order add accepted them: what the
\* worker holds is always the successor of what it printed last, across wrap,
\* expansion, pause and resume.
InOrder == worker = "print" => cur.msg = printed + 1 /\ ~cur.is_end

\* Nothing accepted is lost in a pause: when the worker has ended, every
\* message accepted before the pause is printed.
PauseDrains == worker = "exited" => printed = accepted

\* How many entries the worker can see, where they are, and how many
\* messages the worker has taken out of the ring.
Pending == IF head <= tail THEN tail - head ELSE tail - head + size
Idx(k)  == (head + k) % size
Taken   == IF worker = "print" THEN printed + 1 ELSE printed

HoldsMessages(n) ==
    \A k \in 0..n-1 : entries[Idx(k)] = [msg |-> Taken + k + 1, is_end |-> FALSE]

\* The ring holds exactly the messages accepted and not yet taken, in order,
\* followed by the end marker while a pause waits for the worker (unless the
\* marker made the full ring look empty).
RingHoldsPending ==
    /\ ctl = "idle" => accepted = Taken + Pending /\ HoldsMessages(Pending)
    /\ ctl = "join" /\ head # tail =>
          /\ accepted = Taken + Pending - 1 /\ HoldsMessages(Pending - 1)
          /\ entries[Idx(Pending - 1)].is_end

\* The messages the logger still owes: the one in the worker's hand, then those of
\* the ring without the end marker.  A ring that the marker filled has head = tail.
InRing == IF ctl = "join" /\ worker # "exited"
          THEN (IF head = tail THEN size ELSE Pending) - 1 ELSE Pending
Owed == [k \in 1..(InRing + Taken - printed) |->
            IF worker = "print" THEN (IF k = 1 THEN cur.msg ELSE entries[Idx(k - 2)].msg)
            ELSE entries[Idx(k - 1)].msg]

Fifo == INSTANCE LogFifo WITH pending <- Owed, out <- printed, open <- running

\* The ring, its worker and the pauses implement an unbounded queue of messages:
\* expansion and the two threads cannot be told from outside, and a new output file
\* is installed only when the old one has got everything.
ImplementsFifo == Fifo!Spec

\* The worker reads the output file and the colours without the mutex; it
\* never does while set_file or set_colors changes them.
NoPrintWhileReconfiguring == ctl = "paused" => worker = "exited" /\ ~running

\* The worker does not sleep over a message: with the worker asleep the ring
\* is empty to everyone (no lost wakeup, in add or in pause).
NoSleepOverEntries == worker = "asleep" => head = tail

\* A pause whose end marker left the ring readable returns.
PauseReturns == (ctl = "join" /\ head # tail) ~> ctl = "paused"

\* "push an entry to signal the worker thread to stop": the worker gets the
\* signal, so every pause returns.
PauseAlwaysReturns == ctl = "join" ~> ctl = "paused"
=============================================================================
