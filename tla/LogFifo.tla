------------------------------- MODULE LogFifo -------------------------------
(***************************************************************************)
(* What the logger promises its callers: an unbounded queue of messages,   *)
(* written one by one in the order of acceptance.  The output is replaced  *)
(* only while the log is closed and everything accepted before is written. *)
(***************************************************************************)
EXTENDS Naturals, Sequences

CONSTANT Files

VARIABLES pending,   \* messages accepted and not yet written
          accepted,  \* how many were accepted
          out,       \* the last one written
          open,      \* whether messages are accepted
          file       \* where they go

fifo == <<pending, accepted, out, open, file>>

Init ==
    /\ pending = <<>> /\ accepted = 0 /\ out = 0
    /\ open = TRUE /\ file \in Files

Accept ==
    /\ open
    /\ accepted' = accepted + 1
    /\ pending' = Append(pending, accepted + 1)
    /\ UNCHANGED <<out, open, file>>

Write ==
    /\ pending # <<>>
    /\ out' = Head(pending)
    /\ pending' = Tail(pending)
    /\ UNCHANGED <<accepted, open, file>>

Close ==
    /\ open /\ open' = FALSE
    /\ UNCHANGED <<pending, accepted, out, file>>

SetFile ==
    /\ ~open /\ pending = <<>>
    /\ file' \in Files
    /\ UNCHANGED <<pending, accepted, out, open>>

Open ==
    /\ ~open /\ pending = <<>>
    /\ open' = TRUE
    /\ UNCHANGED <<pending, accepted, out, file>>

Next == Accept \/ Write \/ Close \/ SetFile \/ Open

Spec == Init /\ [][Next]_fifo
=============================================================================
