----------------------------- MODULE MCServerLoop -----------------------------
(***************************************************************************)
(* Small instances of ServerLoop.  Task ids 1..4 belong to the requests    *)
(* r1 and r2, ids 5 and above to the recv()-style handlers.                *)
(***************************************************************************)
EXTENDS ServerLoop

CONSTANTS r1, r2

OneEach == (r1 :> <<1>>) @@ (r2 :> <<2>>)
TwoAndOne == (r1 :> <<1, 2>>) @@ (r2 :> <<3>>)
JustR1 == (r1 :> <<1>>)
NoReaders == [r \in {} |-> <<1>>]

\* No task asks for a slot.
AnySlot == [t \in 1..9 |-> NoSlot]
\* The handler 5 works on slot 1, the completion 2 asks for slot 1.
SlotOne == [t \in 1..9 |-> IF t \in {2, 5} THEN 1 ELSE NoSlot]
\* The handler 5 names a slot that does not exist.
BadSlot == [t \in 1..9 |-> IF t = 5 THEN 9 ELSE NoSlot]

NoAdmins == [a \in {} |-> "METRICS"]
OneSlotOp == (5 :> "SLOT_OP")
OneLora == (5 :> "SET_LORA")
MetricsAndSlotOp == (5 :> "SLOT_OP") @@ (6 :> "METRICS")
=============================================================================
