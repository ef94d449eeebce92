----------------------------- MODULE MCMsgSender -----------------------------
(***************************************************************************)
(* Two batches, b1 with a message that is refused between two valid ones,  *)
(* b2 with one message; one caller of SendMessage; one receiver with a     *)
(* channel of one place, or none as in cmd/api/main.go.                    *)
(***************************************************************************)
EXTENDS MsgSender

CONSTANTS b1, b2, c1

MCSize == [b \in {b1, b2} |-> IF b = b1 THEN 3 ELSE 1]
MCInvalid == {<<b1, 2>>}
=============================================================================
