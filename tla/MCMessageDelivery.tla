------------------------- MODULE MCMessageDelivery --------------------------
(***************************************************************************)
(* Two conversations, each with one message to the user.                   *)
(***************************************************************************)
EXTENDS MessageDelivery, TLC

CONSTANTS m1, m2, c1, c2

MCConversationOf == [m \in Message |-> IF m = m2 THEN c2 ELSE c1]
=============================================================================
