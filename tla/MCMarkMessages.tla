--------------------------- MODULE MCMarkMessages ---------------------------
(***************************************************************************)
(* A small population for MarkMessages: bob and cal have each written to   *)
(* ann, and ann has answered bob.  ann has a socket, and sometimes bob.    *)
(***************************************************************************)
EXTENDS MarkMessages, TLC

CONSTANTS
  ann, bob, cal, withBob, withCal, fromBob, fromCal, answer, annSocket, bobSocket

MCAccount == {ann, bob, cal}
MCConversation == {withBob, withCal}
MCMessage == {fromBob, fromCal, answer}
MCInitiator == [c \in MCConversation |-> IF c = withBob THEN bob ELSE ann]
MCRecipient == [c \in MCConversation |-> IF c = withBob THEN ann ELSE cal]
MCConversationOf ==
  [m \in MCMessage |-> IF m = fromCal THEN withCal ELSE withBob]
MCCreator ==
  [m \in MCMessage |->
     CASE m = fromBob -> bob [] m = fromCal -> cal [] OTHER -> ann]
MCReceiver == [m \in MCMessage |-> IF m = answer THEN bob ELSE ann]
MCOwner == [s \in Socket |-> IF s = annSocket THEN ann ELSE bob]

Symmetry == Permutations(Request)
=============================================================================
