SPECIFICATION Spec
CONSTANTS
  ann = ann
  bob = bob
  cal = cal
  withBob = withBob
  withCal = withCal
  fromBob = fromBob
  fromCal = fromCal
  answer = answer
  annSocket = annSocket
  bobSocket = bobSocket
  Account <- MCAccount
  Conversation <- MCConversation
  Message <- MCMessage
  Initiator <- MCInitiator
  Recipient <- MCRecipient
  ConversationOf <- MCConversationOf
  Creator <- MCCreator
  Receiver <- MCReceiver
  Socket = {annSocket}
  Owner <- MCOwner
  Request = {r1, r2}
  MaxPerSocket = 2
  None = None
INVARIANT TypeOK
INVARIANT OnlyReceiverMarks
INVARIANT EventsTellTheTruth
INVARIANT LoneEventsAnswerTheirRequest
SYMMETRY Symmetry
