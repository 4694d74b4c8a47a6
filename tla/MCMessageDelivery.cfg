SPECIFICATION FairSpec
CONSTANTS
  m1 = m1
  m2 = m2
  c1 = c1
  c2 = c2
  Message = {m1, m2}
  Conversation = {c1, c2}
  ConversationOf <- MCConversationOf
  Socket = {s1, s2}
INVARIANT TypeOK
INVARIANT NothingMissed
INVARIANT ListIsDelivered
PROPERTY MessagesArrive
