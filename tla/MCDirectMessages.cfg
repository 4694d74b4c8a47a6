SPECIFICATION Spec
CONSTANTS
  Account = {ann, bob}
  Request = {r1, r2}
  Content = {hi, yo}
  NoContent = NoContent
  MaxConversations = 2
  MaxMessages = 2
SYMMETRY Symmetry
INVARIANT TypeOK
INVARIANT MessagesBelongToParticipants
INVARIANT DuplicateOnlyByRace
INVARIANT PreviewIsNewest
