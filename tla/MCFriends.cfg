SPECIFICATION Spec
CONSTANTS
  Account = {ann, bob}
  Request = {r1, r2}
  Channel = {"ws", "http"}
  MaxInvitations = 2
SYMMETRY Symmetry
INVARIANT TypeOK
INVARIANT SecondPendingOnlyByRace
INVARIANT AnswerEventsCarryARow
PROPERTY ImplementsLifecycle
