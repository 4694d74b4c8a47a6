SPECIFICATION Spec
CONSTANTS
  Account = {ann, bob}
  Request = {r1}
  Channel = {"ws"}
  MaxInvitations = 3
SYMMETRY Symmetry
INVARIANT OnePendingPerPair
