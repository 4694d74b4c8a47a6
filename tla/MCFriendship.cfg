SPECIFICATION FriendshipSpec
CONSTANTS
  Account = {ann, bob, cal}
  Invitation = {i1, i2}
  Use = {u1}
SYMMETRY Symmetry
INVARIANT WritersWereAllowed
INVARIANT FriendsAreNotRefused
INVARIANT OnlyTurnedFriendsAreRefused
INVARIANT ListsAreTrue
