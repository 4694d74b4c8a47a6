SPECIFICATION Spec
CONSTANTS
  Account = {ann, bob, cal}
  Request = {r1, r2}
  MaxServers = 1
  MaxSubscribers = 3
SYMMETRY Symmetry
INVARIANT TypeOK
INVARIANT MembersListNeverEmpty
INVARIANT AdminsKickedByOwner
PROPERTY OwnerStays
PROPERTY AppointedByOwner
PROPERTY ImplementsRoles
