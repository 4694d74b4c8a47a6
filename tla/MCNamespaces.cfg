SPECIFICATION Spec
CONSTANTS
  Request = {r1, r2}
  Name = {general, other}
  General = general
  MaxServers = 1
  MaxNamespaces = 2
  MaxChats = 2
SYMMETRY Symmetry
INVARIANT TypeOK
INVARIANT BareServersAreExcused
INVARIANT ListsShowWhatLasted
INVARIANT AnswersAreTrue
