SPECIFICATION PaginationSpec
CONSTANTS
  Limit = 4
  MaxMessages = 9
  MaxDeletions = 3
CHECK_DEADLOCK FALSE
INVARIANT PaginationTypeOK
INVARIANT PagesAreDisjoint
INVARIANT LittleIsMissed
