SPECIFICATION MCSpec
CONSTANTS
  None = None
  Series = {p1, p2}
  Requests = {r1, r2}
  Full = 2
  MaxDocuments = 2
  MaxRequests = 3
  Accounts = {a1, a2, a3}
  Known = {a1}
  Disabled = {a2}
  Limit = 2
  Nonexistent = nonexistent
  MaxErrors = 1
INVARIANTS
  TypesOK
  NoGaps
  TakenOnlyIfOutrun
  DeadlineSet
  CountBounded
PROPERTIES
  Answered
  BlockEnds
