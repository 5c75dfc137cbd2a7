SPECIFICATION MCSpec
CONSTANTS
  None = None
  Addresses = {ip1, ip2}
  Readers = {reader}
  Writers = {a1, a2}
  MaxRows = 2
  MaxWrites = 2
  MaxErrors = 1
  Firsts = {i1}
  Seconds = {j1, j2}
  Codes = {1, 2}
  Searches = {None}
  Editors = {w1}
  Images = {m1, m2}
  Products = {p1, p2}
  Callers = {h1}
  Job = job
  MaxChanges = 3
  Options = Options
INVARIANTS
  TypesOK
  FreshUnlessLate
  SnapshotUnlessLate
  ImageKept
PROPERTIES
  FreshInTheEnd
  SnapshotRightInTheEnd
  ManualKept
  NothingLost
