SPECIFICATION Spec
CONSTANTS
  s1 = s1
  s2 = s2
  d1 = d1
  d2 = d2
  r1 = r1
  r2 = r2
  r3 = r3
  r4 = r4
  NoDoc = NoDoc
  Stores <- MCStores
  Products <- OneProduct
  Docs <- TwoDocs
  Requests <- FourRequests
  Payloads <- AllKinds
  ReadReplica = FALSE
  MaxRebuilds = 0
  MaxBatch = 2
SYMMETRY Symmetry
INVARIANTS
  TypeOK
  MatchesUnlessOvertaken
PROPERTIES
  LinkedKeepsStore
