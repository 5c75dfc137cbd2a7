SPECIFICATION Spec
CONSTANTS
  a = a
  b = b
  t1 = t1
  t2 = t2
  t3 = t3
  NoRow = NoRow
  Clean = Clean
  Unread = Unread
  None = None
  Keys <- MCKeys
  Txns <- MCThreeTxns
  Requests <- MixedRequests
  InitialRows <- MCInitialRows
SYMMETRY Symmetry
INVARIANTS
  IInv
  ExactUnlessClobbered
  AllLinesBooked
  CheckHoldsUnlessRaced
