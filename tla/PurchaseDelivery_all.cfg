SPECIFICATION Spec
CONSTANTS
  p1 = p1
  p2 = p2
  s1 = s1
  s2 = s2
  r1 = r1
  r2 = r2
  v1 = v1
  v2 = v2
  None = None
  Purchases <- MCPurchases
  Receipts <- MCReceipts
  Vendors <- MCVendors
  Requests <- TwoAtATime
  Products <- MCProducts
  MaxItems = 3
  MaxRequests = 4
  NewForms <- MCNewForms
  EditForms <- MCEditForms
  Quantities = {1}
SYMMETRY Symmetry
INVARIANTS
  TypeOK
  StatusUnlessOutrun
  StoppedUnlessOutrun
  OutstandingIsOffered
  SameVendor
