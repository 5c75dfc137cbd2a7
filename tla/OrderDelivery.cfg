SPECIFICATION Spec
CONSTANTS
  o1 = o1
  o2 = o2
  s1 = s1
  s2 = s2
  r1 = r1
  r2 = r2
  None = None
  Orders <- MCOrders
  Shipments <- MCShipments
  Requests <- TwoAtATime
  Products <- MCProducts
  MaxItems = 3
  MaxRequests = 5
  NewForms <- MCNewForms
  EditForms <- MCEditForms
  Quantities = {1}
SYMMETRY Symmetry
INVARIANTS
  TypeOK
  StatusUnlessOutrun
PROPERTIES
  EditKeepsDeliveries
