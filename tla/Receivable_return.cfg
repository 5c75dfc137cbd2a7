SPECIFICATION Spec
CONSTANTS
  c1 = c1
  c2 = c2
  s1 = s1
  s2 = s2
  g1 = g1
  g2 = g2
  r1 = r1
  r2 = r2
  r3 = r3
  r4 = r4
  r5 = r5
  None = None
  Customers <- MCCustomers
  Shipments <- OneShipment
  Gathers <- OneGather
  Requests <- ThreeRequests
  Deals <- Returns
  Payments <- ReturnPayments
  CreditLimit <- NoLimit
  Months <- NoLimit
SYMMETRY Symmetry
INVARIANTS
  GatheredKeepsCustomer
