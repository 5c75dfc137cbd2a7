SPECIFICATION Spec
CONSTANTS
  c1 = c1
  c2 = c2
  s1 = s1
  s2 = s2
  g1 = g1
  g2 = g2
  r1 = r1
  r2 = r2
  r3 = r3
  r4 = r4
  r5 = r5
  None = None
  Customers <- MCCustomers
  Shipments <- TwoShipments
  Gathers <- TwoGathers
  Requests <- FiveRequests
  Deals <- MCDeals
  Payments <- MCPayments
  CreditLimit <- LimitOf3
  Months <- TwoMonths
SYMMETRY Symmetry
INVARIANTS
  TypeOK
  ChargesMatchUnlessOvertaken
  UnclearedAgrees
PROPERTIES
  SettledKeepsCustomer
