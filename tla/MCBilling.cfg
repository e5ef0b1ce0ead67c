\* Two groups, three customers ever, three requests at once.
SPECIFICATION BillingSpec
CONSTANTS
  BillingGroups = {g1, g2}
  Customers = {c1, c2, c3}
  Calls = {r1, r2, r3}
  Nil = Nil
SYMMETRY Symmetry
INVARIANT BillingInv
PROPERTY CustomersAreTracked
