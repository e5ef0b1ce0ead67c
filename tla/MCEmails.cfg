\* Two users, three emails, two requests.
SPECIFICATION Spec
CONSTANTS
  Users = {u1, u2}
  Emails = {e1, e2, e3}
  Requests = {r1, r2}
  None = None
SYMMETRY Symmetry
INVARIANT EmailsInv
PROPERTIES
  LastEmailStays
  PrimaryEmailStays
  PrimaryEmailIsOwn
