\* One handler over one group against 400017, "Cannot change the role of the only owner".
SPECIFICATION Spec
CONSTANTS
  Users = {u1, u2}
  Groups = {g1}
  Requests = {r1, r2}
  Roles <- MCRoles
  AutoJoin = {g1}
  MaxRows = 3
  None = None
SYMMETRY Symmetry
PROPERTY OnlyOwnerNotDemoted
