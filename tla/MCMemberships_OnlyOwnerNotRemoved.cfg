\* Two handlers over one group against 400010, "Cannot remove the only owner".
SPECIFICATION Spec
CONSTANTS
  Users = {u1, u2}
  Groups = {g1}
  Requests = {r1, r2}
  Roles <- MCRoles
  AutoJoin = {g1}
  MaxRows = 3
  None = None
SYMMETRY Symmetry
PROPERTY OnlyOwnerNotRemoved
