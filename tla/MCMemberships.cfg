\* Two requests in flight over one group, two users and three membership rows.
SPECIFICATION Spec
CONSTANTS
  Users = {u1, u2}
  Groups = {g1}
  Requests = {r1, r2}
  Roles <- MCRoles
  AutoJoin = {g1}
  MaxRows = 3
  None = None
SYMMETRY Symmetry
INVARIANTS
  TypeOK
  HandlerInv
PROPERTIES
  LastOwnerStays
  LastMemberStays
  OneMembershipPerGroup
