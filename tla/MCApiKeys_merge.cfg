\* Two users that may be merged, one key, a cache with room for it.
SPECIFICATION Spec
CONSTANTS
  Users = {u1, u2}
  Groups = {}
  Keys = {k1}
  Requests = {r1, r2}
  Everything = Everything
  Wishes <- MCWideWishes
  LruSize = 2
  None = None
SYMMETRY Symmetry
INVARIANT HandlersReadCurrent
PROPERTY ExcessOnlyFromRoleChange
