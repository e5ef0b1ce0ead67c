\* One user and one group, two keys, a cache of one: role changes, deletes, eviction.
SPECIFICATION Spec
CONSTANTS
  Users = {u1}
  Groups = {g1}
  Keys = {k1, k2}
  Requests = {r1, r2}
  Everything = Everything
  Wishes <- MCNarrowWishes
  LruSize = 1
  None = None
SYMMETRY Symmetry
INVARIANTS
  TypeOK
  CachedCopyIsCurrent
  HandlersReadCurrent
PROPERTY ScopesGrowByUpdate
