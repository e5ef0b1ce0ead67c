\* Two requests over one user's keys, against the comment on cleanAllApiKeysForUser.
SPECIFICATION Spec
CONSTANTS
  Users = {u1}
  Groups = {}
  Keys = {k1, k2}
  Requests = {r1, r2}
  Everything = Everything
  Wishes <- MCNarrowWishes
  LruSize = 1
  None = None
SYMMETRY Symmetry
INVARIANT ServedScopesAllowed
