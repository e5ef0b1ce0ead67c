\* Two roles, two names, two groups, one scope and two requests at once.
SPECIFICATION Spec
CONSTANTS
  n1 = n1
  n2 = n2
  Roles = {p1, p2}
  Names <- MCNames
  Spellings <- MCSpellings
  Groups = {g1, g2}
  Scopes = {s1}
  Requests = {r1, r2}
  None = None
SYMMETRY Symmetry
INVARIANTS RolesInv TokenIsCurrent
PROPERTIES UpdatesLeaveWhatWasAsked RevokedIsGone
