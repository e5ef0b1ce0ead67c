\* Shows changes of a group without a record: AllChangesAreAnnounced is violated.
SPECIFICATION Spec
CONSTANTS
  None = None
  g1 = g1
  g2 = g2
  g3 = g3
  g4 = g4
  Groups <- MCGroups
  Parent <- MCParent
  Joinable <- MCJoinable
  Keys = {k1}
  Points <- MCPoints
  Requests = {r1}
PROPERTY AllChangesAreAnnounced
