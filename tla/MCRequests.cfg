\* Four nested groups, one request; the limits are scaled down.
SPECIFICATION Spec
CONSTANTS
  None = None
  g1 = g1
  g2 = g2
  g3 = g3
  g4 = g4
  Groups <- MCGroups
  Parent <- MCParent
  Joinable <- MCJoinable
  Keys = {k1}
  Points <- MCPoints
  Requests = {r1}
INVARIANTS RequestsInv GuessesAreFew RolesKeepToTheirRoutes
PROPERTIES ChangesAreAnnounced RightsAreHeld
