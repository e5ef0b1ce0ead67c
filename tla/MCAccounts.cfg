\* Two users, one session, two requests besides the daily task; days are told apart up to one.
SPECIFICATION Spec
CONSTANTS
  Users = {u1, u2}
  Sessions = {s1}
  Requests = {r1, r2}
  Cron = Cron
  UnusedDays = 1
  InactiveDays = 1
  None = None
SYMMETRY Symmetry
INVARIANTS
  TypeOK
  AccountsInv
PROPERTIES
  ActiveUsersKept
  InactiveGetsNoSession
