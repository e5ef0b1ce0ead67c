\* One user against deactivated.md, "you can log in within 30 days to reactivate it".
SPECIFICATION Spec
CONSTANTS
  Users = {u1}
  Sessions = {s1}
  Requests = {r1}
  Cron = Cron
  UnusedDays = 1
  InactiveDays = 1
  None = None
SYMMETRY Symmetry
PROPERTY DaysToReactivate
