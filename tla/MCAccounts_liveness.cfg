\* Two users, one session, one request besides the daily task, under fairness of days and task.
SPECIFICATION FairSpec
CONSTANTS
  Users = {u1, u2}
  Sessions = {s1}
  Requests = {r1}
  Cron = Cron
  UnusedDays = 1
  InactiveDays = 1
  None = None
PROPERTY InactiveUsersGo
