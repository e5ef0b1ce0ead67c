\* A receiver that never answers: NoneWaitsForever is violated.
SPECIFICATION FairSpec
CONSTANTS
  Groups = {g1}
  Hooks = {h1}
  Urls = {u1, u2}
  BadUrls = {u2}
  Events = {e1, e2}
  Happenings = {t1, t2}
  Requests = {r1}
  Retries = 2
  None = None
PROPERTY NoneWaitsForever
