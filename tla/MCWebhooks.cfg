\* One webhook, two things that happen, a url that is one and one that is none, two events, three attempts at each delivery.
SPECIFICATION FairSpec
CONSTANTS
  Groups = {g1}
  Hooks = {h1}
  Urls = {u1, u2}
  BadUrls = {u2}
  Events = {e1, e2}
  Happenings = {t1, t2}
  Requests = {r1}
  Retries = 2
  None = None
INVARIANTS
  WebhooksInv
  LastFiredIsTrue
  CalledAsSubscribed
PROPERTIES
  OffForItsFailures
  DeliveriesImplemented
