\* Shows that a link signs in without the second factor: WaysAskForFactor is violated.
SPECIFICATION Spec
CONSTANTS
  Methods = {"TOTP", "SMS"}
  Secrets = {s1, s2}
  Codes = {c1, c2}
  SetSize = 1
  Subnets = {n1}
  Rows = {i1, i2}
  Requests = {r1, r2}
  None = None
PROPERTY WaysAskForFactor
