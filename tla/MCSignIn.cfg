\* Two requests, two backup codes at a time, one subnet that is approved in either of two rows.
SPECIFICATION Spec
CONSTANTS
  Methods = {"TOTP", "SMS"}
  Secrets = {s1, s2}
  Codes = {c1, c2, c3, c4}
  SetSize = 2
  Subnets = {n1}
  Rows = {i1, i2}
  Requests = {r1, r2}
  None = None
SYMMETRY Symmetry
INVARIANTS
  SignInInv
  SessionsEarned
PROPERTIES
  SecretIsProven
  RegenerationLeavesItsCodes
