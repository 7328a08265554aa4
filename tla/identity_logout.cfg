SPECIFICATION Spec
CONSTANTS
  Requests = {r1, r2, r3}
  Browsers = {b1}
  Passwords = {p1, p2}
  Endpoints <- LogoutTraffic
  MaxVersion = 1
  None = None
  r1 = r1
  r2 = r2
  r3 = r3
  b1 = b1
  p1 = p1
  p2 = p2
SYMMETRY Interchangeable
INVARIANT
  LogoutRemoves
