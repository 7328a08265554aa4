SPECIFICATION Spec
CONSTANTS
  Requests = {r1, r2}
  Browsers = {b1}
  Passwords = {p1}
  Endpoints <- ConfirmTraffic
  MaxVersion = 1
  None = None
  r1 = r1
  r2 = r2
  b1 = b1
  p1 = p1
SYMMETRY Interchangeable
PROPERTY
  OlderSessionsFail
