SPECIFICATION FairSpec
CONSTANTS
  Clients = {c1, c2}
  Addresses = {a1, a2}
  Accounts = {x1}
  AddressLimit = 1
  AccountLimit = 2
  AddressWindow = 1
  AccountWindow = 2
  Cooldown = 1
  TicksPerSecond = 2
  c1 = c1
  c2 = c2
  a1 = a1
  a2 = a2
  x1 = x1
INVARIANTS
  TypeOK
  LimitHolds
  MailsSpaced
  RetryAfterSuffices
PROPERTY
  BlocksEnd
