CONSTANTS
  Users = {u1, u2}
  Addresses = {a1, a2}
  Handlers = {h1, h2}
  NoAddress = NoAddress
  NoRow = NoRow
  NoEntry = NoEntry
  NoJob = NoJob
  Throttle = 1
  TTL = 1
  TokenTTL = 1
  MaxCodes = 2
  MaxTime = 2
SPECIFICATION Spec
SYMMETRY Symmetric
INVARIANTS VerifiedByCode SingleUse
PROPERTY MailedCodeKept
CHECK_DEADLOCK FALSE
