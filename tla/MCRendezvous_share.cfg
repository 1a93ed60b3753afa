SPECIFICATION Spec
CONSTANTS
  r1 = r1
  r2 = r2
  c1 = c1
  ip1 = ip1
  Recipients = {r1, r2}
  Senders = {s1, s2}
  Codes = {c1}
  Ips = {ip1}
  NoKey = NoKey
  NoNote = NoNote
  CodeOf <- Colliding
  IpOf <- OneAddress
  TooLarge = {}
  TTL = 2
  RateLimit = 1
  Ahead = 0
  MaxTime = 4
  MaxRestarts = 0
SYMMETRY SenderSymmetry
INVARIANTS TypeOK HandedOutOnce AddresseeOnly MintCap
CHECK_DEADLOCK FALSE
