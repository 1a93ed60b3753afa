SPECIFICATION FairSpec
CONSTANTS
  r1 = r1
  r2 = r2
  c1 = c1
  ip1 = ip1
  Recipients = {r1}
  Senders = {s1, s2}
  Codes = {c1}
  Ips = {ip1}
  NoKey = NoKey
  NoNote = NoNote
  CodeOf <- OneCode
  IpOf <- OneAddress
  TooLarge = {s2}
  TTL = 2
  RateLimit = 2
  Ahead = 1
  MaxTime = 3
  MaxRestarts = 1
INVARIANTS BlobWithRendezvous HandleFreedOnce
PROPERTIES ReceiveEnds
CHECK_DEADLOCK FALSE
