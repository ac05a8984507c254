SPECIFICATION Spec
CONSTANTS
  Client = {c1, c2}
  NoClient = NoClient
  Peer = {p1}
  MaxTimes = 1
  CheckTime = 1
  Run = {r1, r2}
  NoPeer = NoPeer
SYMMETRY Symmetry
INVARIANTS
  TypeOK
  ClientExclusive
  PooledQuiet
  TimeoutIsOwn
  OneResume
PROPERTY
  LeaseKept
