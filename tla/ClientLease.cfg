SPECIFICATION Spec
CONSTANTS
  Client = {c1, c2, c3}
  NoClient = NoClient
  Peer = {p1, p2}
  MaxTimes = 2
  CheckTime = 2
SYMMETRY Symmetry
INVARIANTS
  TypeOK
  LeaseExclusive
  OwnPeer
  UseLimit
  IdleBound
  NoLeak
