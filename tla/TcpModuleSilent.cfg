SPECIFICATION SilentSpec
CONSTANTS
  Client = {c1}
  NoClient = NoClient
  Peer = {p1}
  MaxTimes = 1
  CheckTime = 1
  Run = {r1}
  NoPeer = NoPeer
PROPERTY
  ReplyWaitEnds
