SPECIFICATION BackendSpec
CONSTANTS
  Client = {c1}
  NoClient = NoClient
  Peer = {p1}
  MaxTimes = 1
  CheckTime = 1
  Run = {r1, r2}
  NoPeer = NoPeer
  Ip = {ip1}
  NoIp = NoIp
INVARIANT
  AddressBound
PROPERTIES
  EveryRunEnds
  ConnectOrReport
