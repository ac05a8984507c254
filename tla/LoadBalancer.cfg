SPECIFICATION Spec
CONSTANTS
  Ip = {i1, i2, i3}
  NoIp = NoIp
  Attempt = {a1, a2}
INVARIANTS
  TypeOK
  NoServerLost
  FailedNotOffered
  BackAfterTwoClears
PROPERTY
  EventuallyAlive
