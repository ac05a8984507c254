SPECIFICATION Spec
CONSTANTS
  Ip = {i1, i2}
  NoIp = NoIp
  Attempt = {a1, a2}
PROPERTY
  BadThenGoodThenAlive
