SPECIFICATION SilentSpec
CONSTANT
  Ctx = {x1, x2}
PROPERTY
  ReadWaitEnds
