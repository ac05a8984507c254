SPECIFICATION Spec
CONSTANT
  Ctx = {x1, x2}
INVARIANT
  VersionTimeoutIsOwn
