SPECIFICATION Spec
CONSTANT
  Ctx = {x1, x2, x3}
INVARIANTS
  TypeOK
  OneActive
  ExitIsFinal
PROPERTY
  RequestEnds
