SPECIFICATION Spec
CONSTANTS
  Irqs = {5, 7}
  DevIds = {dev1, dev2}
  Descs = {d1, d2, d3}
  NULL = NULL
  AttachFails = FALSE
INVARIANTS
  TypeOK
  ExclusiveAlone
  GrantedIsCalled
CHECK_DEADLOCK FALSE
