SPECIFICATION Spec
CONSTANTS
  Irqs = {5}
  DevIds = {dev1, dev2}
  Descs = {d1, d2, d3}
  NULL = NULL
  AttachFails = TRUE
INVARIANTS
  GrantedIsCalled
CHECK_DEADLOCK FALSE
