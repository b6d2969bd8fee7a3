\* Every sequence of up to six writes to one payload.
SPECIFICATION Spec
CONSTANTS
  Nil = Nil
  a = a b = b
  Ids = {a, b}
  NsId = NsId
  Int32Half = 2
  JobManifests <- Bringable
  MaxSteps = 6
INVARIANTS
  TypeOK
  ReadsBack
  ReplicasCountScalings
  RequestsKeepRemainder
CHECK_DEADLOCK FALSE
