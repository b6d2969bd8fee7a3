\* Every sequence of up to four writes to one workload.
SPECIFICATION Spec
CONSTANTS
  Nil = Nil
  a = a b = b
  Ids = {a, b}
  NsId = NsId
  Int32Half = 2
  JobManifests <- Slices
  MaxSteps = 4
INVARIANTS
  TypeOK
  RefusesAsPayload
PROPERTIES
  ImplementsPayload
  LoggedIsDeployment
CHECK_DEADLOCK FALSE
