\* The replicas after a scale-up or scale-down.
SPECIFICATION Spec
CONSTANTS
  Nil = Nil
  a = a b = b
  Ids = {a, b}
  NsId = NsId
  Int32Half = 2
  JobManifests <- Bringable
  MaxSteps = 6
PROPERTY ReplicasByInAndOutOnly
CHECK_DEADLOCK FALSE
