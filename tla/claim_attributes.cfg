\* The manifests after a remediation.
SPECIFICATION Spec
CONSTANTS
  Nil = Nil
  a = a b = b
  Ids = {a, b}
  NsId = NsId
  Int32Half = 2
  JobManifests <- Bringable
  MaxSteps = 6
PROPERTY OnlyAttributesChange
CHECK_DEADLOCK FALSE
