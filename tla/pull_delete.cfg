\* Instances of two hubs: two components, one of them deleted.
SPECIFICATION Spec
CONSTANTS
  Nil = Nil
  j1 = j1 j2 = j2 j3 = j3 j4 = j4 j5 = j5
  r1 = r1 r2 = r2
  h1 = h1 h2 = h2
  hubA = hubA hubB = hubB
  app = app cfg = cfg
  NsId = NsId
  Ids = {app, cfg}
  Int32Half = 4
  Jobs = {j1, j2, j3}
  Resources = {r1, r2}
  Works = {w1, w2}
  Hubs = {hubA, hubB}
  Instances = {h1, h2}
  Handlers = {h1, h2}
  HubOf <- TwoHubs
  InstanceOf <- OwnInstance
  Job <- TwoComponents
  Reports <- AppliedOnly
  MaxFaults = 1
  MaxVersion = 3
SYMMETRY TwoHubsSymmetry
INVARIANTS
  ResourceIsOwnWork
  Consistent
PROPERTIES
  RecordedDeleteHolds
