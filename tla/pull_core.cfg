\* Two instances of one hub: a deployment and a scaling of it.
SPECIFICATION Spec
CONSTANTS
  Nil = Nil
  j1 = j1 j2 = j2 j3 = j3 j4 = j4 j5 = j5
  r1 = r1 r2 = r2
  h1 = h1 h2 = h2
  hubA = hubA hubB = hubB
  app = app cfg = cfg
  NsId = NsId
  Ids = {app, cfg}
  Int32Half = 4
  Jobs = {j1, j2}
  Resources = {r1}
  Works = {w1, w2}
  Hubs = {hubA}
  Instances = {h1, h2}
  Handlers = {h1, h2}
  HubOf <- OneHub
  InstanceOf <- OwnInstance
  Job <- CreateAndScale
  Reports <- AppliedOrNot
  MaxFaults = 2
  MaxVersion = 3
SYMMETRY OneHubSymmetry
INVARIANTS
  TypeOK
  LockedUnlessRefused
  ReportsExistingWork
  SuccessMeansAllUpdated
  ConditionsGrowByJobs
  CountedByJobs
PROPERTIES
  AtomicUpdate
  ImplementsLifecycle
