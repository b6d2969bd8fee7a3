\* A request that executes a job, next to the syncs of two instances.
SPECIFICATION SyncSpec
CONSTANTS
  Nil = Nil
  j1 = j1 j2 = j2 r1 = r1
  h1 = h1 h2 = h2 y1 = y1 y2 = y2
  hubA = hubA hubB = hubB c1 = c1
  app = app
  NsId = NsId
  Ids = {app}
  Int32Half = 4
  Jobs = {j1, j2}
  Resources = {r1}
  Works = {w1, w2}
  Hubs = {hubA, hubB}
  Instances = {h1, h2}
  Handlers = {h1}
  HubOf <- OneHub
  InstanceOf <- OneInstance
  Job <- CreateOrExit
  Reports <- Conditions
  MaxFaults = 1
  MaxVersion = 2
  Syncs = {y1, y2}
  SyncInstanceOf <- TwoInstances
  Clusters = {c1}
  ClusterOf <- OneCluster
INVARIANTS
  SyncTypeOK
  SyncConsistent
  StatusOfStored
  ConditionsGrowByJobs
  SyncCounted
PROPERTIES
  ReplyMeansAllSent
  EventuallySynced
