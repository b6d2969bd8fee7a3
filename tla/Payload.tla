------------------------------ MODULE Payload -------------------------------
(***************************************************************************)
(* The life of one ManifestWork's payload, as the jobs that address it see *)
(* it, one accepted write after another: generated, remediated, replaced.  *)
(* This is what models/job.go promises about a payload; Workload.tla shows *)
(* that its loops over slices keep the promise.                            *)
(***************************************************************************)
EXTENDS ManifestOps

CONSTANTS
  JobManifests,  \* the sets of manifests that jobs may bring
  MaxSteps       \* bound: writes to the payload

ASSUME JobManifestsAssumption ==
  /\ JobManifests \subseteq SUBSET Manifest
  /\ \A ms \in JobManifests : \A m \in ms :
       m.req # Nil => m.req.cpu \in Nat /\ m.req.mem \in Nat
ASSUME MaxStepsAssumption == MaxSteps \in Nat

VARIABLES
  payload,  \* the manifests of the ManifestWork
  origin,   \* history: the manifests it was last generated from or replaced by
  net,      \* history: scale-ups minus scale-downs since then
  steps     \* writes so far; none before the ManifestWork exists

vars == <<payload, origin, net, steps>>

Init ==
  /\ payload = {}
  /\ origin = {}
  /\ net = 0
  /\ steps = 0

Write == steps < MaxSteps /\ steps' = steps + 1

Create(ms) ==
  /\ steps = 0
  /\ ~ExitsProcess(ms)
  /\ payload' = GenerateManifests(ms)
  /\ origin' = ms
  /\ net' = 0
  /\ Write

Change(sub) ==
  CASE sub = "scale-up" -> 1 [] sub = "scale-down" -> -1 [] OTHER -> 0

Scale(sub) ==
  /\ steps > 0
  /\ ~RemediationPanics(payload, sub)
  /\ payload' = RemediateManifests(payload, sub)
  /\ net' = net + Change(sub)
  /\ Write
  /\ UNCHANGED origin

Replace(ms) ==
  /\ steps > 0
  /\ ~ExitsProcess(ms)
  /\ payload' = ReplaceManifests(ms)
  /\ origin' = ms
  /\ net' = 0
  /\ Write

Next ==
  \/ \E ms \in JobManifests : Create(ms) \/ Replace(ms)
  \/ \E sub \in ScaleTypes : Scale(sub)

Spec == Init /\ [][Next]_vars

(***************************************************************************)
(* Properties.                                                             *)
(***************************************************************************)
TypeOK ==
  /\ payload \in SUBSET Manifest
  /\ origin \in SUBSET Manifest
  /\ net \in Int
  /\ steps \in 0..MaxSteps

\* A payload holds only kinds that decode and have metadata: a remediation can
\* read back all that a creation or a replacement has written.
ReadsBack == \A m \in payload : m.kind \notin {"List", "Unregistered"}

\* Any mix of scalings leaves a Deployment with the replicas it came with plus one
\* for each scale-up minus one for each scale-down, in int32: the scalings of its
\* requests between them and the manifests left out on the way make no difference.
\* That these two change the replicas is what the comments at job.go:608 and 618 say;
\* README.md:43-46 has the names the other way round, see PayloadClaims.
ReplicasCountScalings ==
  \A m \in Deployments(payload) :
    \E o \in Deployments(origin) :
      /\ o.id = m.id
      /\ o.replicas # Nil =>
           m.replicas # Nil /\ Int32(m.replicas) = Int32(o.replicas + net)

\* Any mix of scalings keeps the requests from falling below zero, and keeps
\* their remainder by the adjustment: a scale-in that would go below zero is
\* left out as a whole, for CPU and memory apart.  The amounts are those of
\* job.go:621-622; README.md:45-46 gives others, and other names.
RequestsKeepRemainder ==
  \A m \in Deployments(payload) :
    \E o \in Deployments(origin) :
      /\ o.id = m.id
      /\ m.req = Nil <=> o.req = Nil
      /\ m.req # Nil =>
           /\ m.req.cpu >= 0 /\ m.req.mem >= 0
           /\ m.req.cpu % CpuAdjustment = o.req.cpu % CpuAdjustment
           /\ m.req.mem % MemAdjustment = o.req.mem % MemAdjustment
=============================================================================
