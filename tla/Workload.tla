------------------------------ MODULE Workload ------------------------------
(***************************************************************************)
(* Spec.Workload.Manifests as the slice it is, with the loops of           *)
(* GenerateManifestWork, replaceDeployment and updateDeploymentAttributes  *)
(* over it.  It implements Payload.tla: the order of the slice, repeated   *)
(* manifests and the place where a loop stops make no difference to it.    *)
(***************************************************************************)
EXTENDS ManifestOps, SequencesExt

CONSTANTS
  JobManifests,  \* the slices of manifests that jobs may bring
  MaxSteps       \* bound: writes to the workload

ASSUME SlicesAssumption == JobManifests \subseteq Seq(Manifest)

VARIABLES workload, origin, net, steps

vars == <<workload, origin, net, steps>>

Init ==
  /\ workload = <<>>
  /\ origin = <<>>
  /\ net = 0
  /\ steps = 0

Write == steps < MaxSteps /\ steps' = steps + 1

(***************************************************************************)
(* The loop of GenerateManifestWork and of replaceDeployment: the slice    *)
(* after n iterations.  A manifest that does not decode is left out; one   *)
(* without metadata ends the process before the hub is called.             *)
(***************************************************************************)
Decoding(start, manifests) ==
  LET slice[n \in 0..Len(manifests)] ==
        IF n = 0 THEN start
        ELSE IF manifests[n].kind = "Unregistered" THEN slice[n - 1]
        ELSE Append(slice[n - 1], manifests[n])
  IN  slice

Decoded(start, manifests) == Decoding(start, manifests)[Len(manifests)]

Accessible(manifests) ==
  \A m \in ToSet(Decoded(<<>>, manifests)) : m.kind # "List"

GenerateManifestWork(manifests) ==
  /\ steps = 0
  /\ Accessible(manifests)
  /\ workload' = Decoded(<<NamespaceManifest>>, manifests)
  /\ origin' = manifests
  /\ net' = 0
  /\ Write

ReplaceDeployment(manifests) ==
  /\ steps > 0
  /\ Accessible(manifests)
  /\ workload' = Decoded(<<>>, manifests)
  /\ origin' = manifests
  /\ net' = 0
  /\ Write

(***************************************************************************)
(* The loop of updateDeploymentAttributes.  An iteration dereferences a    *)
(* nil pointer or writes to a nil map ("panic"), leaves the manifest out,  *)
(* or appends the updated one.                                             *)
(***************************************************************************)
Faulty(m, sub) ==
  /\ m.kind = "Deployment"
  /\ \/ sub \in Replicas /\ m.replicas = Nil
     \/ sub = "scale-out" /\ m.req = Nil

\* Mutant: a manifest that is no Deployment is kept as it is.
Iteration_KeepOthers(acc, m, sub) ==
  IF acc.panic \/ Faulty(m, sub) THEN [acc EXCEPT !.panic = TRUE]
  ELSE IF m.kind # "Deployment" THEN [acc EXCEPT !.updated = Append(@, m)]
  ELSE [acc EXCEPT !.updated = Append(@, Remediate(m, sub))]

Iteration(acc, m, sub) ==
  IF acc.panic \/ Faulty(m, sub) THEN [acc EXCEPT !.panic = TRUE]
  ELSE IF m.kind # "Deployment" THEN acc
  ELSE [acc EXCEPT !.updated = Append(@, Remediate(m, sub))]

\* Mutant: the new slice starts without the Namespace.
Start_NoNamespace == [panic |-> FALSE, updated |-> <<>>]

Start == [panic |-> FALSE, updated |-> <<NamespaceManifest>>]

\* What the loop has made after n iterations.
Updating(manifests, sub) ==
  LET made[n \in 0..Len(manifests)] ==
        IF n = 0 THEN Start ELSE Iteration(made[n - 1], manifests[n], sub)
  IN  made

Loop(manifests, sub) == Updating(manifests, sub)[Len(manifests)]

UpdateDeploymentAttributes(sub) ==
  /\ steps > 0
  /\ LET end == Loop(workload, sub)
     IN  /\ ~end.panic
         /\ Len(end.updated) >= 2    \* the index 1 in the log line
         /\ workload' = end.updated
  /\ net' = CASE sub = "scale-up" -> net + 1
              [] sub = "scale-down" -> net - 1
              [] OTHER -> net
  /\ Write
  /\ UNCHANGED origin

Next ==
  \/ \E ms \in JobManifests : GenerateManifestWork(ms) \/ ReplaceDeployment(ms)
  \/ \E sub \in ScaleTypes : UpdateDeploymentAttributes(sub)

Spec == Init /\ [][Next]_vars

(***************************************************************************)
(* Properties.                                                             *)
(***************************************************************************)
TypeOK ==
  /\ workload \in Seq(Manifest)
  /\ origin \in Seq(Manifest)
  /\ net \in Int
  /\ steps \in Nat

\* Every write of the slices is the write Payload states for the set of their
\* manifests, and is made only when Payload allows it.
AsSets ==
  INSTANCE Payload WITH
    JobManifests <- {ToSet(ms) : ms \in JobManifests},
    payload <- ToSet(workload),
    origin <- ToSet(origin)

ImplementsPayload == AsSets!Spec

\* A remediation refuses exactly the payloads that Payload says panic: no slice
\* slips past the nil checks, and none is refused for the place of a manifest.
RefusesAsPayload ==
  steps \in 1..(MaxSteps - 1) =>
    \A sub \in ScaleTypes :
      LET end == Loop(workload, sub)
      IN  RemediationPanics(ToSet(workload), sub)
            <=> end.panic \/ Len(end.updated) < 2

\* The element of index 1 that a remediation logs is always a Deployment: the
\* type assertion on it cannot fail in a slice long enough for the index.
LoggedIsDeployment ==
  [][(\E sub \in ScaleTypes : UpdateDeploymentAttributes(sub)) =>
       workload'[2].kind = "Deployment"]_vars
=============================================================================
