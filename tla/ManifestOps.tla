---------------------------- MODULE ManifestOps ----------------------------
(***************************************************************************)
(* The payload of a ManifestWork and what models/job.go does to it: how it *)
(* is generated from a job, remediated (scaled), replaced, and how its     *)
(* status conditions are mapped to a job state.                            *)
(*                                                                         *)
(* A payload is a set of manifests.  The order of the slice is left out:   *)
(* the code treats every manifest alike, and a fault in one of them aborts *)
(* the whole call before the hub is written.  The only position the code   *)
(* reads is Manifests[1] (job.go:529), which exists exactly when a         *)
(* Deployment was kept.  Workload.tla shows that the loops over the slice  *)
(* compute the sets given here.                                            *)
(***************************************************************************)
EXTENDS Integers, Sequences

CONSTANTS
  Nil,        \* Go's nil pointer or map, and the empty string
  Ids,        \* identities (kind and name) of manifests
  NsId,       \* identity of the Namespace manifest the service adds
  Int32Half   \* 2^31 in the code: replicas are int32

ASSUME Int32HalfAssumption == Int32Half \in Nat \ {0}

(***************************************************************************)
(* A manifest, decoded.  "Object" is any apps/v1 or core/v1 object that is *)
(* not a Deployment, "List" a list type of these groups (no object         *)
(* metadata), "Unregistered" a kind the decoder's scheme does not know.    *)
(* req is the Requests map of container 0: CPU in millicores, memory in    *)
(* MiB; a missing key reads as zero, a missing map is Nil.                 *)
(***************************************************************************)
Kinds == {"Namespace", "Deployment", "Object", "List", "Unregistered"}

Requests == [cpu : Int, mem : Int]

Manifest == [id : Ids \cup {NsId}, kind : Kinds,
             replicas : Int \cup {Nil}, req : Requests \cup {Nil}]

\* Nil is no integer and no Requests map.
ASSUME NilAssumption == Nil \notin Int /\ Nil \notin Requests

Replicas == {"scale-up", "scale-down"}
Quantities == {"scale-out", "scale-in"}
ScaleTypes == Replicas \cup Quantities
RemediationTypes == ScaleTypes \cup {"reallocation"}

CpuAdjustment == 1000   \* millicores
MemAdjustment == 1000   \* MiB

(***************************************************************************)
(* Generating and replacing.                                               *)
(***************************************************************************)
NamespaceManifest ==
  [id |-> NsId, kind |-> "Namespace", replicas |-> Nil, req |-> Nil]

\* decodeYAMLToObject fails: the manifest is logged and left out.
Decodable(ms) == {m \in ms : m.kind # "Unregistered"}

\* meta.Accessor fails in updateNamespaceAndAnnotations: logger.Fatalf.
ExitsProcess(ms) == \E m \in ms : m.kind = "List"

\* Mutant: the decoding error is logged, but the loop goes on with the object.
GenerateManifests_KeepAll(ms) == {NamespaceManifest} \cup ms

GenerateManifests(ms) == {NamespaceManifest} \cup Decodable(ms)

ReplaceManifests(ms) == Decodable(ms)

(***************************************************************************)
(* Remediation.                                                            *)
(***************************************************************************)
Int32(n) == ((n + Int32Half) % (2 * Int32Half)) - Int32Half

\* Mutant: the two cases of the switch are swapped.
HorizontalPodAutoscaling_Swapped(sub, n) ==
  IF sub = "scale-up" THEN Int32(n - 1) ELSE Int32(n + 1)

HorizontalPodAutoscaling(sub, n) ==
  IF sub = "scale-up" THEN Int32(n + 1) ELSE Int32(n - 1)

\* Mutant: the sign test of the new quantity is gone.
AdjustResource_Unchecked(q, adjustment) == q + adjustment

\* Mutant: a quantity that would fall below zero is deleted from the map.
AdjustResource_Delete(q, adjustment) ==
  IF q + adjustment >= 0 THEN q + adjustment ELSE Nil

AdjustResource(q, adjustment) ==
  IF q + adjustment >= 0 THEN q + adjustment ELSE q

\* Without a Requests map scale-in changes nothing: both new quantities are
\* negative.  Scale-out would write to the nil map, see RemediationPanics.
VerticalPodAutoscaling(sub, req) ==
  LET sign == IF sub = "scale-out" THEN 1 ELSE -1
  IN  IF req = Nil THEN Nil
      ELSE [cpu |-> AdjustResource(req.cpu, sign * CpuAdjustment),
            mem |-> AdjustResource(req.mem, sign * MemAdjustment)]

Deployments(ms) == {m \in ms : m.kind = "Deployment"}

Remediate(m, sub) ==
  IF sub \in Replicas
  THEN [m EXCEPT !.replicas = HorizontalPodAutoscaling(sub, @)]
  ELSE [m EXCEPT !.req = VerticalPodAutoscaling(sub, @)]

\* A nil pointer, a write to a nil map, or Manifests[1] out of range.
RemediationPanics(ms, sub) ==
  \/ Deployments(ms) = {}
  \/ sub \in Replicas /\ \E m \in Deployments(ms) : m.replicas = Nil
  \/ sub = "scale-out" /\ \E m \in Deployments(ms) : m.req = Nil

\* Only Deployments are kept, and the Namespace manifest is made anew.
RemediateManifests(ms, sub) ==
  {NamespaceManifest} \cup {Remediate(m, sub) : m \in Deployments(ms)}

(***************************************************************************)
(* Status.  StateMapper looks at the type of the last condition only, not  *)
(* at its status.                                                          *)
(***************************************************************************)
\* "Complete" stands for any type the code does not name.
ConditionTypes == {"Applied", "Progressing", "Available", "Degraded", "Complete"}

Condition == [type : ConditionTypes, status : BOOLEAN]

States == {"Applied", "Progressing", "Available", "Degraded"}

\* Mutant: the switch has no default case, the type is the state.
StateMapper_NoDefault(conditions) == conditions[Len(conditions)].type

StateMapper(conditions) ==
  LET last == conditions[Len(conditions)].type
  IN  IF last \in States THEN last ELSE "Applied"
=============================================================================
