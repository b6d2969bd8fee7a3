----------------------------- MODULE MCPullJobs -----------------------------
(***************************************************************************)
(* Instances of PullJobs for TLC.  Each job mix is an operator that a .cfg *)
(* gives to the constant Job.                                              *)
(***************************************************************************)
EXTENDS PullJobs, TLC

CONSTANTS j1, j2, j3, j4, j5, r1, r2, h1, h2, hubA, hubB, app, cfg

Deployed(id) ==
  [id |-> id, kind |-> "Deployment", replicas |-> 1,
   req |-> [cpu |-> 500, mem |-> 1500]]

ConfigMap == [id |-> cfg, kind |-> "Object", replicas |-> Nil, req |-> Nil]

Unknown == [ConfigMap EXCEPT !.kind = "Unregistered"]

List == [ConfigMap EXCEPT !.kind = "List"]

Component == {Deployed(app), ConfigMap}

Create == [type |-> "CreateDeployment", subType |-> Nil, hasNode |-> TRUE,
           resource |-> r1, manifests |-> Component]

Scale(sub) == [Create EXCEPT !.type = "UpdateDeployment", !.subType = sub,
                             !.manifests = {}]

Replace(ms) == [Create EXCEPT !.type = "ReplaceDeployment", !.manifests = ms]

Remove == [Create EXCEPT !.type = "DeleteDeployment", !.manifests = {}]

(***************************************************************************)
(* Job mixes.                                                              *)
(***************************************************************************)
CreateAndScale == j1 :> Create @@ j2 :> Scale("scale-up")

\* Two components, one of them deleted again.
TwoComponents ==
  j1 :> Create @@ j2 :> [Create EXCEPT !.resource = r2] @@ j3 :> Remove

\* A deployment without Deployments, scaled, which panics unless it was replaced
\* before; a reallocation; a replacement that ends the process.
EndsBadly ==
  j1 :> [Create EXCEPT !.manifests = {ConfigMap, Unknown}]
  @@ j2 :> Scale("scale-in") @@ j3 :> Replace(Component)
  @@ j4 :> Scale("reallocation") @@ j5 :> Replace({List})

\* Jobs that never reach the hub, next to one that does: without a node, without
\* a resource, of a subtype the code does not know.
NeverStarts ==
  j1 :> Create @@ j2 :> [Create EXCEPT !.hasNode = FALSE]
  @@ j3 :> [Create EXCEPT !.resource = Nil]
  @@ j4 :> [Create EXCEPT !.type = "UpdateDeployment"]

(***************************************************************************)
(* Deployments: one instance per handler, on one hub or on two.            *)
(***************************************************************************)
OwnInstance == [h \in Handlers |-> h]

OneHub == [i \in Instances |-> hubA]

TwoHubs == h1 :> hubA @@ h2 :> hubB

(***************************************************************************)
(* Reports of the work agents.                                             *)
(***************************************************************************)
AppliedOrNot == {[type |-> "Applied", status |-> FALSE],
                 [type |-> "Complete", status |-> TRUE]}

AppliedOnly == {[type |-> "Applied", status |-> TRUE]}

\* Names of ManifestWorks can be exchanged, and so can the handlers of one hub, or
\* those of two hubs together with their hubs.
OneHubSymmetry == Permutations(Works) \cup Permutations(Handlers)

TwoHubsSymmetry ==
  Permutations(Works)
    \cup {h1 :> h2 @@ h2 :> h1 @@ hubA :> hubB @@ hubB :> hubA}
=============================================================================
