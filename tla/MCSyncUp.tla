------------------------------ MODULE MCSyncUp ------------------------------
(***************************************************************************)
(* Instance of SyncUp for TLC: one request that executes jobs, and syncs   *)
(* of two instances of the hub.                                            *)
(***************************************************************************)
EXTENDS SyncUp, TLC

CONSTANTS j1, j2, r1, h1, h2, y1, y2, hubA, hubB, app, c1

Create(kind) ==
  [type |-> "CreateDeployment", subType |-> Nil, hasNode |-> TRUE,
   resource |-> r1,
   manifests |-> {[id |-> app, kind |-> kind, replicas |-> 1,
                   req |-> [cpu |-> 500, mem |-> 1500]]}]

\* A creation, pulled again and again until it was reported: each attempt that
\* times out leaves a ManifestWork that no resource knows.  And one that ends the
\* process of the request.
CreateOrExit == j1 :> Create("Deployment") @@ j2 :> Create("List")

OneHub == [i \in Instances |-> hubA]

OneInstance == [h \in Handlers |-> h1]

\* The second sync is of another process, which the job that ends one leaves alone.
TwoInstances == y1 :> h1 @@ y2 :> h2

OneCluster == [w \in Works |-> c1]

Conditions == {[type |-> "Complete", status |-> TRUE]}
=============================================================================
