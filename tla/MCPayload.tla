----------------------------- MODULE MCPayload ------------------------------
(***************************************************************************)
(* Instance of Payload for TLC: Deployments around the numeric edges.      *)
(***************************************************************************)
EXTENDS Payload

CONSTANTS a, b

Deployed(id, n, req) ==
  [id |-> id, kind |-> "Deployment", replicas |-> n, req |-> req]

Other(kind) == [id |-> b, kind |-> kind, replicas |-> Nil, req |-> Nil]

Asked(cpu, mem) == [cpu |-> cpu, mem |-> mem]

\* Replicas at both ends of int32 and at one, requests below, at and above the
\* adjustment, nil pointers and maps, kinds that are left out.
Bringable ==
  {{Deployed(a, 1, Asked(500, 1500)), Other("Unregistered")},
   {Deployed(a, Int32Half - 1, Asked(1000, 999)), Other("Object")},
   {Deployed(a, -Int32Half, Asked(0, 2000)), Deployed(b, 0, Asked(1001, 0))},
   {Deployed(a, 1, Nil), Deployed(b, 2, Asked(999, 1000))},
   {Deployed(a, Nil, Asked(2500, 64))},
   {Other("Object")},
   {Other("List")}}
=============================================================================
