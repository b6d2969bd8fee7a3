----------------------------- MODULE MCWorkload -----------------------------
(***************************************************************************)
(* Instance of Workload for TLC: every slice of up to three of a few       *)
(* manifests, repeated ones included.                                      *)
(***************************************************************************)
EXTENDS Workload

CONSTANTS a, b

Asked == [cpu |-> 500, mem |-> 1500]

Brought ==
  {[id |-> a, kind |-> "Deployment", replicas |-> 1, req |-> Asked],
   [id |-> b, kind |-> "Deployment", replicas |-> Nil, req |-> Asked],
   [id |-> a, kind |-> "Deployment", replicas |-> 0, req |-> Nil],
   [id |-> b, kind |-> "Object", replicas |-> Nil, req |-> Nil],
   [id |-> b, kind |-> "Unregistered", replicas |-> Nil, req |-> Nil],
   [id |-> b, kind |-> "List", replicas |-> Nil, req |-> Nil]}

Slices == UNION {[1..n -> Brought] : n \in 0..2}
            \cup {s \in [1..3 -> Brought] : s[1].kind = "Object"}
=============================================================================
