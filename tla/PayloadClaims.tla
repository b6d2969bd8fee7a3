---------------------------- MODULE PayloadClaims ---------------------------
(***************************************************************************)
(* What the repository's documentation and comments say of payloads, and   *)
(* the code does not do.  TLC finds each of them violated.                 *)
(***************************************************************************)
EXTENDS MCPayload

\* job.go:475: a remediation "updates the attributes of the manifests".  It also
\* leaves out every manifest that is no Deployment.
OnlyAttributesChange ==
  [][(\E sub \in ScaleTypes : Scale(sub)) =>
       {m.id : m \in payload} \subseteq {m.id : m \in payload'}]_vars

\* README.md:43-46: ScaleIn and ScaleOut add and remove replicas, ScaleUp and ScaleDown
\* change resources.  In the code it is the other way round.
ReplicasByInAndOutOnly ==
  [][(\E sub \in {"scale-up", "scale-down"} : Scale(sub)) =>
       \A m \in Deployments(payload) :
         \E n \in Deployments(payload') :
           n.id = m.id /\ n.replicas = m.replicas]_vars
=============================================================================
