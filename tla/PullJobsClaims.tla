--------------------------- MODULE PullJobsClaims ---------------------------
(***************************************************************************)
(* What the repository's documentation and comments say of PullJobs, and   *)
(* the code does not do.  TLC finds each of them violated.                 *)
(***************************************************************************)
EXTENDS MCPullJobs

\* README.md:37: an instance that picks up a job locks it "from being executed by
\* other Descriptor Service instances".  PromoteJob ignores the answer.
ExclusiveExecution ==
  \A g, h \in Handlers :
    g # h /\ req[g].pc \in Executing /\ req[h].pc \in Executing =>
      req[g].cur # req[h].cur

\* job.go:155: "Applied represents workload in ManifestWork is applied
\* successfully on managed cluster."  StateMapper does not read the status.
AppliedIsApplied ==
  \A h \in Handlers :
    At(h, "report") /\ ~IsDeletion(Asks(h)) /\ req[h].mem.state = "Applied" =>
      \E k \in DOMAIN req[h].mem.res.conds :
        req[h].mem.res.conds[k] = [type |-> "Applied", status |-> TRUE]
=============================================================================
