---------------------------- MODULE JobLifecycle ----------------------------
(***************************************************************************)
(* What the service promises about one job, whatever the interleaving of   *)
(* requests and the faults: the Job Manager gives the job an owner once or *)
(* answers that it does not, the hub is touched for the job only after one *)
(* of the two, and a result is recorded only for a job whose hub call was  *)
(* accepted.  Nothing is ever undone.  PullJobs.tla is shown to implement  *)
(* this specification.                                                     *)
(***************************************************************************)
CONSTANTS Jobs, Hubs, Nil

VARIABLES
  owner,     \* hub that owns the job, or Nil
  refused,   \* jobs of which a promotion was answered without effect
  effected,  \* jobs for which a hub accepted a create, update or delete
  reported   \* jobs whose result the Job Manager has recorded

vars == <<owner, refused, effected, reported>>

Init ==
  /\ owner = [j \in Jobs |-> Nil]
  /\ refused = {}
  /\ effected = {}
  /\ reported = {}

Lock(j, hub) ==
  /\ owner[j] = Nil
  /\ owner' = [owner EXCEPT ![j] = hub]
  /\ UNCHANGED <<refused, effected, reported>>

\* The service takes any answer to a promotion for a lock (job.go:735).
Refuse(j) ==
  /\ owner[j] = Nil
  /\ refused' = refused \cup {j}
  /\ UNCHANGED <<owner, effected, reported>>

Effect(j) ==
  /\ owner[j] # Nil \/ j \in refused
  /\ effected' = effected \cup {j}
  /\ UNCHANGED <<owner, refused, reported>>

Report(j) ==
  /\ j \in effected
  /\ reported' = reported \cup {j}
  /\ UNCHANGED <<owner, refused, effected>>

Next ==
  \E j \in Jobs :
    \/ \E hub \in Hubs : Lock(j, hub)
    \/ Refuse(j)
    \/ Effect(j)
    \/ Report(j)

Spec == Init /\ [][Next]_vars
=============================================================================
