------------------------------- MODULE SyncUp -------------------------------
(***************************************************************************)
(* GET /deploy-manager/resource/sync and GET /deploy-manager/resource,     *)
(* next to the requests of PullJobs.  A sync lists the ManifestWorks of    *)
(* every cluster of its hub and then sends the Job Manager the conditions  *)
(* of each; meanwhile jobs are executed, agents report, and other syncs,   *)
(* also of other instances, do the same.                                   *)
(*                                                                         *)
(* A step is one call to the hub or to the Job Manager, as in PullJobs.    *)
(***************************************************************************)
EXTENDS PullJobs

CONSTANTS
  Syncs,           \* sync requests that can be in progress at the same time
  SyncInstanceOf,  \* the instance of a sync request
  Clusters,        \* managed clusters, namespaces of the hub
  ClusterOf        \* the cluster a ManifestWork's name belongs to

ASSUME SyncAssumption ==
  /\ SyncInstanceOf \in [Syncs -> Instances]
  /\ ClusterOf \in [Works -> Clusters]
  /\ Nil \notin Clusters

VARIABLE sync  \* the request each sync serves

syncVars == <<vars, sync>>

SyncRequest ==
  [pc       : {"idle", "clusters", "resources", "replied"},
   clusters : SUBSET Clusters,  \* those still to list
   todo     : SUBSET Resource,  \* the statuses still to send
   owed     : SUBSET Works]     \* history: works there at the start, not sent
                                \* yet, that no failed list left out

NoSync == [pc |-> "idle", clusters |-> {}, todo |-> {}, owed |-> {}]

SyncHub(y) == HubOf[SyncInstanceOf[y]]

SyncTypeOK ==
  /\ TypeOK
  /\ sync \in [Syncs -> SyncRequest]

SyncInit ==
  /\ Init
  /\ sync = [y \in Syncs |-> NoSync]

WorksOf(hub) == {w \in Works : work[w] # Nil /\ work[w].hub = hub}

(***************************************************************************)
(* What becomes of a sync when a call ends.                                *)
(***************************************************************************)
SyncContinue(y, s) == sync' = [sync EXCEPT ![y] = s]

\* Mutant: name and conditions are read when the list is done, through the variable
\* declared outside of the loop, which is the last ManifestWork's by then.
StatusesOf_LoopVariable(ws) ==
  LET last == CHOOSE w \in ws : TRUE
  IN  {[name |-> last, uid |-> w, conds |-> work[last].conds] : w \in ws}

\* Mutant: the conditions are appended to those of the ManifestWorks before, in a
\* variable declared outside of the loop.
StatusesOf_Appended(ws) ==
  LET first == CHOOSE w \in ws : TRUE
      before(w) == IF w = first THEN <<>> ELSE work[first].conds
  IN  {[name |-> w, uid |-> w, conds |-> before(w) \o work[w].conds] : w \in ws}

\* Mutant: a ManifestWork without conditions is left out.
StatusesOf_Reported(ws) ==
  {[name |-> w, uid |-> w, conds |-> work[w].conds] :
     w \in {v \in ws : work[v].conds # <<>>}}

\* Mutant: the conditions are left out.
StatusesOf_NoConditions(ws) == {[name |-> w, uid |-> w, conds |-> <<>>] : w \in ws}

StatusesOf(ws) ==
  {[name |-> w, uid |-> w, conds |-> work[w].conds] : w \in ws}

\* The nil answer is dereferenced (line 139) and net/http recovers: the connection
\* is closed and the other resources are not sent.
PutFails(s, status) == NoSync

(***************************************************************************)
(* The Job Manager stores a status under the UID of its resource, and      *)
(* refuses one of a UID it does not know.                                  *)
(***************************************************************************)
StoreStatus(status) ==
  res' = [r \in Resources |->
            IF res[r].uid = status.uid
            THEN [res[r] EXCEPT !.name = status.name, !.conds = status.conds]
            ELSE res[r]]

(***************************************************************************)
(* The actions of StartSyncUp and ResourceSync.                            *)
(***************************************************************************)
SyncBusy(y) == sync[y].pc \notin {"idle", "replied"}

StartSync(y) ==
  /\ ~SyncBusy(y)
  /\ SyncContinue(y, [NoSync EXCEPT !.pc = "clusters",
                                    !.owed = WorksOf(SyncHub(y))])
  /\ UNCHANGED vars

\* An error leaves an empty list: it is logged, and nothing is sent.
ListClusters(y) ==
  /\ sync[y].pc = "clusters"
  /\ LET listed(cs) == [sync[y] EXCEPT !.pc = "resources", !.clusters = cs]
     IN  \/ SyncContinue(y, listed(Clusters)) /\ UNCHANGED faults
         \/ SyncContinue(y, [listed({}) EXCEPT !.owed = {}]) /\ Fault
  /\ UNCHANGED <<jmVars, hubVars, req>>

\* ListManifestWork, for one cluster: an error again leaves an empty list.
ListWorks(y) ==
  /\ sync[y].pc = "resources"
  /\ \E c \in sync[y].clusters :
       LET listed == [sync[y] EXCEPT !.clusters = @ \ {c}]
           ws == {w \in WorksOf(SyncHub(y)) : ClusterOf[w] = c}
       IN  \/ SyncContinue(y, [listed EXCEPT !.todo = @ \cup StatusesOf(ws)])
              /\ UNCHANGED faults
           \/ SyncContinue(y, [listed EXCEPT
                                 !.owed = {w \in @ : ClusterOf[w] # c}])
              /\ Fault
  /\ UNCHANGED <<jmVars, hubVars, req>>

\* The PUT of one status: stored, refused, or failed with or without effect.
\* The status of the answer is only logged.
PutStatus(y) ==
  /\ sync[y].pc = "resources"
  /\ sync[y].clusters = {}
  /\ \E status \in sync[y].todo :
       LET answered == [sync[y] EXCEPT !.todo = @ \ {status},
                                       !.owed = @ \ {status.uid}]
       IN  \/ /\ StoreStatus(status)
              /\ SyncContinue(y, answered)
              /\ UNCHANGED faults
           \/ /\ SyncContinue(y, answered)
              /\ Fault
              /\ UNCHANGED res
           \/ /\ StoreStatus(status) \/ UNCHANGED res
              /\ SyncContinue(y, PutFails(sync[y], status))
              /\ Fault
  /\ UNCHANGED <<owner, refused, state, hubVars, req>>

\* The answer is 200, whatever happened.
ReplySync(y) ==
  /\ sync[y].pc = "resources"
  /\ sync[y].clusters = {}
  /\ sync[y].todo = {}
  /\ SyncContinue(y, [NoSync EXCEPT !.pc = "replied"])
  /\ UNCHANGED vars

SyncStep(y) == ListClusters(y) \/ ListWorks(y) \/ PutStatus(y) \/ ReplySync(y)

(***************************************************************************)
(* The requests of PullJobs: one that ends its process takes the syncs of  *)
(* the process with it, and so does a crash.                               *)
(***************************************************************************)
RestartSyncs(i) ==
  sync' = [y \in Syncs |-> IF SyncInstanceOf[y] = i THEN NoSync ELSE sync[y]]

RequestStep(h) ==
  \/ Runs(h) /\ UNCHANGED sync
  \/ Exits(h) /\ RestartSyncs(InstanceOf[h])

SyncNext ==
  \/ \E h \in Handlers : \/ RequestStep(h)
                         \/ (Pull(h) \/ PullFails(h) \/ ClientGone(h)) /\ UNCHANGED sync
  \/ \E w \in Works : (AgentStatus(w) \/ AgentRemoves(w)) /\ UNCHANGED sync
  \/ \E i \in Instances : Crash(i) /\ RestartSyncs(i)
  \/ \E y \in Syncs : StartSync(y) \/ SyncStep(y)

\* A request goes on; a sync is called for when none is in progress, and goes on
\* when one is.  The two are never enabled together.
SyncFairness ==
  /\ \A h \in Handlers : WF_syncVars(RequestStep(h))
  /\ \A y \in Syncs : WF_syncVars(StartSync(y) \/ SyncStep(y))

SyncSpec == SyncInit /\ [][SyncNext]_syncVars /\ SyncFairness

(***************************************************************************)
(* GetResourceStatus: what the hub answers about a UID and a name, both    *)
(* given by the caller.  A ManifestWork that cannot be read leaves the     *)
(* zero object, whose UID is no one's.                                     *)
(***************************************************************************)
GetManifestWork(hub, cluster, name) ==
  IF name \in WorksOf(hub) /\ ClusterOf[name] = cluster
  THEN [uid |-> name, conds |-> work[name].conds]
  ELSE [uid |-> Nil, conds |-> <<>>]

ResourceStatus(hub, cluster, name, uid) ==
  LET mw == GetManifestWork(hub, cluster, name)
  IN  IF Nil \in {cluster, name, uid} \/ uid # mw.uid
      THEN [code |-> 400]
      ELSE [code |-> 200, body |-> [name |-> name, uid |-> uid,
                                    conds |-> mw.conds]]

(***************************************************************************)
(* Properties.                                                             *)
(***************************************************************************)
\* Asked for the status of a resource with the name and the UID the Job Manager
\* has for it, GetResourceStatus answers the hub's conditions exactly as long as the
\* ManifestWork exists, and never a status after: neither the updates of jobs nor the
\* syncs ever leave name and UID apart.
StatusOfStored ==
  \A r \in Resources, hub \in Hubs :
    res[r].uid # Nil =>
      LET w == res[r].uid
          answer == ResourceStatus(hub, ClusterOf[w], res[r].name, w)
      IN  IF w \in WorksOf(hub)
          THEN answer.code = 200 /\ answer.body.conds = work[w].conds
          ELSE answer.code # 200

\* When a sync replies, a PUT was made for every ManifestWork that was there all along,
\* unless its list failed: those created, deleted or updated in the meantime never make
\* it miss another.
ReplyMeansAllSent ==
  [][\A y \in Syncs :
       SyncBusy(y) /\ sync'[y].pc = "replied" =>
         \A w \in sync[y].owed : work[w] = Nil]_syncVars

\* What keeps the two above: a status to send is that of one ManifestWork, and a
\* work the sync owes is in a cluster still to list or among the statuses to send.
Accounted(y) ==
  /\ \A status \in sync[y].todo :
       status.name = status.uid /\ status.name # Nil
  /\ \A w \in sync[y].owed :
       /\ born[w] # Nil
       /\ work[w] # Nil =>
            /\ work[w].hub = SyncHub(y)
            /\ \/ sync[y].pc = "clusters"
               \/ ClusterOf[w] \in sync[y].clusters
               \/ \E status \in sync[y].todo : status.uid = w

\* The inductive invariant: the invariant of PullJobs survives the syncs.
SyncConsistent ==
  /\ SyncTypeOK
  /\ Consistent
  /\ \A y \in Syncs : Accounted(y)

\* With SyncConsistent, the inductive invariant of ConditionsGrowByJobs next to
\* syncs: however jobs and syncs overlap, with statuses listed long before they
\* are sent and views pulled before a sync, a status replaces the conditions of a
\* resource by no more than one job of it has brought.
SyncCounted ==
  /\ CountedByJobs
  /\ \A y \in Syncs : \A status \in sync[y].todo : OneOfEach(status.conds)

\* Syncs that come again and again settle what overlapping requests left: once
\* the faults and the reports are over, the Job Manager has the conditions of the hub
\* for good, for every resource whose ManifestWork exists.
EventuallySynced ==
  <>[](\A r \in Resources :
         LET w == res[r].uid
         IN  w # Nil /\ work[w] # Nil => res[r].conds = work[w].conds)
=============================================================================
