---------------------------- MODULE SyncUpProofs ----------------------------
(***************************************************************************)
(* SyncUp, for any jobs, requests, syncs, instances, hubs and clusters:    *)
(* the syncs leave the invariant of PullJobs true, what the Job Manager    *)
(* stores is what GetResourceStatus answers about, and a sync that replies *)
(* has left out no ManifestWork it could list.                             *)
(***************************************************************************)
EXTENDS SyncUp, ConditionsProofs

(***************************************************************************)
(* Steps of a sync, seen from PullJobs: they touch the resources only.     *)
(***************************************************************************)
\* Other resources, of their types and named as they should be, change nothing
\* of the invariant.
LEMMA ResourcesMayChange ==
  ASSUME Consistent,
         UNCHANGED <<owner, refused, state, work, born, effected, req>>,
         UNCHANGED faults \/ Fault, res' \in [Resources -> Resource],
         OwnViews(res', born)
  PROVE  Consistent'
<1>1. /\ Inductive /\ OwnStores(work, born, res)
      /\ \A h \in Handlers : Holds(req[h], work, born) /\ Settled(req[h])
  BY ConsistentParts
<1>2. faults' \in 0..MaxFaults
  BY <1>1, FaultOK DEF Inductive, TypeOK
<1>3. Inductive'
  BY <1>1, <1>2
     DEF Inductive, TypeOK, LockedUnlessRefused, ReportsExistingWork, At
<1>4. OwnStores(work', born', res')
  BY <1>1 DEF OwnStores
<1> QED
  BY <1>1, <1>3, <1>4, PartsConsistent

LEMMA ResourcesUnchanged ==
  ASSUME Consistent, UNCHANGED <<jmVars, hubVars, req>>,
         UNCHANGED faults \/ Fault
  PROVE  Consistent'
<1>1. /\ res \in [Resources -> Resource] /\ res # Nil /\ OwnViews(res, born)
  BY ConsistentParts, InductiveParts, NilIsNoRecord DEF Stores, OwnStores
<1> QED
  BY <1>1, ResourcesMayChange DEF jmVars, hubVars

\* The status of a ManifestWork, stored under its UID, leaves each resource with
\* its own ManifestWork.
LEMMA StoreStatusOwn ==
  ASSUME Consistent, NEW status \in Resource, status.name = status.uid,
         status.name # Nil, StoreStatus(status)
  PROVE  res' \in [Resources -> Resource] /\ OwnViews(res', born)
<1>1. /\ res \in [Resources -> Resource] /\ res # Nil /\ OwnViews(res, born)
  BY ConsistentParts, InductiveParts, NilIsNoRecord DEF Stores, OwnStores
<1>2. ASSUME NEW r \in Resources
      PROVE  res'[r] \in Resource /\ Own(r, res'[r], born)
  <2>1. res[r] \in Resource /\ Own(r, res[r], born)
    BY <1>1, <1>2 DEF OwnViews
  <2>2. CASE res[r].uid = status.uid
    <3>1. res'[r] = [res[r] EXCEPT !.name = status.name, !.conds = status.conds]
      BY <1>2, <2>2 DEF StoreStatus
    <3>2. /\ res'[r] \in Resource /\ res'[r].name = status.name
          /\ res'[r].uid = res[r].uid
      BY <2>1, <3>1 DEF Resource
    <3> QED
      BY <2>1, <2>2, <3>2 DEF Own
  <2>3. CASE res[r].uid # status.uid
    BY <1>2, <2>1, <2>3 DEF StoreStatus
  <2> QED
    BY <2>2, <2>3
<1>3. res' = [r \in Resources |-> res'[r]]
  BY DEF StoreStatus
<1> QED
  BY <1>2, <1>3 DEF OwnViews

(***************************************************************************)
(* Steps of PullJobs, seen from a sync: names are not reused and           *)
(* ManifestWorks do not move to another hub.                               *)
(***************************************************************************)
HubsStay ==
  \A w \in Works :
    born[w] # Nil =>
      /\ born'[w] # Nil
      /\ work'[w] # Nil => work[w] # Nil /\ work'[w].hub = work[w].hub

LEMMA NextHubsStay == Consistent /\ [Next]_vars => HubsStay
<1> SUFFICES ASSUME Consistent, [Next]_vars  PROVE HubsStay
  OBVIOUS
<1>1. /\ work \in [Works -> ManifestWork \cup {Nil}]
      /\ born \in [Works -> Jobs \cup {Nil}]
  BY ConsistentParts, InductiveParts DEF Stores
<1>2. ASSUME UNCHANGED <<work, born>>
      PROVE  HubsStay
  BY <1>2 DEF HubsStay
<1>3. ASSUME NEW h \in Handlers, CreateManifestWork(h)
      PROVE  HubsStay
  <2>1. CASE UNCHANGED <<work, born>>
    BY <1>2, <2>1
  <2>2. CASE \E w \in Works : /\ born[w] = Nil
                              /\ \E mw : work' = [work EXCEPT ![w] = mw]
                              /\ born' = [born EXCEPT ![w] = req[h].cur]
    BY <1>1, <2>2 DEF HubsStay
  <2> QED
    BY <1>3, <2>1, <2>2 DEF CreateManifestWork, hubVars
<1>4. ASSUME NEW w, UNCHANGED born,
             \/ \E ms, rv : work' = [work EXCEPT ![w].manifests = ms,
                                                ![w].rv = rv]
             \/ \E cs, rv : work' = [work EXCEPT ![w].conds = cs, ![w].rv = rv],
             w \in Works, work[w] # Nil
      PROVE  HubsStay
  <2>1. work[w] \in ManifestWork
    BY <1>1, <1>4
  <2>2. work'[w].hub = work[w].hub /\ \A v \in Works : v # w => work'[v] = work[v]
    BY <1>1, <1>4, <2>1 DEF ManifestWork
  <2> QED
    BY <1>4, <2>2 DEF HubsStay
<1>5. ASSUME NEW h \in Handlers, Update(h)
      PROVE  HubsStay
  <2> DEFINE w == req[h].got.name
             new == Updated(Asks(h), req[h].got.manifests)
             rv == IF new = work[w].manifests THEN work[w].rv
                                              ELSE work[w].rv + 1
  <2>1. CASE UNCHANGED <<work, born>>
    BY <1>2, <2>1
  <2>2. CASE /\ Found(w, h)
             /\ work' = [work EXCEPT ![w].manifests = new,
                       ![w].rv = IF new = work[w].manifests THEN @ ELSE @ + 1]
    <3>1. w \in Works /\ work[w] # Nil /\ work[w] \in ManifestWork
      BY <1>1, <2>2 DEF Found
    <3> HIDE DEF w, new
    <3>2. work' = [work EXCEPT ![w].manifests = new, ![w].rv = rv]
      BY <1>1, <2>2, <3>1 DEF ManifestWork
    <3>3. UNCHANGED born
      BY <1>5 DEF Update
    <3> HIDE DEF rv
    <3> QED
      BY <1>4, <3>1, <3>2, <3>3
  <2> QED
    BY <1>5, <2>1, <2>2 DEF Update
<1>6. ASSUME NEW h \in Handlers, Delete(h)
      PROVE  HubsStay
  <2> DEFINE w == View(h).name
  <2>1. CASE UNCHANGED <<work, born>>
    BY <1>2, <2>1
  <2>2. ASSUME Found(w, h), NEW left \in Deleted(w),
               work' = [work EXCEPT ![w] = left], UNCHANGED born
        PROVE  HubsStay
    <3>1. w \in Works /\ work[w] # Nil /\ work[w] \in ManifestWork
      BY <1>1, <2>2 DEF Found
    <3> HIDE DEF w
    <3>2. left # Nil => left.hub = work[w].hub
      BY <2>2, <3>1, DeletedEnds
    <3> QED
      BY <1>1, <2>2, <3>1, <3>2 DEF HubsStay
  <2> QED
    BY <1>6, <2>1, <2>2 DEF Delete
<1>7. ASSUME NEW w \in Works, AgentStatus(w)
      PROVE  HubsStay
  <2>1. /\ work[w] # Nil /\ UNCHANGED born
        /\ \E cs : work' = [work EXCEPT ![w].conds = cs,
                                        ![w].rv = work[w].rv + 1]
    BY <1>7 DEF AgentStatus
  <2> QED
    BY <1>4, <2>1
<1>8. ASSUME NEW h \in Handlers,
             \/ Pull(h) \/ PullFails(h) \/ Skip(h) \/ Promote(h)
             \/ AwaitApplied(h) \/ AwaitTimeout(h) \/ FetchManifestWork(h) \/ Unsupported(h)
             \/ CallFails(h) \/ Panics(h) \/ Exits(h) \/ Report(h) \/ Reply(h)
             \/ ClientGone(h)
      PROVE  HubsStay
  <2>1. UNCHANGED <<work, born>>
    BY <1>8 DEF Pull, PullFails, Skip, Promote, AwaitApplied, AwaitTimeout,
       FetchManifestWork, Unsupported, CallFails, Panics, Exits, Report, Reply,
       ClientGone, hubVars
  <2> QED
    BY <1>2, <2>1
<1>9. ASSUME UNCHANGED vars \/ \E i : Crash(i)
      PROVE  HubsStay
  BY <1>2, <1>9 DEF vars, Crash, hubVars
<1>10. ASSUME NEW w \in Works, AgentRemoves(w)
       PROVE  HubsStay
  BY <1>1, <1>10 DEF AgentRemoves, HubsStay
<1> QED
  BY <1>3, <1>5, <1>6, <1>7, <1>8, <1>9, <1>10 DEF Next, Step, Runs

(***************************************************************************)
(* Syncs, one at a time.                                                   *)
(***************************************************************************)
\* Accounted, for given ManifestWorks and births.
Accounts(s, hub, wk, bn) ==
  /\ \A status \in s.todo : status.name = status.uid /\ status.name # Nil
  /\ \A w \in s.owed :
       /\ bn[w] # Nil
       /\ wk[w] # Nil =>
            /\ wk[w].hub = hub
            /\ \/ s.pc = "clusters"
               \/ ClusterOf[w] \in s.clusters
               \/ \E status \in s.todo : status.uid = w

LEMMA SyncParts ==
  SyncConsistent => /\ Consistent
                    /\ sync \in [Syncs -> SyncRequest]
                    /\ \A y \in Syncs :
                         Accounts(sync[y], SyncHub(y), work, born)
BY DEF SyncConsistent, SyncTypeOK, Accounted, Accounts

LEMMA PartsSync ==
  ASSUME Consistent', sync' \in [Syncs -> SyncRequest],
         \A y \in Syncs : Accounts(sync'[y], SyncHub(y), work', born')
  PROVE  SyncConsistent'
BY DEF SyncConsistent, SyncTypeOK, Accounted, Accounts, Consistent, Inductive,
       SyncHub

LEMMA NoSyncOK ==
  ASSUME NEW hub, NEW wk, NEW bn
  PROVE  NoSync \in SyncRequest /\ Accounts(NoSync, hub, wk, bn)
BY DEF NoSync, SyncRequest, Accounts

LEMMA AccountsStays ==
  ASSUME HubsStay, NEW s \in SyncRequest, NEW hub, Accounts(s, hub, work, born)
  PROVE  Accounts(s, hub, work', born')
BY DEF HubsStay, SyncRequest, Accounts

\* A step of a request or of the surroundings leaves each sync as it was, or ends
\* it with its process.
LEMMA OthersStep ==
  ASSUME SyncConsistent, [Next]_vars,
         UNCHANGED sync \/ \E i : RestartSyncs(i)
  PROVE  SyncConsistent'
<1>1. Consistent' /\ HubsStay
  BY SyncParts, ConsistentStep, NextHubsStay
<1>2. /\ \A y \in Syncs : sync'[y] = sync[y] \/ sync'[y] = NoSync
      /\ sync' = [y \in Syncs |-> sync'[y]]
  BY SyncParts DEF RestartSyncs
<1>3. ASSUME NEW y \in Syncs
      PROVE  /\ sync'[y] \in SyncRequest
             /\ Accounts(sync'[y], SyncHub(y), work', born')
  <2>1. /\ sync[y] \in SyncRequest
        /\ Accounts(sync[y], SyncHub(y), work, born)
    BY SyncParts
  <2> QED
    BY <1>1, <1>2, <2>1, AccountsStays, NoSyncOK
<1> QED
  BY <1>1, <1>2, <1>3, PartsSync

\* A step of one sync, which changes no ManifestWork.
LEMMA OneSync ==
  ASSUME SyncConsistent, Consistent', UNCHANGED <<work, born>>,
         NEW y \in Syncs, NEW s \in SyncRequest, SyncContinue(y, s),
         Accounts(s, SyncHub(y), work, born)
  PROVE  SyncConsistent'
<1>1. /\ sync' = [sync EXCEPT ![y] = s]
      /\ sync \in [Syncs -> SyncRequest]
      /\ \A z \in Syncs : Accounts(sync[z], SyncHub(z), work, born)
  BY SyncParts DEF SyncContinue
<1>2. sync' \in [Syncs -> SyncRequest]
  BY <1>1
<1>3. \A z \in Syncs : Accounts(sync'[z], SyncHub(z), work', born')
  BY <1>1
<1> QED
  BY <1>2, <1>3, PartsSync

LEMMA StartSyncStep ==
  ASSUME SyncConsistent, NEW y \in Syncs, StartSync(y)
  PROVE  SyncConsistent'
<1> DEFINE s == [NoSync EXCEPT !.pc = "clusters", !.owed = WorksOf(SyncHub(y))]
<1>1. SyncContinue(y, s) /\ UNCHANGED vars
  BY DEF StartSync
<1>2. Consistent'
  BY <1>1, SyncParts, ConsistentStep
<1>3. /\ s.pc = "clusters" /\ s.todo = {} /\ s.clusters = {}
      /\ s.owed = WorksOf(SyncHub(y))
  BY DEF NoSync
<1>4. s \in SyncRequest
  BY DEF NoSync, SyncRequest, WorksOf
<1> HIDE DEF s
<1>5. \A w \in Works : work[w] # Nil => born[w] # Nil
  BY SyncParts, ConsistentParts DEF OwnStores
<1>6. Accounts(s, SyncHub(y), work, born)
  BY <1>3, <1>5 DEF Accounts, WorksOf
<1> QED
  BY <1>1, <1>2, <1>4, <1>6, OneSync DEF vars

LEMMA ListClustersStep ==
  ASSUME SyncConsistent, NEW y \in Syncs, ListClusters(y)
  PROVE  SyncConsistent'
<1> DEFINE s(cs) == [sync[y] EXCEPT !.pc = "resources", !.clusters = cs]
           e == [s({}) EXCEPT !.owed = {}]
<1>1. /\ SyncContinue(y, s(Clusters)) \/ SyncContinue(y, e)
      /\ UNCHANGED <<jmVars, hubVars, req>>
      /\ UNCHANGED faults \/ Fault
  BY DEF ListClusters
<1>2. Consistent' /\ UNCHANGED <<work, born>>
  BY <1>1, SyncParts, ResourcesUnchanged DEF hubVars
<1>3. /\ sync[y] \in SyncRequest
      /\ Accounts(sync[y], SyncHub(y), work, born)
  BY SyncParts
<1>4. CASE SyncContinue(y, s(Clusters))
  <2> DEFINE n == s(Clusters)
  <2>1. n \in SyncRequest /\ n.clusters = Clusters /\ n.todo = sync[y].todo
        /\ n.owed = sync[y].owed
    BY <1>3 DEF SyncRequest
  <2> HIDE DEF n
  <2>2. Accounts(n, SyncHub(y), work, born)
    BY <1>3, <2>1, SyncAssumption DEF Accounts, SyncRequest
  <2> QED
    BY <1>2, <1>4, <2>1, <2>2, OneSync DEF n
<1>5. CASE SyncContinue(y, e)
  <2>1. e \in SyncRequest /\ e.todo = sync[y].todo /\ e.owed = {}
    BY <1>3 DEF SyncRequest
  <2> HIDE DEF e
  <2>2. Accounts(e, SyncHub(y), work, born)
    BY <1>3, <2>1 DEF Accounts
  <2> QED
    BY <1>2, <1>5, <2>1, <2>2, OneSync
<1> QED
  BY <1>1, <1>4, <1>5

\* The statuses of ManifestWorks of the hub.
LEMMA StatusesOK ==
  ASSUME Consistent, NEW ws \in SUBSET Works, \A w \in ws : work[w] # Nil
  PROVE  /\ StatusesOf(ws) \subseteq Resource
         /\ \A status \in StatusesOf(ws) :
              status.name = status.uid /\ status.name # Nil
         /\ \A w \in ws : \E status \in StatusesOf(ws) : status.uid = w
<1>1. ASSUME NEW w \in ws
      PROVE  work[w].conds \in Seq(Condition) /\ w # Nil /\ w \in Works
  BY <1>1, NilIsNothing, ConsistentParts, InductiveParts
     DEF Stores, ManifestWork
<1> DEFINE st(w) == [name |-> w, uid |-> w, conds |-> work[w].conds]
<1>2. StatusesOf(ws) = {st(w) : w \in ws}
  BY DEF StatusesOf
<1>3. ASSUME NEW w \in ws
      PROVE  st(w) \in Resource /\ st(w).name = w /\ st(w).uid = w
  <2>1. work[w].conds \in Seq(Condition) /\ w \in Works
    BY <1>1
  <2> QED
    BY <2>1 DEF Resource
<1> HIDE DEF st
<1> QED
  BY <1>1, <1>2, <1>3

LEMMA ListWorksStep ==
  ASSUME SyncConsistent, NEW y \in Syncs, ListWorks(y)
  PROVE  SyncConsistent'
<1>1. PICK c \in sync[y].clusters :
        LET listed == [sync[y] EXCEPT !.clusters = @ \ {c}]
            ws == {w \in WorksOf(SyncHub(y)) : ClusterOf[w] = c}
        IN  \/ SyncContinue(y, [listed EXCEPT !.todo = @ \cup StatusesOf(ws)])
               /\ UNCHANGED faults
            \/ SyncContinue(y, [listed EXCEPT
                                  !.owed = {w \in @ : ClusterOf[w] # c}])
               /\ Fault
  BY DEF ListWorks
<1> DEFINE ws == {w \in WorksOf(SyncHub(y)) : ClusterOf[w] = c}
           l == [sync[y] EXCEPT !.clusters = @ \ {c}]
           s == [l EXCEPT !.todo = @ \cup StatusesOf(ws)]
           e == [l EXCEPT !.owed = {w \in @ : ClusterOf[w] # c}]
<1>2. /\ SyncContinue(y, s) \/ SyncContinue(y, e)
      /\ UNCHANGED <<jmVars, hubVars, req>>
      /\ UNCHANGED faults \/ Fault
  BY <1>1 DEF ListWorks
<1>3. Consistent' /\ UNCHANGED <<work, born>>
  BY <1>2, SyncParts, ResourcesUnchanged DEF hubVars
<1>4. /\ sync[y] \in SyncRequest /\ sync[y].pc = "resources"
      /\ Accounts(sync[y], SyncHub(y), work, born)
  BY SyncParts DEF ListWorks
<1>5. /\ l \in SyncRequest /\ l.pc = "resources"
      /\ l.clusters = sync[y].clusters \ {c}
      /\ l.todo = sync[y].todo /\ l.owed = sync[y].owed
  BY <1>4 DEF SyncRequest
<1> HIDE DEF l
<1>6. /\ StatusesOf(ws) \subseteq Resource
      /\ \A status \in StatusesOf(ws) :
           status.name = status.uid /\ status.name # Nil
      /\ \A w \in ws : \E status \in StatusesOf(ws) : status.uid = w
  BY SyncParts, StatusesOK DEF WorksOf
<1>7. CASE SyncContinue(y, s)
  <2> DEFINE sts == StatusesOf(ws)
  <2>1. /\ s \in SyncRequest /\ s.todo = sync[y].todo \cup sts
        /\ s.owed = sync[y].owed /\ s.clusters = sync[y].clusters \ {c}
        /\ s.pc = "resources"
    <3> HIDE DEF ws
    <3> QED
      BY <1>5, <1>6 DEF SyncRequest
  <2> HIDE DEF s, sts
  <2>2. ASSUME NEW w \in s.owed
        PROVE  /\ born[w] # Nil
               /\ work[w] # Nil =>
                    /\ work[w].hub = SyncHub(y)
                    /\ \/ ClusterOf[w] \in s.clusters
                       \/ \E status \in s.todo : status.uid = w
    <3>1. /\ w \in Works /\ born[w] # Nil
          /\ work[w] # Nil =>
               /\ work[w].hub = SyncHub(y)
               /\ \/ ClusterOf[w] \in sync[y].clusters
                  \/ \E status \in sync[y].todo : status.uid = w
      BY <1>4, <2>1, <2>2 DEF Accounts, SyncRequest
    <3>2. ASSUME work[w] # Nil, ClusterOf[w] = c
          PROVE  \E status \in sts : status.uid = w
      BY <1>6, <3>1, <3>2 DEF WorksOf, sts
    <3> QED
      BY <2>1, <3>1, <3>2
  <2>3. \A status \in s.todo : status.name = status.uid /\ status.name # Nil
    BY <1>4, <1>6, <2>1 DEF Accounts, sts
  <2>4. Accounts(s, SyncHub(y), work, born)
    BY <2>2, <2>3 DEF Accounts
  <2> QED
    BY <1>3, <1>7, <2>1, <2>4, OneSync
<1>8. CASE SyncContinue(y, e)
  <2>1. /\ e \in SyncRequest /\ e.todo = sync[y].todo
        /\ e.owed = {w \in sync[y].owed : ClusterOf[w] # c}
        /\ e.clusters = sync[y].clusters \ {c} /\ e.pc = "resources"
    BY <1>5 DEF SyncRequest
  <2> HIDE DEF e
  <2>2. Accounts(e, SyncHub(y), work, born)
    BY <1>4, <2>1 DEF Accounts
  <2> QED
    BY <1>3, <1>8, <2>1, <2>2, OneSync
<1> QED
  BY <1>2, <1>7, <1>8

\* The statuses of a sync, sent one at a time.
LEMMA PutStatusStep ==
  ASSUME SyncConsistent, NEW y \in Syncs, PutStatus(y)
  PROVE  SyncConsistent'
<1>1. PICK status \in sync[y].todo :
        LET answered == [sync[y] EXCEPT !.todo = @ \ {status},
                                        !.owed = @ \ {status.uid}]
        IN  \/ /\ StoreStatus(status)
               /\ SyncContinue(y, answered)
               /\ UNCHANGED faults
            \/ /\ SyncContinue(y, answered)
               /\ Fault
               /\ UNCHANGED res
            \/ /\ StoreStatus(status) \/ UNCHANGED res
               /\ SyncContinue(y, PutFails(sync[y], status))
               /\ Fault
  BY DEF PutStatus
<1> DEFINE a == [sync[y] EXCEPT !.todo = @ \ {status},
                                !.owed = @ \ {status.uid}]
<1>2. /\ StoreStatus(status) \/ UNCHANGED res
      /\ SyncContinue(y, a) \/ SyncContinue(y, NoSync)
      /\ UNCHANGED faults \/ Fault
      /\ UNCHANGED <<owner, refused, state, work, born, effected, req>>
  BY <1>1 DEF PutStatus, PutFails, hubVars
<1>3. /\ Consistent
      /\ sync[y] \in SyncRequest /\ sync[y].pc = "resources"
      /\ sync[y].clusters = {}
      /\ Accounts(sync[y], SyncHub(y), work, born)
  BY SyncParts DEF PutStatus
<1>4. /\ status \in Resource /\ status.name = status.uid
      /\ status.name # Nil
  BY <1>1, <1>3 DEF Accounts, SyncRequest
<1>5. Consistent'
  <2>1. CASE UNCHANGED res
    <3>1. UNCHANGED <<jmVars, hubVars, req>>
      BY <1>2, <2>1 DEF jmVars, hubVars
    <3> QED
      BY <1>2, <1>3, <3>1, ResourcesUnchanged
  <2>2. CASE StoreStatus(status)
    <3>1. res' \in [Resources -> Resource] /\ OwnViews(res', born)
      BY <1>3, <1>4, <2>2, StoreStatusOwn
    <3>2. OwnViews(res', born)
      BY <3>1
    <3> QED
      BY <1>2, <1>3, <3>1, <3>2, ResourcesMayChange
  <2> QED
    BY <1>2, <2>1, <2>2
<1>6. CASE SyncContinue(y, NoSync)
  BY <1>2, <1>5, <1>6, NoSyncOK, OneSync
<1>7. CASE SyncContinue(y, a)
  <2>1. /\ a \in SyncRequest /\ a.clusters = sync[y].clusters
        /\ a.todo = sync[y].todo \ {status}
        /\ a.owed = sync[y].owed \ {status.uid} /\ a.pc = sync[y].pc
    BY <1>3 DEF SyncRequest
  <2> HIDE DEF a
  <2>2. ASSUME NEW w \in a.owed
        PROVE  /\ born[w] # Nil
               /\ work[w] # Nil =>
                    /\ work[w].hub = SyncHub(y)
                    /\ \/ a.pc = "clusters"
                       \/ ClusterOf[w] \in a.clusters
                       \/ \E st \in a.todo : st.uid = w
    BY <1>3, <2>1, <2>2 DEF Accounts
  <2>3. Accounts(a, SyncHub(y), work, born)
    BY <1>3, <2>1, <2>2 DEF Accounts
  <2> QED
    BY <1>2, <1>5, <1>7, <2>1, <2>3, OneSync
<1> QED
  BY <1>2, <1>6, <1>7

LEMMA ReplySyncStep ==
  ASSUME SyncConsistent, NEW y \in Syncs, ReplySync(y)
  PROVE  SyncConsistent'
<1> DEFINE s == [NoSync EXCEPT !.pc = "replied"]
<1>1. SyncContinue(y, s) /\ UNCHANGED vars
  BY DEF ReplySync
<1>2. Consistent'
  BY <1>1, SyncParts, ConsistentStep
<1>3. s \in SyncRequest /\ Accounts(s, SyncHub(y), work, born)
  BY DEF NoSync, SyncRequest, Accounts
<1> QED
  BY <1>1, <1>2, <1>3, OneSync DEF vars

(***************************************************************************)
(* The inductive invariant.                                                *)
(***************************************************************************)
LEMMA SyncConsistentInit == SyncInit => SyncConsistent
<1> SUFFICES ASSUME SyncInit  PROVE SyncConsistent
  OBVIOUS
<1>1. Consistent /\ sync = [y \in Syncs |-> NoSync]
  BY ConsistentInit DEF SyncInit
<1>2. \A y \in Syncs : sync[y] = NoSync
  BY <1>1
<1>3. sync \in [Syncs -> SyncRequest]
  BY <1>1, NoSyncOK
<1>4. \A y \in Syncs : Accounts(sync[y], SyncHub(y), work, born)
  BY <1>2, NoSyncOK
<1> QED
  BY <1>1, <1>3, <1>4
     DEF SyncConsistent, SyncTypeOK, Consistent, Inductive, Accounted, Accounts

\* A step of a request, or of its surroundings.
LEMMA OthersAreNext ==
  ASSUME SyncNext, \A y \in Syncs : ~StartSync(y) /\ ~SyncStep(y)
  PROVE  Next /\ (UNCHANGED sync \/ \E i : RestartSyncs(i))
BY DEF SyncNext, Next, Step, RequestStep

LEMMA SyncConsistentStep ==
  SyncConsistent /\ [SyncNext]_syncVars => SyncConsistent'
<1> SUFFICES ASSUME SyncConsistent, [SyncNext]_syncVars
             PROVE  SyncConsistent'
  OBVIOUS
<1>1. CASE UNCHANGED syncVars
  BY <1>1, OthersStep DEF syncVars
<1>2. ASSUME NEW y \in Syncs, StartSync(y) \/ SyncStep(y)
      PROVE  SyncConsistent'
  BY <1>2, StartSyncStep, ListClustersStep, ListWorksStep, PutStatusStep,
     ReplySyncStep DEF SyncStep
<1>3. CASE SyncNext /\ \A y \in Syncs : ~StartSync(y) /\ ~SyncStep(y)
  BY <1>3, OthersAreNext, OthersStep
<1> QED
  BY <1>1, <1>2, <1>3

\* Jobs, reports and syncs of any number of instances keep the Job Manager, the
\* hub and the requests consistent.
THEOREM SyncInvariant == SyncSpec => []SyncConsistent
BY SyncConsistentInit, SyncConsistentStep, PTL DEF SyncSpec

\* Every variable keeps its type.
THEOREM SyncTypeCorrect == SyncSpec => []SyncTypeOK
<1>1. SyncConsistent => SyncTypeOK
  BY DEF SyncConsistent
<1> QED
  BY <1>1, SyncInvariant, PTL

(***************************************************************************)
(* What follows.                                                           *)
(***************************************************************************)
LEMMA OwnNamesAnswer == SyncConsistent => StatusOfStored
<1> SUFFICES ASSUME SyncConsistent, NEW r \in Resources, NEW hub \in Hubs,
                    res[r].uid # Nil
             PROVE  LET w == res[r].uid
                        answer == ResourceStatus(hub, ClusterOf[w],
                                                 res[r].name, w)
                    IN  IF w \in WorksOf(hub)
                        THEN answer.code = 200 /\ answer.body.conds = work[w].conds
                        ELSE answer.code # 200
  BY DEF StatusOfStored
<1> DEFINE w == res[r].uid
<1>1. /\ res[r] \in Resource /\ Own(r, res[r], born)
      /\ work \in [Works -> ManifestWork \cup {Nil}]
  BY SyncParts, ConsistentParts, InductiveParts, NilIsNoRecord
     DEF OwnStores, OwnViews, Stores
<1>2. w \in Works /\ w # Nil /\ res[r].name = w
  BY <1>1, NilIsNothing DEF Own, Resource
<1>3. ClusterOf[w] # Nil
  BY <1>2, SyncAssumption
<1> QED
  BY <1>2, <1>3 DEF ResourceStatus, GetManifestWork, WorksOf

\* What the Job Manager stores is what GetResourceStatus answers about: the hub's
\* conditions of a ManifestWork that exists, and no status of one that is gone.
THEOREM StatusAnswers == SyncSpec => []StatusOfStored
BY SyncInvariant, OwnNamesAnswer, PTL

\* In every state of the composed system too, a resource of the Job Manager is
\* the ManifestWork of its own job.
THEOREM SyncedResourcesAreOwn == SyncSpec => []ResourceIsOwnWork
<1>1. SyncConsistent => ResourceIsOwnWork
  BY SyncParts, ConsistentOwns
<1> QED
  BY <1>1, SyncInvariant, PTL

\* Only ReplySync replies.
LEMMA ReplyIsReplySync ==
  ASSUME SyncConsistent, SyncNext, NEW y \in Syncs, SyncBusy(y),
         sync'[y].pc = "replied"
  PROVE  ReplySync(y)
<1>1. sync \in [Syncs -> SyncRequest] /\ sync[y].pc # "replied"
  BY SyncParts DEF SyncBusy
<1>2. sync[y] \in SyncRequest
  BY <1>1
<1>3. CASE \A z \in Syncs : ~StartSync(z) /\ ~SyncStep(z)
  <2>1. sync'[y] = sync[y] \/ sync'[y] = NoSync
    BY <1>3, OthersAreNext DEF RestartSyncs
  <2> QED
    BY <1>1, <2>1 DEF NoSync
<1>4. ASSUME NEW z \in Syncs, NEW s, SyncContinue(z, s), s.pc # "replied"
      PROVE  FALSE
  BY <1>1, <1>4 DEF SyncContinue
<1>5. ASSUME NEW z \in Syncs, StartSync(z)
      PROVE  FALSE
  <2> DEFINE s == [NoSync EXCEPT !.pc = "clusters", !.owed = WorksOf(SyncHub(z))]
  <2>1. s.pc = "clusters" /\ SyncContinue(z, s)
    BY <1>5 DEF StartSync, NoSync
  <2> HIDE DEF s
  <2> QED
    BY <1>4, <2>1
<1>6. ASSUME NEW z \in Syncs, ListClusters(z) \/ ListWorks(z) \/ PutStatus(z)
      PROVE  FALSE
  <2>1. \/ SyncContinue(z, NoSync)
        \/ \E s : SyncContinue(z, s) /\ s.pc = "resources"
    <3> DEFINE l(cs) == [sync[z] EXCEPT !.pc = "resources", !.clusters = cs]
               n(cs) == [sync[z] EXCEPT !.clusters = cs]
               a(ss, ws) == [sync[z] EXCEPT !.todo = ss, !.owed = ws]
    <3>1. sync[z] \in SyncRequest
      BY <1>1
    <3>2. CASE ListClusters(z)
      <4>1. \/ SyncContinue(z, l(Clusters))
            \/ SyncContinue(z, [l({}) EXCEPT !.owed = {}])
        BY <3>2 DEF ListClusters
      <4>2. /\ l(Clusters).pc = "resources"
            /\ [l({}) EXCEPT !.owed = {}].pc = "resources"
        BY <3>1 DEF SyncRequest
      <4> QED
        BY <4>1, <4>2
    <3>3. CASE ListWorks(z)
      <4>1. \E cs, ss, ws : \/ SyncContinue(z, [n(cs) EXCEPT !.todo = ss])
                            \/ SyncContinue(z, [n(cs) EXCEPT !.owed = ws])
        <5>1. PICK c \in sync[z].clusters :
                \/ SyncContinue(z, [n(sync[z].clusters \ {c}) EXCEPT
                      !.todo = @ \cup StatusesOf(
                          {w \in WorksOf(SyncHub(z)) : ClusterOf[w] = c})])
                \/ SyncContinue(z, [n(sync[z].clusters \ {c}) EXCEPT
                      !.owed = {w \in @ : ClusterOf[w] # c}])
          BY <3>3 DEF ListWorks
        <5> QED
          BY <5>1
      <4>2. \A cs, ss, ws : /\ [n(cs) EXCEPT !.todo = ss].pc = "resources"
                            /\ [n(cs) EXCEPT !.owed = ws].pc = "resources"
        BY <3>1, <3>3 DEF ListWorks, SyncRequest
      <4> HIDE DEF n
      <4> QED
        BY <4>1, <4>2
    <3>4. CASE PutStatus(z)
      <4>1. \/ SyncContinue(z, NoSync)
            \/ \E ss, ws : SyncContinue(z, a(ss, ws))
        BY <3>4 DEF PutStatus, PutFails
      <4>2. \A ss, ws : a(ss, ws).pc = "resources"
        BY <3>1, <3>4 DEF PutStatus, SyncRequest
      <4> HIDE DEF a
      <4> QED
        BY <4>1, <4>2
    <3> QED
      BY <1>6, <3>2, <3>3, <3>4
  <2>2. NoSync.pc # "replied"
    BY DEF NoSync
  <2> QED
    BY <1>4, <2>1, <2>2
<1>7. ASSUME NEW z \in Syncs, ReplySync(z), z # y
      PROVE  FALSE
  BY <1>1, <1>7 DEF ReplySync, SyncContinue
<1> QED
  BY <1>3, <1>5, <1>6, <1>7 DEF SyncStep

\* A sync that replies has made a PUT for every ManifestWork that was there all
\* along, but for those whose list failed.
THEOREM RepliesAreComplete == SyncSpec => ReplyMeansAllSent
<1> DEFINE A == \A y \in Syncs :
                  SyncBusy(y) /\ sync'[y].pc = "replied" =>
                    \A w \in sync[y].owed : work[w] = Nil
<1>1. SyncConsistent /\ [SyncNext]_syncVars => [A]_syncVars
  <2> SUFFICES ASSUME SyncConsistent, SyncNext, NEW y \in Syncs, SyncBusy(y),
                      sync'[y].pc = "replied", NEW w \in sync[y].owed
               PROVE  work[w] = Nil
    OBVIOUS
  <2>1. ReplySync(y)
    BY ReplyIsReplySync
  <2>2. Accounts(sync[y], SyncHub(y), work, born)
    BY SyncParts
  <2> QED
    BY <2>1, <2>2 DEF ReplySync, Accounts
<1> QED
  BY <1>1, SyncInvariant, PTL DEF SyncSpec, ReplyMeansAllSent

(***************************************************************************)
(* The promises of PullJobs, with syncs about.                             *)
(***************************************************************************)
\* A step of a sync is no step of a job: it touches the resources at most.
LEMMA SyncLeavesJobs ==
  ASSUME NEW y \in Syncs, StartSync(y) \/ SyncStep(y)
  PROVE  UNCHANGED <<owner, refused, state, work, born, effected, req>>
BY DEF StartSync, SyncStep, ListClusters, ListWorks, PutStatus, ReplySync,
       vars, jmVars, hubVars

LEMMA SyncNextCases ==
  ASSUME [SyncNext]_syncVars
  PROVE  \/ [Next]_vars
         \/ UNCHANGED <<owner, refused, state, work, born, effected, req>>
<1>1. CASE UNCHANGED syncVars
  BY <1>1 DEF syncVars
<1>2. CASE \E y \in Syncs : StartSync(y) \/ SyncStep(y)
  BY <1>2, SyncLeavesJobs
<1>3. CASE SyncNext /\ \A y \in Syncs : ~StartSync(y) /\ ~SyncStep(y)
  BY <1>3, OthersAreNext
<1> QED
  BY <1>1, <1>2, <1>3

\* In the composed system too only an answered promotion lets a job go on, results
\* are those of accepted writes, and a 200 for a decoded list hides no failure.
THEOREM SyncsKeepPromises ==
  SyncSpec => [](LockedUnlessRefused /\ ReportsExistingWork
                   /\ SuccessMeansAllUpdated)
<1>1. SyncConsistent => LockedUnlessRefused /\ ReportsExistingWork
                          /\ SuccessMeansAllUpdated
  BY DEF SyncConsistent, Consistent, Inductive, Settled, SuccessMeansAllUpdated
<1> QED
  BY <1>1, SyncInvariant, PTL

\* No sync comes between a payload that is read and its update.
THEOREM SyncsLeaveUpdatesAtomic == SyncSpec => AtomicUpdate
<1>1. ASSUME SyncConsistent, [SyncNext]_syncVars, NEW h \in Handlers,
             At(h, "update"), At(h, "report")'
      PROVE  LET w == req[h].got.name
             IN  /\ work[w].manifests = req[h].got.manifests
                 /\ work'[w].manifests = Updated(Asks(h), work[w].manifests)
  <2>1. CASE [Next]_vars
    BY <1>1, <2>1, SyncParts, AcceptedIsAtomic
  <2>2. CASE UNCHANGED <<owner, refused, state, work, born, effected, req>>
    BY <1>1, <2>2 DEF At
  <2> QED
    BY <1>1, <2>1, <2>2, SyncNextCases
<1>2. SyncConsistent /\ [SyncNext]_syncVars =>
        [\A h \in Handlers :
           At(h, "update") /\ At(h, "report")' =>
             LET w == req[h].got.name
             IN  /\ work[w].manifests = req[h].got.manifests
                 /\ work'[w].manifests = Updated(Asks(h), work[w].manifests)]_vars
  BY <1>1
<1> QED
  BY <1>2, SyncInvariant, PTL DEF SyncSpec, AtomicUpdate

\* A sync that still sends the conditions of a deleted ManifestWork does not make
\* its deletion untrue: what is recorded as deleted is gone or leaving.
THEOREM SyncsLeaveDeletions == SyncSpec => RecordedDeleteHolds
<1>1. SyncConsistent =>
        [\A h \in Handlers :
           At(h, "report") /\ IsDeletion(Asks(h)) /\ ~At(h, "report")'
             /\ state'[req[h].cur] # state[req[h].cur] =>
               LET name == req[h].mem.res.name
               IN  name # Nil /\ Leaving(name)]_vars
  BY SyncParts, DeletedIsLeaving
<1> QED
  BY <1>1, SyncInvariant, PTL DEF RecordedDeleteHolds

\* Each job goes through the life of JobLifecycle, however many syncs run: a step
\* of a sync is a stutter there.
THEOREM SyncsImplementLifecycle == SyncSpec => ImplementsLifecycle
<1>1. SyncInit => Lifecycle!Init
  BY DEF SyncInit, Init, Lifecycle!Init
<1>2. ASSUME SyncConsistent, [SyncNext]_syncVars
      PROVE  [Lifecycle!Next]_(Lifecycle!vars)
  <2>1. CASE [Next]_vars
    BY <1>2, <2>1, SyncParts, ConsistentParts, StepRefines
  <2>2. CASE UNCHANGED <<owner, refused, state, work, born, effected, req>>
    BY <2>2 DEF Lifecycle!vars
  <2> QED
    BY <1>2, <2>1, <2>2, SyncNextCases
<1>3. SyncConsistent /\ [SyncNext]_syncVars => [Lifecycle!Next]_(Lifecycle!vars)
  BY <1>2
<1> QED
  BY <1>1, <1>3, SyncInvariant, PTL
     DEF SyncSpec, ImplementsLifecycle, Lifecycle!Spec

(***************************************************************************)
(* The conditions a resource collects.                                     *)
(***************************************************************************)
OneOfEachStatus(s) == \A status \in s.todo : OneOfEach(status.conds)

LEMMA SyncCountedParts ==
  SyncCounted <=> CountedByJobs /\ \A y \in Syncs : OneOfEachStatus(sync[y])
BY DEF SyncCounted, OneOfEachStatus

LEMMA PartsSyncCounted ==
  ASSUME CountedByJobs', \A y \in Syncs : OneOfEachStatus(sync'[y])
  PROVE  SyncCounted'
BY DEF SyncCounted, OneOfEachStatus

\* A step of one sync.
LEMMA OneSyncCounted ==
  ASSUME SyncConsistent, SyncCounted, CountedByJobs', NEW y \in Syncs, NEW s,
         SyncContinue(y, s), OneOfEachStatus(s)
  PROVE  SyncCounted'
<1>1. /\ sync' = [sync EXCEPT ![y] = s] /\ sync \in [Syncs -> SyncRequest]
      /\ \A z \in Syncs : OneOfEachStatus(sync[z])
  BY SyncParts, SyncCountedParts DEF SyncContinue
<1>2. \A z \in Syncs : OneOfEachStatus(sync'[z])
  BY <1>1
<1> QED
  BY <1>2, PartsSyncCounted

\* A step of a sync that sends nothing.
LEMMA ListsCounted ==
  ASSUME SyncConsistent, SyncCounted, UNCHANGED <<state, res, work, req>>
  PROVE  CountedByJobs'
<1>1. Inductive /\ CountedByJobs
  BY SyncParts, ConsistentParts, SyncCountedParts
<1> QED
  BY <1>1, RestartCounts

\* A status that is stored has one condition of each type, and replaces whatever
\* the resource had.  The resource has the UID of the status, which is not empty, so
\* a job of it has been reported and there is room for them.
LEMMA StoreStatusCounts ==
  ASSUME SyncConsistent, SyncCounted, NEW y \in Syncs,
         NEW status \in sync[y].todo, StoreStatus(status),
         UNCHANGED <<state, work, req>>
  PROVE  CountedByJobs'
<1> DEFINE k == Cardinality(ReportTypes)
<1>1. /\ Inductive /\ IsFiniteSet(Reported(state)) /\ OneOfEachWork(work)
      /\ ResourcesFit(res, state) /\ res \in [Resources -> Resource]
      /\ \A h \in Handlers : Counts(req[h], state)
  BY SyncParts, ConsistentParts, SyncCountedParts, CountedParts DEF Inductive, TypeOK
<1>2. k \in Nat /\ Len(status.conds) \in Nat /\ Len(status.conds) <= k
  <2>1. sync[y] \in SyncRequest /\ OneOfEach(status.conds)
    BY SyncParts, SyncCountedParts DEF OneOfEachStatus
  <2>2. status.conds \in Seq(Condition)
    BY <2>1 DEF SyncRequest, Resource
  <2> QED
    BY <2>1, <2>2, OneOfEachLength, ReportTypesFinite, LenProperties
<1>3. ASSUME NEW s \in Resources
      PROVE  /\ Len(res'[s].conds) <= Room(ReportedFor(s, state))
             /\ res'[s].uid # Nil => ReportedFor(s, state) # {}
  <2>1. CASE res[s].uid # status.uid
    BY <1>1, <1>3, <2>1 DEF StoreStatus, ResourcesFit
  <2>2. CASE res[s].uid = status.uid
    <3>1. /\ res'[s] = [res[s] EXCEPT !.name = status.name, !.conds = status.conds]
          /\ res[s] \in Resource
      BY <1>1, <1>3, <2>2 DEF StoreStatus
    <3>2. res'[s].conds = status.conds
      BY <3>1 DEF Resource
    <3>3. status.uid # Nil
      BY SyncParts DEF Accounts
    <3>4. ReportedFor(s, state) # {}
      BY <1>1, <1>3, <2>2, <3>3 DEF ResourcesFit
    <3>5. /\ k <= Room(ReportedFor(s, state))
          /\ Room(ReportedFor(s, state)) \in Nat
      BY <1>1, <3>4, ReportedForFinite, RoomForOne, RoomIsNat
    <3> HIDE DEF k
    <3>6. Len(res'[s].conds) <= Room(ReportedFor(s, state))
      BY <1>2, <3>2, <3>5
    <3> QED
      BY <3>4, <3>6
  <2> QED
    BY <2>1, <2>2
<1>4. ResourcesFit(res', state')
  BY <1>3 DEF ResourcesFit
<1>5. /\ IsFiniteSet(Reported(state')) /\ OneOfEachWork(work')
      /\ \A h \in Handlers : Counts(req'[h], state')
  BY <1>1
<1> QED
  BY <1>4, <1>5, PartsCounted

LEMMA StartSyncCounts ==
  ASSUME SyncConsistent, SyncCounted, NEW y \in Syncs,
         StartSync(y) \/ ReplySync(y)
  PROVE  SyncCounted'
<1>1. UNCHANGED <<state, res, work, req>>
  BY DEF StartSync, ReplySync, vars
<1>2. \E s : SyncContinue(y, s) /\ s.todo = {}
  <2> DEFINE a == [NoSync EXCEPT !.pc = "clusters", !.owed = WorksOf(SyncHub(y))]
             b == [NoSync EXCEPT !.pc = "replied"]
  <2>1. a.todo = {} /\ b.todo = {}
    BY DEF NoSync
  <2>2. SyncContinue(y, a) \/ SyncContinue(y, b)
    BY DEF StartSync, ReplySync
  <2> HIDE DEF a, b
  <2> QED
    BY <2>1, <2>2
<1> QED
  BY <1>1, <1>2, ListsCounted, OneSyncCounted DEF OneOfEachStatus

LEMMA ListClustersCounts ==
  ASSUME SyncConsistent, SyncCounted, NEW y \in Syncs, ListClusters(y)
  PROVE  SyncCounted'
<1> DEFINE s(cs) == [sync[y] EXCEPT !.pc = "resources", !.clusters = cs]
           e == [s({}) EXCEPT !.owed = {}]
<1>1. /\ SyncContinue(y, s(Clusters)) \/ SyncContinue(y, e)
      /\ UNCHANGED <<state, res, work, req>>
  BY DEF ListClusters, jmVars, hubVars
<1>2. sync[y] \in SyncRequest /\ OneOfEachStatus(sync[y])
  BY SyncParts, SyncCountedParts
<1>3. s(Clusters).todo = sync[y].todo /\ e.todo = sync[y].todo
  BY <1>2 DEF SyncRequest
<1> HIDE DEF s, e
<1> QED
  BY <1>1, <1>2, <1>3, ListsCounted, OneSyncCounted DEF OneOfEachStatus

\* The conditions listed are those of ManifestWorks.
LEMMA ListWorksCounts ==
  ASSUME SyncConsistent, SyncCounted, NEW y \in Syncs, ListWorks(y)
  PROVE  SyncCounted'
<1>1. PICK c \in sync[y].clusters :
        LET listed == [sync[y] EXCEPT !.clusters = @ \ {c}]
            ws == {w \in WorksOf(SyncHub(y)) : ClusterOf[w] = c}
        IN  \/ SyncContinue(y, [listed EXCEPT !.todo = @ \cup StatusesOf(ws)])
            \/ SyncContinue(y, [listed EXCEPT
                                  !.owed = {w \in @ : ClusterOf[w] # c}])
  BY DEF ListWorks
<1> DEFINE ws == {w \in WorksOf(SyncHub(y)) : ClusterOf[w] = c}
           l == [sync[y] EXCEPT !.clusters = @ \ {c}]
           s == [l EXCEPT !.todo = @ \cup StatusesOf(ws)]
           e == [l EXCEPT !.owed = {w \in @ : ClusterOf[w] # c}]
<1>2. /\ SyncContinue(y, s) \/ SyncContinue(y, e)
      /\ UNCHANGED <<state, res, work, req>>
  BY <1>1 DEF ListWorks, jmVars, hubVars
<1>3. /\ sync[y] \in SyncRequest /\ OneOfEachStatus(sync[y])
      /\ OneOfEachWork(work)
  BY SyncParts, SyncCountedParts, CountedParts
<1>4. l \in SyncRequest /\ l.todo = sync[y].todo
  BY <1>3 DEF SyncRequest
<1> HIDE DEF l
<1>5. \A status \in StatusesOf(ws) : OneOfEach(status.conds)
  BY <1>3 DEF OneOfEachWork, StatusesOf, WorksOf
<1> HIDE DEF ws
<1>6. s.todo = sync[y].todo \cup StatusesOf(ws) /\ e.todo = sync[y].todo
  BY <1>4 DEF SyncRequest
<1> HIDE DEF s, e
<1>7. OneOfEachStatus(s) /\ OneOfEachStatus(e)
  BY <1>3, <1>5, <1>6 DEF OneOfEachStatus
<1> QED
  BY <1>2, <1>7, ListsCounted, OneSyncCounted

LEMMA PutStatusCounts ==
  ASSUME SyncConsistent, SyncCounted, NEW y \in Syncs, PutStatus(y)
  PROVE  SyncCounted'
<1>1. PICK status \in sync[y].todo :
        LET answered == [sync[y] EXCEPT !.todo = @ \ {status},
                                        !.owed = @ \ {status.uid}]
        IN  /\ StoreStatus(status) \/ UNCHANGED res
            /\ \/ SyncContinue(y, answered)
               \/ SyncContinue(y, PutFails(sync[y], status))
  BY DEF PutStatus
<1> DEFINE a == [sync[y] EXCEPT !.todo = @ \ {status},
                                !.owed = @ \ {status.uid}]
<1>2. /\ StoreStatus(status) \/ UNCHANGED res
      /\ SyncContinue(y, a) \/ SyncContinue(y, NoSync)
      /\ UNCHANGED <<state, work, req>>
  BY <1>1 DEF PutStatus, PutFails, hubVars
<1>3. CountedByJobs'
  BY <1>2, StoreStatusCounts, ListsCounted
<1>4. sync[y] \in SyncRequest /\ OneOfEachStatus(sync[y])
  BY SyncParts, SyncCountedParts
<1>5. a.todo = sync[y].todo \ {status} /\ NoSync.todo = {}
  BY <1>4 DEF SyncRequest, NoSync
<1> HIDE DEF a
<1>6. OneOfEachStatus(a) /\ OneOfEachStatus(NoSync)
  BY <1>4, <1>5 DEF OneOfEachStatus
<1> QED
  BY <1>2, <1>3, <1>6, OneSyncCounted

LEMMA SyncCountedInit == SyncInit => SyncCounted
<1> SUFFICES ASSUME SyncInit  PROVE SyncCounted
  OBVIOUS
<1>1. CountedByJobs
  BY CountedInit DEF SyncInit
<1>2. \A y \in Syncs : sync[y].todo = {}
  BY DEF SyncInit, NoSync
<1> QED
  BY <1>1, <1>2 DEF SyncCounted

LEMMA SyncCountedStep ==
  SyncConsistent /\ SyncCounted /\ [SyncNext]_syncVars => SyncCounted'
<1> SUFFICES ASSUME SyncConsistent, SyncCounted, [SyncNext]_syncVars
             PROVE  SyncCounted'
  OBVIOUS
<1>1. ASSUME NEW y \in Syncs, StartSync(y) \/ SyncStep(y)
      PROVE  SyncCounted'
  BY <1>1, StartSyncCounts, ListClustersCounts, ListWorksCounts,
     PutStatusCounts DEF SyncStep
<1>2. ASSUME [Next]_vars, UNCHANGED sync \/ \E i : RestartSyncs(i)
      PROVE  SyncCounted'
  <2>1. CountedByJobs'
    BY <1>2, SyncParts, ConsistentParts, SyncCountedParts, CountedStep
  <2>2. \A y \in Syncs : sync'[y] = sync[y] \/ sync'[y] = NoSync
    BY <1>2 DEF RestartSyncs
  <2>3. OneOfEachStatus(NoSync)
    BY DEF OneOfEachStatus, NoSync
  <2> QED
    BY <2>1, <2>2, <2>3, SyncCountedParts, PartsSyncCounted
<1>3. CASE UNCHANGED syncVars
  BY <1>2, <1>3 DEF syncVars
<1>4. CASE SyncNext /\ \A y \in Syncs : ~StartSync(y) /\ ~SyncStep(y)
  BY <1>2, <1>4, OthersAreNext
<1> QED
  BY <1>1, <1>3, <1>4

\* Jobs, reports of the agents and syncs keep every resource within the conditions
\* of one report of each of its jobs.  It carries the next theorem.
THEOREM SyncCountedInvariant == SyncSpec => []SyncCounted
BY SyncCountedInit, SyncCountedStep, SyncInvariant, PTL DEF SyncSpec

\* However syncs and jobs overlap, conditions do not pile up: a resource never has
\* more than one condition of each type for each job reported for it.
THEOREM SyncsLetConditionsGrowByJobs == SyncSpec => []ConditionsGrowByJobs
<1>1. SyncCounted => ConditionsGrowByJobs
  BY DEF SyncCounted, CountedByJobs
<1> QED
  BY <1>1, SyncCountedInvariant, PTL
=============================================================================
