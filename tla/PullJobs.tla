------------------------------ MODULE PullJobs ------------------------------
(***************************************************************************)
(* GET /deploy-manager/execute: concurrent requests, in one or several     *)
(* instances of the service, pull executable jobs from the Job Manager,    *)
(* promote (lock) each, execute it on the hub's ManifestWorks and report   *)
(* the result.  Requests share nothing but the two stores.                 *)
(*                                                                         *)
(* A step is one call to the Job Manager or to the hub's API, taken at the *)
(* moment the store handles it, with the computation around it.            *)
(***************************************************************************)
EXTENDS ManifestOps, FiniteSets

CONSTANTS
  Jobs,        \* jobs of the Job Manager
  Resources,   \* its resources: one per deployed component
  Works,       \* names the hub API can generate for ManifestWorks
  Hubs,        \* OCM hubs; a hub's UID is the owner id of a job
  Instances,   \* instances of the service
  Handlers,    \* requests that can be in progress at the same time
  HubOf,       \* the hub of an instance
  InstanceOf,  \* the instance of a handler
  Job,         \* what each job asks for, see JobSpec
  Reports,     \* conditions the work agents may report
  MaxFaults,   \* bound: transport errors, refusals, disconnections, crashes
  MaxVersion   \* bound: the agents report on works below this version only

JobTypes == {"CreateDeployment", "DeleteDeployment", "UpdateDeployment",
             "ReplaceDeployment", "unknownJobType"}

JobSpec == [type : JobTypes, subType : RemediationTypes \cup {Nil},
            hasNode : BOOLEAN, resource : Resources \cup {Nil},
            manifests : SUBSET Manifest]

ASSUME DeploymentAssumption ==
  /\ HubOf \in [Instances -> Hubs]
  /\ InstanceOf \in [Handlers -> Instances]
  /\ Job \in [Jobs -> JobSpec]
  /\ Reports \subseteq Condition
  /\ MaxFaults \in Nat
  /\ MaxVersion \in Nat

ASSUME NilIsNothing == Nil \notin Jobs \cup Hubs \cup Works \cup Resources

VARIABLES
  owner,     \* Job Manager: owner id of each job
  refused,   \* history: jobs of which it answered a promotion without effect
  state,     \* Job Manager: state of each job
  res,       \* Job Manager: each resource, as last reported
  work,      \* hub API: the ManifestWorks
  born,      \* history: the job a ManifestWork was created for
  effected,  \* history: jobs for which a hub accepted a write
  req,       \* the request each handler serves
  faults     \* faults so far

jmVars == <<owner, refused, state, res>>
hubVars == <<work, born, effected>>
vars == <<owner, refused, state, res, work, born, effected, req, faults>>

(***************************************************************************)
(* State.                                                                  *)
(***************************************************************************)
JobStates == {"Created"} \cup States

\* models.Resource.  The name is Nil until a ManifestWork was made: it is
\* then the component's name, which no ManifestWork has.
Resource == [name : Works \cup {Nil}, uid : Works \cup {Nil},
             conds : Seq(Condition)]

\* A ManifestWork of the hub, and one in the hands of a handler.  A deletion may
\* leave it on the hub, being deleted, until the work agent has cleaned up.
ManifestWork == [hub : Hubs, rv : Nat, manifests : SUBSET Manifest,
                 conds : Seq(Condition), deleting : BOOLEAN]

Snapshot == [name : Works, rv : Nat, manifests : SUBSET Manifest,
             conds : Seq(Condition)]

\* What becomes of a job: its new state, and its resource.
Result == [state : States, res : Resource]

ASSUME NilIsNoRecord ==
  Nil \notin ManifestWork \cup Snapshot \cup Result \cup [Resources -> Resource]

\* HTTP statuses a request writes, and those with which the Job Manager may answer
\* something that is no list of jobs.
Statuses == {200, 400, 401, 422, 500, 503}

NoListStatuses == {200, 401, 500}

PCs == {"idle", "loop", "execute", "await", "update", "report", "replied"}

Request ==
  [pc      : PCs,
   jobs    : SUBSET Jobs,                        \* the jobs pulled
   todo    : SUBSET Jobs,                        \* those still to do
   view    : [Resources -> Resource] \cup {Nil}, \* their resources, as pulled
   cur     : Jobs \cup {Nil},                    \* the job in the loop
   got     : Snapshot \cup {Nil},                \* the hub's last answer
   mem     : Result \cup {Nil},                  \* the result to report
   code    : {0} \cup Statuses,                  \* HTTP status written
   updated : SUBSET Jobs,    \* history: jobs whose update was answered
   gone    : BOOLEAN]        \* r.Context() was cancelled

Idle == [pc |-> "idle", jobs |-> {}, todo |-> {}, view |-> Nil, cur |-> Nil,
         got |-> Nil, mem |-> Nil, code |-> 0, updated |-> {}, gone |-> FALSE]

Hub(h) == HubOf[InstanceOf[h]]

Executing == {"execute", "await", "update", "report"}

TypeOK ==
  /\ owner \in [Jobs -> Hubs \cup {Nil}]
  /\ refused \subseteq Jobs
  /\ state \in [Jobs -> JobStates]
  /\ res \in [Resources -> Resource]
  /\ work \in [Works -> ManifestWork \cup {Nil}]
  /\ born \in [Works -> Jobs \cup {Nil}]
  /\ effected \subseteq Jobs
  /\ req \in [Handlers -> Request]
  /\ faults \in 0..MaxFaults

Init ==
  /\ owner = [j \in Jobs |-> Nil]
  /\ refused = {}
  /\ state = [j \in Jobs |-> "Created"]
  /\ res = [r \in Resources |-> [name |-> Nil, uid |-> Nil, conds |-> <<>>]]
  /\ work = [w \in Works |-> Nil]
  /\ born = [w \in Works |-> Nil]
  /\ effected = {}
  /\ req = [h \in Handlers |-> Idle]
  /\ faults = 0

Fault == faults < MaxFaults /\ faults' = faults + 1

(***************************************************************************)
(* The Job Manager, as the service uses it.  The list is asked for by      *)
(* owner id: it holds the jobs not reported yet that are free or owned by  *)
(* the hub.  The first to promote a job becomes its owner; the answer to   *)
(* a later promotion is a refusal, which changes nothing.  It may also     *)
(* answer a promotion, or the list, with an error: not authorised, unknown *)
(* to it, out of order.  That counts as a fault.                           *)
(***************************************************************************)
Executable(hub) ==
  {j \in Jobs : state[j] = "Created" /\ owner[j] \in {Nil, hub}}

Promoted(j, hub) ==
  IF owner[j] = Nil THEN [owner EXCEPT ![j] = hub] ELSE owner

(***************************************************************************)
(* The hub's API server: names are fresh, an update carrying a resource    *)
(* version is refused unless that version is current, and an update that   *)
(* changes nothing keeps the version.  A deletion is accepted at once; the *)
(* ManifestWork is gone when no finalizer of the work agent is on it, and  *)
(* otherwise stays to be read and updated until the agent removes it.      *)
(***************************************************************************)
Found(name, h) ==
  name \in Works /\ work[name] # Nil /\ work[name].hub = Hub(h)

Accepts(w, version) == version \in {Nil, work[w].rv}

Get(w) == [name |-> w, rv |-> work[w].rv, manifests |-> work[w].manifests,
           conds |-> work[w].conds]

(***************************************************************************)
(* What becomes of a request r when a call ends.                           *)
(***************************************************************************)
\* Only the first WriteHeader of a response counts.
WriteHeader(code, status) == IF code = 0 THEN status ELSE code

NextJob(r) ==
  [r EXCEPT !.pc = "loop", !.cur = Nil, !.got = Nil, !.mem = Nil]

\* Mutant: the error of PromoteJob is written, but the loop goes on.
PromoteError_NoContinue(r, j) ==
  [r EXCEPT !.pc = "execute", !.cur = j, !.todo = @ \ {j},
            !.code = WriteHeader(@, 422)]

PromoteError(r, j) ==
  [r EXCEPT !.todo = @ \ {j}, !.code = WriteHeader(@, 422)]

\* Mutant: the error of Execute is written, but the job is still reported.
ExecuteError_NoContinue(r) ==
  [r EXCEPT !.pc = "report", !.code = WriteHeader(@, 422),
            !.mem = [state |-> "Degraded",
                     res |-> r.view[Job[r.cur].resource]]]

\* The Degraded state set in memory is dropped: the job is not reported.
ExecuteError(r) == [NextJob(r) EXCEPT !.code = WriteHeader(@, 422)]

\* Mutant: the failed update of the job is logged only.
UpdateError_LogOnly(r) == NextJob(r)

UpdateError(r) == [NextJob(r) EXCEPT !.code = WriteHeader(@, 503)]

\* Mutant: the conditions are appended on success and again on the update.
UpdateJobResource_Twice(old, mw) ==
  [state |-> IF mw.conds # <<>> THEN StateMapper(mw.conds) ELSE "Progressing",
   res   |-> [name |-> mw.name, uid |-> mw.name,
              conds |-> old.conds \o mw.conds \o mw.conds]]

UpdateJobResource(old, mw) ==
  [state |-> IF mw.conds # <<>> THEN StateMapper(mw.conds) ELSE "Progressing",
   res   |-> [name |-> mw.name, uid |-> mw.name,
              conds |-> old.conds \o mw.conds]]

Continue(h, r) == req' = [req EXCEPT ![h] = r]

\* The call took effect; its answer arrives or is lost.
AnsweredOrLost(h, r) ==
  \/ Continue(h, r) /\ UNCHANGED faults
  \/ Continue(h, ExecuteError(req[h])) /\ Fault

(***************************************************************************)
(* The actions of PullJobs and executeJobs.                                *)
(***************************************************************************)
\* The list is decoded, whatever the status it came with.
Pull(h) ==
  /\ req[h].pc \in {"idle", "replied"}
  /\ LET js == Executable(Hub(h))
     IN  Continue(h, [Idle EXCEPT !.pc = "loop", !.jobs = js, !.todo = js,
                                  !.view = res])
  /\ UNCHANGED <<jmVars, hubVars, faults>>

\* There is no list: the UID of the ClusterManager does not parse (500), the list
\* cannot be asked for (422, 503) or read (400), or is none, which is answered with
\* the Job Manager's own status.  No job is executed.  Without the ClusterManager
\* itself the request panics.
PullFails(h) ==
  /\ req[h].pc \in {"idle", "replied"}
  /\ \/ \E status \in {400, 422, 500, 503} \cup NoListStatuses :
          Continue(h, [Idle EXCEPT !.pc = "replied", !.code = status])
     \/ Continue(h, Idle)
  /\ Fault
  /\ UNCHANGED <<jmVars, hubVars>>

Skip(h) ==
  \E j \in req[h].todo :
    /\ req[h].pc = "loop"
    /\ ~Job[j].hasNode
    /\ Continue(h, [req[h] EXCEPT !.todo = @ \ {j}])
    /\ UNCHANGED <<jmVars, hubVars, faults>>

\* PromoteJob looks at the transport error only: whatever the status of the
\* answer, and whoever owns the job now, if anyone does, the job is executed.
Promote(h) ==
  \E j \in req[h].todo :
    /\ req[h].pc = "loop"
    /\ Job[j].hasNode
    /\ LET answered == [req[h] EXCEPT !.pc = "execute", !.cur = j,
                                      !.todo = @ \ {j}]
       IN  \/ /\ owner' = Promoted(j, Hub(h))
              /\ Continue(h, answered)
              /\ UNCHANGED <<refused, faults>>
           \/ /\ owner[j] = Nil
              /\ refused' = refused \cup {j}
              /\ Continue(h, answered)
              /\ Fault
              /\ UNCHANGED owner
           \/ /\ owner' \in {owner, Promoted(j, Hub(h))}
              /\ Continue(h, PromoteError(req[h], j))
              /\ Fault
              /\ UNCHANGED refused
    /\ UNCHANGED <<state, res, hubVars>>

(***************************************************************************)
(* The actions of Execute.  The job being executed, its resource as it was *)
(* when the job was pulled, and what the job asks for:                     *)
(***************************************************************************)
Asks(h) == Job[req[h].cur]

View(h) == req[h].view[Asks(h).resource]

IsScaling(spec) ==
  spec.type = "UpdateDeployment" /\ spec.subType \in ScaleTypes

IsDeletion(spec) ==
  \/ spec.type = "DeleteDeployment"
  \/ spec.type = "UpdateDeployment" /\ spec.subType = "reallocation"

IsSupported(spec) ==
  \/ spec.type \in {"CreateDeployment", "ReplaceDeployment"}
  \/ IsScaling(spec)
  \/ IsDeletion(spec)

At(h, pc) == req[h].pc = pc

\* Asked to execute a job whose resource is there to be dereferenced.
Executes(h, spec) == At(h, "execute") /\ spec.resource # Nil

\* createManifestWork; the bound on names shows as an error of the API.  The hub
\* gives each ManifestWork a UID, so the code goes on to wait for the agents.
CreateManifestWork(h) ==
  /\ Executes(h, Asks(h))
  /\ Asks(h).type = "CreateDeployment"
  /\ ~ExitsProcess(Asks(h).manifests)
  /\ UNCHANGED jmVars
  /\ \/ \E w \in Works :
          /\ born[w] = Nil
          /\ LET mw == [hub |-> Hub(h), rv |-> 1, conds |-> <<>>,
                        deleting |-> FALSE,
                        manifests |-> GenerateManifests(Asks(h).manifests)]
             IN  /\ work' = [work EXCEPT ![w] = mw]
                 /\ AnsweredOrLost(h, [req[h] EXCEPT !.pc = "await",
                      !.got = [name |-> w, rv |-> mw.rv,
                               manifests |-> mw.manifests, conds |-> <<>>]])
          /\ born' = [born EXCEPT ![w] = req[h].cur]
          /\ effected' = effected \cup {req[h].cur}
     \/ /\ Nil \notin {born[w] : w \in Works}
        /\ Continue(h, ExecuteError(req[h]))
        /\ UNCHANGED <<hubVars, faults>>

\* Mutant: the poll looks at the ManifestWorks of the namespace, not at the one
\* that was created.
Polled_Namespace(h) == {w \in Works : Found(w, h)}

Polled(h) == {w \in Works : w = req[h].got.name /\ Found(w, h)}

\* waitForAppliedManifestWork: a poll finds conditions, whatever they say.
AwaitApplied(h) ==
  /\ At(h, "await")
  /\ \E w \in Polled(h) :
       /\ work[w].conds # <<>>
       /\ Continue(h, [req[h] EXCEPT !.pc = "report",
                         !.mem = UpdateJobResource(View(h), Get(w))])
  /\ UNCHANGED <<jmVars, hubVars, faults>>

\* Mutant: the context has no deadline.
AwaitTimeout_Never(h) == FALSE /\ UNCHANGED vars

\* The 5 s are over; the ManifestWork stays on the hub.
AwaitTimeout(h) ==
  /\ At(h, "await")
  /\ Continue(h, ExecuteError(req[h]))
  /\ UNCHANGED <<jmVars, hubVars, faults>>

\* The first call of updateDeploymentAttributes and of replaceDeployment.
FetchManifestWork(h) ==
  /\ Executes(h, Asks(h))
  /\ IsScaling(Asks(h)) \/ Asks(h).type = "ReplaceDeployment"
  /\ LET name == View(h).name
     IN  Continue(h, IF Found(name, h)
                     THEN [req[h] EXCEPT !.pc = "update", !.got = Get(name)]
                     ELSE ExecuteError(req[h]))
  /\ UNCHANGED <<jmVars, hubVars, faults>>

Updated(spec, manifests) ==
  IF IsScaling(spec) THEN RemediateManifests(manifests, spec.subType)
                     ELSE ReplaceManifests(spec.manifests)

UpdatePanics(spec, manifests) ==
  IsScaling(spec) /\ RemediationPanics(manifests, spec.subType)

UpdateExits(spec) == ~IsScaling(spec) /\ ExitsProcess(spec.manifests)

\* Mutant: the update is sent without the version that was read.
SentVersion_None(mw) == Nil

SentVersion(mw) == mw.rv

\* The second call: the payload computed from what was read is sent back
\* with the version that was read.
Update(h) ==
  /\ At(h, "update")
  /\ ~UpdatePanics(Asks(h), req[h].got.manifests)
  /\ ~UpdateExits(Asks(h))
  /\ UNCHANGED <<jmVars, born>>
  /\ LET w == req[h].got.name
         new == Updated(Asks(h), req[h].got.manifests)
         accepted == Found(w, h) /\ Accepts(w, SentVersion(req[h].got))
     IN  \/ /\ accepted
            /\ work' = [work EXCEPT ![w].manifests = new,
                       ![w].rv = IF new = work[w].manifests THEN @ ELSE @ + 1]
            /\ effected' = effected \cup {req[h].cur}
            /\ AnsweredOrLost(h, [req[h] EXCEPT !.pc = "report",
                                  !.mem = UpdateJobResource(View(h), Get(w))])
         \/ /\ ~accepted
            /\ Continue(h, ExecuteError(req[h]))
            /\ UNCHANGED <<work, effected, faults>>

\* What is on the hub after it accepted the deletion of w.
Deleted(w) ==
  {Nil, IF work[w].deleting THEN work[w]
        ELSE [work[w] EXCEPT !.deleting = TRUE, !.rv = @ + 1]}

\* deleteDeployment, for a deletion and for a reallocation: the job is reported
\* as soon as the deletion is accepted, with the resource it came with.
Delete(h) ==
  /\ Executes(h, Asks(h))
  /\ IsDeletion(Asks(h))
  /\ UNCHANGED <<jmVars, born>>
  /\ LET w == View(h).name
     IN  \/ /\ Found(w, h)
            /\ \E left \in Deleted(w) : work' = [work EXCEPT ![w] = left]
            /\ effected' = effected \cup {req[h].cur}
            /\ AnsweredOrLost(h, [req[h] EXCEPT !.pc = "report",
                            !.mem = [state |-> "Applied", res |-> View(h)]])
         \/ /\ ~Found(w, h)
            /\ Continue(h, ExecuteError(req[h]))
            /\ UNCHANGED <<work, effected, faults>>

Unsupported(h) ==
  /\ At(h, "execute")
  /\ ~IsSupported(Asks(h))
  /\ Continue(h, ExecuteError(req[h]))
  /\ UNCHANGED <<jmVars, hubVars, faults>>

\* A call to the hub fails and had no effect.
CallFails(h) ==
  /\ \/ Executes(h, Asks(h)) /\ IsSupported(Asks(h))
     \/ At(h, "update")
  /\ Continue(h, ExecuteError(req[h]))
  /\ Fault
  /\ UNCHANGED <<jmVars, hubVars>>

\* net/http recovers: the connection is closed, the rest of the jobs is lost.
Panics(h) ==
  /\ \/ /\ At(h, "execute")
        /\ IsSupported(Asks(h))
        /\ Asks(h).resource = Nil
     \/ /\ At(h, "update")
        /\ UpdatePanics(Asks(h), req[h].got.manifests)
  /\ Continue(h, Idle)
  /\ UNCHANGED <<jmVars, hubVars, faults>>

\* The process ends, with all its requests, and is started again.
Restart(i) ==
  req' = [h \in Handlers |-> IF InstanceOf[h] = i THEN Idle ELSE req[h]]

\* logger.Fatalf in updateNamespaceAndAnnotations.
Exits(h) ==
  /\ \/ /\ Executes(h, Asks(h))
        /\ Asks(h).type = "CreateDeployment"
        /\ ExitsProcess(Asks(h).manifests)
     \/ At(h, "update") /\ UpdateExits(Asks(h))
  /\ Restart(InstanceOf[h])
  /\ UNCHANGED <<jmVars, hubVars, faults>>

(***************************************************************************)
(* updateJob: the only call bound to the client's request.  The status of  *)
(* the answer is not looked at.                                            *)
(***************************************************************************)
Store(h) ==
  /\ state' = [state EXCEPT ![req[h].cur] = req[h].mem.state]
  /\ res' = [res EXCEPT ![Asks(h).resource] = req[h].mem.res]

Report(h) ==
  /\ At(h, "report")
  /\ UNCHANGED <<owner, refused, hubVars>>
  /\ LET answered == [NextJob(req[h]) EXCEPT !.updated = @ \cup {req[h].cur}]
     IN  \/ /\ ~req[h].gone
            /\ Store(h)
            /\ Continue(h, answered)
            /\ UNCHANGED faults
         \/ /\ ~req[h].gone
            /\ Continue(h, answered)
            /\ Fault
            /\ UNCHANGED <<state, res>>
         \/ /\ ~req[h].gone
            /\ Store(h) \/ UNCHANGED <<state, res>>
            /\ Continue(h, UpdateError(req[h]))
            /\ Fault
         \/ /\ req[h].gone
            /\ Continue(h, UpdateError(req[h]))
            /\ UNCHANGED <<state, res, faults>>

Reply(h) ==
  /\ At(h, "loop")
  /\ req[h].todo = {}
  /\ Continue(h, [req[h] EXCEPT !.pc = "replied", !.view = Nil,
                                !.code = WriteHeader(@, 200)])
  /\ UNCHANGED <<jmVars, hubVars, faults>>

(***************************************************************************)
(* The surroundings.                                                       *)
(***************************************************************************)
Busy(h) == req[h].pc \notin {"idle", "replied"}

ClientGone(h) ==
  /\ Busy(h)
  /\ ~req[h].gone
  /\ Continue(h, [req[h] EXCEPT !.gone = TRUE])
  /\ Fault
  /\ UNCHANGED <<jmVars, hubVars>>

Crash(i) ==
  /\ Restart(i)
  /\ Fault
  /\ UNCHANGED <<jmVars, hubVars>>

\* A condition replaces the one of its type, or is added at the end.
SetCondition(conds, c) ==
  IF \E k \in DOMAIN conds : conds[k].type = c.type
  THEN [k \in DOMAIN conds |-> IF conds[k].type = c.type THEN c ELSE conds[k]]
  ELSE Append(conds, c)

AgentStatus(w) ==
  /\ work[w] # Nil
  /\ work[w].rv < MaxVersion
  /\ \E c \in Reports :
       LET conds == SetCondition(work[w].conds, c)
       IN  /\ conds # work[w].conds
           /\ work' = [work EXCEPT ![w].conds = conds, ![w].rv = @ + 1]
  /\ UNCHANGED <<jmVars, born, effected, req, faults>>

\* The work agent has cleaned up and removes its finalizer.
AgentRemoves(w) ==
  /\ work[w] # Nil
  /\ work[w].deleting
  /\ work' = [work EXCEPT ![w] = Nil]
  /\ UNCHANGED <<jmVars, born, effected, req, faults>>

\* The steps of a request that leave its process running.
Runs(h) ==
  \/ Skip(h) \/ Promote(h)
  \/ CreateManifestWork(h) \/ AwaitApplied(h) \/ AwaitTimeout(h)
  \/ FetchManifestWork(h) \/ Update(h) \/ Delete(h) \/ Unsupported(h)
  \/ CallFails(h) \/ Panics(h)
  \/ Report(h) \/ Reply(h)

Step(h) == Runs(h) \/ Exits(h)

Next ==
  \/ \E h \in Handlers : Pull(h) \/ PullFails(h) \/ Step(h) \/ ClientGone(h)
  \/ \E i \in Instances : Crash(i)
  \/ \E w \in Works : AgentStatus(w) \/ AgentRemoves(w)

Fairness == \A h \in Handlers : WF_vars(Step(h))

Spec == Init /\ [][Next]_vars /\ Fairness

(***************************************************************************)
(* Safety.                                                                 *)
(***************************************************************************)
\* A job that some handler executes, or that has reached a hub, has an owner, unless
\* the Job Manager answered a promotion of it without effect (job.go:735): no other
\* failure of a promotion, before or after its effect, lets a job go on unowned.
LockedUnlessRefused ==
  \A j \in Jobs \ refused :
    \/ j \in effected
    \/ \E h \in Handlers : req[h].pc \in Executing /\ req[h].cur = j
    => owner[j] # Nil

\* The Job Manager never sends a resource to a ManifestWork that was made for
\* another one, and never knows a ManifestWork by its UID but not by its name:
\* scaling, replacing and deleting go by the name.
ResourceIsOwnWork ==
  \A r \in Resources :
    res[r].uid # Nil =>
      /\ res[r].name = res[r].uid
      /\ born[res[r].name] # Nil
      /\ Job[born[res[r].name]].resource = r

\* A handler reports a job only after a hub has accepted a write for it, and with
\* the name of a ManifestWork: no error path of Execute leads to updateJob.
ReportsExistingWork ==
  \A h \in Handlers :
    At(h, "report") => /\ req[h].mem.res.name # Nil
                      /\ req[h].cur \in effected

\* Once the list of jobs was decoded, a response of status 200 means that the update
\* of every job in it with a node was answered: each error in the loop writes its
\* status, and that before the 200.  A list that is not decoded has no jobs here; it
\* is answered with the Job Manager's status, a 200 included (job_controller.go:85).
SuccessMeansAllUpdated ==
  \A h \in Handlers :
    req[h].pc = "replied" /\ req[h].code = 200 =>
      \A j \in req[h].jobs : Job[j].hasNode => j \in req[h].updated

\* The jobs reported for a resource, and the conditions there is room for after
\* one report of each of some jobs: one condition of each type.
Recorded(r) == {j \in Jobs : Job[j].resource = r /\ state[j] # "Created"}

Room(js) == Cardinality({c.type : c \in Reports}) * Cardinality(js)

\* The conditions of a resource grow with each job reported for it, and never more:
\* by one condition of each type.  Requests that execute the same job, or report a
\* job again after a failure, do not add its conditions twice.
ConditionsGrowByJobs ==
  \A r \in Resources : Len(res[r].conds) <= Room(Recorded(r))

\* In the step in which a handler gets its update accepted the hub still has the
\* payload that was read two calls ago, and gets what the job makes of it: neither a
\* scaling nor a replacement overwrites what another request has written meanwhile.
AtomicUpdate ==
  [][\A h \in Handlers :
       At(h, "update") /\ At(h, "report")' =>
         LET w == req[h].got.name
         IN  /\ work[w].manifests = req[h].got.manifests
             /\ work'[w].manifests = Updated(Asks(h), work[w].manifests)]_vars

\* A ManifestWork that is gone, or stays on its hub only until the agent removes it.
Leaving(w) == IF work[w] = Nil THEN TRUE ELSE work[w].deleting

\* The result of a deletion is recorded only when the ManifestWork its resource
\* named is gone or leaving, whichever request has deleted it, and however many
\* calls failed or were repeated before.
RecordedDeleteHolds ==
  [][\A h \in Handlers :
       At(h, "report") /\ IsDeletion(Asks(h)) /\ ~At(h, "report")'
         /\ state'[req[h].cur] # state[req[h].cur] =>
           LET name == req[h].mem.res.name
           IN  name # Nil /\ Leaving(name)]_vars

\* Whatever the interleaving and the faults, each job goes through the life of
\* JobLifecycle: owned once, touched on the hub only when owned or when its
\* promotion was answered without effect, recorded only when touched, never undone.
Lifecycle ==
  INSTANCE JobLifecycle WITH reported <- {j \in Jobs : state[j] # "Created"}

ImplementsLifecycle == Lifecycle!Spec

(***************************************************************************)
(* What keeps the invariants above: a request holds what its next call     *)
(* needs, and a ManifestWork in its hands belongs to the job it executes.  *)
(***************************************************************************)
Coherent(r) ==
  /\ r.pc \in Executing \cup {"loop"} => r.view # Nil
  /\ r.pc \in Executing => r.cur # Nil
  /\ r.pc \in {"await", "update", "report"} => Job[r.cur].resource # Nil
  /\ r.pc \in {"await", "update"} => r.got # Nil
  /\ r.pc = "report" => r.mem # Nil

\* The inductive invariant: no handler executes what it has not promoted, awaits
\* what it has not created, or reports what it has not done.
Inductive ==
  /\ TypeOK
  /\ \A h \in Handlers : Coherent(req[h])
  /\ LockedUnlessRefused
  /\ ReportsExistingWork
  /\ \A h \in Handlers : At(h, "await") => req[h].cur \in effected

\* A resource names no ManifestWork, or one made for it.
NamesOwn(r, resource) ==
  /\ resource.name = resource.uid
  /\ resource.name # Nil => /\ born[resource.name] # Nil
                            /\ Job[born[resource.name]].resource = r

\* What a request holds of its job's resource and ManifestWork is the job's own,
\* and as old as its version says.
HoldsOwn(r) ==
  /\ r.view # Nil => \A s \in Resources : NamesOwn(s, r.view[s])
  /\ r.pc \in {"await", "update"} =>
       /\ ~IsDeletion(Job[r.cur])
       /\ born[r.got.name] # Nil
       /\ Job[born[r.got.name]].resource = Job[r.cur].resource
  /\ r.pc = "update" /\ work[r.got.name] # Nil =>
       /\ r.got.rv <= work[r.got.name].rv
       /\ r.got.rv = work[r.got.name].rv =>
            r.got.manifests = work[r.got.name].manifests
  /\ r.pc = "report" =>
       /\ NamesOwn(Job[r.cur].resource, r.mem.res)
       /\ IsDeletion(Job[r.cur]) => Leaving(r.mem.res.name)

\* As long as no error was written, each job but those still to do has had its
\* update answered.
Settled(r) ==
  /\ r.pc = "loop" => r.cur = Nil
  /\ r.code = 200 => r.pc = "replied"
  /\ r.pc # "idle" /\ r.code \in {0, 200} =>
       \A j \in r.jobs : Job[j].hasNode =>
         \/ j \in r.updated
         \/ r.pc # "replied" /\ j \in r.todo \cup {r.cur}

\* The inductive invariant of the properties about ManifestWorks and answers.
Consistent ==
  /\ Inductive
  /\ \A w \in Works : work[w] # Nil => born[w] # Nil
  /\ \A r \in Resources : NamesOwn(r, res[r])
  /\ \A h \in Handlers : HoldsOwn(req[h]) /\ Settled(req[h])

\* A ManifestWork has one condition of a type.
OneOfEach(conds) ==
  /\ \A k \in DOMAIN conds : \E c \in Reports : conds[k].type = c.type
  /\ \A k, l \in DOMAIN conds : conds[k].type = conds[l].type => k = l

\* The jobs a request has pulled were not reported by then, so what it holds of a
\* resource has conditions of other jobs only; its result adds one of each type.
RoomLeft(r) ==
  /\ r.todo \subseteq r.jobs
  /\ r.cur # Nil => r.cur \in r.jobs
  /\ r.view # Nil =>
       \A s \in Resources : Len(r.view[s].conds) <= Room(Recorded(s) \ r.jobs)
  /\ r.pc = "report" =>
       Len(r.mem.res.conds)
         <= Room((Recorded(Job[r.cur].resource) \ r.jobs) \cup {r.cur})

\* With Inductive, the inductive invariant of ConditionsGrowByJobs.
CountedByJobs ==
  /\ IsFiniteSet({j \in Jobs : state[j] # "Created"})
  /\ \A w \in Works : work[w] # Nil => OneOfEach(work[w].conds)
  /\ \A r \in Resources : res[r].uid # Nil => Recorded(r) # {}
  /\ ConditionsGrowByJobs
  /\ \A h \in Handlers : RoomLeft(req[h])

(***************************************************************************)
(* Liveness.                                                               *)
(***************************************************************************)
\* Every request is answered, or dies with its process or its panic: no job in
\* the batch, failing call or silent agent can hold it up for ever.
HandlerTerminates == \A h \in Handlers : Busy(h) ~> ~Busy(h)
=============================================================================
