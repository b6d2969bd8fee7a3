# Formal models of the OCM Description Service

The OCM Description Service sits between the ICOS Job Manager and an Open Cluster
Management (OCM) hub. On request it pulls the jobs that are ready, turns each into a
call on the hub's `ManifestWork`s (create, remediate, replace, delete) and reports the
outcome. This directory holds TLA+ models of that program, the TLC configurations that
check them, and theorems that TLAPS checks. Paths below are relative to the repository;
`job.go` is `ocm-description-service/models/job.go`, `job_controller.go` is
`ocm-description-service/controllers/job_controller.go`; `resource_controller.go`, `base.go`
and `routes.go` are beside it, `resource.go` beside `job.go`.

## 1. Inventory

### Components, their state and operations

| Component | State | Operations | Here |
|---|---|---|---|
| Pulling and executing jobs (`job_controller.go`, `job.go`) | none between requests; per request: the jobs pulled with their resources, the position in the loop, the object last read from the hub, the HTTP status already written | `PullJobs`, `getExecutableJobs`, `executeJobs`, `PromoteJob`, `Execute` (create, update, delete, replace), `UpdateJobResource`, `updateJob` | `PullJobs.tla` |
| Payload of a ManifestWork (`job.go:404-667`, `739-754`) | the manifests of a ManifestWork, in the hub | `GenerateManifestWork`, `replaceDeployment`, `updateDeploymentAttributes` with its helpers, `StateMapper` | `ManifestOps.tla`, `Payload.tla`, `Workload.tla` |
| Job Manager (external) | jobs with owner, state, resource | list of executable jobs, promote, update | part of `PullJobs.tla` |
| Hub API and work agents (external) | `ManifestWork`s with version, manifests, conditions | create, get, update, delete; an agent sets conditions | part of `PullJobs.tla` |
| Resource synchronisation (`resource_controller.go:101-142`, `resource.go:132-171`) | per request: the clusters still to list, the statuses still to send | `StartSyncUp`: list all ManifestWorks, PUT each status | `SyncUp.tla` |
| Resource status (`resource_controller.go:52-88`, `resource.go:78-90`) | none | `GetResourceStatus`: one read and a comparison | `ResourceStatus` in `SyncUp.tla` |
| Server (`base.go:41-79`, `server.go:37-43`) | main and listener goroutines, the signal channel | start, listen, interrupt, return | `Server.tla` |
| Kubernetes clients (`job.go:58-62`, `174-217`) | four package-level clients and the flag `kubeconfig` | `InClusterConfig` on each request | `Server.tla` |
| Routes, middlewares, health and home (`routes.go`) | none | dispatch | which route uses which client, in `Server.tla` |
| Unused helpers of `resource.go`, logs, error formatting, generated API docs, Helm and Kubernetes descriptors | none, or configuration | | not modelled |

### How they interact

A request `GET /deploy-manager/execute` reads the hub's UID (the owner id), gets from
the Job Manager the jobs executable for that owner, and goes through them one by one:
`PATCH promote`, then one to many calls to the hub API, then `PUT jobs` with the new
state and resource. net/http serves each request in a goroutine of its own, nothing in
the program serialises them, and the deployment descriptors allow several instances
(`ocm-descriptor/values.yaml`: up to 100). So all coordination goes through the two
stores: the promotion in the Job Manager and the resource versions of the hub. The sync
endpoint, called by a sidecar, writes resource statuses to the same Job Manager, and the
status endpoint reads from the hub what the Job Manager asks about. Inside a process all
requests share the four client variables, which each of them assigns anew before use.

### What is hard about it

* Every step of a job is a remote call; each can fail, take effect without its answer
  arriving, or be refused with a status the code does not look at.
* Requests interleave at every call; the resource a request works with was read when
  the list was pulled.
* A failure is turned into an HTTP status and a `continue`; what was done on the hub
  stays, and the job stays to be pulled again.
* A panic ends a request, `logger.Fatalf` ends a process, in the middle of a batch.
* The wait for the agents ends with a timeout of 5 s; the client may give up before.
* A sync sends statuses it listed earlier: meanwhile jobs and other syncs, of other
  instances too, write the same resources, and ManifestWorks come and go. A failing PUT
  panics in the middle of the list.
* The clients are assigned without synchronisation, one after another, and a failed
  configuration leaves nil for the others; the process may end at any step.
* Payloads are written by one job and rewritten by later ones, with integers of fixed
  width and loops that leave manifests out.

`PROJECT.json` lists these hazards one by one, with the line where each bites and the
properties that cover it.

### What makes each component correct

* Pulling and executing: the hub is touched for a job only after its promotion was answered,
  and unowned only when that answer had no effect; a result is recorded only for a job that
  had its effect; a resource always names its own ManifestWork; accepted updates never lose
  one another; a deletion is recorded only when it was accepted; a response 200 for a list of
  jobs hides no failure; and every request ends.
* Payload: what is written can be read back, scalings add up, and requests never
  become negative, whatever the order of jobs.
* Sync and status: a sync keeps names, UIDs and conditions of ManifestWorks together; one
  that replies has left out nothing it could list; syncs that come again and again bring
  the Job Manager to what the hub says; the status of a stored resource can be asked for.
* Server and clients: a request that is served has its clients, and inside of a cluster no
  failure outlives the request or the process it strikes.

## 2. Modules

| Module | What it is |
|---|---|
| `ManifestOps` | pure operators on payloads and conditions, shared by all |
| `JobLifecycle` | abstract: the life of a job, as promised to the Job Manager |
| `PullJobs` | the service: requests, the two stores, faults |
| `MCPullJobs` | job mixes and deployments for TLC |
| `PullJobsClaims` | what the docs say of `PullJobs` and the code does not do |
| `Payload` | abstract: the life of one payload, as a set of manifests |
| `Workload` | the code's loops over slices, implementing `Payload` |
| `MCPayload`, `MCWorkload` | instances for TLC |
| `PayloadClaims` | what the docs say of payloads and the code does not do |
| `SyncUp` | syncs and status requests, composed with `PullJobs` on the two stores |
| `Server` | the process around the handlers, and the clients they share |
| `MCSyncUp`, `MCServer` | instances for TLC |
| `ManifestOpsProofs`, `PayloadProofs`, `WorkloadProofs` | theorems about payloads: the operators; sets; slices of any length |
| `PullJobsProofs`, `ConsistencyProofs`, `ConditionsProofs` | theorems about `PullJobs`: the life of a job; resources, versions and results; the conditions of a resource |
| `SyncUpProofs`, `ServerProofs` | theorems about `SyncUp` and `Server` |

`PullJobs` uses the operators of `ManifestOps` for the manifests it creates and updates,
and instantiates `JobLifecycle`, which it implements, with the refinement mapping
`reported <- {j \in Jobs : state[j] # "Created"}`. `Workload` instantiates `Payload` with
each slice mapped to the set of its manifests. `SyncUp` extends `PullJobs`: its next-state
relation takes every action of `PullJobs` as it is, beside those of the syncs.

### PullJobs and the code

A step is one call to a store, at the moment the store handles it, with the local
computation around it: the code shares no memory between requests that matters here,
so interleavings inside such a step make no difference.

| Model | Code |
|---|---|
| `owner`, `state`, `res` | the Job Manager's record of each job and resource |
| `work` | the hub's ManifestWorks, with `resourceVersion`, manifests, conditions and whether they are being deleted |
| `req[h]` | one request in progress: the local variables of `PullJobs` and what they call |
| `born`, `effected`, `refused`, `req[h].updated` | history, read by properties only (`born` also keeps generated names fresh); `refused` has the jobs of which a promotion was answered without effect |
| `Pull` | `PullJobs` up to the list of jobs, `job_controller.go:53-111` |
| `PullFails` | its errors, each with the status it writes, `job_controller.go:61-87`, `97-108`, and the panic at `job.go:688` |
| `Skip`, `Promote` | the guard on the node and `PromoteJob`, `job_controller.go:118-128`, `job.go:702-737`: answered and the job owned, answered without effect, or failed with or without effect |
| `CreateManifestWork`, `AwaitApplied` with `Polled`, `AwaitTimeout` | `createAndApplyManifestWork`, `job.go:249-281`, `355-403` |
| `FetchManifestWork`, `Update` | the read and the write of `updateDeploymentAttributes` (`job.go:476-552`) and of `replaceDeployment` (`284-321`) |
| `Delete` | `deleteDeployment`, also for a reallocation, `job.go:331-352`; what is left on the hub is in `Deleted` |
| `Unsupported` | the default cases of `Execute` and `updateDeployment` |
| `CallFails` | an error of any of the hub calls, without effect |
| `Panics`, `Exits` | nil dereferences and the index 1 (`job.go:529`, `583`, ...); `logger.Fatalf` (`558`) |
| `Report`, `Reply` | `updateJob`, `job_controller.go:149-174`, and the final status, `90` |
| `ClientGone`, `Crash`, `AgentStatus`, `AgentRemoves` | the surroundings |

An error of `Execute` (`ExecuteError`) loses the state `Degraded` that was set on the job
in memory: `executeJobs` does not report such a job. The job stays `Created` and is
pulled again. The HTTP status is the first one written (`WriteHeader`).

### What is assumed of the Job Manager and the hub

Neither is in the repository; the model takes from the code how they are used.

* The list for an owner id holds the jobs not reported yet that are free or owned by that id.
  The first to promote becomes the owner, a later promotion by another changes nothing. It may
  also answer a promotion with an error and leave the job without an owner: the service executes
  the job all the same. An update stores state and resource without a condition. Jobs of one
  component share its resource; `Job[j].resource = Nil` is a job without one.
* Jobs come in any order, also a scaling before its deployment: nothing in the service
  orders them.
* What it answers in place of the list may have any status, 200 included, and is then no list
  of jobs (`NoListStatuses`). A refusal that the code would treat as success counts as a fault
  and has no effect.
* The hub generates fresh names, so a name stands for the UID as well, and gives each
  ManifestWork a UID: the branch of `createAndApplyManifestWork` for an empty UID
  (`job.go:263`) is left out. The target cluster is left out: a resource stays on one cluster.
* A deletion that is accepted removes the ManifestWork at once, or leaves it being deleted, with
  a new version, until the work agent has cleaned up and removes its finalizer. Until then it
  can be read, updated, deleted again, listed and reported on. The code does not wait for it.
* An update is refused unless its version is current; one that changes nothing keeps the
  version.
* Agents report any of the `Reports` conditions on a ManifestWork, at any time.

### Payloads

A manifest is its identity, its kind (`Namespace`, `Deployment`, another object of
`apps/v1` or `core/v1`, a list of these groups, a kind the scheme lacks), its replicas
and the requests of container 0. Names of namespaces, annotations and YAML are left out:
they do not influence any branch. A Deployment is taken to have a container. Errors of
`json.Marshal` and of the Namespace template on values that always encode are left out.

`Payload` and `PullJobs` treat a payload as a set. `Workload` has the loops as they are:
the iteration that stops at a nil pointer, appends, or leaves out; the index 1 of the log
line, which panics for a payload without Deployments. Each loop is a recursive function of the
number of iterations (`Decoding`, `Updating`). It is checked, and proved for slices of any
length, to implement `Payload` and to refuse exactly what `RemediationPanics` says.

### SyncUp and the code

| Model | Code |
|---|---|
| `sync[y]` | one call of `StartSyncUp` in progress: clusters still to list, statuses still to send |
| `sync[y].owed` | history: the ManifestWorks there at the start, not sent, that no failed list left out |
| `StartSync` | the request arrives, `resource_controller.go:101-106` |
| `ListClusters` | `ManagedClusters().List`, `resource.go:146-149` |
| `ListWorks` | `ListManifestWork` for one cluster, and the resources made from it, `resource.go:150-170` |
| `PutStatus` | one round of the loop, `resource_controller.go:111-140` |
| `ReplySync` | the 200 at the end, `resource_controller.go:141` |
| `ResourceStatus`, `GetManifestWork` | `GetResourceStatus` and the read it makes |
| `RequestStep`, `RestartSyncs` | a step of `PullJobs`; one that ends its process ends its syncs |

Assumed of what is not in the repository: the Job Manager keys `PUT resources/status` by
`resource_uuid`, replaces name and conditions of that resource, and refuses a UID it does
not know (a ManifestWork whose creation was never reported). A failed `List` of the
generated clients returns an empty list, not nil, so that the loop over it is empty
(`resource.go:150`). Refused, failed and lost PUTs count as faults. A PUT that fails is the
end of its sync: the answer is nil and is dereferenced (`resource_controller.go:139`).

### Server and the code

| Model | Code |
|---|---|
| `main` | `Server.Run`: before `signal.Notify` (`init`), after it, waiting at `<-stop`, past it |
| `listener` | the goroutine of `http.ListenAndServe`, `base.go:62-69` |
| `clients` | those of `clientset`, `clientsetWorkOper`, `clientsetClusterOper`, `clientOperator` that are not nil |
| `kubeconfig` | whether the flag is in the set of flags of the process |
| `inside` | whether the process runs in a cluster; chosen once |
| `req[r]` | a request, from its acceptance by the router on |
| `ReadConfig`, `LookUpFlag`, `DefineFlag`, `FlagsRace` | `job.go:175-193` |
| `Configure` | one `NewForConfig`, with the panic on its error, `job.go:196-214` |
| `Use`, `Answer` | the handler: its calls through the clients, in the order of `Uses` |
| `Interrupt`, `Terminate`, `ListenFails`, `Return` | how a process ends, or does not |

`Interrupt` has the three cases of an unbuffered channel that nobody closes: killed by the
default action before `Notify`, dropped when main is not at `<-stop`, received. SIGTERM, which
Kubernetes sends, is not registered for. `Return` makes the end of the process one step: the
context with the shutdown timeout is assigned to `_` (`base.go:77`). It is fair, so that an
interrupt that was received ends the process; that holds by the shape of the model and is not
stated as a property. `FlagsRace` is the
runtime's fatal error for a map that is read and written at once, which it may or may not
detect. A request whose use of a client is its last in the code is the one modelled; earlier
uses of the same client either find it or panic as this one does. Inside of a cluster,
reading the configuration fails when the token cannot be read, which the code takes for
being outside. A race of two assignments to one client variable leaves one of two equal
clients, so the assignments are atomic here.

`Server` says when a process ends and with what left behind; `PullJobs` and `SyncUp` take
the end of a process at any step as `Crash`, whatever its reason, so a shutdown is no
other case for them. A request that panics in `InClusterConfig` has called no store.

## 3. Properties and runs

`tlc -config X.cfg M`; each passes within three minutes with two workers.

| Run (`.cfg`) | Instance | Shows |
|---|---|---|
| `pull_core` | two instances of one hub, create and scale-up of one component, two ManifestWork names, two faults | `LockedUnlessRefused`, `ReportsExistingWork`, `SuccessMeansAllUpdated`, `AtomicUpdate`, `ConditionsGrowByJobs`, `ImplementsLifecycle`, and that `CountedByJobs` is true before it is proved |
| `pull_delete` | two hubs, two components: both created, one of them deleted; two names, one fault | `ResourceIsOwnWork`, `RecordedDeleteHolds`, and that `Consistent` is true before it is proved |
| `pull_ends_badly` | two instances of one hub; a component without Deployments, its scaling, a replacement, a reallocation, and a replacement that ends the process; no faults | `AtomicUpdate`, `RecordedDeleteHolds`, `ImplementsLifecycle` |
| `pull_liveness` | two instances, one ManifestWork name, one fault; jobs without node, without resource, of unknown subtype, next to a good one | `HandlerTerminates`, `ReportsExistingWork` |
| `sync` | one request, with a creation and a job that ends its process, syncs of two instances, two names in one cluster, two hubs to ask about, one fault | `StatusOfStored`, `ConditionsGrowByJobs`, `ReplyMeansAllSent`, `EventuallySynced`, and that `SyncConsistent` and `SyncCounted` are true before they are proved |
| `server` | two requests, of `execute` and of `sync`, in and outside of a cluster, three faults | `OnlyFailuresTakeClients`, `EventuallyAnswered`, and that `ClientsKept` is true before it is proved |
| `payload` | seven sets of manifests, six writes | `ReadsBack`, `ReplicasCountScalings`, `RequestsKeepRemainder` |
| `workload` | all slices of up to two of six manifests, and of three starting with an object; four writes | `ImplementsPayload`, `RefusesAsPayload`, `LoggedIsDeployment` |

* `LockedUnlessRefused` - a job that is executed or has reached a hub has an owner, unless a
  promotion of it was answered without effect. That a lost answer, an error before or after the
  effect, or a crash leaves no job running unowned is what is left of the lock when the status
  of the answer is not read.
* `ResourceIsOwnWork` - the Job Manager never links a resource to another's ManifestWork.
* `ReportsExistingWork` - a success is reported only after the hub accepted a write.
* `SuccessMeansAllUpdated` - once the list of jobs was decoded, a 200 means that every update
  was answered. A list that does not decode is answered with its own status, 200 included, and
  no job is executed (`job_controller.go:85`).
* `AtomicUpdate` - when an update is accepted the hub still has what the request has read, and
  gets what the job makes of it: for a scaling, which computes the new payload from the old, and
  for a replacement, which keeps only the version of what it read.
* `RecordedDeleteHolds` - when a deletion is recorded, its ManifestWork is gone or leaving.
* `ImplementsLifecycle` - owned once, touched when owned or when a promotion was answered
  without effect, recorded when touched, nothing undone.
* `ConditionsGrowByJobs` - a resource gets its conditions once for each job, although
  jobs are executed and reported more than once, and next to syncs that list the hub's.
* `HandlerTerminates` - every request ends.
* `StatusOfStored` - asked with the name and UID the Job Manager has, the status request
  answers the hub's conditions while the ManifestWork exists, and no status when it is gone. The
  code that is written then is 400, where the documentation has 404 (section 4).
* `ReplyMeansAllSent` - a sync that replies has made a PUT for all that was there all along,
  but for clusters that could not be listed, whatever was created, reported or deleted
  while it went on.
* `EventuallySynced` - once faults and reports are over, the Job Manager has the hub's
  conditions for good, whatever overlapping syncs and jobs have left before.
* `OnlyFailuresTakeClients` - a request past its configuration meets a nil client only if
  another one has failed to configure it since.
* `EventuallyAnswered` - inside of a cluster every route is answered again and again,
  whatever has failed before.

The inductive invariants `Consistent` (with `Inductive`, its first conjunct), `CountedByJobs`,
`SyncConsistent`, `SyncCounted` and `ClientsKept` are invariants of runs too, so that TLC has
seen them before TLAPS proves them.

### Bounds

* Two handlers are the smallest number that can race; the actions of a handler look at
  no other handler, only at the stores, so a third adds no new kind of conflict.
* Two names (`Works`) let a create that timed out be retried under a second name, and
  make the third attempt fail. The theorems below have no such bound.
* `MaxFaults` bounds transport errors, refusals, disconnections and crashes. Two in
  `pull_core` allow a refused promotion, or a lost answer, and a crash in one behaviour; none in
  `pull_ends_badly`, whose subjects are no faults and not bounded: panics, exits, and the race
  of a scaling with a replacement.
* Each handler has a process of its own in the runs of `PullJobs`. Requests share no memory, so
  that a process which ends with two of them is, for the stores, two that crash: `pull_core` has
  the faults for it, and `sync` has a process that ends with its sync. In `pull_ends_badly` a
  shared process would be pulled, updated and ended again and again, with versions that grow
  without bound. The theorems leave `InstanceOf` open.
* Two resources in `pull_delete` let a name or a UID of one reach the other: a request that
  takes the first ManifestWork with conditions for its own is found (`Polled_Namespace`). Its
  two hubs compete for the lock; on one hub the same requests overlap in `pull_core`.
* `sync`: two syncs of different instances overlap with each other and with the request.
  They belong to two instances because one is not enough: a job that ends its process is
  pulled again and again, and may end every sync of that process before it is done, so
  that `EventuallySynced` needs a sync elsewhere. There is one cluster, whose list or the
  list of clusters may fail; that the failure of one list costs only the ManifestWorks of its
  cluster is proved (`RepliesAreComplete`) for any number of them. The second hub has no
  requests and is there to be asked about a ManifestWork it does not have. One fault is a failed
  list, a refused or lost PUT, or a crash; `MaxVersion = 2` is one report of an agent, of a type
  the code does not name. No job of this run deletes; deletions next to syncs are proved only.
* `server`: two requests race for the clients and the flag. Three faults allow a failed
  configuration during another, and a signal in the process that follows.
* `Crash` may come at any time, also when its process has no request.
* `MaxVersion = 3` lets an agent report, a job update, and an agent report again.
* `Int32Half = 4` or `2` in place of 2^31: replicas wrap within a few scalings.
* `MaxSteps` (`Payload`, `Workload`) bounds the writes to a payload. These two stop at
  the bound, so their configurations do not check deadlock; the others do.
* Names of ManifestWorks are interchangeable and declared symmetric, except in the
  runs that check liveness. So are the two handlers of one hub with instances of their own
  (`OneHubSymmetry`), and the two hubs together with their handlers (`TwoHubsSymmetry`): no
  job, no definition and no property of these runs names one of them.

### Fairness

`WF_vars(Step(h))` for each handler: a request in progress goes on. The Go scheduler runs every
runnable goroutine, and a call to a store ends, with an answer or an error. For the polling loop
this means that either conditions are found or the 5 s are over. `SyncUp` adds the same for the
steps of a sync, and for `StartSync` when none is in progress (one condition, as one of the two
is enabled at any time): `README.md:60` has a sidecar that keeps the statuses synchronised.
`Server` adds it for the goroutines of `Run` and of the listener, for `Start` (`restartPolicy:
Always`), and for `Accept` of each route: those that call the service call again, which
`EventuallyAnswered` is about. No fairness is given to agents, to clients of `PullJobs`, to
signals, crashes and faults, or to new jobs. The HTTP clients have no timeout
(`job_controller.go:164`), so a call that is never answered holds its request for ever; the
fairness assumes that away and it is listed as a hazard.

## 4. Where code and documentation differ

Each is a run that checks one statement of the documentation and finds it violated.

| Run | Statement | Code |
|---|---|---|
| `claim_lock` | `README.md:37`: a picked-up job is locked from being executed by other instances | `PromoteJob` drops the status of the answer (`job.go:735`): two requests execute one job |
| `claim_applied` | `job.go:155`: Applied is applied successfully | the condition's status is not read (`job.go:744`) |
| `claim_attributes` | `job.go:475`: a remediation updates attributes | manifests that are no Deployments are removed (`job.go:579`) |
| `claim_scaling` | `README.md:43-46`: ScaleIn and ScaleOut add and remove replicas, ScaleUp and ScaleDown change resources | scale-up and scale-down change the replicas (`job.go:609-616`), scale-out and scale-in the requests (`619-630`), as the comments at `608` and `618` say |

Differences met while modelling that have no run of their own:

* A hub whose promotion is refused because another hub owns the job executes it too, and one
  whose promotion is answered with an error executes a job that no one owns, for the reason
  `claim_lock` shows (`job.go:735`, `README.md:37`).
* A list of jobs that does not decode is answered with the status it came with, 200 included,
  and no job is executed (`job_controller.go:85`); the documentation of the handler has 200 for
  a list of executed jobs and 400 for a bad request (lines 49-50).
* `deleteDeployment` returns the resource as it came (`job.go:350`), where its comment at line 339
  says that it clears the job's resource details: the branch of `UpdateJobResource` for that
  (`766-768`) is not reached. The name stays with the Job Manager, and `ResourceIsOwnWork` and
  `ReportsExistingWork` say what later jobs can do with it.
* `replaceDeployment` writes a new slice without the Namespace (`job.go:309`), which the
  comment at `job.go:489` says a new slice needs.
* The amounts of a scaling are 1000 millicores and 1000 MiB (`job.go:621-622`), not the 100 CPU
  units and 100 MB of `README.md:45-46`. `RequestsKeepRemainder` has those of the code.
* A PUT of the sync that fails panics (`resource_controller.go:139`) where the comment at
  line 135 says "keep executing": the rest of that sync is not sent.
* The status request never answers the 404 and 422 of `resource_controller.go:49-50`: a
  ManifestWork that is not found is answered 400. Nor does a sync answer the 500 of line 99.
* The help of the flag `shutdown-timeout` gives connections that time "before connections are
  cancelled" (`base.go:76`); the flag is defined after the flags were parsed, its context is
  dropped (line 77), and the process ends at once.
* "Outside of the cluster for development" (`job.go:173`, `177`; `README.md:86-101` runs the
  container by itself) a process answers the routes that need the clients until the flag
  `kubeconfig` is defined (`job.go:183`); every later request panics at its second definition,
  until the process is started again. No property is about it: `EventuallyAnswered` is stated
  inside of a cluster.

## 5. Proofs

`tlapm M.tla` for each module `M` named `...Proofs`. The theorems hold for all values of the
constants that satisfy the named assumptions: `Int32HalfAssumption`, `NilAssumption`,
`NilIsNothing`, `NilIsNoRecord` (Nil is none of the values it stands apart from),
`DeploymentAssumption`, `SyncAssumption`, `ServerAssumption` (the constants have their types),
`JobManifestsAssumption` (requests of incoming manifests are not negative),
`MaxStepsAssumption`, `SlicesAssumption` (the slices jobs bring are slices of manifests).

| Theorem | Statement |
|---|---|
| `InductiveInvariant` | `Spec => []Inductive` |
| `TypeCorrect` | `Spec => []TypeOK` (of `PullJobs`) |
| `LockedUnlessAnswered` | `Spec => []LockedUnlessRefused` |
| `ReportsAreTrue` | `Spec => []ReportsExistingWork` |
| `LifecycleImplemented` | `Spec => ImplementsLifecycle` |
| `ConsistencyInvariant` | `Spec => []Consistent` |
| `ResourcesAreOwn` | `Spec => []ResourceIsOwnWork` |
| `SuccessIsComplete` | `Spec => []SuccessMeansAllUpdated` |
| `UpdateIsAtomic` | `Spec => AtomicUpdate` |
| `RecordedDeletionHolds` | `Spec => RecordedDeleteHolds` |
| `CountedInvariant`, `ConditionsGrow` | `Spec => []CountedByJobs`, `[]ConditionsGrowByJobs` |
| `SyncInvariant`, `SyncTypeCorrect` | `SyncSpec => []SyncConsistent`, `[]SyncTypeOK` |
| `StatusAnswers` | `SyncSpec => []StatusOfStored` |
| `SyncedResourcesAreOwn` | `SyncSpec => []ResourceIsOwnWork` |
| `RepliesAreComplete` | `SyncSpec => ReplyMeansAllSent` |
| `SyncsKeepPromises` | `SyncSpec => [](LockedUnlessRefused /\ ReportsExistingWork /\ SuccessMeansAllUpdated)` |
| `SyncsLeaveUpdatesAtomic`, `SyncsLeaveDeletions` | `SyncSpec => AtomicUpdate`, `RecordedDeleteHolds` |
| `SyncsImplementLifecycle` | `SyncSpec => ImplementsLifecycle` |
| `SyncCountedInvariant`, `SyncsLetConditionsGrowByJobs` | `SyncSpec => []SyncCounted`, `[]ConditionsGrowByJobs` |
| `ClientsInvariant`, `ServerTypeCorrect` | `Spec => []ClientsKept`, `[]TypeOK` (of `Server`) |
| `ServedHaveClients` | `Spec => []OnlyFailuresTakeClients` |
| `PayloadTypeCorrect` | `Spec => []TypeOK` (of `Payload`) |
| `PayloadReadsBack` | `Spec => [](TypeOK /\ ReadsBack)` (of `Payload`) |
| `ScalingsAddUp` | `Spec => []ReplicasCountScalings` |
| `RequestsStayNonNegative` | `Spec => []RequestsKeepRemainder` |
| `WorkloadTypeCorrect` | `Spec => []TypeOK` (of `Workload`) |
| `RefusalsAgree` | `Spec => []RefusesAsPayload` |
| `LogsDeployments` | `Spec => LoggedIsDeployment` |
| `PayloadImplemented` | `Spec => ImplementsPayload` |

*PullJobs, the life of a job.* `LockedUnlessRefused` and `ReportsExistingWork` are not
inductive: a handler at `report` got there from `await` or `update`, and nothing in them says
that the job it awaits was created, or that it holds an answer at all. `Inductive` adds
`Coherent` (a request holds what its next call needs) and that an awaiting handler has had its
effect. Its proof has one lemma per action. Most actions change one request, so each lemma shows
what the new request satisfies (`OneRequest`), and the lemmas on `NextJob`, `ExecuteError`,
`UpdateJobResource` are shared. A promotion is the one step that lets a job go on: it leaves the
job owned, or among the refused (`Tracked`). `LifecycleImplemented` takes the invariant and maps
the promotion, the hub writes and the report to `Lock`, `Effect`, `Report`, and all others to
stuttering.

*PullJobs, resources and results.* `ResourceIsOwnWork` speaks of the Job Manager, but what is
stored there was carried by a request: in the list it pulled, in the object it read, in the
result it is about to report. `Consistent` says of each of these that the name and the UID are
those of a ManifestWork born for a job of that resource (`NamesOwn`, `HoldsOwn`). For
`AtomicUpdate` it adds that a version a request has read is no newer than the hub's, and
that equal versions mean equal payloads: no other invariant relates the object read earlier to
the one stored now. For `SuccessMeansAllUpdated` it adds that a job of a request that is no
longer to do was updated, or the status of the request is an error (`Settled`). A deletion
needs that a ManifestWork that is leaving never stops being so, and that a name is never given
twice, so that what is gone stays gone (`Ended`).

*PullJobs, the conditions of a resource.* `ConditionsGrowByJobs` bounds a list by the number
of jobs that reported. A report replaces the list by what its request pulled plus the
conditions it read, so the bound must hold of every copy a request holds. It does because
the jobs a request has pulled were not reported at that time: `RoomLeft` says that what it
pulled is bounded by the *other* jobs that reported, and that its result adds one condition
of each type, as the hub has no more (`OneOfEach`). When the request reports, its own job is
reported for good, by it or by one that was faster, so there is room for its result. Jobs
need not be finite: those that were reported are, one a step.

*SyncUp.* Steps of `PullJobs` leave each sync as it is or end it; steps of a sync change
resources only, and store under a UID what belongs to it, so `Consistent` survives
(`ResourcesMayChange`, `StoreStatusOwn`). `Accounted` is the loop invariant of a sync whose hub
changes meanwhile: what it owes is in a cluster still to list or among the statuses to send.
It is kept by steps of others because a ManifestWork does not move to another hub and no name
comes back (`HubsStay`). At the reply both sets are empty, so what it owes is gone.
The other properties of `PullJobs` hold next to syncs too, and do not follow from their
proofs for `PullJobs` alone, whose states are fewer: each step of a sync is a stutter
of the lifecycle and touches no ManifestWork and no request. For `ConditionsGrowByJobs`
there is more to say, since a sync writes conditions without any job. It finds a resource
only by the UID of a ManifestWork, the Job Manager has a UID only from a report
(`CountedByJobs`: a resource that names a ManifestWork has a job that was reported), and one
such job is room enough for a status, which has one condition of each type (`SyncCounted`)
and replaces those the resource had.

*Server.* A request at its n-th client has the ones before, unless another has failed on one
since; assignments of others only add to that. `ClientsKept` adds that a request starts at the
first client.

*Payload.* The replicas are compared in int32, so the induction needs that wrapping
distributes over addition (`Int32Sum`), from uniqueness of the remainder
(`RemainderUnique`), which is proved from the definition of `%`. Requests keep their
remainder by `RemainderShift`. Both use the type invariant with `ReadsBack`.

*Workload.* What a loop returns is an induction over its iterations. The library's induction
theorems take the property to prove as an operator, which the provers cannot instantiate, so
`UpTo` does it with a set: the numbers without the property have no least element, and < is
well-founded on the naturals (`WFMin`, `NatLessThanWellFounded`). `LoopExists` follows for any
iteration given as a function, and with it the value of `Decoding` and `Updating` after n
iterations (`DecodedIs`, `LoopMade`): the set of the manifests decoded so far, and either a
panic, when one of them is `Faulty`, or the Namespace followed by the remediated Deployments. At
the end these are the sets of `Payload`, whatever the order.

Only model-checked: liveness (`HandlerTerminates`, `EventuallySynced`, `EventuallyAnswered`),
which needs `ENABLED`. The statements of section 4 are false.

## 6. Not modelled

* Middlewares: those on a route set a header or log; `JWTValidation` is on none.
* `CreateManifestWork`, `PatchManifestWork`, `DeleteManifestWork`, `ExistsManifestWork` and
  `CheckStatusManifestWork` of `resource.go`: no caller.
* Logging, error formatting, the generated API docs, the swagger page: text.
* The deployment descriptors: configuration, from which the models take the restart of a
  process and the number of instances.
* Generations of ManifestWorks: the state reported after an update is mapped from the
  conditions of the payload before it (`job.go:549`). The service reads no generation and
  promises nothing about it; agents in the model may report anything at any time.
* A ManifestWork without a UID (`job.go:263`): a hub gives every object one.
* Calls that are never answered (`job_controller.go:164`): nothing in the code would end
  them.
* The race of the flag `shutdown-timeout` with a request that defines `kubeconfig` while main
  returns: the process ends in either case.

## 7. What could come next

* Several clusters in the `sync` run: the proofs cover them, but with liveness they make the
  run too long.
* The theorems of `Payload` stated of `Workload` too. They follow from its refinement, but
  the prover does not expand a theorem of an instantiated module, so they would be proved of
  slices again, from the step lemmas of `PayloadProofs` moved to the operators they share.
