--------------------------- MODULE PullJobsProofs ---------------------------
(***************************************************************************)
(* PullJobs, for any jobs, hubs, instances and number of requests:         *)
(* Inductive is an inductive invariant, so only an answered promotion lets *)
(* a job go on and reports are about work that was done; and PullJobs      *)
(* implements JobLifecycle.                                                *)
(***************************************************************************)
EXTENDS PullJobs, ManifestOpsProofs

(***************************************************************************)
(* Requests, one at a time.                                                *)
(***************************************************************************)
WellFormed(r) == r \in Request /\ Coherent(r)

\* The jobs whose promotion was answered: with an owner, or without effect.
Locked == {j \in Jobs : owner[j] # Nil} \cup refused

\* What a request may be doing when these jobs are locked, and these have reached
\* a hub.
Tracked(r, locked, eff) ==
  /\ r.pc \in Executing => r.cur \in locked
  /\ r.pc \in {"await", "report"} => r.cur \in eff
  /\ r.pc = "report" => r.mem.res.name # Nil

LEMMA IdleOK ==
  ASSUME NEW locked, NEW eff
  PROVE  WellFormed(Idle) /\ Tracked(Idle, locked, eff)
BY DEF WellFormed, Tracked, Idle, Request, Coherent, PCs, Executing

\* A field of a request may be set to any value of its type.
LEMMA SetField ==
  ASSUME NEW r \in Request
  PROVE  /\ \A x \in PCs : [r EXCEPT !.pc = x] \in Request
         /\ \A x \in SUBSET Jobs : [r EXCEPT !.todo = x] \in Request
         /\ \A x \in [Resources -> Resource] \cup {Nil} :
              [r EXCEPT !.view = x] \in Request
         /\ \A x \in Jobs \cup {Nil} : [r EXCEPT !.cur = x] \in Request
         /\ \A x \in Snapshot \cup {Nil} : [r EXCEPT !.got = x] \in Request
         /\ \A x \in Result \cup {Nil} : [r EXCEPT !.mem = x] \in Request
         /\ \A x \in SUBSET Jobs : [r EXCEPT !.updated = x] \in Request
         /\ \A x \in BOOLEAN : [r EXCEPT !.gone = x] \in Request
BY DEF Request

\* A request in its loop, with its view, needs nothing else.
LEMMA LoopOK ==
  ASSUME NEW r \in Request, r.pc = "loop", r.view # Nil, NEW locked, NEW eff
  PROVE  WellFormed(r) /\ Tracked(r, locked, eff)
BY DEF WellFormed, Tracked, Coherent, Executing

\* A call that ends with the next job, or with an error, leaves the request in
\* its loop.
LEMMA NextJobOK ==
  ASSUME NEW r, WellFormed(r), r.view # Nil, NEW locked, NEW eff
  PROVE  /\ WellFormed(NextJob(r)) /\ Tracked(NextJob(r), locked, eff)
         /\ WellFormed(ExecuteError(r)) /\ Tracked(ExecuteError(r), locked, eff)
         /\ WellFormed(UpdateError(r)) /\ Tracked(UpdateError(r), locked, eff)
<1>1. /\ NextJob(r) \in Request /\ NextJob(r).pc = "loop"
      /\ NextJob(r).view # Nil
  <2> DEFINE n1 == [r EXCEPT !.pc = "loop"]
             n2 == [n1 EXCEPT !.cur = Nil]
             n3 == [n2 EXCEPT !.got = Nil]
             n4 == [n3 EXCEPT !.mem = Nil]
  <2>1. r \in Request
    BY DEF WellFormed
  <2>2. n1 \in Request
    BY <2>1, SetField DEF PCs
  <2>3. n2 \in Request
    <3> HIDE DEF n1
    <3> QED  BY <2>2, SetField
  <2>4. n3 \in Request
    <3> HIDE DEF n2
    <3> QED  BY <2>3, SetField
  <2>5. n4 \in Request
    <3> HIDE DEF n3
    <3> QED  BY <2>4, SetField
  <2>6. NextJob(r) = n4
    BY DEF NextJob
  <2>7. NextJob(r).pc = "loop" /\ NextJob(r).view = r.view
    BY <2>1 DEF NextJob, Request
  <2> HIDE DEF n4
  <2> QED
    BY <2>5, <2>6, <2>7
<1>2. /\ ExecuteError(r) \in Request /\ ExecuteError(r).pc = "loop"
      /\ ExecuteError(r).view # Nil
  <2> DEFINE n == NextJob(r)
             c == WriteHeader(n.code, 422)
  <2>1. ExecuteError(r) = [n EXCEPT !.code = c]
    BY DEF ExecuteError
  <2>2. n \in Request /\ n.pc = "loop" /\ n.view # Nil
    BY <1>1
  <2>3. c \in {0} \cup Statuses
    BY <2>2 DEF WriteHeader, Request, Statuses
  <2> HIDE DEF n, c
  <2>4. [n EXCEPT !.code = c] \in Request
    BY <2>2, <2>3 DEF Request
  <2>5. [n EXCEPT !.code = c].pc = n.pc /\ [n EXCEPT !.code = c].view = n.view
    BY <2>2 DEF Request
  <2> QED
    BY <2>1, <2>2, <2>4, <2>5
<1>3. /\ UpdateError(r) \in Request /\ UpdateError(r).pc = "loop"
      /\ UpdateError(r).view # Nil
  <2> DEFINE n == NextJob(r)
             c == WriteHeader(n.code, 503)
  <2>1. UpdateError(r) = [n EXCEPT !.code = c]
    BY DEF UpdateError
  <2>2. n \in Request /\ n.pc = "loop" /\ n.view # Nil
    BY <1>1
  <2>3. c \in {0} \cup Statuses
    BY <2>2 DEF WriteHeader, Request, Statuses
  <2> HIDE DEF n, c
  <2>4. [n EXCEPT !.code = c] \in Request
    BY <2>2, <2>3 DEF Request
  <2>5. [n EXCEPT !.code = c].pc = n.pc /\ [n EXCEPT !.code = c].view = n.view
    BY <2>2 DEF Request
  <2> QED
    BY <2>1, <2>2, <2>4, <2>5
<1>4. WellFormed(NextJob(r)) /\ Tracked(NextJob(r), locked, eff)
  BY <1>1, LoopOK
<1>5. WellFormed(ExecuteError(r)) /\ Tracked(ExecuteError(r), locked, eff)
  BY <1>2, LoopOK
<1>6. WellFormed(UpdateError(r)) /\ Tracked(UpdateError(r), locked, eff)
  BY <1>3, LoopOK
<1> QED
  BY <1>4, <1>5, <1>6

\* The other ways a request goes on: with a job, with an answer of the hub,
\* with a result.
LEMMA WithJobOK ==
  ASSUME NEW r \in Request, NEW j \in Jobs, r.view # Nil
  PROVE  LET n == [r EXCEPT !.pc = "execute", !.cur = j, !.todo = @ \ {j}]
         IN  WellFormed(n) /\ n.pc = "execute" /\ n.cur = j
<1> DEFINE n1 == [r EXCEPT !.pc = "execute"]
           n2 == [n1 EXCEPT !.cur = j]
           n3 == [n2 EXCEPT !.todo = @ \ {j}]
<1>1. n1 \in Request /\ n1.pc = "execute" /\ n1.view # Nil
  BY DEF Request, PCs
<1> HIDE DEF n1
<1>2. n2 \in Request /\ n2.pc = "execute" /\ n2.view # Nil /\ n2.cur = j
  BY <1>1 DEF Request
<1> HIDE DEF n2
<1>3. n3 \in Request /\ n3.pc = "execute" /\ n3.view # Nil /\ n3.cur = j
  BY <1>2 DEF Request
<1>4. [r EXCEPT !.pc = "execute", !.cur = j, !.todo = @ \ {j}] = n3
  BY DEF n1, n2
<1> HIDE DEF n3
<1> QED
  BY <1>3, <1>4, NilIsNothing DEF WellFormed, Coherent, Executing

LEMMA WithAnswerOK ==
  ASSUME NEW r \in Request, NEW mw \in Snapshot, NEW pc \in {"await", "update"},
         r.view # Nil, r.cur # Nil, Job[r.cur].resource # Nil
  PROVE  LET n == [r EXCEPT !.pc = pc, !.got = mw]
         IN  WellFormed(n) /\ n.pc = pc /\ n.cur = r.cur
<1> DEFINE n1 == [r EXCEPT !.pc = pc]
           n2 == [n1 EXCEPT !.got = mw]
<1>1. n1 \in Request /\ n1.pc = pc /\ n1.view # Nil /\ n1.cur = r.cur
  BY DEF Request, PCs
<1> HIDE DEF n1
<1>2. /\ n2 \in Request /\ n2.pc = pc /\ n2.view # Nil /\ n2.cur = r.cur
      /\ n2.got = mw
  BY <1>1 DEF Request
<1>3. [r EXCEPT !.pc = pc, !.got = mw] = n2
  BY DEF n1
<1> HIDE DEF n2
<1> QED
  BY <1>2, <1>3, NilIsNoRecord DEF WellFormed, Coherent, Executing

LEMMA WithResultOK ==
  ASSUME NEW r \in Request, NEW mem \in Result,
         r.view # Nil, r.cur # Nil, Job[r.cur].resource # Nil
  PROVE  LET n == [r EXCEPT !.pc = "report", !.mem = mem]
         IN  /\ WellFormed(n) /\ n.pc = "report" /\ n.cur = r.cur
             /\ n.mem = mem
<1> DEFINE n1 == [r EXCEPT !.pc = "report"]
           n2 == [n1 EXCEPT !.mem = mem]
<1>1. n1 \in Request /\ n1.pc = "report" /\ n1.view # Nil /\ n1.cur = r.cur
  BY DEF Request, PCs
<1> HIDE DEF n1
<1>2. /\ n2 \in Request /\ n2.pc = "report" /\ n2.view # Nil
      /\ n2.cur = r.cur /\ n2.mem = mem
  BY <1>1 DEF Request
<1>3. [r EXCEPT !.pc = "report", !.mem = mem] = n2
  BY DEF n1
<1> HIDE DEF n2
<1> QED
  BY <1>2, <1>3, NilIsNoRecord DEF WellFormed, Coherent, Executing

\* What the request keeps of a ManifestWork is a result for the job.
LEMMA UpdateJobResourceOK ==
  ASSUME NEW old \in Resource, NEW mw \in Snapshot
  PROVE  /\ UpdateJobResource(old, mw) \in Result
         /\ UpdateJobResource(old, mw).res.name = mw.name
<1>1. old.conds \o mw.conds \in Seq(Condition)
  BY ConcatProperties DEF Resource, Snapshot
<1>2. (IF mw.conds # <<>> THEN StateMapper(mw.conds) ELSE "Progressing")
        \in States
  BY StateMapperType DEF States
<1> QED
  BY <1>1, <1>2 DEF UpdateJobResource, Result, Resource, Snapshot

\* An answer of the hub is a snapshot of the ManifestWork.
LEMMA GetOK ==
  ASSUME TypeOK, NEW w \in Works, work[w] # Nil
  PROVE  Get(w) \in Snapshot
BY DEF TypeOK, Get, ManifestWork, Snapshot

(***************************************************************************)
(* The stores.                                                             *)
(***************************************************************************)
Stores ==
  /\ owner \in [Jobs -> Hubs \cup {Nil}]
  /\ state \in [Jobs -> JobStates]
  /\ res \in [Resources -> Resource]
  /\ work \in [Works -> ManifestWork \cup {Nil}]
  /\ born \in [Works -> Jobs \cup {Nil}]
  /\ effected \subseteq Jobs
  /\ faults \in 0..MaxFaults
  /\ refused \subseteq Jobs
  /\ effected \subseteq Locked

LEMMA InductiveParts ==
  Inductive <=> /\ Stores
                /\ req \in [Handlers -> Request]
                /\ \A h \in Handlers : /\ WellFormed(req[h])
                                       /\ Tracked(req[h], Locked, effected)
<1>1. LockedUnlessRefused
        <=> \A j \in Jobs :
              \/ j \in effected
              \/ \E h \in Handlers : req[h].pc \in Executing /\ req[h].cur = j
              => j \in Locked
  BY DEF LockedUnlessRefused, Locked
<1>2. ASSUME Inductive
      PROVE  /\ Stores
             /\ req \in [Handlers -> Request]
             /\ \A h \in Handlers : /\ WellFormed(req[h])
                                    /\ Tracked(req[h], Locked, effected)
  <2>1. TypeOK /\ \A h \in Handlers : Coherent(req[h])
    BY <1>2 DEF Inductive
  <2>2. \A h \in Handlers : WellFormed(req[h])
    BY <2>1 DEF TypeOK, WellFormed
  <2>3. Stores
    BY <1>1, <1>2, <2>1 DEF Inductive, TypeOK, Stores
  <2>4. \A h \in Handlers : req[h].pc \in Executing => req[h].cur \in Jobs
    BY <2>1, <2>2 DEF WellFormed, Coherent, Request
  <2>5. \A h \in Handlers : Tracked(req[h], Locked, effected)
    BY <1>1, <1>2, <2>4 DEF Inductive, Tracked, ReportsExistingWork, At
  <2> QED
    BY <2>1, <2>2, <2>3, <2>5 DEF TypeOK
<1>3. ASSUME Stores, req \in [Handlers -> Request],
             \A h \in Handlers : /\ WellFormed(req[h])
                                 /\ Tracked(req[h], Locked, effected)
      PROVE  Inductive
  <2>1. TypeOK /\ \A h \in Handlers : Coherent(req[h])
    BY <1>3 DEF Stores, TypeOK, WellFormed
  <2>2. LockedUnlessRefused
    BY <1>1, <1>3 DEF Stores, Tracked
  <2> QED
    BY <1>3, <2>1, <2>2 DEF Inductive, Tracked, ReportsExistingWork, At
<1> QED
  BY <1>2, <1>3

\* What was locked stays locked, and what was touched stays touched.
Grows == Locked \subseteq Locked' /\ effected \subseteq effected'

\* A step of one request, in stores that only grow, preserves the invariant when
\* the stores and that request are as they should be.
LEMMA OneRequest ==
  ASSUME Inductive, NEW h \in Handlers, NEW r, Continue(h, r),
         Stores', Grows, WellFormed(r), Tracked(r, Locked', effected')
  PROVE  Inductive'
<1>1. req' \in [Handlers -> Request]
  BY InductiveParts DEF Continue, WellFormed
<1>2. ASSUME NEW g \in Handlers
      PROVE  WellFormed(req'[g]) /\ Tracked(req'[g], Locked', effected')
  <2>1. CASE g = h
    BY <2>1, InductiveParts DEF Continue
  <2>2. CASE g # h
    <3>1. req'[g] = req[g]
      BY <2>2, InductiveParts DEF Continue
    <3>2. /\ WellFormed(req[g]) /\ Tracked(req[g], Locked, effected)
          /\ req[g] \in Request /\ Stores
      BY InductiveParts DEF WellFormed
    <3>3. req[g].pc \in Executing => req[g].cur \in Jobs
      BY <3>2 DEF WellFormed, Coherent, Request
    <3> QED
      BY <3>1, <3>2, <3>3 DEF Tracked, Grows
  <2> QED
    BY <2>1, <2>2
<1> QED
  BY <1>1, <1>2
     DEF Inductive, Stores, TypeOK, WellFormed, Tracked, Locked,
         LockedUnlessRefused, ReportsExistingWork, At

\* What an executing request holds.
LEMMA ExecutingHolds ==
  ASSUME Inductive, NEW h \in Handlers, req[h].pc \in Executing
  PROVE  /\ req[h] \in Request /\ WellFormed(req[h])
         /\ req[h].cur \in Jobs /\ req[h].cur # Nil
         /\ req[h].cur \in Locked
         /\ req[h].view # Nil /\ req[h].view \in [Resources -> Resource]
         /\ Asks(h) \in JobSpec /\ Asks(h) = Job[req[h].cur]
         /\ Asks(h).resource # Nil =>
              Asks(h).resource \in Resources /\ View(h) \in Resource
<1>1. req[h] \in Request /\ WellFormed(req[h])
      /\ Tracked(req[h], Locked, effected)
  BY InductiveParts
<1>2. /\ req[h].cur \in Jobs /\ req[h].cur # Nil
      /\ req[h].view # Nil /\ req[h].view \in [Resources -> Resource]
  BY <1>1 DEF WellFormed, Coherent, Request
<1>3. Asks(h) \in JobSpec /\ Asks(h) = Job[req[h].cur]
  BY <1>2, DeploymentAssumption DEF Asks
<1>4. Asks(h).resource # Nil => Asks(h).resource \in Resources
  BY <1>3 DEF JobSpec
<1> QED
  BY <1>1, <1>2, <1>3, <1>4 DEF Tracked, View

\* An error of Execute, in stores that only grow.
LEMMA ErrorStep ==
  ASSUME Inductive, NEW h \in Handlers, req[h].pc \in Executing,
         Continue(h, ExecuteError(req[h])), Stores', Grows
  PROVE  Inductive'
<1>1. WellFormed(req[h]) /\ req[h].view # Nil
  BY ExecutingHolds
<1>2. /\ WellFormed(ExecuteError(req[h]))
      /\ Tracked(ExecuteError(req[h]), Locked', effected')
  BY <1>1, NextJobOK
<1> QED
  BY <1>2, OneRequest

LEMMA FaultOK ==
  ASSUME faults \in 0..MaxFaults, Fault
  PROVE  faults' \in 0..MaxFaults
BY DeploymentAssumption DEF Fault

\* Nothing but the request changes, and perhaps the number of faults.
LEMMA StoresUnchanged ==
  ASSUME Inductive, UNCHANGED <<jmVars, hubVars>>, UNCHANGED faults \/ Fault
  PROVE  Stores' /\ Grows
BY InductiveParts, FaultOK DEF Stores, Grows, Locked, jmVars, hubVars

(***************************************************************************)
(* The steps of PullJobs and executeJobs.                                  *)
(***************************************************************************)
LEMMA PullStep ==
  ASSUME Inductive, NEW h \in Handlers, Pull(h)
  PROVE  Inductive'
<1> DEFINE js == Executable(Hub(h))
           r == [Idle EXCEPT !.pc = "loop", !.jobs = js, !.todo = js,
                             !.view = res]
<1>1. js \in SUBSET Jobs
  BY DEF Executable
<1>2. res \in [Resources -> Resource]
  BY InductiveParts DEF Stores
<1>3. r \in Request /\ r.pc = "loop" /\ r.view # Nil
  <2> HIDE DEF js
  <2> QED
    BY <1>1, <1>2, NilIsNoRecord DEF Idle, Request, PCs
<1>4. Continue(h, r)
  BY DEF Pull
<1>5. Stores' /\ Grows
  BY StoresUnchanged DEF Pull
<1> HIDE DEF r
<1> QED
  BY <1>3, <1>4, <1>5, LoopOK, OneRequest

LEMMA SkipStep ==
  ASSUME Inductive, NEW h \in Handlers, Skip(h)
  PROVE  Inductive'
<1>1. PICK j \in req[h].todo :
        /\ req[h].pc = "loop"
        /\ Continue(h, [req[h] EXCEPT !.todo = @ \ {j}])
        /\ UNCHANGED <<jmVars, hubVars, faults>>
  BY DEF Skip
<1> DEFINE r == [req[h] EXCEPT !.todo = @ \ {j}]
<1>2. r \in Request /\ r.pc = "loop" /\ r.view # Nil
  BY <1>1, InductiveParts DEF WellFormed, Coherent, Request
<1>3. Stores' /\ Grows
  BY <1>1, StoresUnchanged
<1> HIDE DEF r
<1>4. Continue(h, r)
  BY <1>1 DEF r
<1> QED
  BY <1>2, <1>3, <1>4, LoopOK, OneRequest

\* No list of jobs: the request is answered at once, or panics.
LEMMA PullFailsStep ==
  ASSUME Inductive, NEW h \in Handlers, PullFails(h)
  PROVE  Inductive'
<1>1. Stores' /\ Grows
  BY StoresUnchanged DEF PullFails
<1>2. CASE Continue(h, Idle)
  BY <1>1, <1>2, IdleOK, OneRequest
<1>3. ASSUME NEW status \in {400, 422, 500, 503} \cup NoListStatuses,
             Continue(h, [Idle EXCEPT !.pc = "replied", !.code = status])
      PROVE  Inductive'
  <2> DEFINE r == [Idle EXCEPT !.pc = "replied", !.code = status]
  <2>1. status \in {0} \cup Statuses
    BY DEF Statuses, NoListStatuses
  <2>2. r \in Request /\ r.pc = "replied"
    BY <2>1 DEF Idle, Request, PCs
  <2>3. Continue(h, r)
    BY <1>3
  <2> HIDE DEF r
  <2>4. WellFormed(r) /\ Tracked(r, Locked', effected')
    BY <2>2 DEF WellFormed, Tracked, Coherent, Executing
  <2> QED
    BY <1>1, <2>3, <2>4, OneRequest
<1> QED
  BY <1>2, <1>3 DEF PullFails

LEMMA PromotedOK ==
  ASSUME Inductive, NEW j \in Jobs, NEW hub \in Hubs
  PROVE  /\ Promoted(j, hub) \in [Jobs -> Hubs \cup {Nil}]
         /\ Promoted(j, hub)[j] # Nil
         /\ \A k \in Jobs : owner[k] # Nil => Promoted(j, hub)[k] = owner[k]
BY InductiveParts, NilIsNothing DEF Stores, Promoted

LEMMA PromoteStep ==
  ASSUME Inductive, NEW h \in Handlers, Promote(h)
  PROVE  Inductive'
<1> DEFINE answered(j) == [req[h] EXCEPT !.pc = "execute", !.cur = j,
                                         !.todo = @ \ {j}]
<1>1. PICK j \in req[h].todo :
        /\ req[h].pc = "loop"
        /\ \/ /\ owner' = Promoted(j, Hub(h))
              /\ Continue(h, answered(j))
              /\ UNCHANGED <<refused, faults>>
           \/ /\ refused' = refused \cup {j}
              /\ Continue(h, answered(j))
              /\ Fault
              /\ UNCHANGED owner
           \/ /\ owner' \in {owner, Promoted(j, Hub(h))}
              /\ Continue(h, PromoteError(req[h], j))
              /\ Fault
              /\ UNCHANGED refused
        /\ UNCHANGED <<state, res, hubVars>>
  BY DEF Promote
<1>2. /\ req[h] \in Request /\ req[h].view # Nil /\ Stores
      /\ j \in Jobs /\ Hub(h) \in Hubs
  BY <1>1, InductiveParts, DeploymentAssumption
     DEF WellFormed, Coherent, Request, Hub
<1> HIDE DEF answered
<1>3. Stores' /\ Grows
  <2>1. /\ owner' \in [Jobs -> Hubs \cup {Nil}]
        /\ \A k \in Jobs : owner[k] # Nil => owner'[k] = owner[k]
    BY <1>1, <1>2, PromotedOK DEF Stores
  <2>2. refused' \subseteq Jobs /\ refused \subseteq refused'
    BY <1>1, <1>2 DEF Stores
  <2>3. faults' \in 0..MaxFaults
    BY <1>1, <1>2, FaultOK DEF Stores
  <2>4. Locked \subseteq Locked'
    BY <2>1, <2>2 DEF Locked
  <2> QED
    BY <1>1, <1>2, <2>1, <2>2, <2>3, <2>4 DEF Stores, Grows, hubVars
<1>4. CASE /\ Continue(h, answered(j))
           /\ owner' = Promoted(j, Hub(h)) \/ refused' = refused \cup {j}
  <2>1. /\ WellFormed(answered(j)) /\ answered(j).pc = "execute"
        /\ answered(j).cur = j
    BY <1>2, WithJobOK DEF answered
  <2>2. j \in Locked'
    BY <1>2, <1>4, PromotedOK DEF Locked
  <2>3. Tracked(answered(j), Locked', effected')
    BY <2>1, <2>2 DEF Tracked
  <2> QED
    BY <1>3, <1>4, <2>1, <2>3, OneRequest
<1>5. CASE Continue(h, PromoteError(req[h], j))
  <2> DEFINE n1 == [req[h] EXCEPT !.todo = @ \ {j}]
             c == WriteHeader(n1.code, 422)
             n2 == [n1 EXCEPT !.code = c]
  <2>1. n1 \in Request /\ n1.pc = "loop" /\ n1.view # Nil
        /\ n1.code = req[h].code
    BY <1>1, <1>2 DEF Request
  <2>2. PromoteError(req[h], j) = n2
    BY <2>1 DEF PromoteError
  <2> HIDE DEF n1
  <2>3. c \in {0} \cup Statuses
    BY <2>1 DEF WriteHeader, Request, Statuses
  <2> HIDE DEF c
  <2>4. n2 \in Request /\ n2.pc = "loop" /\ n2.view # Nil
    BY <2>1, <2>3 DEF Request
  <2> HIDE DEF n2
  <2> QED
    BY <1>3, <1>5, <2>2, <2>4, LoopOK, OneRequest
<1> QED
  BY <1>1, <1>4, <1>5

(***************************************************************************)
(* The steps of Execute.                                                   *)
(***************************************************************************)
\* A hub write for the job being executed, answered with r or not at all.
LEMMA HubWriteStep ==
  ASSUME Inductive, NEW h \in Handlers, req[h].pc \in Executing,
         NEW r, AnsweredOrLost(h, r), UNCHANGED jmVars,
         work' \in [Works -> ManifestWork \cup {Nil}],
         born' \in [Works -> Jobs \cup {Nil}],
         effected' = effected \cup {req[h].cur},
         WellFormed(r), Tracked(r, Locked', effected')
  PROVE  Inductive'
<1>1. Stores /\ req[h].cur \in Jobs /\ req[h].cur \in Locked
  BY InductiveParts, ExecutingHolds
<1>2. faults' \in 0..MaxFaults
  BY <1>1, FaultOK DEF AnsweredOrLost, Stores
<1>3. Stores' /\ Grows
  BY <1>1, <1>2 DEF Stores, Grows, Locked, jmVars
<1>4. CASE Continue(h, r)
  BY <1>3, <1>4, OneRequest
<1>5. CASE Continue(h, ExecuteError(req[h]))
  BY <1>3, <1>5, ErrorStep
<1> QED
  BY <1>4, <1>5 DEF AnsweredOrLost

\* An error of Execute that follows no write.
LEMMA QuietErrorStep ==
  ASSUME Inductive, NEW h \in Handlers, req[h].pc \in Executing,
         Continue(h, ExecuteError(req[h])),
         UNCHANGED <<jmVars, hubVars>>, UNCHANGED faults \/ Fault
  PROVE  Inductive'
BY StoresUnchanged, ErrorStep

LEMMA CreateManifestWorkStep ==
  ASSUME Inductive, NEW h \in Handlers, CreateManifestWork(h)
  PROVE  Inductive'
<1>1. /\ req[h].pc = "execute" /\ Asks(h).resource # Nil
      /\ UNCHANGED jmVars
  BY DEF CreateManifestWork, Executes, At
<1>2. req[h].pc \in Executing
  BY <1>1 DEF Executing
<1>3. /\ Stores /\ req[h] \in Request
      /\ req[h].cur \in Jobs /\ req[h].cur # Nil /\ req[h].cur \in Locked
      /\ req[h].view # Nil /\ Job[req[h].cur].resource # Nil
      /\ Asks(h).manifests \in SUBSET Manifest
  BY <1>1, <1>2, InductiveParts, ExecutingHolds DEF JobSpec
<1>4. ASSUME NEW w \in Works,
             LET mw == [hub |-> Hub(h), rv |-> 1, conds |-> <<>>,
                        deleting |-> FALSE,
                        manifests |-> GenerateManifests(Asks(h).manifests)]
             IN  /\ work' = [work EXCEPT ![w] = mw]
                 /\ AnsweredOrLost(h, [req[h] EXCEPT !.pc = "await",
                      !.got = [name |-> w, rv |-> mw.rv,
                               manifests |-> mw.manifests, conds |-> <<>>]]),
             born' = [born EXCEPT ![w] = req[h].cur],
             effected' = effected \cup {req[h].cur}
      PROVE  Inductive'
  <2> DEFINE ms == GenerateManifests(Asks(h).manifests)
             mw == [hub |-> Hub(h), rv |-> 1, conds |-> <<>>,
                    deleting |-> FALSE, manifests |-> ms]
             got == [name |-> w, rv |-> 1, manifests |-> ms, conds |-> <<>>]
             r == [req[h] EXCEPT !.pc = "await", !.got = got]
  <2>1. ms \in SUBSET Manifest /\ Hub(h) \in Hubs /\ <<>> \in Seq(Condition)
    BY <1>3, GenerateManifestsType, DeploymentAssumption, EmptySeq DEF Hub
  <2>2. work' = [work EXCEPT ![w] = mw] /\ AnsweredOrLost(h, r)
    BY <1>4
  <2> HIDE DEF ms
  <2>3. mw \in ManifestWork /\ got \in Snapshot
    BY <2>1 DEF ManifestWork, Snapshot
  <2> HIDE DEF mw, got
  <2>4. WellFormed(r) /\ r.pc = "await" /\ r.cur = req[h].cur
    BY <1>3, <2>3, WithAnswerOK
  <2> HIDE DEF r
  <2>5. Tracked(r, Locked', effected')
    BY <1>1, <1>3, <1>4, <2>4 DEF Tracked, Locked, jmVars
  <2>6. work' \in [Works -> ManifestWork \cup {Nil}]
    BY <1>3, <2>2, <2>3 DEF Stores
  <2>7. born' \in [Works -> Jobs \cup {Nil}]
    BY <1>3, <1>4 DEF Stores
  <2> QED
    BY <1>1, <1>2, <1>4, <2>2, <2>4, <2>5, <2>6, <2>7, HubWriteStep
<1>5. ASSUME Continue(h, ExecuteError(req[h])), UNCHANGED <<hubVars, faults>>
      PROVE  Inductive'
  BY <1>1, <1>2, <1>5, QuietErrorStep
<1> QED
  BY <1>4, <1>5 DEF CreateManifestWork

\* A success of Execute that follows no write.
LEMMA ResultStep ==
  ASSUME Inductive, NEW h \in Handlers, req[h].pc \in Executing,
         Asks(h).resource # Nil, NEW mem \in Result, mem.res.name # Nil,
         req[h].cur \in effected,
         Continue(h, [req[h] EXCEPT !.pc = "report", !.mem = mem]),
         UNCHANGED <<jmVars, hubVars, faults>>
  PROVE  Inductive'
<1> DEFINE r == [req[h] EXCEPT !.pc = "report", !.mem = mem]
<1>1. WellFormed(r) /\ r.pc = "report" /\ r.cur = req[h].cur /\ r.mem = mem
  <2>1. /\ req[h] \in Request /\ req[h].view # Nil /\ req[h].cur # Nil
        /\ Job[req[h].cur].resource # Nil
    BY ExecutingHolds
  <2> QED
    BY <2>1, WithResultOK
<1>2. req[h].cur \in Locked
  BY ExecutingHolds
<1>3. Continue(h, r)
  OBVIOUS
<1> HIDE DEF r
<1>4. Tracked(r, Locked', effected')
  BY <1>1, <1>2 DEF Tracked, Locked, jmVars, hubVars
<1> QED
  BY <1>1, <1>3, <1>4, StoresUnchanged, OneRequest

LEMMA AwaitAppliedStep ==
  ASSUME Inductive, NEW h \in Handlers, AwaitApplied(h)
  PROVE  Inductive'
<1>1. PICK w \in Polled(h) :
        Continue(h, [req[h] EXCEPT !.pc = "report",
                       !.mem = UpdateJobResource(View(h), Get(w))])
  BY DEF AwaitApplied
<1>2. /\ req[h].pc = "await" /\ w \in Works /\ work[w] # Nil
      /\ UNCHANGED <<jmVars, hubVars, faults>>
  BY DEF AwaitApplied, At, Polled, Found
<1> DEFINE mem == UpdateJobResource(View(h), Get(w))
<1>3. /\ req[h].pc \in Executing /\ Asks(h).resource # Nil
      /\ req[h].cur \in effected
  BY <1>2, InductiveParts DEF Executing, WellFormed, Coherent, Tracked, Asks
<1>4. Get(w) \in Snapshot /\ Get(w).name = w
  BY <1>2, GetOK DEF Inductive, Get
<1>5. mem \in Result /\ mem.res.name = w
  BY <1>3, <1>4, ExecutingHolds, UpdateJobResourceOK
<1>6. Continue(h, [req[h] EXCEPT !.pc = "report", !.mem = mem])
  BY <1>1
<1> HIDE DEF mem
<1>7. w # Nil
  BY <1>2, NilIsNothing
<1> QED
  BY <1>2, <1>3, <1>5, <1>6, <1>7, ResultStep

LEMMA FetchManifestWorkStep ==
  ASSUME Inductive, NEW h \in Handlers, FetchManifestWork(h)
  PROVE  Inductive'
<1> DEFINE name == View(h).name
<1>1. /\ req[h].pc = "execute" /\ Asks(h).resource # Nil
      /\ Continue(h, IF Found(name, h)
                     THEN [req[h] EXCEPT !.pc = "update", !.got = Get(name)]
                     ELSE ExecuteError(req[h]))
      /\ UNCHANGED <<jmVars, hubVars, faults>>
  BY DEF FetchManifestWork, Executes, At
<1>2. req[h].pc \in Executing
  BY <1>1 DEF Executing
<1> HIDE DEF name
<1>3. CASE Found(name, h)
  <2> DEFINE r == [req[h] EXCEPT !.pc = "update", !.got = Get(name)]
  <2>1. Get(name) \in Snapshot
    BY <1>3, GetOK DEF Inductive, Found
  <2>2. /\ req[h] \in Request /\ req[h].view # Nil /\ req[h].cur # Nil
        /\ Job[req[h].cur].resource # Nil /\ req[h].cur \in Locked
    BY <1>1, <1>2, ExecutingHolds
  <2>3. WellFormed(r) /\ r.pc = "update" /\ r.cur = req[h].cur
    BY <2>1, <2>2, WithAnswerOK
  <2>4. Continue(h, r)
    BY <1>1, <1>3
  <2> HIDE DEF r
  <2>5. Tracked(r, Locked', effected')
    BY <1>1, <2>2, <2>3 DEF Tracked, Locked, jmVars
  <2> QED
    BY <1>1, <2>3, <2>4, <2>5, StoresUnchanged, OneRequest
<1>4. CASE ~Found(name, h)
  BY <1>1, <1>2, <1>4, QuietErrorStep
<1> QED
  BY <1>3, <1>4

LEMMA UpdateStep ==
  ASSUME Inductive, NEW h \in Handlers, Update(h)
  PROVE  Inductive'
<1> DEFINE got == req[h].got
           w == got.name
           new == Updated(Asks(h), got.manifests)
           mem == UpdateJobResource(View(h), Get(w))
           r == [req[h] EXCEPT !.pc = "report", !.mem = mem]
<1>1. /\ req[h].pc = "update" /\ ~UpdatePanics(Asks(h), got.manifests)
      /\ UNCHANGED <<jmVars, born>>
  BY DEF Update, At
<1>2. req[h].pc \in Executing
  BY <1>1 DEF Executing
<1>3. /\ Stores /\ req[h] \in Request /\ got \in Snapshot
      /\ req[h].cur \in Jobs /\ req[h].cur # Nil /\ req[h].view # Nil
      /\ Job[req[h].cur].resource # Nil /\ req[h].cur \in Locked
      /\ Asks(h) \in JobSpec /\ View(h) \in Resource
  <2>1. WellFormed(req[h]) /\ Stores
    BY InductiveParts
  <2>2. got \in Snapshot /\ Job[req[h].cur].resource # Nil
    BY <1>1, <2>1 DEF WellFormed, Coherent, Request
  <2> QED
    BY <1>2, <2>1, <2>2, ExecutingHolds
<1>4. ASSUME Found(w, h),
             work' = [work EXCEPT ![w].manifests = new,
                       ![w].rv = IF new = work[w].manifests THEN @ ELSE @ + 1],
             effected' = effected \cup {req[h].cur},
             AnsweredOrLost(h, r)
      PROVE  Inductive'
  <2>1. w \in Works /\ work[w] # Nil /\ w # Nil
    BY <1>4, NilIsNothing DEF Found
  <2>2. Get(w) \in Snapshot /\ Get(w).name = w
    BY <2>1, GetOK DEF Inductive, Get
  <2>3. mem \in Result /\ mem.res.name = w
    <3> HIDE DEF w
    <3> QED
      BY <1>3, <2>2, UpdateJobResourceOK
  <2>4. new \in SUBSET Manifest
    <3>1. got.manifests \in SUBSET Manifest
      BY <1>3 DEF Snapshot
    <3>2. Asks(h).manifests \in SUBSET Manifest
      BY <1>3 DEF JobSpec
    <3>3. CASE IsScaling(Asks(h))
      <4>1. /\ Asks(h).subType \in ScaleTypes
            /\ ~RemediationPanics(got.manifests, Asks(h).subType)
        BY <1>1, <3>3 DEF IsScaling, UpdatePanics
      <4>2. new = RemediateManifests(got.manifests, Asks(h).subType)
        BY <3>3 DEF Updated
      <4> HIDE DEF new, got
      <4> QED
        BY <3>1, <4>1, <4>2, RemediateManifestsType
    <3>4. CASE ~IsScaling(Asks(h))
      BY <3>2, <3>4, ReplaceManifestsType DEF Updated
    <3> QED
      BY <3>3, <3>4
  <2> HIDE DEF w, new, mem
  <2>5. work' \in [Works -> ManifestWork \cup {Nil}]
    <3>1. work[w] \in ManifestWork
      BY <1>3, <2>1 DEF Stores
    <3> DEFINE rv == IF new = work[w].manifests THEN work[w].rv
                                                ELSE work[w].rv + 1
               mw == [work[w] EXCEPT !.manifests = new, !.rv = rv]
    <3>2. rv \in Nat
      BY <3>1 DEF ManifestWork
    <3>3. work' = [work EXCEPT ![w] = mw]
      BY <1>3, <1>4, <2>1, <3>1 DEF Stores, ManifestWork
    <3> HIDE DEF rv
    <3>4. mw \in ManifestWork
      BY <2>4, <3>1, <3>2 DEF ManifestWork
    <3> HIDE DEF mw
    <3> QED
      BY <1>3, <3>3, <3>4 DEF Stores
  <2>6. born' \in [Works -> Jobs \cup {Nil}]
    BY <1>1, <1>3 DEF Stores
  <2>7. /\ WellFormed(r) /\ r.pc = "report" /\ r.cur = req[h].cur
        /\ r.mem = mem
    BY <1>3, <2>3, WithResultOK
  <2>8. AnsweredOrLost(h, r)
    BY <1>4
  <2> HIDE DEF r
  <2>9. Tracked(r, Locked', effected')
    BY <1>1, <1>3, <1>4, <2>1, <2>3, <2>7 DEF Tracked, Locked, jmVars
  <2> QED
    BY <1>1, <1>2, <1>4, <2>5, <2>6, <2>7, <2>8, <2>9, HubWriteStep
<1>5. ASSUME Continue(h, ExecuteError(req[h])),
             UNCHANGED <<work, effected, faults>>
      PROVE  Inductive'
  BY <1>1, <1>2, <1>5, QuietErrorStep DEF hubVars
<1> QED
  BY <1>4, <1>5 DEF Update

\* Deleted or being deleted, the rest of a ManifestWork is as it was.
LEMMA DeletedOK ==
  ASSUME Inductive, NEW w \in Works, work[w] # Nil
  PROVE  Deleted(w) \subseteq ManifestWork \cup {Nil}
<1>1. work[w] \in ManifestWork
  BY InductiveParts DEF Stores
<1> DEFINE rv == work[w].rv + 1
           mw == [work[w] EXCEPT !.deleting = TRUE, !.rv = rv]
<1>2. rv \in Nat
  BY <1>1 DEF ManifestWork
<1>3. Deleted(w) = {Nil, IF work[w].deleting THEN work[w] ELSE mw}
  BY <1>1 DEF Deleted, ManifestWork
<1> HIDE DEF rv
<1>4. mw \in ManifestWork
  BY <1>1, <1>2 DEF ManifestWork
<1> HIDE DEF mw
<1> QED
  BY <1>1, <1>3, <1>4

LEMMA DeleteStep ==
  ASSUME Inductive, NEW h \in Handlers, Delete(h)
  PROVE  Inductive'
<1> DEFINE w == View(h).name
           mem == [state |-> "Applied", res |-> View(h)]
           r == [req[h] EXCEPT !.pc = "report", !.mem = mem]
<1>1. /\ req[h].pc = "execute" /\ Asks(h).resource # Nil
      /\ UNCHANGED <<jmVars, born>>
  BY DEF Delete, Executes, At
<1>2. req[h].pc \in Executing
  BY <1>1 DEF Executing
<1>3. /\ Stores /\ req[h] \in Request
      /\ req[h].cur \in Jobs /\ req[h].cur # Nil /\ req[h].view # Nil
      /\ Job[req[h].cur].resource # Nil /\ req[h].cur \in Locked
      /\ View(h) \in Resource
  BY <1>1, <1>2, InductiveParts, ExecutingHolds
<1>4. ASSUME Found(w, h), NEW left \in Deleted(w),
             work' = [work EXCEPT ![w] = left],
             effected' = effected \cup {req[h].cur}, AnsweredOrLost(h, r)
      PROVE  Inductive'
  <2>1. w \in Works /\ w # Nil /\ work[w] # Nil
    BY <1>4, NilIsNothing DEF Found
  <2>2. mem \in Result /\ mem.res.name = w
    BY <1>3 DEF Result, States
  <2>3. work' \in [Works -> ManifestWork \cup {Nil}]
    <3> HIDE DEF w
    <3>1. left \in ManifestWork \cup {Nil}
      BY <1>4, <2>1, DeletedOK
    <3> QED
      BY <1>3, <1>4, <3>1 DEF Stores
  <2>4. born' \in [Works -> Jobs \cup {Nil}]
    BY <1>1, <1>3 DEF Stores
  <2>5. AnsweredOrLost(h, r)
    BY <1>4
  <2> HIDE DEF w, mem
  <2>6. /\ WellFormed(r) /\ r.pc = "report" /\ r.cur = req[h].cur
        /\ r.mem = mem
    BY <1>3, <2>2, WithResultOK
  <2> HIDE DEF r
  <2>7. Tracked(r, Locked', effected')
    BY <1>1, <1>3, <1>4, <2>1, <2>2, <2>6 DEF Tracked, Locked, jmVars
  <2> QED
    BY <1>1, <1>2, <1>4, <2>3, <2>4, <2>5, <2>6, <2>7, HubWriteStep
<1>5. ASSUME Continue(h, ExecuteError(req[h])),
             UNCHANGED <<work, effected, faults>>
      PROVE  Inductive'
  BY <1>1, <1>2, <1>5, QuietErrorStep DEF hubVars
<1> QED
  BY <1>4, <1>5 DEF Delete

\* The steps that only end in an error.
LEMMA ErrorSteps ==
  ASSUME Inductive, NEW h \in Handlers,
         AwaitTimeout(h) \/ Unsupported(h) \/ CallFails(h)
  PROVE  Inductive'
<1>1. req[h].pc \in Executing
  BY DEF AwaitTimeout, Unsupported, CallFails, Executes, At, Executing
<1>2. /\ Continue(h, ExecuteError(req[h])) /\ UNCHANGED <<jmVars, hubVars>>
      /\ UNCHANGED faults \/ Fault
  BY DEF AwaitTimeout, Unsupported, CallFails
<1> QED
  BY <1>1, <1>2, QuietErrorStep

(***************************************************************************)
(* The end of a request, and its surroundings.                             *)
(***************************************************************************)
\* The process restarts, the stores stay.
LEMMA RestartStep ==
  ASSUME Inductive, NEW i, Restart(i), UNCHANGED <<jmVars, hubVars>>,
         UNCHANGED faults \/ Fault
  PROVE  Inductive'
<1>1. Stores'
  BY StoresUnchanged
<1>2. \A h \in Handlers : req'[h] = Idle \/ req'[h] = req[h]
  BY DEF Restart
<1>3. \A h \in Handlers : WellFormed(req'[h])
                         /\ Tracked(req'[h], Locked', effected')
  BY <1>2, IdleOK, InductiveParts DEF Locked, jmVars, hubVars
<1>4. req' \in [Handlers -> Request]
  BY <1>3 DEF Restart, WellFormed
<1> QED
  BY <1>1, <1>3, <1>4
     DEF Inductive, Stores, TypeOK, WellFormed, Tracked, Locked,
         LockedUnlessRefused, ReportsExistingWork, At

LEMMA DiesStep ==
  ASSUME Inductive, NEW h \in Handlers, Panics(h) \/ Exits(h)
  PROVE  Inductive'
<1>1. CASE Panics(h)
  BY <1>1, IdleOK, StoresUnchanged, OneRequest DEF Panics
<1>2. CASE Exits(h)
  BY <1>2, RestartStep DEF Exits
<1> QED
  BY <1>1, <1>2

LEMMA StoreOK ==
  ASSUME Inductive, NEW h \in Handlers, req[h].pc = "report",
         Store(h) \/ UNCHANGED <<state, res>>
  PROVE  /\ state' \in [Jobs -> JobStates]
         /\ res' \in [Resources -> Resource]
<1>1. req[h].pc \in Executing
  BY DEF Executing
<1>2. WellFormed(req[h]) /\ Stores
  BY InductiveParts
<1>3. req[h].mem \in Result /\ Job[req[h].cur].resource # Nil
  BY <1>2 DEF WellFormed, Coherent, Request
<1>4. req[h].mem.state \in JobStates /\ req[h].mem.res \in Resource
  BY <1>3 DEF Result, JobStates
<1> QED
  BY <1>2, <1>4 DEF Store, Stores

LEMMA ReportStep ==
  ASSUME Inductive, NEW h \in Handlers, Report(h)
  PROVE  Inductive'
<1> DEFINE n == NextJob(req[h])
           r == [n EXCEPT !.updated = @ \cup {req[h].cur}]
<1>1. /\ req[h].pc = "report" /\ UNCHANGED <<owner, refused, hubVars>>
      /\ Store(h) \/ UNCHANGED <<state, res>>
      /\ UNCHANGED faults \/ Fault
      /\ Continue(h, r) \/ Continue(h, UpdateError(req[h]))
  BY DEF Report, At
<1>2. req[h].pc \in Executing
  BY <1>1 DEF Executing
<1>3. Stores' /\ Grows
  BY <1>1, StoreOK, FaultOK, InductiveParts DEF Stores, Grows, Locked, hubVars
<1>4. WellFormed(req[h]) /\ req[h].view # Nil /\ req[h].cur \in Jobs
  BY <1>2, ExecutingHolds
<1>5. CASE Continue(h, UpdateError(req[h]))
  BY <1>3, <1>4, <1>5, NextJobOK, OneRequest
<1>6. CASE Continue(h, r)
  <2>1. n \in Request /\ n.pc = "loop" /\ n.view # Nil
    <3>1. n \in Request
      BY <1>4, NextJobOK DEF WellFormed
    <3>2. n.pc = "loop" /\ n.view = req[h].view
      BY <1>4 DEF NextJob, WellFormed, Request
    <3> QED
      BY <1>4, <3>1, <3>2
  <2> HIDE DEF n
  <2>2. r \in Request /\ r.pc = "loop" /\ r.view # Nil
    BY <1>4, <2>1 DEF Request
  <2> HIDE DEF r
  <2> QED
    BY <1>3, <1>6, <2>2, LoopOK, OneRequest
<1> QED
  BY <1>1, <1>5, <1>6

LEMMA ReplyStep ==
  ASSUME Inductive, NEW h \in Handlers, Reply(h)
  PROVE  Inductive'
<1> DEFINE n1 == [req[h] EXCEPT !.pc = "replied"]
           n2 == [n1 EXCEPT !.view = Nil]
           c == WriteHeader(n2.code, 200)
           n3 == [n2 EXCEPT !.code = c]
<1>1. req[h] \in Request
  BY InductiveParts
<1>2. n1 \in Request /\ n1.pc = "replied"
  BY <1>1 DEF Request, PCs
<1>3. Continue(h, n3)
  BY <1>1 DEF Reply, Request
<1> HIDE DEF n1
<1>4. n2 \in Request /\ n2.pc = "replied"
  BY <1>2 DEF Request
<1> HIDE DEF n2
<1>5. c \in {0} \cup Statuses
  BY <1>4 DEF WriteHeader, Request, Statuses
<1> HIDE DEF c
<1>6. n3 \in Request /\ n3.pc = "replied"
  BY <1>4, <1>5 DEF Request
<1> HIDE DEF n3
<1>7. WellFormed(n3) /\ Tracked(n3, Locked', effected')
  BY <1>6 DEF WellFormed, Tracked, Coherent, Executing
<1>8. Stores' /\ Grows
  BY StoresUnchanged DEF Reply
<1> QED
  BY <1>3, <1>7, <1>8, OneRequest

LEMMA ClientGoneStep ==
  ASSUME Inductive, NEW h \in Handlers, ClientGone(h)
  PROVE  Inductive'
<1> DEFINE r == [req[h] EXCEPT !.gone = TRUE]
<1>1. WellFormed(req[h]) /\ Tracked(req[h], Locked, effected)
  BY InductiveParts
<1>2. /\ r \in Request /\ r.pc = req[h].pc /\ r.view = req[h].view
      /\ r.cur = req[h].cur /\ r.got = req[h].got /\ r.mem = req[h].mem
  <2>1. req[h] \in Request
    BY <1>1 DEF WellFormed
  <2>2. r \in Request
    BY <2>1, SetField
  <2> QED
    BY <2>1, <2>2 DEF Request
<1>3. Continue(h, r)
  BY DEF ClientGone
<1> HIDE DEF r
<1>4. WellFormed(r) /\ Tracked(r, Locked, effected)
  BY <1>1, <1>2 DEF WellFormed, Coherent, Tracked
<1>5. Stores' /\ Grows /\ Locked' = Locked /\ effected' = effected
  BY StoresUnchanged DEF ClientGone, Locked, jmVars, hubVars
<1> QED
  BY <1>3, <1>4, <1>5, OneRequest

LEMMA SetConditionOK ==
  ASSUME NEW conds \in Seq(Condition), NEW c \in Condition
  PROVE  SetCondition(conds, c) \in Seq(Condition)
<1> DEFINE s == [k \in DOMAIN conds |->
                   IF conds[k].type = c.type THEN c ELSE conds[k]]
<1>1. /\ Len(conds) \in Nat /\ DOMAIN conds = 1..Len(conds)
      /\ conds \in [1..Len(conds) -> Condition]
  BY LenProperties
<1>2. s \in [1..Len(conds) -> Condition]
  BY <1>1
<1>3. s \in Seq(Condition)
  BY <1>1, <1>2, SeqDef
<1>4. Append(conds, c) \in Seq(Condition)
  OBVIOUS
<1> QED
  BY <1>3, <1>4 DEF SetCondition

LEMMA AgentStatusStep ==
  ASSUME Inductive, NEW w \in Works, AgentStatus(w)
  PROVE  Inductive'
<1>1. Stores /\ work[w] \in ManifestWork
  BY InductiveParts DEF AgentStatus, Stores
<1>2. PICK c \in Reports :
        LET conds == SetCondition(work[w].conds, c)
        IN  work' = [work EXCEPT ![w].conds = conds, ![w].rv = @ + 1]
  BY DEF AgentStatus
<1> DEFINE conds == SetCondition(work[w].conds, c)
           rv == work[w].rv + 1
           mw == [work[w] EXCEPT !.conds = conds, !.rv = rv]
<1>3. conds \in Seq(Condition) /\ rv \in Nat
  <2>1. work[w].conds \in Seq(Condition) /\ work[w].rv \in Nat
    BY <1>1 DEF ManifestWork
  <2> QED
    BY <2>1, SetConditionOK, DeploymentAssumption
<1>4. work' = [work EXCEPT ![w] = mw]
  BY <1>1, <1>2 DEF Stores, ManifestWork
<1> HIDE DEF conds, rv
<1>5. mw \in ManifestWork
  BY <1>1, <1>3 DEF ManifestWork
<1> HIDE DEF mw
<1>6. UNCHANGED <<jmVars, born, effected, req, faults>>
  BY DEF AgentStatus
<1>7. work' \in [Works -> ManifestWork \cup {Nil}]
  BY <1>1, <1>4, <1>5 DEF Stores
<1> QED
  BY <1>6, <1>7
     DEF Inductive, TypeOK, LockedUnlessRefused, ReportsExistingWork, At, jmVars

LEMMA AgentRemovesStep ==
  ASSUME Inductive, NEW w \in Works, AgentRemoves(w)
  PROVE  Inductive'
<1>1. UNCHANGED <<jmVars, born, effected, req, faults>>
  BY DEF AgentRemoves
<1>2. work' \in [Works -> ManifestWork \cup {Nil}]
  BY InductiveParts DEF AgentRemoves, Stores
<1> QED
  BY <1>1, <1>2
     DEF Inductive, TypeOK, LockedUnlessRefused, ReportsExistingWork, At, jmVars

(***************************************************************************)
(* The invariant.                                                          *)
(***************************************************************************)
LEMMA InductiveInit == Init => Inductive
<1> SUFFICES ASSUME Init  PROVE Inductive
  OBVIOUS
<1>1. Stores
  <2>1. [name |-> Nil, uid |-> Nil, conds |-> <<>>] \in Resource
    BY EmptySeq DEF Resource
  <2> QED
    BY <2>1, DeploymentAssumption DEF Init, Stores, JobStates
<1> QED
  BY <1>1, IdleOK DEF Init, Inductive, Stores, TypeOK,
     WellFormed, Tracked, Locked, LockedUnlessRefused, ReportsExistingWork, At

LEMMA InductiveStep == Inductive /\ [Next]_vars => Inductive'
<1> SUFFICES ASSUME Inductive, [Next]_vars  PROVE Inductive'
  OBVIOUS
<1>1. ASSUME NEW h \in Handlers,
             Pull(h) \/ PullFails(h) \/ Step(h) \/ ClientGone(h)
      PROVE  Inductive'
  BY <1>1, PullStep, PullFailsStep, SkipStep, PromoteStep, CreateManifestWorkStep,
     AwaitAppliedStep, FetchManifestWorkStep, UpdateStep, DeleteStep,
     ErrorSteps, DiesStep, ReportStep, ReplyStep, ClientGoneStep
     DEF Step, Runs
<1>2. ASSUME NEW i \in Instances, Crash(i)
      PROVE  Inductive'
  BY <1>2, RestartStep DEF Crash
<1>3. ASSUME NEW w \in Works, AgentStatus(w) \/ AgentRemoves(w)
      PROVE  Inductive'
  BY <1>3, AgentStatusStep, AgentRemovesStep
<1>4. CASE UNCHANGED vars
  BY <1>4 DEF vars, Inductive, TypeOK, LockedUnlessRefused,
              ReportsExistingWork, At
<1> QED
  BY <1>1, <1>2, <1>3, <1>4 DEF Next

\* For any jobs, hubs, instances, requests, faults and reports of the agents:
\* only an answered promotion lets a job go on, and what is reported was done.
\* This is the invariant that carries the next theorems.
THEOREM InductiveInvariant == Spec => []Inductive
BY InductiveInit, InductiveStep, PTL DEF Spec

\* Stores and requests keep their types: no nil dereference but those of Panics.
THEOREM TypeCorrect == Spec => []TypeOK
BY InductiveInvariant, PTL DEF Inductive

\* A job that is executed, or has reached a hub, has an owner, unless the Job
\* Manager answered a promotion of it without effect (job.go:735): a promotion
\* that failed on its way, or whose answer was lost, lets no job go on unowned.
THEOREM LockedUnlessAnswered == Spec => []LockedUnlessRefused
BY InductiveInvariant, PTL DEF Inductive

\* Every result about to be reported is about a ManifestWork the hub has had and
\* a write the hub has accepted.
THEOREM ReportsAreTrue == Spec => []ReportsExistingWork
BY InductiveInvariant, PTL DEF Inductive

(***************************************************************************)
(* The life of a job.  Each step of PullJobs is a step of JobLifecycle, or *)
(* changes nothing there.                                                  *)
(***************************************************************************)
\* A write of the hub is an Effect, whatever becomes of its answer.
LEMMA EffectRefines ==
  ASSUME Inductive, NEW h \in Handlers, req[h].pc \in Executing,
         UNCHANGED jmVars, effected' = effected \cup {req[h].cur}
  PROVE  Lifecycle!Next
<1>1. /\ req[h].cur \in Jobs
      /\ owner[req[h].cur] # Nil \/ req[h].cur \in refused
  BY ExecutingHolds DEF Locked
<1>2. Lifecycle!Effect(req[h].cur)
  BY <1>1 DEF Lifecycle!Effect, jmVars
<1> QED
  BY <1>1, <1>2 DEF Lifecycle!Next

LEMMA PromoteRefines ==
  ASSUME Inductive, NEW h \in Handlers, Promote(h)
  PROVE  Lifecycle!Next \/ UNCHANGED Lifecycle!vars
<1>1. PICK j \in req[h].todo :
        \/ /\ owner' \in {owner, Promoted(j, Hub(h))}
           /\ UNCHANGED refused
        \/ /\ owner[j] = Nil
           /\ refused' = refused \cup {j}
           /\ UNCHANGED owner
  BY DEF Promote
<1>2. j \in Jobs /\ Hub(h) \in Hubs
  <2>1. req[h] \in Request
    BY InductiveParts
  <2> QED
    BY <1>1, <2>1, DeploymentAssumption DEF Request, Hub
<1>3. UNCHANGED <<state, effected>>
  BY DEF Promote, hubVars
<1>4. CASE UNCHANGED <<owner, refused>>
  BY <1>3, <1>4 DEF Lifecycle!vars
<1>5. CASE owner' # owner
  <2>1. /\ owner[j] = Nil /\ owner' = [owner EXCEPT ![j] = Hub(h)]
        /\ UNCHANGED refused
    BY <1>1, <1>5 DEF Promoted
  <2>2. Lifecycle!Lock(j, Hub(h))
    BY <1>3, <2>1 DEF Lifecycle!Lock
  <2> QED
    BY <1>2, <2>2 DEF Lifecycle!Next
<1>6. CASE refused' # refused
  <2>1. Lifecycle!Refuse(j)
    BY <1>1, <1>3, <1>6 DEF Lifecycle!Refuse
  <2> QED
    BY <1>2, <2>1 DEF Lifecycle!Next
<1> QED
  BY <1>4, <1>5, <1>6

LEMMA ReportRefines ==
  ASSUME Inductive, NEW h \in Handlers, Report(h)
  PROVE  Lifecycle!Next \/ UNCHANGED Lifecycle!vars
<1>1. /\ req[h].pc = "report" /\ UNCHANGED <<owner, refused, effected>>
      /\ Store(h) \/ UNCHANGED state
  BY DEF Report, At, hubVars
<1>2. /\ req[h].cur \in Jobs /\ req[h].cur \in effected
      /\ req[h].mem.state # "Created"
      /\ state \in [Jobs -> JobStates]
  <2>1. /\ WellFormed(req[h]) /\ Tracked(req[h], Locked, effected) /\ Stores
    BY InductiveParts
  <2>2. req[h].mem \in Result
    BY <1>1, <2>1 DEF WellFormed, Coherent, Request
  <2> QED
    BY <1>1, <2>1, <2>2 DEF Tracked, Stores, Result, States
<1>3. CASE Store(h)
  <2>1. state' = [state EXCEPT ![req[h].cur] = req[h].mem.state]
    BY <1>3 DEF Store
  <2>2. {k \in Jobs : state'[k] # "Created"}
          = {k \in Jobs : state[k] # "Created"} \cup {req[h].cur}
    BY <1>2, <2>1
  <2> QED
    BY <1>1, <1>2, <2>2 DEF Lifecycle!Next, Lifecycle!Report
<1>4. CASE UNCHANGED state
  BY <1>1, <1>4 DEF Lifecycle!vars
<1> QED
  BY <1>1, <1>3, <1>4

LEMMA StepRefines ==
  Inductive /\ [Next]_vars => [Lifecycle!Next]_(Lifecycle!vars)
<1> SUFFICES ASSUME Inductive, [Next]_vars
             PROVE  Lifecycle!Next \/ UNCHANGED Lifecycle!vars
  OBVIOUS
<1>1. ASSUME NEW h \in Handlers,
             CreateManifestWork(h) \/ Update(h) \/ Delete(h)
      PROVE  Lifecycle!Next \/ UNCHANGED Lifecycle!vars
  <2>1. req[h].pc \in Executing /\ UNCHANGED jmVars
    BY <1>1 DEF CreateManifestWork, Update, Delete, Executes, At, Executing
  <2>2. effected' = effected \cup {req[h].cur} \/ UNCHANGED effected
    BY <1>1 DEF CreateManifestWork, Update, Delete, hubVars
  <2>3. CASE effected' = effected \cup {req[h].cur}
    BY <2>1, <2>3, EffectRefines
  <2>4. CASE UNCHANGED effected
    BY <2>1, <2>4 DEF Lifecycle!vars, jmVars
  <2> QED
    BY <2>2, <2>3, <2>4
<1>2. ASSUME NEW h \in Handlers, Promote(h) \/ Report(h)
      PROVE  Lifecycle!Next \/ UNCHANGED Lifecycle!vars
  BY <1>2, PromoteRefines, ReportRefines
<1>3. ASSUME NEW h \in Handlers,
             \/ Pull(h) \/ PullFails(h) \/ Skip(h)
             \/ AwaitApplied(h) \/ AwaitTimeout(h) \/ FetchManifestWork(h) \/ Unsupported(h) \/ CallFails(h)
             \/ Panics(h) \/ Exits(h) \/ Reply(h) \/ ClientGone(h)
      PROVE  UNCHANGED Lifecycle!vars
  <2>1. UNCHANGED <<jmVars, hubVars>>
    BY <1>3 DEF Pull, PullFails, Skip, AwaitApplied, AwaitTimeout,
                FetchManifestWork, Unsupported, CallFails, Panics, Exits, Reply, ClientGone
  <2> QED
    BY <2>1 DEF jmVars, hubVars, Lifecycle!vars
<1>4. ASSUME NEW i \in Instances, Crash(i)
      PROVE  UNCHANGED Lifecycle!vars
  BY <1>4 DEF Crash, jmVars, hubVars, Lifecycle!vars
<1>5. ASSUME NEW w \in Works, AgentStatus(w) \/ AgentRemoves(w)
      PROVE  UNCHANGED Lifecycle!vars
  BY <1>5 DEF AgentStatus, AgentRemoves, jmVars, Lifecycle!vars
<1>6. CASE UNCHANGED vars
  BY <1>6 DEF vars, Lifecycle!vars
<1> QED
  BY <1>1, <1>2, <1>3, <1>4, <1>5, <1>6 DEF Next, Step, Runs

\* For any jobs, hubs, instances, requests and faults, PullJobs implements
\* JobLifecycle: owned once, touched on a hub only when owned or when its promotion
\* was answered without effect, recorded only when touched, never undone.
THEOREM LifecycleImplemented == Spec => ImplementsLifecycle
<1>1. Init => Lifecycle!Init
  BY DEF Init, Lifecycle!Init
<1>2. Inductive /\ [Next]_vars => [Lifecycle!Next]_(Lifecycle!vars)
  BY StepRefines
<1> QED
  BY <1>1, <1>2, InductiveInvariant, PTL
     DEF Spec, ImplementsLifecycle, Lifecycle!Spec
=============================================================================
