-------------------------- MODULE ConsistencyProofs --------------------------
(***************************************************************************)
(* PullJobs, for any jobs, hubs, instances and number of requests:         *)
(* Consistent is an inductive invariant, so resources name their own       *)
(* ManifestWorks, accepted updates are computed from what they replace, a  *)
(* recorded deletion is real and a 200 hides no failure.                   *)
(***************************************************************************)
EXTENDS PullJobsProofs

(***************************************************************************)
(* The parts of the invariant, for given ManifestWorks (wk) and births     *)
(* (bn), so that they can be stated of a state and of the next one.        *)
(***************************************************************************)
Own(s, x, bn) ==
  /\ x.name = x.uid
  /\ x.name # Nil => bn[x.name] # Nil /\ Job[bn[x.name]].resource = s

OwnViews(v, bn) == v # Nil => \A s \in Resources : Own(s, v[s], bn)

Fresh(mw, wk) ==
  wk[mw.name] # Nil =>
    /\ mw.rv <= wk[mw.name].rv
    /\ mw.rv = wk[mw.name].rv => mw.manifests = wk[mw.name].manifests

\* What Leaving says, of given ManifestWorks.
Ended(wk, w) == IF wk[w] = Nil THEN TRUE ELSE wk[w].deleting

Holds(r, wk, bn) ==
  /\ OwnViews(r.view, bn)
  /\ r.pc \in {"await", "update"} =>
       /\ ~IsDeletion(Job[r.cur])
       /\ bn[r.got.name] # Nil
       /\ Job[bn[r.got.name]].resource = Job[r.cur].resource
  /\ r.pc = "update" => Fresh(r.got, wk)
  /\ r.pc = "report" =>
       /\ Own(Job[r.cur].resource, r.mem.res, bn)
       /\ IsDeletion(Job[r.cur]) => Ended(wk, r.mem.res.name)

\* What the stores add to Inductive.
OwnStores(wk, bn, rs) ==
  /\ \A w \in Works : wk[w] # Nil => bn[w] # Nil
  /\ OwnViews(rs, bn)

LEMMA ConsistentParts ==
  Consistent => /\ Inductive
                /\ OwnStores(work, born, res)
                /\ \A h \in Handlers : Holds(req[h], work, born)
                                       /\ Settled(req[h])
BY DEF Consistent, OwnStores, OwnViews, Own, NamesOwn, Holds, HoldsOwn, Fresh,
       Ended, Leaving

LEMMA PartsConsistent ==
  ASSUME Inductive', OwnStores(work', born', res'),
         \A h \in Handlers : Holds(req'[h], work', born') /\ Settled(req'[h])
  PROVE  Consistent'
<1>1. res' \in [Resources -> Resource]
  BY DEF Inductive, TypeOK
<1>2. res' # Nil
  BY <1>1, NilIsNoRecord
<1> QED
  BY <1>2 DEF Consistent, OwnStores, OwnViews, Own, NamesOwn, Holds, HoldsOwn,
              Fresh, Ended, Leaving

\* Names are not reused, what is deleted or being deleted stays so, and a version
\* identifies a payload.
Ages ==
  \A w \in Works :
    born[w] # Nil =>
      /\ born'[w] = born[w]
      /\ work'[w] # Nil =>
           /\ work[w] # Nil
           /\ work[w].rv <= work'[w].rv
           /\ work[w].rv = work'[w].rv => work[w].manifests = work'[w].manifests
           /\ work[w].deleting => work'[w].deleting

LEMMA OwnStays ==
  ASSUME Ages, NEW s, NEW x \in Resource, Own(s, x, born)
  PROVE  Own(s, x, born')
BY DEF Ages, Own, Resource

LEMMA OwnViewsStay ==
  ASSUME Ages, NEW v \in [Resources -> Resource] \cup {Nil}, OwnViews(v, born)
  PROVE  OwnViews(v, born')
BY OwnStays DEF OwnViews

LEMMA FreshStays ==
  ASSUME Ages, Stores, Stores', NEW mw \in Snapshot, born[mw.name] # Nil,
         Fresh(mw, work)
  PROVE  Fresh(mw, work')
<1> SUFFICES ASSUME work'[mw.name] # Nil
             PROVE  /\ mw.rv <= work'[mw.name].rv
                    /\ mw.rv = work'[mw.name].rv =>
                         mw.manifests = work'[mw.name].manifests
  BY DEF Fresh
<1> DEFINE old == work[mw.name]
           new == work'[mw.name]
<1>1. mw.name \in Works /\ mw.rv \in Nat
  BY DEF Snapshot
<1>2. /\ old # Nil /\ old.rv <= new.rv
      /\ old.rv = new.rv => old.manifests = new.manifests
  BY <1>1 DEF Ages
<1>3. mw.rv <= old.rv /\ (mw.rv = old.rv => mw.manifests = old.manifests)
  BY <1>2 DEF Fresh
<1>4. old \in ManifestWork /\ new \in ManifestWork
  BY <1>1, <1>2 DEF Stores
<1>5. old.rv \in Nat /\ new.rv \in Nat
  BY <1>4 DEF ManifestWork
<1> HIDE DEF old, new
<1>6. mw.rv <= new.rv /\ (mw.rv = new.rv => mw.manifests = new.manifests)
  BY <1>1, <1>2, <1>3, <1>5
<1> QED
  BY <1>6 DEF new

\* A request that does not move stays in order while the stores age.
LEMMA HoldsStays ==
  ASSUME Ages, Stores, Stores', NEW r, WellFormed(r),
         r.pc = "report" => r.mem.res.name # Nil, Holds(r, work, born)
  PROVE  Holds(r, work', born')
<1>1. r \in Request
  BY DEF WellFormed
<1>2. OwnViews(r.view, born')
  BY <1>1, OwnViewsStay DEF Request, Holds
<1>3. ASSUME r.pc \in {"await", "update"}
      PROVE  /\ ~IsDeletion(Job[r.cur])
             /\ born'[r.got.name] # Nil
             /\ Job[born'[r.got.name]].resource = Job[r.cur].resource
             /\ r.pc = "update" => Fresh(r.got, work')
  <2>1. r.got \in Snapshot /\ r.got.name \in Works
    BY <1>1, <1>3 DEF WellFormed, Coherent, Request, Snapshot
  <2>2. born[r.got.name] # Nil /\ (r.pc = "update" => Fresh(r.got, work))
    BY <1>3 DEF Holds
  <2>3. born'[r.got.name] = born[r.got.name]
    BY <2>1, <2>2 DEF Ages
  <2>4. r.pc = "update" => Fresh(r.got, work')
    BY <2>1, <2>2, FreshStays
  <2> QED
    BY <1>3, <2>2, <2>3, <2>4 DEF Holds
<1>4. ASSUME r.pc = "report"
      PROVE  /\ Own(Job[r.cur].resource, r.mem.res, born')
             /\ IsDeletion(Job[r.cur]) => Ended(work', r.mem.res.name)
  <2>1. r.mem \in Result /\ r.mem.res \in Resource
    BY <1>1, <1>4 DEF WellFormed, Coherent, Request, Result
  <2>2. /\ Own(Job[r.cur].resource, r.mem.res, born)
        /\ IsDeletion(Job[r.cur]) => Ended(work, r.mem.res.name)
    BY <1>4 DEF Holds
  <2>3. /\ r.mem.res.name \in Works
        /\ born[r.mem.res.name] # Nil
    BY <1>4, <2>1, <2>2 DEF Own, Resource
  <2>4. IsDeletion(Job[r.cur]) => Ended(work', r.mem.res.name)
    BY <2>2, <2>3 DEF Ages, Ended
  <2> QED
    BY <2>1, <2>2, <2>4, OwnStays
<1> QED
  BY <1>2, <1>3, <1>4 DEF Holds

LEMMA StoresNext == Inductive' => Stores'
BY DEF Inductive, Stores, TypeOK, LockedUnlessRefused, Locked

\* What a step of one request has to show.
LEMMA OneRequestConsistent ==
  ASSUME Consistent, Inductive', Ages, OwnStores(work', born', res'),
         NEW h \in Handlers, NEW r, Continue(h, r),
         Holds(r, work', born'), Settled(r)
  PROVE  Consistent'
<1>1. /\ Stores /\ Stores' /\ req \in [Handlers -> Request]
      /\ \A g \in Handlers : WellFormed(req[g])
                             /\ Tracked(req[g], Locked, effected)
  BY ConsistentParts, InductiveParts, StoresNext
<1>2. ASSUME NEW g \in Handlers
      PROVE  Holds(req'[g], work', born') /\ Settled(req'[g])
  <2>1. CASE g = h
    BY <1>1, <2>1 DEF Continue
  <2>2. CASE g # h
    <3>1. req'[g] = req[g]
      BY <1>1, <2>2 DEF Continue
    <3>2. /\ WellFormed(req[g]) /\ Holds(req[g], work, born) /\ Settled(req[g])
          /\ req[g].pc = "report" => req[g].mem.res.name # Nil
      BY <1>1, ConsistentParts DEF Tracked
    <3>3. Holds(req[g], work', born')
      BY <1>1, <3>2, HoldsStays
    <3> QED
      BY <3>1, <3>2, <3>3
  <2> QED
    BY <2>1, <2>2
<1> QED
  BY <1>2, PartsConsistent

LEMMA OwnStoresStay ==
  ASSUME Inductive, Ages, OwnStores(work, born, res), UNCHANGED res,
         \A w \in Works : work'[w] # Nil => born'[w] # Nil
  PROVE  OwnStores(work', born', res')
<1>1. res \in [Resources -> Resource]
  BY DEF Inductive, TypeOK
<1>2. OwnViews(res, born')
  BY <1>1, OwnViewsStay DEF OwnStores
<1> QED
  BY <1>2 DEF OwnStores

\* Neither the ManifestWorks nor the resources change.
LEMMA QuietStores ==
  ASSUME Inductive, OwnStores(work, born, res), UNCHANGED <<work, born, res>>
  PROVE  Ages /\ OwnStores(work', born', res')
<1>1. ASSUME NEW w \in Works, work[w] # Nil
      PROVE  work[w].rv \in Nat
  BY <1>1 DEF Inductive, TypeOK, ManifestWork
<1>2. Ages
  BY <1>1 DEF Ages
<1> QED
  BY <1>2 DEF OwnStores

(***************************************************************************)
(* Requests back in their loop.                                            *)
(***************************************************************************)
\* Only the view matters there.
LEMMA HoldsInLoop ==
  ASSUME NEW r, r.pc \notin {"await", "update", "report"},
         NEW bn, OwnViews(r.view, bn), NEW wk
  PROVE  Holds(r, wk, bn)
BY DEF Holds

LEMMA NilViews == \A bn : OwnViews(Nil, bn)
BY DEF OwnViews

\* Once an error was written, nothing is promised any more.
LEMMA SettledError ==
  ASSUME NEW r, r.pc = "loop", r.cur = Nil, r.code \notin {0, 200}
  PROVE  Settled(r)
BY DEF Settled

LEMMA NextJobFields ==
  ASSUME NEW r \in Request
  PROVE  LET n == NextJob(r)
         IN  /\ n \in Request /\ n.pc = "loop" /\ n.cur = Nil
             /\ n.view = r.view /\ n.code = r.code /\ n.jobs = r.jobs
             /\ n.todo = r.todo /\ n.updated = r.updated
<1> DEFINE n1 == [r EXCEPT !.pc = "loop"]
           n2 == [n1 EXCEPT !.cur = Nil]
           n3 == [n2 EXCEPT !.got = Nil]
           n4 == [n3 EXCEPT !.mem = Nil]
           Same(n) == /\ n.pc = "loop" /\ n.view = r.view
                      /\ n.code = r.code /\ n.jobs = r.jobs
                      /\ n.todo = r.todo /\ n.updated = r.updated
<1>1. n1 \in Request /\ Same(n1)
  BY DEF Request, PCs
<1> HIDE DEF n1
<1>2. n2 \in Request /\ n2.cur = Nil /\ Same(n2)
  BY <1>1 DEF Request
<1> HIDE DEF n2
<1>3. n3 \in Request /\ n3.cur = Nil /\ Same(n3)
  BY <1>2 DEF Request
<1> HIDE DEF n3
<1>4. n4 \in Request /\ n4.cur = Nil /\ Same(n4)
  BY <1>3 DEF Request
<1>5. NextJob(r) = n4
  BY DEF NextJob, n1, n2, n3
<1> HIDE DEF n4
<1> QED
  BY <1>4, <1>5

LEMMA ErrorFields ==
  ASSUME NEW r \in Request, r.code # 200,
         NEW n \in {ExecuteError(r), UpdateError(r)}
  PROVE  /\ n.pc = "loop" /\ n.cur = Nil /\ n.view = r.view
         /\ n.code \notin {0, 200}
<1> DEFINE m == NextJob(r)
<1>1. m \in Request /\ m.pc = "loop" /\ m.cur = Nil /\ m.view = r.view
      /\ m.code = r.code
  BY NextJobFields
<1>2. n \in {[m EXCEPT !.code = WriteHeader(@, 422)],
             [m EXCEPT !.code = WriteHeader(@, 503)]}
  BY DEF ExecuteError, UpdateError
<1> HIDE DEF m
<1> QED
  BY <1>1, <1>2 DEF Request, WriteHeader

\* What is known of a request in progress.
LEMMA InProgress ==
  ASSUME Consistent, NEW h \in Handlers
  PROVE  /\ req[h] \in Request /\ WellFormed(req[h])
         /\ Tracked(req[h], Locked, effected)
         /\ Holds(req[h], work, born) /\ Settled(req[h])
         /\ OwnViews(req[h].view, born)
         /\ req[h].pc # "replied" => req[h].code # 200
BY ConsistentParts, InductiveParts DEF WellFormed, Holds, Settled

\* An error leaves a request with the view it had, in stores that age.
LEMMA ErrorConsistent ==
  ASSUME Consistent, Inductive', Ages, OwnStores(work', born', res'),
         NEW h \in Handlers, req[h].pc \in Executing,
         \/ Continue(h, ExecuteError(req[h]))
         \/ Continue(h, UpdateError(req[h]))
  PROVE  Consistent'
<1>1. PICK n \in {ExecuteError(req[h]), UpdateError(req[h])} : Continue(h, n)
  OBVIOUS
<1>2. req[h] \in Request /\ req[h].code # 200 /\ OwnViews(req[h].view, born)
  BY InProgress DEF Executing
<1>3. /\ n.pc = "loop" /\ n.cur = Nil /\ n.view = req[h].view
      /\ n.code \notin {0, 200}
  BY <1>1, <1>2, ErrorFields
<1>4. OwnViews(n.view, born')
  BY <1>2, <1>3, OwnViewsStay DEF Request
<1>5. Holds(n, work', born') /\ Settled(n)
  BY <1>3, <1>4, HoldsInLoop, SettledError
<1> QED
  BY <1>1, <1>5, OneRequestConsistent

(***************************************************************************)
(* The steps of PullJobs and executeJobs.                                  *)
(***************************************************************************)
LEMMA PullConsistent ==
  ASSUME Consistent, Inductive', NEW h \in Handlers, Pull(h)
  PROVE  Consistent'
<1> DEFINE js == Executable(Hub(h))
           r == [Idle EXCEPT !.pc = "loop", !.jobs = js, !.todo = js,
                             !.view = res]
<1>1. Continue(h, r) /\ UNCHANGED <<work, born, res>>
  BY DEF Pull, jmVars, hubVars
<1>2. Ages /\ OwnStores(work', born', res')
  BY <1>1, QuietStores, ConsistentParts
<1>3. /\ r.pc = "loop" /\ r.view = res /\ r.cur = Nil /\ r.code = 0
      /\ r.jobs = js /\ r.todo = js
  BY DEF Idle
<1> HIDE DEF r, js
<1>4. Settled(r)
  BY <1>3 DEF Settled
<1>5. Holds(r, work', born')
  BY <1>1, <1>2, <1>3, HoldsInLoop DEF OwnStores
<1> QED
  BY <1>1, <1>2, <1>4, <1>5, OneRequestConsistent

LEMMA IdleConsistent ==
  ASSUME NEW wk, NEW bn
  PROVE  Holds(Idle, wk, bn) /\ Settled(Idle)
BY NilViews DEF Idle, Holds, Settled

\* A request without a list holds nothing and promises nothing.
LEMMA PullFailsConsistent ==
  ASSUME Consistent, Inductive', NEW h \in Handlers, PullFails(h)
  PROVE  Consistent'
<1>1. UNCHANGED <<work, born, res>>
  BY DEF PullFails, jmVars, hubVars
<1>2. Ages /\ OwnStores(work', born', res')
  BY <1>1, QuietStores, ConsistentParts
<1>3. CASE Continue(h, Idle)
  BY <1>2, <1>3, IdleConsistent, OneRequestConsistent
<1>4. ASSUME NEW status,
             Continue(h, [Idle EXCEPT !.pc = "replied", !.code = status])
      PROVE  Consistent'
  <2> DEFINE r == [Idle EXCEPT !.pc = "replied", !.code = status]
  <2>1. r.pc = "replied" /\ r.view = Nil /\ r.jobs = {}
    BY DEF Idle
  <2>2. Continue(h, r)
    BY <1>4
  <2> HIDE DEF r
  <2>3. Settled(r)
    BY <2>1 DEF Settled
  <2>4. Holds(r, work', born')
    BY <2>1, NilViews, HoldsInLoop
  <2> QED
    BY <1>2, <2>2, <2>3, <2>4, OneRequestConsistent
<1> QED
  BY <1>3, <1>4 DEF PullFails

LEMMA SkipConsistent ==
  ASSUME Consistent, Inductive', NEW h \in Handlers, Skip(h)
  PROVE  Consistent'
<1>1. PICK j \in req[h].todo :
        /\ req[h].pc = "loop" /\ ~Job[j].hasNode
        /\ Continue(h, [req[h] EXCEPT !.todo = @ \ {j}])
        /\ UNCHANGED <<work, born, res>>
  BY DEF Skip, jmVars, hubVars
<1> DEFINE r == [req[h] EXCEPT !.todo = @ \ {j}]
<1>2. Ages /\ OwnStores(work', born', res')
  BY <1>1, QuietStores, ConsistentParts
<1>3. req[h] \in Request /\ OwnViews(req[h].view, born) /\ Settled(req[h])
  BY InProgress
<1>4. /\ r.pc = "loop" /\ r.view = req[h].view /\ r.cur = req[h].cur
      /\ r.code = req[h].code /\ r.jobs = req[h].jobs
      /\ r.updated = req[h].updated /\ r.todo = req[h].todo \ {j}
  BY <1>1, <1>3 DEF Request
<1>5. Continue(h, r)
  BY <1>1
<1> HIDE DEF r
<1>6. Settled(r)
  BY <1>1, <1>3, <1>4 DEF Settled
<1>7. Holds(r, work', born')
  BY <1>1, <1>3, <1>4, HoldsInLoop
<1> QED
  BY <1>2, <1>5, <1>6, <1>7, OneRequestConsistent

LEMMA PromoteConsistent ==
  ASSUME Consistent, Inductive', NEW h \in Handlers, Promote(h)
  PROVE  Consistent'
<1>1. PICK j \in req[h].todo :
        /\ req[h].pc = "loop"
        /\ \/ Continue(h, [req[h] EXCEPT !.pc = "execute", !.cur = j,
                                         !.todo = @ \ {j}])
           \/ Continue(h, PromoteError(req[h], j))
        /\ UNCHANGED <<work, born, res>>
  BY DEF Promote, hubVars
<1>2. Ages /\ OwnStores(work', born', res')
  BY <1>1, QuietStores, ConsistentParts
<1>3. /\ req[h] \in Request /\ OwnViews(req[h].view, born) /\ Settled(req[h])
      /\ req[h].code # 200
  BY <1>1, InProgress
<1>4. CASE Continue(h, [req[h] EXCEPT !.pc = "execute", !.cur = j,
                                      !.todo = @ \ {j}])
  <2> DEFINE r == [req[h] EXCEPT !.pc = "execute", !.cur = j, !.todo = @ \ {j}]
  <2>1. /\ r.pc = "execute" /\ r.view = req[h].view /\ r.cur = j
        /\ r.code = req[h].code /\ r.jobs = req[h].jobs
        /\ r.updated = req[h].updated /\ r.todo = req[h].todo \ {j}
    BY <1>3 DEF Request
  <2>2. Continue(h, r)
    BY <1>4
  <2> HIDE DEF r
  <2>3. Settled(r)
    <3>1. req[h].jobs \subseteq Jobs /\ req[h].cur = Nil /\ Nil \notin Jobs
      BY <1>1, <1>3, NilIsNothing DEF Request, Settled
    <3> QED
      BY <1>1, <1>3, <2>1, <3>1 DEF Settled
  <2>4. Holds(r, work', born')
    BY <1>1, <1>3, <2>1, HoldsInLoop
  <2> QED
    BY <1>2, <2>2, <2>3, <2>4, OneRequestConsistent
<1>5. CASE Continue(h, PromoteError(req[h], j))
  <2> DEFINE r == PromoteError(req[h], j)
  <2>1. /\ r.pc = "loop" /\ r.view = req[h].view /\ r.cur = req[h].cur
        /\ r.code \notin {0, 200}
    BY <1>1, <1>3 DEF PromoteError, WriteHeader, Request
  <2>2. req[h].cur = Nil
    BY <1>1, <1>3 DEF Settled
  <2> HIDE DEF r
  <2>3. Holds(r, work', born') /\ Settled(r)
    BY <1>1, <1>3, <2>1, <2>2, HoldsInLoop, SettledError
  <2> QED
    BY <1>2, <1>5, <2>3, OneRequestConsistent DEF r
<1> QED
  BY <1>1, <1>4, <1>5

(***************************************************************************)
(* The steps of Execute.                                                   *)
(***************************************************************************)
\* What an executing request goes on with keeps its promises about jobs.
LEMMA SettledOn ==
  ASSUME NEW r, Settled(r), r.pc \in Executing, NEW n, n.pc \in Executing,
         n.cur = r.cur, n.code = r.code, n.jobs = r.jobs, n.todo = r.todo,
         n.updated = r.updated
  PROVE  Settled(n)
BY DEF Settled, Executing

LEMMA WithAnswerFields ==
  ASSUME NEW r \in Request, NEW pc \in {"await", "update"}, NEW mw
  PROVE  LET n == [r EXCEPT !.pc = pc, !.got = mw]
         IN  /\ n.pc = pc /\ n.got = mw /\ n.cur = r.cur /\ n.view = r.view
             /\ n.code = r.code /\ n.jobs = r.jobs /\ n.todo = r.todo
             /\ n.updated = r.updated
BY DEF Request

LEMMA WithResultFields ==
  ASSUME NEW r \in Request, NEW mem
  PROVE  LET n == [r EXCEPT !.pc = "report", !.mem = mem]
         IN  /\ n.pc = "report" /\ n.mem = mem /\ n.cur = r.cur
             /\ n.view = r.view /\ n.code = r.code /\ n.jobs = r.jobs
             /\ n.todo = r.todo /\ n.updated = r.updated
BY DEF Request

\* A ManifestWork in the hands of a request.
LEMMA AnswerConsistent ==
  ASSUME Consistent, Inductive', Ages, OwnStores(work', born', res'),
         NEW h \in Handlers, req[h].pc \in Executing,
         NEW pc \in {"await", "update"}, NEW mw,
         LET r == [req[h] EXCEPT !.pc = pc, !.got = mw]
         IN  Continue(h, r) \/ Continue(h, ExecuteError(req[h])),
         ~IsDeletion(Asks(h)), born'[mw.name] # Nil,
         Job[born'[mw.name]].resource = Asks(h).resource,
         pc = "update" => Fresh(mw, work')
  PROVE  Consistent'
<1> DEFINE r == [req[h] EXCEPT !.pc = pc, !.got = mw]
<1>1. /\ req[h] \in Request /\ OwnViews(req[h].view, born) /\ Settled(req[h])
  BY InProgress
<1>2. /\ r.pc = pc /\ r.got = mw /\ r.cur = req[h].cur
      /\ r.view = req[h].view /\ r.code = req[h].code
      /\ r.jobs = req[h].jobs /\ r.todo = req[h].todo
      /\ r.updated = req[h].updated
  BY <1>1, WithAnswerFields
<1>3. Continue(h, r) \/ Continue(h, ExecuteError(req[h]))
  OBVIOUS
<1> HIDE DEF r
<1>4. Settled(r)
  BY <1>1, <1>2, SettledOn DEF Executing
<1>5. OwnViews(r.view, born')
  BY <1>1, <1>2, OwnViewsStay DEF Request
<1>6. Holds(r, work', born')
  BY <1>2, <1>5 DEF Holds, Asks
<1> QED
  BY <1>3, <1>4, <1>6, OneRequestConsistent, ErrorConsistent

\* A result in the hands of a request.
LEMMA ResultConsistent ==
  ASSUME Consistent, Inductive', Ages, OwnStores(work', born', res'),
         NEW h \in Handlers, req[h].pc \in Executing, NEW mem,
         LET r == [req[h] EXCEPT !.pc = "report", !.mem = mem]
         IN  Continue(h, r) \/ Continue(h, ExecuteError(req[h])),
         Own(Asks(h).resource, mem.res, born'),
         IsDeletion(Asks(h)) => Ended(work', mem.res.name)
  PROVE  Consistent'
<1> DEFINE r == [req[h] EXCEPT !.pc = "report", !.mem = mem]
<1>1. /\ req[h] \in Request /\ OwnViews(req[h].view, born) /\ Settled(req[h])
  BY InProgress
<1>2. /\ r.pc = "report" /\ r.mem = mem /\ r.cur = req[h].cur
      /\ r.view = req[h].view /\ r.code = req[h].code
      /\ r.jobs = req[h].jobs /\ r.todo = req[h].todo
      /\ r.updated = req[h].updated
  BY <1>1, WithResultFields
<1>3. Continue(h, r) \/ Continue(h, ExecuteError(req[h]))
  OBVIOUS
<1> HIDE DEF r
<1>4. Settled(r)
  BY <1>1, <1>2, SettledOn DEF Executing
<1>5. OwnViews(r.view, born')
  BY <1>1, <1>2, OwnViewsStay DEF Request
<1>6. Holds(r, work', born')
  BY <1>2, <1>5 DEF Holds, Asks
<1> QED
  BY <1>3, <1>4, <1>6, OneRequestConsistent, ErrorConsistent

\* The view of the job's own resource.
LEMMA OwnView ==
  ASSUME Consistent, NEW h \in Handlers, req[h].pc \in Executing,
         Asks(h).resource # Nil
  PROVE  /\ View(h) \in Resource /\ Asks(h).resource \in Resources
         /\ Own(Asks(h).resource, View(h), born)
<1>1. /\ req[h].view # Nil /\ Asks(h).resource \in Resources
      /\ View(h) \in Resource /\ OwnViews(req[h].view, born)
  BY ConsistentParts, ExecutingHolds, InProgress
<1> QED
  BY <1>1 DEF OwnViews, View

LEMMA QuietErrorConsistent ==
  ASSUME Consistent, Inductive', NEW h \in Handlers, req[h].pc \in Executing,
         \/ Continue(h, ExecuteError(req[h]))
         \/ Continue(h, UpdateError(req[h])),
         UNCHANGED <<work, born, res>>
  PROVE  Consistent'
BY ConsistentParts, QuietStores, ErrorConsistent

LEMMA CreateManifestWorkConsistent ==
  ASSUME Consistent, Inductive', NEW h \in Handlers, CreateManifestWork(h)
  PROVE  Consistent'
<1>1. /\ req[h].pc \in Executing /\ Asks(h).resource # Nil
      /\ ~IsDeletion(Asks(h)) /\ UNCHANGED res
  BY DEF CreateManifestWork, Executes, At, Executing, IsDeletion, jmVars
<1>2. /\ Inductive /\ OwnStores(work, born, res) /\ Stores
      /\ req[h].cur \in Jobs /\ req[h].cur # Nil
  BY <1>1, ConsistentParts, InductiveParts, ExecutingHolds
<1>3. ASSUME NEW w \in Works, born[w] = Nil, NEW mw,
             work' = [work EXCEPT ![w] = mw],
             born' = [born EXCEPT ![w] = req[h].cur],
             NEW got, got.name = w,
             AnsweredOrLost(h, [req[h] EXCEPT !.pc = "await", !.got = got])
      PROVE  Consistent'
  <2>1. /\ \A v \in Works : v # w => work'[v] = work[v] /\ born'[v] = born[v]
        /\ born'[w] = req[h].cur
    BY <1>2, <1>3 DEF Stores
  <2>2. Ages
    <3>1. ASSUME NEW v \in Works, born[v] # Nil, work[v] # Nil
          PROVE  work[v].rv <= work[v].rv
      BY <1>2, <3>1 DEF Stores, ManifestWork
    <3> QED
      BY <1>3, <2>1, <3>1 DEF Ages
  <2>3. OwnStores(work', born', res')
    BY <1>1, <1>2, <2>1, <2>2, OwnStoresStay DEF OwnStores
  <2>4. /\ born'[got.name] # Nil
        /\ Job[born'[got.name]].resource = Asks(h).resource
    BY <1>2, <1>3, <2>1 DEF Asks
  <2>5. LET r == [req[h] EXCEPT !.pc = "await", !.got = got]
        IN  Continue(h, r) \/ Continue(h, ExecuteError(req[h]))
    BY <1>3 DEF AnsweredOrLost
  <2> QED
    BY <1>1, <2>2, <2>3, <2>4, <2>5, AnswerConsistent
<1>4. ASSUME Continue(h, ExecuteError(req[h])), UNCHANGED hubVars
      PROVE  Consistent'
  BY <1>1, <1>4, QuietErrorConsistent DEF hubVars
<1>5. CASE \E w \in Works :
             /\ born[w] = Nil
             /\ LET mw == [hub |-> Hub(h), rv |-> 1, conds |-> <<>>,
                           deleting |-> FALSE,
                           manifests |-> GenerateManifests(Asks(h).manifests)]
                IN  /\ work' = [work EXCEPT ![w] = mw]
                    /\ AnsweredOrLost(h, [req[h] EXCEPT !.pc = "await",
                         !.got = [name |-> w, rv |-> mw.rv,
                                  manifests |-> mw.manifests, conds |-> <<>>]])
             /\ born' = [born EXCEPT ![w] = req[h].cur]
  <2> DEFINE mw == [hub |-> Hub(h), rv |-> 1, conds |-> <<>>,
                    deleting |-> FALSE,
                    manifests |-> GenerateManifests(Asks(h).manifests)]
             got(w) == [name |-> w, rv |-> 1, manifests |-> mw.manifests,
                        conds |-> <<>>]
  <2>1. PICK w \in Works :
          /\ born[w] = Nil /\ work' = [work EXCEPT ![w] = mw]
          /\ AnsweredOrLost(h, [req[h] EXCEPT !.pc = "await", !.got = got(w)])
          /\ born' = [born EXCEPT ![w] = req[h].cur]
    BY <1>5
  <2>2. got(w).name = w
    OBVIOUS
  <2> HIDE DEF mw, got
  <2> QED
    BY <2>1, <2>2, <1>3
<1> QED
  BY <1>4, <1>5 DEF CreateManifestWork

\* What UpdateJobResource makes of the ManifestWork of the job is its own.
LEMMA UpdateJobResourceOwn ==
  ASSUME NEW old, NEW mw, NEW s, NEW bn, bn[mw.name] # Nil,
         Job[bn[mw.name]].resource = s
  PROVE  Own(s, UpdateJobResource(old, mw).res, bn)
BY DEF Own, UpdateJobResource

LEMMA AwaitAppliedConsistent ==
  ASSUME Consistent, Inductive', NEW h \in Handlers, AwaitApplied(h)
  PROVE  Consistent'
<1> DEFINE w == req[h].got.name
           mem == UpdateJobResource(View(h), Get(w))
<1>1. /\ req[h].pc = "await" /\ UNCHANGED <<work, born, res>>
      /\ Continue(h, [req[h] EXCEPT !.pc = "report", !.mem = mem])
  BY DEF AwaitApplied, Polled, At, jmVars, hubVars
<1>2. Ages /\ OwnStores(work', born', res')
  BY <1>1, QuietStores, ConsistentParts
<1>3. /\ ~IsDeletion(Asks(h)) /\ born[w] # Nil
      /\ Job[born[w]].resource = Asks(h).resource
  BY <1>1, InProgress DEF Holds, Asks
<1>4. Get(w).name = w
  BY DEF Get
<1>5. Own(Asks(h).resource, mem.res, born')
  BY <1>1, <1>3, <1>4, UpdateJobResourceOwn
<1> HIDE DEF mem
<1> QED
  BY <1>1, <1>2, <1>3, <1>5, ResultConsistent DEF Executing

LEMMA FetchManifestWorkConsistent ==
  ASSUME Consistent, Inductive', NEW h \in Handlers, FetchManifestWork(h)
  PROVE  Consistent'
<1> DEFINE name == View(h).name
<1>1. /\ req[h].pc \in Executing /\ Asks(h).resource # Nil
      /\ ~IsDeletion(Asks(h)) /\ UNCHANGED <<work, born, res>>
      /\ Continue(h, IF Found(name, h)
                     THEN [req[h] EXCEPT !.pc = "update", !.got = Get(name)]
                     ELSE ExecuteError(req[h]))
  BY DEF FetchManifestWork, Executes, At, Executing, IsDeletion, IsScaling,
         ScaleTypes, Replicas, Quantities, jmVars, hubVars
<1> HIDE DEF name
<1>2. CASE Found(name, h)
  <2>1. name \in Works /\ work[name] # Nil /\ name # Nil
    BY <1>2, NilIsNothing DEF Found
  <2>2. Get(name) \in Snapshot /\ Get(name).name = name
        /\ Get(name).rv = work[name].rv
        /\ Get(name).manifests = work[name].manifests
    BY <2>1, GetOK, ConsistentParts DEF Inductive, Get
  <2>3. born[name] # Nil /\ Job[born[name]].resource = Asks(h).resource
    BY <1>1, <2>1, OwnView DEF Own, name
  <2>4. Fresh(Get(name), work')
    BY <1>1, <2>2 DEF Fresh, Snapshot
  <2>5. Ages /\ OwnStores(work', born', res')
    BY <1>1, QuietStores, ConsistentParts
  <2>6. Continue(h, [req[h] EXCEPT !.pc = "update", !.got = Get(name)])
    BY <1>1, <1>2
  <2> DEFINE mw == Get(name)
  <2>7. /\ born'[mw.name] # Nil
        /\ Job[born'[mw.name]].resource = Asks(h).resource
    BY <1>1, <2>2, <2>3
  <2> HIDE DEF mw
  <2>8. Continue(h, [req[h] EXCEPT !.pc = "update", !.got = mw])
        /\ Fresh(mw, work')
    BY <2>4, <2>6 DEF mw
  <2> QED
    BY <1>1, <2>5, <2>7, <2>8, AnswerConsistent
<1>3. CASE ~Found(name, h)
  BY <1>1, <1>3, QuietErrorConsistent
<1> QED
  BY <1>2, <1>3

\* An accepted update is computed from what it replaces: the version that was
\* read is still current, so the payload is the one that was read.
LEMMA UpdateReplacesRead ==
  ASSUME Consistent, NEW h \in Handlers, req[h].pc = "update",
         LET w == req[h].got.name
         IN  Found(w, h) /\ Accepts(w, SentVersion(req[h].got))
  PROVE  LET w == req[h].got.name
         IN  /\ w \in Works /\ work[w] \in ManifestWork
             /\ req[h].got.manifests = work[w].manifests
<1> DEFINE w == req[h].got.name
<1>1. /\ Stores /\ req[h] \in Request /\ WellFormed(req[h])
      /\ Fresh(req[h].got, work)
  BY ConsistentParts, InductiveParts, InProgress DEF Holds
<1>2. req[h].got \in Snapshot
  BY <1>1 DEF WellFormed, Coherent, Request
<1>3. req[h].got.rv \in Nat /\ req[h].got.rv # Nil
  BY <1>2, NilAssumption DEF Snapshot
<1>4. w \in Works /\ work[w] # Nil /\ work[w] \in ManifestWork
  BY <1>1 DEF Found, Stores
<1>5. req[h].got.rv = work[w].rv
  BY <1>3 DEF Accepts, SentVersion
<1> QED
  BY <1>1, <1>4, <1>5 DEF Fresh

LEMMA UpdateConsistent ==
  ASSUME Consistent, Inductive', NEW h \in Handlers, Update(h)
  PROVE  Consistent'
<1> DEFINE w == req[h].got.name
           new == Updated(Asks(h), req[h].got.manifests)
           mem == UpdateJobResource(View(h), Get(w))
<1>1. /\ req[h].pc = "update" /\ req[h].pc \in Executing
      /\ UNCHANGED <<res, born>>
  BY DEF Update, At, Executing, jmVars
<1>2. /\ ~IsDeletion(Asks(h)) /\ born[w] # Nil
      /\ Job[born[w]].resource = Asks(h).resource
      /\ Stores /\ OwnStores(work, born, res) /\ Inductive
  BY <1>1, InProgress, ConsistentParts, InductiveParts DEF Holds, Asks
<1>3. ASSUME Found(w, h),
             work' = [work EXCEPT ![w].manifests = new,
                       ![w].rv = IF new = work[w].manifests THEN @ ELSE @ + 1],
             AnsweredOrLost(h, [req[h] EXCEPT !.pc = "report", !.mem = mem])
      PROVE  Consistent'
  <2>1. w \in Works /\ work[w] # Nil /\ work[w] \in ManifestWork
    BY <1>2, <1>3 DEF Found, Stores
  <2>2. /\ \A v \in Works : v # w => work'[v] = work[v]
        /\ work'[w].manifests = new /\ work'[w].deleting = work[w].deleting
        /\ work'[w].rv = IF new = work[w].manifests THEN work[w].rv
                                                    ELSE work[w].rv + 1
    <3> HIDE DEF w, new
    <3> QED
      BY <1>2, <1>3, <2>1 DEF Stores, ManifestWork
  <2>3. Ages
    <3>1. ASSUME NEW v \in Works, work[v] # Nil
          PROVE  work[v].rv \in Nat
      BY <1>2, <3>1 DEF Stores, ManifestWork
    <3>2. ASSUME NEW v \in Works, v # w, born[v] # Nil, work'[v] # Nil
          PROVE  /\ work[v] # Nil /\ work[v].rv <= work'[v].rv
                 /\ work[v].rv = work'[v].rv =>
                      work[v].manifests = work'[v].manifests
                 /\ work[v].deleting => work'[v].deleting
      BY <2>2, <3>1, <3>2
    <3>3. /\ work[w].rv <= work'[w].rv
          /\ work[w].rv = work'[w].rv => work[w].manifests = work'[w].manifests
          /\ work[w].deleting => work'[w].deleting
      <4> HIDE DEF w, new
      <4> QED
        BY <2>1, <2>2, <3>1
    <3> QED
      BY <1>1, <2>1, <3>2, <3>3 DEF Ages
  <2>4. OwnStores(work', born', res')
    BY <1>1, <1>2, <2>1, <2>2, <2>3, OwnStoresStay DEF OwnStores
  <2>5. Own(Asks(h).resource, mem.res, born')
    BY <1>1, <1>2, UpdateJobResourceOwn DEF Get
  <2> HIDE DEF mem
  <2>6. LET r == [req[h] EXCEPT !.pc = "report", !.mem = mem]
        IN  Continue(h, r) \/ Continue(h, ExecuteError(req[h]))
    BY <1>3 DEF AnsweredOrLost
  <2> QED
    BY <1>1, <1>2, <2>3, <2>4, <2>5, <2>6, ResultConsistent
<1>4. ASSUME Continue(h, ExecuteError(req[h])), UNCHANGED work
      PROVE  Consistent'
  BY <1>1, <1>4, QuietErrorConsistent
<1> QED
  BY <1>3, <1>4 DEF Update

\* A deletion changes neither the hub, nor the payload, nor the conditions of what
\* stays.
LEMMA DeletedEnds ==
  ASSUME NEW w, work[w] \in ManifestWork, NEW left \in Deleted(w), left # Nil
  PROVE  /\ left.deleting /\ work[w].rv <= left.rv
         /\ work[w].rv = left.rv => work[w].manifests = left.manifests
         /\ left.conds = work[w].conds /\ left.hub = work[w].hub
<1>1. work[w].rv \in Nat
  BY DEF ManifestWork
<1>2. CASE left = work[w] /\ work[w].deleting
  BY <1>1, <1>2
<1>3. CASE left = [work[w] EXCEPT !.deleting = TRUE, !.rv = @ + 1]
  <2>1. /\ left.deleting = TRUE /\ left.rv = work[w].rv + 1
        /\ left.conds = work[w].conds /\ left.hub = work[w].hub
    BY <1>3 DEF ManifestWork
  <2> QED
    BY <1>1, <2>1
<1> QED
  BY <1>2, <1>3 DEF Deleted

LEMMA DeleteConsistent ==
  ASSUME Consistent, Inductive', NEW h \in Handlers, Delete(h)
  PROVE  Consistent'
<1> DEFINE w == View(h).name
           mem == [state |-> "Applied", res |-> View(h)]
<1>1. /\ req[h].pc \in Executing /\ Asks(h).resource # Nil
      /\ UNCHANGED <<res, born>>
  BY DEF Delete, Executes, At, Executing, jmVars
<1>2. /\ Stores /\ OwnStores(work, born, res) /\ Inductive
      /\ Own(Asks(h).resource, View(h), born)
  BY <1>1, OwnView, ConsistentParts, InductiveParts
<1>3. ASSUME Found(w, h), NEW left \in Deleted(w),
             work' = [work EXCEPT ![w] = left],
             AnsweredOrLost(h, [req[h] EXCEPT !.pc = "report", !.mem = mem])
      PROVE  Consistent'
  <2>1. w \in Works /\ work[w] \in ManifestWork
    BY <1>2, <1>3 DEF Found, Stores
  <2> HIDE DEF w
  <2>2. work'[w] = left /\ \A v \in Works : v # w => work'[v] = work[v]
    BY <1>2, <1>3, <2>1 DEF Stores
  <2>3. /\ work[w] # Nil /\ Ended(work', w)
        /\ left # Nil =>
             /\ work[w].rv <= left.rv
             /\ work[w].rv = left.rv => work[w].manifests = left.manifests
    BY <1>3, <2>1, <2>2, DeletedEnds, NilIsNoRecord DEF Ended
  <2>4. Ages
    <3>1. ASSUME NEW v \in Works, v # w, work[v] # Nil
          PROVE  work[v].rv \in Nat
      BY <1>2, <3>1 DEF Stores, ManifestWork
    <3>2. work'[w] # Nil => work'[w].deleting
      BY <2>3 DEF Ended
    <3> QED
      BY <1>1, <2>2, <2>3, <3>1, <3>2 DEF Ages
  <2>5. OwnStores(work', born', res')
    BY <1>1, <1>2, <2>2, <2>3, <2>4, OwnStoresStay DEF OwnStores
  <2>6. mem.res = View(h) /\ mem.res.name = w
    BY DEF w
  <2> HIDE DEF mem
  <2>7. LET r == [req[h] EXCEPT !.pc = "report", !.mem = mem]
        IN  Continue(h, r) \/ Continue(h, ExecuteError(req[h]))
    BY <1>3 DEF AnsweredOrLost
  <2>8. Own(Asks(h).resource, mem.res, born') /\ Ended(work', mem.res.name)
    BY <1>1, <1>2, <2>3, <2>6
  <2> QED
    BY <1>1, <2>4, <2>5, <2>7, <2>8, ResultConsistent
<1>4. ASSUME Continue(h, ExecuteError(req[h])), UNCHANGED work
      PROVE  Consistent'
  BY <1>1, <1>4, QuietErrorConsistent
<1> QED
  BY <1>3, <1>4 DEF Delete

LEMMA ErrorStepsConsistent ==
  ASSUME Consistent, Inductive', NEW h \in Handlers,
         AwaitTimeout(h) \/ Unsupported(h) \/ CallFails(h)
  PROVE  Consistent'
<1>1. /\ req[h].pc \in Executing /\ Continue(h, ExecuteError(req[h]))
      /\ UNCHANGED <<work, born, res>>
  BY DEF AwaitTimeout, Unsupported, CallFails, Executes, At, Executing,
         jmVars, hubVars
<1> QED
  BY <1>1, QuietErrorConsistent

(***************************************************************************)
(* The end of a request, and its surroundings.                             *)
(***************************************************************************)
LEMMA RestartConsistent ==
  ASSUME Consistent, Inductive', NEW i, Restart(i),
         UNCHANGED <<jmVars, hubVars>>
  PROVE  Consistent'
<1>1. UNCHANGED <<work, born, res>>
  BY DEF jmVars, hubVars
<1>2. Ages /\ OwnStores(work', born', res')
  BY <1>1, QuietStores, ConsistentParts
<1>3. \A h \in Handlers : req'[h] = Idle \/ req'[h] = req[h]
  BY DEF Restart
<1>4. \A h \in Handlers : Holds(req[h], work', born') /\ Settled(req[h])
  BY <1>1, ConsistentParts
<1>5. \A h \in Handlers : Holds(req'[h], work', born') /\ Settled(req'[h])
  BY <1>3, <1>4, IdleConsistent
<1> QED
  BY <1>2, <1>5, PartsConsistent

LEMMA DiesConsistent ==
  ASSUME Consistent, Inductive', NEW h \in Handlers, Panics(h) \/ Exits(h)
  PROVE  Consistent'
<1>1. CASE Panics(h)
  <2>1. Continue(h, Idle) /\ UNCHANGED <<work, born, res>>
    BY <1>1 DEF Panics, jmVars, hubVars
  <2>2. Ages /\ OwnStores(work', born', res')
    BY <2>1, QuietStores, ConsistentParts
  <2> QED
    BY <2>1, <2>2, IdleConsistent, OneRequestConsistent
<1>2. CASE Exits(h)
  BY <1>2, RestartConsistent DEF Exits
<1> QED
  BY <1>1, <1>2

\* The Job Manager is told of the job's own ManifestWork.
LEMMA StoreConsistent ==
  ASSUME Consistent, NEW h \in Handlers, req[h].pc = "report",
         Store(h) \/ UNCHANGED <<state, res>>, UNCHANGED <<work, born>>
  PROVE  Ages /\ OwnStores(work', born', res')
<1>1. /\ Inductive /\ Stores /\ OwnStores(work, born, res)
      /\ Own(Asks(h).resource, req[h].mem.res, born)
  BY ConsistentParts, InductiveParts, InProgress DEF Holds, Asks
<1>2. Ages
  BY <1>1 DEF Ages, Stores, ManifestWork
<1>3. res # Nil
  BY <1>1, NilIsNoRecord DEF Stores
<1>4. OwnViews(res, born)
  BY <1>1 DEF OwnStores
<1>5. CASE Store(h)
  <2>1. \A s \in Resources : res'[s] = res[s] \/ /\ s = Asks(h).resource
                                                 /\ res'[s] = req[h].mem.res
    BY <1>1, <1>5 DEF Store, Stores
  <2>2. OwnViews(res', born')
    BY <1>1, <1>3, <1>4, <2>1 DEF OwnViews
  <2> QED
    BY <1>1, <1>2, <2>2 DEF OwnStores
<1>6. CASE UNCHANGED res
  BY <1>1, <1>2, <1>6 DEF OwnStores
<1> QED
  BY <1>5, <1>6

LEMMA ReportConsistent ==
  ASSUME Consistent, Inductive', NEW h \in Handlers, Report(h)
  PROVE  Consistent'
<1> DEFINE n == NextJob(req[h])
           r == [n EXCEPT !.updated = @ \cup {req[h].cur}]
<1>1. /\ req[h].pc = "report" /\ UNCHANGED <<work, born>>
      /\ Store(h) \/ UNCHANGED <<state, res>>
      /\ Continue(h, r) \/ Continue(h, UpdateError(req[h]))
  BY DEF Report, At, hubVars
<1>2. Ages /\ OwnStores(work', born', res')
  BY <1>1, StoreConsistent
<1>3. /\ req[h] \in Request /\ OwnViews(req[h].view, born) /\ Settled(req[h])
      /\ req[h].code # 200
  BY <1>1, InProgress
<1>4. CASE Continue(h, UpdateError(req[h]))
  BY <1>1, <1>2, <1>4, ErrorConsistent DEF Executing
<1>5. CASE Continue(h, r)
  <2>1. /\ n \in Request /\ n.pc = "loop" /\ n.cur = Nil
        /\ n.view = req[h].view /\ n.code = req[h].code
        /\ n.jobs = req[h].jobs /\ n.todo = req[h].todo
        /\ n.updated = req[h].updated
    BY <1>3, NextJobFields
  <2> HIDE DEF n
  <2>2. /\ r.pc = "loop" /\ r.cur = Nil /\ r.view = req[h].view
        /\ r.code = req[h].code /\ r.jobs = req[h].jobs
        /\ r.todo = req[h].todo
        /\ r.updated = req[h].updated \cup {req[h].cur}
    BY <2>1 DEF Request
  <2> HIDE DEF r
  <2>3. Settled(r)
    BY <1>1, <1>3, <2>2 DEF Settled
  <2>4. Holds(r, work', born')
    BY <1>1, <1>3, <2>2, HoldsInLoop
  <2> QED
    BY <1>2, <1>5, <2>3, <2>4, OneRequestConsistent
<1> QED
  BY <1>1, <1>4, <1>5

LEMMA ReplyConsistent ==
  ASSUME Consistent, Inductive', NEW h \in Handlers, Reply(h)
  PROVE  Consistent'
<1> DEFINE r == [req[h] EXCEPT !.pc = "replied", !.view = Nil,
                               !.code = WriteHeader(@, 200)]
<1>1. /\ req[h].pc = "loop" /\ req[h].todo = {} /\ Continue(h, r)
      /\ UNCHANGED <<work, born, res>>
  BY DEF Reply, At, jmVars, hubVars
<1>2. Ages /\ OwnStores(work', born', res')
  BY <1>1, QuietStores, ConsistentParts
<1>3. req[h] \in Request /\ Settled(req[h])
  BY InProgress
<1>4. /\ r.pc = "replied" /\ r.view = Nil /\ r.jobs = req[h].jobs
      /\ r.updated = req[h].updated
      /\ r.code \in {0, 200} => req[h].code \in {0, 200}
  BY <1>3 DEF Request, WriteHeader
<1> HIDE DEF r
<1>5. Settled(r)
  <2>1. req[h].jobs \subseteq Jobs /\ req[h].cur = Nil /\ Nil \notin Jobs
    BY <1>1, <1>3, NilIsNothing DEF Request, Settled
  <2> QED
    BY <1>1, <1>3, <1>4, <2>1 DEF Settled
<1>6. Holds(r, work', born')
  BY <1>4, NilViews, HoldsInLoop
<1> QED
  BY <1>1, <1>2, <1>5, <1>6, OneRequestConsistent

LEMMA ClientGoneConsistent ==
  ASSUME Consistent, Inductive', NEW h \in Handlers, ClientGone(h)
  PROVE  Consistent'
<1> DEFINE r == [req[h] EXCEPT !.gone = TRUE]
<1>1. Continue(h, r) /\ UNCHANGED <<work, born, res>>
  BY DEF ClientGone, jmVars, hubVars
<1>2. Ages /\ OwnStores(work', born', res')
  BY <1>1, QuietStores, ConsistentParts
<1>3. /\ req[h] \in Request /\ Holds(req[h], work, born) /\ Settled(req[h])
  BY InProgress
<1>4. /\ r.pc = req[h].pc /\ r.view = req[h].view /\ r.jobs = req[h].jobs
      /\ r.updated = req[h].updated /\ r.code = req[h].code
      /\ r.cur = req[h].cur /\ r.got = req[h].got /\ r.mem = req[h].mem
      /\ r.todo = req[h].todo
  BY <1>3 DEF Request
<1> HIDE DEF r
<1>5. Settled(r) /\ Holds(r, work', born')
  BY <1>1, <1>3, <1>4 DEF Settled, Holds
<1> QED
  BY <1>1, <1>2, <1>5, OneRequestConsistent

\* A report of an agent is a new version.
LEMMA AgentStatusConsistent ==
  ASSUME Consistent, Inductive', NEW w \in Works, AgentStatus(w)
  PROVE  Consistent'
<1>1. /\ Stores /\ Stores' /\ Inductive /\ OwnStores(work, born, res)
      /\ \A h \in Handlers : /\ WellFormed(req[h])
                             /\ Tracked(req[h], Locked, effected)
                             /\ Holds(req[h], work, born) /\ Settled(req[h])
  BY ConsistentParts, InductiveParts, StoresNext
<1>2. /\ work[w] # Nil /\ UNCHANGED <<born, res, req>>
      /\ \E conds : work' = [work EXCEPT ![w].conds = conds, ![w].rv = @ + 1]
  BY DEF AgentStatus, jmVars
<1>3. work[w] \in ManifestWork
  BY <1>1, <1>2 DEF Stores
<1>4. /\ \A v \in Works : v # w => work'[v] = work[v]
      /\ work'[w].rv = work[w].rv + 1 /\ work'[w].deleting = work[w].deleting
  BY <1>1, <1>2, <1>3 DEF Stores, ManifestWork
<1>5. Ages
  <2>1. ASSUME NEW v \in Works, work[v] # Nil
        PROVE  work[v].rv \in Nat
    BY <1>1, <2>1 DEF Stores, ManifestWork
  <2>2. /\ work[w].rv <= work'[w].rv /\ work[w].rv # work'[w].rv
        /\ work[w].deleting => work'[w].deleting
    BY <1>2, <1>4, <2>1
  <2>3. ASSUME NEW v \in Works, v # w, work'[v] # Nil
        PROVE  /\ work[v] # Nil /\ work[v].rv <= work'[v].rv
               /\ work[v].rv = work'[v].rv =>
                    work[v].manifests = work'[v].manifests
               /\ work[v].deleting => work'[v].deleting
    BY <1>4, <2>1, <2>3
  <2> QED
    BY <1>2, <2>2, <2>3 DEF Ages
<1>6. OwnStores(work', born', res')
  BY <1>1, <1>2, <1>4, <1>5, OwnStoresStay DEF OwnStores
<1>7. ASSUME NEW h \in Handlers
      PROVE  Holds(req'[h], work', born') /\ Settled(req'[h])
  <2>1. req[h].pc = "report" => req[h].mem.res.name # Nil
    BY <1>1 DEF Tracked
  <2>2. Holds(req[h], work', born')
    BY <1>1, <1>5, <2>1, HoldsStays
  <2> QED
    BY <1>1, <1>2, <2>2
<1> QED
  BY <1>6, <1>7, PartsConsistent

\* What an agent removes was being deleted.
LEMMA AgentRemovesConsistent ==
  ASSUME Consistent, Inductive', NEW w \in Works, AgentRemoves(w)
  PROVE  Consistent'
<1>1. /\ Stores /\ Stores' /\ Inductive /\ OwnStores(work, born, res)
      /\ \A h \in Handlers : /\ WellFormed(req[h])
                             /\ Tracked(req[h], Locked, effected)
                             /\ Holds(req[h], work, born) /\ Settled(req[h])
  BY ConsistentParts, InductiveParts, StoresNext
<1>2. /\ work' = [work EXCEPT ![w] = Nil] /\ UNCHANGED <<born, res, req>>
  BY DEF AgentRemoves, jmVars
<1>3. work'[w] = Nil /\ \A v \in Works : v # w => work'[v] = work[v]
  BY <1>1, <1>2 DEF Stores
<1>4. Ages
  <2>1. ASSUME NEW v \in Works, work[v] # Nil
        PROVE  work[v].rv \in Nat
    BY <1>1, <2>1 DEF Stores, ManifestWork
  <2> QED
    BY <1>2, <1>3, <2>1 DEF Ages
<1>5. OwnStores(work', born', res')
  BY <1>1, <1>2, <1>3, <1>4, OwnStoresStay DEF OwnStores
<1>6. ASSUME NEW h \in Handlers
      PROVE  Holds(req'[h], work', born') /\ Settled(req'[h])
  <2>1. req[h].pc = "report" => req[h].mem.res.name # Nil
    BY <1>1 DEF Tracked
  <2>2. Holds(req[h], work', born')
    BY <1>1, <1>4, <2>1, HoldsStays
  <2> QED
    BY <1>1, <1>2, <2>2
<1> QED
  BY <1>5, <1>6, PartsConsistent

(***************************************************************************)
(* The invariant, and what follows from it.                                *)
(***************************************************************************)
LEMMA ConsistentInit == Init => Consistent
<1> SUFFICES ASSUME Init  PROVE Consistent
  OBVIOUS
<1>1. Inductive
  BY InductiveInit
<1>2. \A r \in Resources : NamesOwn(r, res[r])
  BY DEF Init, NamesOwn
<1>3. \A h \in Handlers : HoldsOwn(req[h]) /\ Settled(req[h])
  BY DEF Init, Idle, HoldsOwn, Settled
<1> QED
  BY <1>1, <1>2, <1>3 DEF Init, Consistent

LEMMA ConsistentStep == Consistent /\ [Next]_vars => Consistent'
<1> SUFFICES ASSUME Consistent, [Next]_vars  PROVE Consistent'
  OBVIOUS
<1>1. Inductive'
  BY ConsistentParts, InductiveStep
<1>2. ASSUME NEW h \in Handlers,
             Pull(h) \/ PullFails(h) \/ Step(h) \/ ClientGone(h)
      PROVE  Consistent'
  BY <1>1, <1>2, PullConsistent, PullFailsConsistent, SkipConsistent,
     PromoteConsistent,
     CreateManifestWorkConsistent, AwaitAppliedConsistent,
     FetchManifestWorkConsistent, UpdateConsistent, DeleteConsistent,
     ErrorStepsConsistent, DiesConsistent, ReportConsistent, ReplyConsistent,
     ClientGoneConsistent
     DEF Step, Runs
<1>3. ASSUME NEW i \in Instances, Crash(i)
      PROVE  Consistent'
  BY <1>1, <1>3, RestartConsistent DEF Crash
<1>4. ASSUME NEW w \in Works, AgentStatus(w) \/ AgentRemoves(w)
      PROVE  Consistent'
  BY <1>1, <1>4, AgentStatusConsistent, AgentRemovesConsistent
<1>5. CASE UNCHANGED vars
  <2>1. /\ UNCHANGED <<work, born, res>> /\ UNCHANGED req
    BY <1>5 DEF vars
  <2>2. /\ OwnStores(work, born, res)
        /\ \A h \in Handlers : Holds(req[h], work, born) /\ Settled(req[h])
    BY ConsistentParts
  <2> QED
    BY <1>1, <2>1, <2>2, PartsConsistent
<1> QED
  BY <1>2, <1>3, <1>4, <1>5 DEF Next

\* For any jobs, hubs, instances, requests, faults and reports of the agents, the
\* strengthened invariant holds.  It carries the next theorems.
THEOREM ConsistencyInvariant == Spec => []Consistent
BY ConsistentInit, ConsistentStep, PTL DEF Spec

LEMMA ConsistentOwns == Consistent => ResourceIsOwnWork
BY DEF Consistent, ResourceIsOwnWork, NamesOwn

\* The Job Manager never links a resource to a ManifestWork made for another, nor
\* knows it by its UID only, whoever creates, retries or reports.
THEOREM ResourcesAreOwn == Spec => []ResourceIsOwnWork
BY ConsistencyInvariant, ConsistentOwns, PTL

\* Once the list of jobs was decoded, a 200 hides no failure: the update of every
\* job in it with a node was answered.  A list that does not decode is answered
\* with the Job Manager's status, and lists no job here.
THEOREM SuccessIsComplete == Spec => []SuccessMeansAllUpdated
<1>1. Consistent => SuccessMeansAllUpdated
  BY DEF Consistent, Settled, SuccessMeansAllUpdated
<1> QED
  BY <1>1, ConsistencyInvariant, PTL

\* Only an accepted update takes a request from "update" to "report".
LEMMA ReportsAfterUpdate ==
  ASSUME Consistent, [Next]_vars, NEW h \in Handlers, At(h, "update"),
         At(h, "report")'
  PROVE  Update(h)
<1>1. req \in [Handlers -> Request] /\ req[h].pc = "update"
      /\ req'[h].pc = "report"
  BY ConsistentParts, InductiveParts DEF At
<1>2. ASSUME NEW g \in Handlers, g # h
      PROVE  \A r : Continue(g, r) => req'[h] = req[h]
  BY <1>1, <1>2 DEF Continue
<1>3. ASSUME NEW i, Restart(i)
      PROVE  FALSE
  BY <1>1, <1>3 DEF Restart, Idle
<1>4. ASSUME NEW g \in Handlers, Pull(g) \/ PullFails(g) \/ Runs(g) \/ ClientGone(g),
             g # h
      PROVE  FALSE
  <2>1. \E r : Continue(g, r)
    BY <1>4 DEF Pull, PullFails, Runs, ClientGone, Skip, Promote, CreateManifestWork,
       AnsweredOrLost, AwaitApplied, AwaitTimeout, FetchManifestWork, Update,
       Delete, Unsupported, CallFails, Panics, Report, Reply
  <2> QED
    BY <1>1, <1>2, <1>4, <2>1
<1>5. CASE Pull(h) \/ PullFails(h) \/ ClientGone(h)
  BY <1>1, <1>5 DEF Pull, PullFails, ClientGone, Continue, Request, Idle
<1>6. CASE Runs(h)
  <2>1. \/ Update(h) \/ Continue(h, ExecuteError(req[h])) \/ Continue(h, Idle)
    BY <1>1, <1>6
       DEF Runs, Skip, Promote, CreateManifestWork, AwaitApplied, AwaitTimeout,
           FetchManifestWork, Delete, Unsupported, CallFails, Panics, Report,
           Reply, Executes, At
  <2>2. ~Continue(h, ExecuteError(req[h]))
    <3>1. req[h] \in Request /\ req[h].code # 200
      BY <1>1, InProgress
    <3>2. ExecuteError(req[h]).pc = "loop"
      BY <3>1, ErrorFields
    <3> QED
      BY <1>1, <3>2 DEF Continue
  <2>3. ~Continue(h, Idle)
    BY <1>1 DEF Continue, Idle
  <2> QED
    BY <2>1, <2>2, <2>3
<1>7. \/ \E g \in Handlers :
           Pull(g) \/ PullFails(g) \/ Runs(g) \/ ClientGone(g)
      \/ \E i : Restart(i)
      \/ UNCHANGED req
  BY DEF Next, Step, Exits, Crash, AgentStatus, AgentRemoves, vars
<1> QED
  BY <1>1, <1>3, <1>4, <1>5, <1>6, <1>7

\* An accepted update replaces the payload that was read, by what the job makes of
\* it.
LEMMA AcceptedIsAtomic ==
  ASSUME Consistent, [Next]_vars, NEW h \in Handlers, At(h, "update"),
         At(h, "report")'
  PROVE  LET w == req[h].got.name
         IN  /\ work[w].manifests = req[h].got.manifests
             /\ work'[w].manifests = Updated(Asks(h), work[w].manifests)
<1> DEFINE w == req[h].got.name
           new == Updated(Asks(h), req[h].got.manifests)
<1>1. Update(h) /\ req[h].pc = "update"
  BY ReportsAfterUpdate DEF At
<1>2. ~Continue(h, ExecuteError(req[h]))
  <2>1. req[h] \in Request /\ req[h].code # 200
        /\ req \in [Handlers -> Request]
    BY <1>1, InProgress, ConsistentParts, InductiveParts
  <2>2. ExecuteError(req[h]).pc = "loop"
    BY <2>1, ErrorFields
  <2> QED
    BY <2>1, <2>2 DEF Continue, At
<1>3. /\ Found(w, h) /\ Accepts(w, SentVersion(req[h].got))
      /\ work' = [work EXCEPT ![w].manifests = new,
                    ![w].rv = IF new = work[w].manifests THEN @ ELSE @ + 1]
  BY <1>1, <1>2 DEF Update
<1>4. /\ w \in Works /\ work[w] \in ManifestWork
      /\ req[h].got.manifests = work[w].manifests
      /\ work \in [Works -> ManifestWork \cup {Nil}]
  BY <1>1, <1>3, UpdateReplacesRead, ConsistentParts DEF Inductive, TypeOK
<1>5. new = Updated(Asks(h), work[w].manifests)
  BY <1>4
<1> HIDE DEF w, new
<1>6. work'[w].manifests = new
  BY <1>3, <1>4 DEF ManifestWork
<1> QED
  BY <1>4, <1>5, <1>6 DEF w

\* No accepted scaling or replacement overwrites what another request has written
\* since it read: the hub still has the payload that was read, and gets what the job
\* makes of it.
THEOREM UpdateIsAtomic == Spec => AtomicUpdate
<1>1. Consistent /\ [Next]_vars =>
        [\A h \in Handlers :
           At(h, "update") /\ At(h, "report")' =>
             LET w == req[h].got.name
             IN  /\ work[w].manifests = req[h].got.manifests
                 /\ work'[w].manifests = Updated(Asks(h), work[w].manifests)]_vars
  BY AcceptedIsAtomic
<1> QED
  BY <1>1, ConsistencyInvariant, PTL DEF Spec, AtomicUpdate

\* A deletion to report is of a ManifestWork that is gone or leaving.
LEMMA DeletedIsLeaving ==
  ASSUME Consistent, NEW h \in Handlers, At(h, "report"), IsDeletion(Asks(h))
  PROVE  LET name == req[h].mem.res.name
         IN  name # Nil /\ Leaving(name)
BY InProgress DEF At, Tracked, Holds, Asks, Ended, Leaving

\* When the result of a deletion is recorded, the ManifestWork its resource named
\* is gone, or stays only until the agent has cleaned up: none is recorded as
\* deleted that will stay on its hub.
THEOREM RecordedDeletionHolds == Spec => RecordedDeleteHolds
<1>1. Consistent /\ [Next]_vars =>
        [\A h \in Handlers :
           At(h, "report") /\ IsDeletion(Asks(h)) /\ ~At(h, "report")'
             /\ state'[req[h].cur] # state[req[h].cur] =>
               LET name == req[h].mem.res.name
               IN  name # Nil /\ Leaving(name)]_vars
  BY DeletedIsLeaving
<1> QED
  BY <1>1, ConsistencyInvariant, PTL DEF Spec, RecordedDeleteHolds
=============================================================================
