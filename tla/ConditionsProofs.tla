-------------------------- MODULE ConditionsProofs --------------------------
(***************************************************************************)
(* PullJobs, the conditions a resource collects: CountedByJobs, with       *)
(* Inductive, is an inductive invariant, so ConditionsGrowByJobs holds for *)
(* any jobs, requests and reports of the agents.                           *)
(*                                                                         *)
(* The set of jobs need not be finite: those that were reported are.       *)
(***************************************************************************)
EXTENDS ConsistencyProofs, FiniteSetTheorems

(***************************************************************************)
(* Rooms.                                                                  *)
(***************************************************************************)
ReportTypes == {c.type : c \in Reports}

\* The reports are of finitely many types.
LEMMA ReportTypesFinite ==
  /\ IsFiniteSet(ReportTypes) /\ Cardinality(ReportTypes) \in Nat
<1> DEFINE a == {"Applied"}
           b == a \cup {"Progressing"}
           c == b \cup {"Available"}
           d == c \cup {"Degraded"}
           e == d \cup {"Complete"}
<1>1. IsFiniteSet(a)
  BY FS_Singleton
<1> HIDE DEF a
<1>2. IsFiniteSet(b)
  BY <1>1, FS_AddElement
<1> HIDE DEF b
<1>3. IsFiniteSet(c)
  BY <1>2, FS_AddElement
<1> HIDE DEF c
<1>4. IsFiniteSet(d)
  BY <1>3, FS_AddElement
<1> HIDE DEF d
<1>5. IsFiniteSet(e)
  BY <1>4, FS_AddElement
<1>6. e = ConditionTypes
  BY DEF a, b, c, d, ConditionTypes
<1>7. ReportTypes \in SUBSET ConditionTypes
  BY DeploymentAssumption DEF ReportTypes, Condition
<1> QED
  BY <1>5, <1>6, <1>7, FS_Subset, FS_CardinalityType

\* A list with one condition of each type has at most one report's.
LEMMA OneOfEachLength ==
  ASSUME NEW conds \in Seq(Condition), OneOfEach(conds)
  PROVE  Len(conds) <= Cardinality(ReportTypes)
<1> DEFINE I == 1..Len(conds)
           f == [k \in I |-> conds[k].type]
<1>1. Len(conds) \in Nat /\ DOMAIN conds = I
  BY LenProperties
<1>2. f \in Injection(I, ReportTypes)
  BY <1>1 DEF OneOfEach, ReportTypes, Injection, IsInjective
<1>3. Cardinality(I) <= Cardinality(ReportTypes)
  <2> HIDE DEF I, f
  <2> QED
    BY <1>2, ReportTypesFinite, FS_Injection
<1>4. Cardinality(I) = Len(conds)
  BY <1>1, FS_Interval
<1> QED
  BY <1>3, <1>4

LEMMA RoomIsNat ==
  ASSUME NEW js, IsFiniteSet(js)
  PROVE  Room(js) \in Nat
BY ReportTypesFinite, FS_CardinalityType, SMT DEF Room, ReportTypes

\* Room for the report of one more job.
LEMMA RoomForJob ==
  ASSUME NEW js, IsFiniteSet(js), NEW j, j \notin js
  PROVE  Room(js \cup {j}) = Room(js) + Cardinality(ReportTypes)
<1> DEFINE k == Cardinality(ReportTypes)
           m == Cardinality(js)
<1>1. k \in Nat /\ m \in Nat /\ Cardinality(js \cup {j}) = m + 1
  BY ReportTypesFinite, FS_CardinalityType, FS_AddElement
<1>2. Room(js) = k * m /\ Room(js \cup {j}) = k * (m + 1)
  BY <1>1 DEF Room, ReportTypes
<1> HIDE DEF k, m
<1>3. k * (m + 1) = (k * m) + k
  BY <1>1, SMT
<1> QED
  BY <1>2, <1>3 DEF k

\* More jobs have more room.
LEMMA RoomGrows ==
  ASSUME NEW js, IsFiniteSet(js), NEW ks \in SUBSET js
  PROVE  Room(ks) <= Room(js)
<1> DEFINE k == Cardinality(ReportTypes)
           m == Cardinality(js)
           l == Cardinality(ks)
<1>1. /\ k \in Nat /\ m \in Nat /\ l \in Nat /\ l <= m
  BY ReportTypesFinite, FS_CardinalityType, FS_Subset
<1>2. Room(js) = k * m /\ Room(ks) = k * l
  BY DEF Room, ReportTypes
<1> HIDE DEF k, m, l
<1>3. k * l <= k * m
  <2>1. k * m = (k * l) + (k * (m - l))
    BY <1>1, SMT
  <2>2. m - l \in Nat
    BY <1>1
  <2>3. k * (m - l) \in Nat
    BY <1>1, <2>2, SMT
  <2>4. k * l \in Int
    BY <1>1, SMT
  <2> QED
    BY <2>1, <2>3, <2>4, SMT
<1> QED
  BY <1>2, <1>3

\* One job is room enough for one condition of each type.
LEMMA RoomForOne ==
  ASSUME NEW js, IsFiniteSet(js), js # {}
  PROVE  Cardinality(ReportTypes) <= Room(js)
<1> DEFINE k == Cardinality(ReportTypes)
<1>1. PICK j \in js : TRUE
  OBVIOUS
<1>2. IsFiniteSet({}) /\ {} \cup {j} = {j} /\ {j} \in SUBSET js
  BY FS_EmptySet
<1>3. Room({}) \in Nat /\ Room({j}) = Room({}) + k
  BY <1>2, RoomIsNat, RoomForJob
<1>4. IsFiniteSet({j}) /\ k \in Nat
  BY FS_Singleton, ReportTypesFinite, FS_CardinalityType
<1>5. Room({j}) <= Room(js) /\ Room(js) \in Nat
  BY <1>2, RoomGrows, RoomIsNat
<1> HIDE DEF k
<1>6. k <= Room(js)
  BY <1>3, <1>4, <1>5
<1> QED
  BY <1>6 DEF k

(***************************************************************************)
(* CountedByJobs, with the states of the jobs, the request and the stores  *)
(* as arguments.                                                           *)
(***************************************************************************)
Reported(st) == {j \in Jobs : st[j] # "Created"}

ReportedFor(s, st) == {j \in Jobs : Job[j].resource = s /\ st[j] # "Created"}

Fits(v, js, st) ==
  v # Nil => \A s \in Resources :
               Len(v[s].conds) <= Room(ReportedFor(s, st) \ js)

Counts(r, st) ==
  /\ r.todo \subseteq r.jobs
  /\ r.cur # Nil => r.cur \in r.jobs
  /\ Fits(r.view, r.jobs, st)
  /\ r.pc = "report" =>
       Len(r.mem.res.conds)
         <= Room((ReportedFor(Job[r.cur].resource, st) \ r.jobs) \cup {r.cur})

OneOfEachWork(wk) == \A w \in Works : wk[w] # Nil => OneOfEach(wk[w].conds)

ResourcesFit(rs, st) ==
  \A s \in Resources :
    /\ Len(rs[s].conds) <= Room(ReportedFor(s, st))
    /\ rs[s].uid # Nil => ReportedFor(s, st) # {}

LEMMA CountedParts ==
  CountedByJobs <=> /\ IsFiniteSet(Reported(state))
                    /\ OneOfEachWork(work)
                    /\ ResourcesFit(res, state)
                    /\ \A h \in Handlers : Counts(req[h], state)
BY DEF CountedByJobs, ConditionsGrowByJobs, Recorded, RoomLeft, Reported, ReportedFor, Fits, Counts,
       OneOfEachWork, ResourcesFit

LEMMA PartsCounted ==
  ASSUME IsFiniteSet(Reported(state')), OneOfEachWork(work'),
         ResourcesFit(res', state'),
         \A h \in Handlers : Counts(req'[h], state')
  PROVE  CountedByJobs'
BY DEF CountedByJobs, ConditionsGrowByJobs, Recorded, RoomLeft, Reported, ReportedFor, Fits, Counts,
       OneOfEachWork, ResourcesFit

\* The jobs reported for a resource are finitely many.
LEMMA ReportedForFinite ==
  ASSUME NEW st, IsFiniteSet(Reported(st)), NEW s, NEW js
  PROVE  IsFiniteSet(ReportedFor(s, st)) /\ IsFiniteSet(ReportedFor(s, st) \ js)
<1>1. /\ ReportedFor(s, st) \in SUBSET Reported(st)
      /\ ReportedFor(s, st) \ js \in SUBSET Reported(st)
  BY DEF Reported, ReportedFor
<1> QED
  BY <1>1, FS_Subset

\* Once there was room there is room for ever: what is reported stays reported.
LEMMA FitsStays ==
  ASSUME NEW st, NEW st2, IsFiniteSet(Reported(st2)),
         Reported(st) \subseteq Reported(st2), NEW s, NEW js
  PROVE  /\ Room(ReportedFor(s, st)) <= Room(ReportedFor(s, st2))
         /\ Room(ReportedFor(s, st) \ js) <= Room(ReportedFor(s, st2) \ js)
         /\ Room(ReportedFor(s, st)) \in Nat
         /\ Room(ReportedFor(s, st2)) \in Nat
         /\ Room(ReportedFor(s, st) \ js) \in Nat
         /\ Room(ReportedFor(s, st2) \ js) \in Nat
<1>1. IsFiniteSet(Reported(st))
  BY FS_Subset
<1>2. /\ ReportedFor(s, st) \in SUBSET ReportedFor(s, st2)
      /\ ReportedFor(s, st) \ js \in SUBSET (ReportedFor(s, st2) \ js)
  BY DEF Reported, ReportedFor
<1>3. /\ IsFiniteSet(ReportedFor(s, st)) /\ IsFiniteSet(ReportedFor(s, st) \ js)
      /\ IsFiniteSet(ReportedFor(s, st2)) /\ IsFiniteSet(ReportedFor(s, st2) \ js)
  BY <1>1, ReportedForFinite
<1> QED
  BY <1>2, <1>3, RoomGrows, RoomIsNat

LEMMA ViewFitsStays ==
  ASSUME NEW st, NEW st2, IsFiniteSet(Reported(st2)),
         Reported(st) \subseteq Reported(st2),
         NEW v \in [Resources -> Resource] \cup {Nil}, NEW js, Fits(v, js, st)
  PROVE  Fits(v, js, st2)
<1> SUFFICES ASSUME v # Nil, NEW s \in Resources
             PROVE  Len(v[s].conds) <= Room(ReportedFor(s, st2) \ js)
  BY DEF Fits
<1>1. /\ Len(v[s].conds) <= Room(ReportedFor(s, st) \ js)
      /\ Len(v[s].conds) \in Nat
  BY LenProperties DEF Fits, Resource
<1>2. /\ Room(ReportedFor(s, st) \ js) <= Room(ReportedFor(s, st2) \ js)
      /\ Room(ReportedFor(s, st) \ js) \in Nat
      /\ Room(ReportedFor(s, st2) \ js) \in Nat
  BY FitsStays
<1> QED
  BY <1>1, <1>2

LEMMA CountsStays ==
  ASSUME NEW st, NEW st2, IsFiniteSet(Reported(st2)),
         Reported(st) \subseteq Reported(st2),
         NEW r, WellFormed(r), Counts(r, st)
  PROVE  Counts(r, st2)
<1>1. r.view \in [Resources -> Resource] \cup {Nil}
  BY DEF WellFormed, Request
<1>2. Fits(r.view, r.jobs, st2)
  BY <1>1, ViewFitsStays DEF Counts
<1>3. ASSUME r.pc = "report"
      PROVE  Len(r.mem.res.conds)
               <= Room((ReportedFor(Job[r.cur].resource, st2) \ r.jobs) \cup {r.cur})
  <2> DEFINE s == Job[r.cur].resource
             js == (ReportedFor(s, st) \ r.jobs) \cup {r.cur}
             ks == (ReportedFor(s, st2) \ r.jobs) \cup {r.cur}
  <2>1. Len(r.mem.res.conds) \in Nat /\ Len(r.mem.res.conds) <= Room(js)
    BY <1>3, LenProperties DEF WellFormed, Coherent, Request, Result, Resource, Counts
  <2>2. IsFiniteSet(ks) /\ js \in SUBSET ks
    <3>1. IsFiniteSet(ReportedFor(s, st2) \ r.jobs)
      BY ReportedForFinite
    <3>2. IsFiniteSet(ks)
      BY <3>1, FS_AddElement
    <3>3. ReportedFor(s, st) \in SUBSET ReportedFor(s, st2)
      BY DEF Reported, ReportedFor
    <3>4. js \in SUBSET ks
      BY <3>3
    <3> QED
      BY <3>2, <3>4
  <2> HIDE DEF js, ks
  <2>3. Room(js) <= Room(ks) /\ Room(js) \in Nat /\ Room(ks) \in Nat
    BY <2>2, RoomGrows, RoomIsNat, FS_Subset
  <2>4. Len(r.mem.res.conds) <= Room(ks)
    BY <2>1, <2>3
  <2> QED
    BY <2>4 DEF s, ks
<1> QED
  BY <1>2, <1>3 DEF Counts

\* A step of one request preserves the invariant when the stores and that request
\* are as they should be.
LEMMA OneRequestCounts ==
  ASSUME Inductive, CountedByJobs, NEW h \in Handlers, NEW r,
         Continue(h, r), IsFiniteSet(Reported(state')),
         Reported(state) \subseteq Reported(state'), OneOfEachWork(work'),
         ResourcesFit(res', state'), Counts(r, state')
  PROVE  CountedByJobs'
<1>1. ASSUME NEW g \in Handlers
      PROVE  Counts(req'[g], state')
  <2>1. CASE g = h
    BY <2>1, InductiveParts DEF Continue
  <2>2. CASE g # h
    <3>1. req'[g] = req[g] /\ WellFormed(req[g]) /\ Counts(req[g], state)
      BY <2>2, InductiveParts, CountedParts DEF Continue
    <3> QED
      BY <3>1, CountsStays
  <2> QED
    BY <2>1, <2>2
<1> QED
  BY <1>1, PartsCounted

\* The same when the stores of the Job Manager stay.
LEMMA QuietRequestCounts ==
  ASSUME Inductive, CountedByJobs, NEW h \in Handlers, NEW r,
         Continue(h, r), UNCHANGED <<state, res>>, OneOfEachWork(work'),
         Counts(r, state)
  PROVE  CountedByJobs'
<1>1. /\ IsFiniteSet(Reported(state')) /\ Reported(state) \subseteq Reported(state')
      /\ ResourcesFit(res', state') /\ Counts(r, state')
  BY CountedParts
<1> QED
  BY <1>1, OneRequestCounts

(***************************************************************************)
(* How a request goes on, and the room it needs.                           *)
(***************************************************************************)
\* With the jobs and the view it has, or less, and no other result.
Moves(r, m) ==
  /\ m.jobs = r.jobs /\ m.todo \subseteq r.todo
  /\ m.cur \in r.todo \cup {r.cur, Nil}
  /\ m.view \in {r.view, Nil}
  /\ m.pc = "report" => r.pc = "report" /\ m.cur = r.cur /\ m.mem = r.mem

LEMMA MovesCounts ==
  ASSUME NEW r, NEW m, NEW st, Counts(r, st), Moves(r, m)
  PROVE  Counts(m, st)
BY DEF Moves, Counts, Fits

LEMMA ErrorMoves ==
  ASSUME NEW r \in Request
  PROVE  /\ Moves(r, NextJob(r)) /\ Moves(r, ExecuteError(r))
         /\ Moves(r, UpdateError(r))
<1> DEFINE n == NextJob(r)
<1>1. /\ n \in Request /\ n.pc = "loop" /\ n.cur = Nil /\ n.view = r.view
      /\ n.jobs = r.jobs /\ n.todo = r.todo
  BY NextJobFields
<1>2. /\ ExecuteError(r) = [n EXCEPT !.code = WriteHeader(@, 422)]
      /\ UpdateError(r) = [n EXCEPT !.code = WriteHeader(@, 503)]
  BY DEF ExecuteError, UpdateError
<1> HIDE DEF n
<1>3. ASSUME NEW m, NEW c, m = [n EXCEPT !.code = c]
      PROVE  Moves(r, m)
  BY <1>1, <1>3 DEF Moves, Request
<1>4. Moves(r, n)
  BY <1>1 DEF Moves
<1> QED
  BY <1>2, <1>3, <1>4 DEF n

LEMMA MoveStep ==
  ASSUME Inductive, CountedByJobs, NEW h \in Handlers, NEW r,
         Continue(h, r), Moves(req[h], r), UNCHANGED <<state, res>>,
         OneOfEachWork(work')
  PROVE  CountedByJobs'
BY CountedParts, MovesCounts, QuietRequestCounts

\* An error moves a request.
LEMMA ErrorCounts ==
  ASSUME Inductive, CountedByJobs, NEW h \in Handlers,
         \/ Continue(h, ExecuteError(req[h]))
         \/ Continue(h, UpdateError(req[h])),
         UNCHANGED <<state, res>>, OneOfEachWork(work')
  PROVE  CountedByJobs'
<1>1. Moves(req[h], ExecuteError(req[h])) /\ Moves(req[h], UpdateError(req[h]))
  BY InductiveParts, ErrorMoves
<1> QED
  BY <1>1, MoveStep

\* A result has the conditions of the resource as pulled, and of one report.
LEMMA ResultCounts ==
  ASSUME Inductive, CountedByJobs, NEW h \in Handlers,
         req[h].pc \in Executing, Asks(h).resource # Nil, NEW mem \in Result,
         Len(mem.res.conds) <= Len(View(h).conds) + Cardinality(ReportTypes),
         LET r == [req[h] EXCEPT !.pc = "report", !.mem = mem]
         IN  Continue(h, r) \/ Continue(h, ExecuteError(req[h])),
         UNCHANGED <<state, res>>, OneOfEachWork(work')
  PROVE  CountedByJobs'
<1> DEFINE r == [req[h] EXCEPT !.pc = "report", !.mem = mem]
           s == Asks(h).resource
           js == ReportedFor(s, state) \ req[h].jobs
<1>1. CASE Continue(h, ExecuteError(req[h]))
  BY <1>1, ErrorCounts
<1>2. CASE Continue(h, r)
  <2>1. /\ req[h] \in Request /\ req[h].view # Nil /\ s \in Resources
        /\ View(h) \in Resource /\ s = Job[req[h].cur].resource
    BY ExecutingHolds
  <2>2. /\ r.pc = "report" /\ r.mem = mem /\ r.cur = req[h].cur
        /\ r.view = req[h].view /\ r.jobs = req[h].jobs /\ r.todo = req[h].todo
    BY <2>1, WithResultFields
  <2> HIDE DEF r, s
  <2>3. Counts(req[h], state) /\ IsFiniteSet(Reported(state))
    BY CountedParts
  <2>4. Len(View(h).conds) <= Room(js)
    BY <2>1, <2>3 DEF Counts, Fits, View, s
  <2>5. IsFiniteSet(js) /\ req[h].cur \notin js
    <3>1. req[h].cur \in req[h].jobs
      BY <2>1, <2>3, ExecutingHolds DEF Counts
    <3> QED
      BY <2>3, <3>1, ReportedForFinite
  <2> HIDE DEF js
  <2>6. Len(mem.res.conds) <= Room(js \cup {req[h].cur})
    <3>1. Len(mem.res.conds) \in Nat /\ Len(View(h).conds) \in Nat
      BY <2>1, LenProperties DEF Result, Resource
    <3>2. /\ Room(js) \in Nat
          /\ Room(js \cup {req[h].cur}) = Room(js) + Cardinality(ReportTypes)
      BY <2>5, RoomIsNat, RoomForJob
    <3> QED
      BY <2>4, <3>1, <3>2, ReportTypesFinite
  <2>7. Counts(r, state)
    BY <2>1, <2>2, <2>3, <2>6 DEF Counts, js
  <2> QED
    BY <1>2, <2>7, QuietRequestCounts
<1> QED
  BY <1>1, <1>2

(***************************************************************************)
(* ManifestWorks.                                                          *)
(***************************************************************************)
LEMMA WorkStays ==
  ASSUME OneOfEachWork(work),
         \A w \in Works : work'[w] # Nil =>
           \/ work'[w].conds = <<>>
           \/ work[w] # Nil /\ work'[w].conds = work[w].conds
  PROVE  OneOfEachWork(work')
<1>1. OneOfEach(<<>>)
  BY DEF OneOfEach
<1> QED
  BY <1>1 DEF OneOfEachWork

\* Setting a condition keeps one of each type.
LEMMA SetConditionOne ==
  ASSUME NEW conds \in Seq(Condition), NEW c \in Reports, OneOfEach(conds)
  PROVE  OneOfEach(SetCondition(conds, c))
<1> DEFINE n == Len(conds)
           s == [k \in DOMAIN conds |->
                   IF conds[k].type = c.type THEN c ELSE conds[k]]
           t == Append(conds, c)
<1>1. n \in Nat /\ DOMAIN conds = 1..n
  BY LenProperties
<1>2. CASE \E k \in DOMAIN conds : conds[k].type = c.type
  <2>1. SetCondition(conds, c) = s
    BY <1>2 DEF SetCondition
  <2>2. DOMAIN s = DOMAIN conds /\ \A k \in DOMAIN s : s[k].type = conds[k].type
    OBVIOUS
  <2> HIDE DEF s
  <2> QED
    BY <2>1, <2>2 DEF OneOfEach
<1>3. CASE ~\E k \in DOMAIN conds : conds[k].type = c.type
  <2>1. SetCondition(conds, c) = t
    BY <1>3 DEF SetCondition
  <2>2. c \in Condition
    BY DeploymentAssumption
  <2>3. /\ DOMAIN t = 1..(n + 1) /\ t[n + 1] = c
        /\ \A k \in 1..n : t[k] = conds[k]
    BY <1>1, <2>2, AppendProperties
  <2> HIDE DEF t
  <2>4. \A k \in DOMAIN t : \E d \in Reports : t[k].type = d.type
    <3> TAKE k \in DOMAIN t
    <3>1. CASE k \in 1..n
      BY <1>1, <2>3, <3>1 DEF OneOfEach
    <3>2. CASE k = n + 1
      BY <2>3, <3>2
    <3> QED
      BY <1>1, <2>3, <3>1, <3>2
  <2>5. \A k, l \in DOMAIN t : t[k].type = t[l].type => k = l
    <3> TAKE k, l \in DOMAIN t
    <3>1. CASE k \in 1..n /\ l \in 1..n
      BY <1>1, <2>3, <3>1 DEF OneOfEach
    <3>2. CASE k = n + 1 \/ l = n + 1
      BY <1>1, <1>3, <2>3, <3>2
    <3> QED
      BY <1>1, <2>3, <3>1, <3>2
  <2> QED
    BY <2>1, <2>4, <2>5 DEF OneOfEach
<1> QED
  BY <1>2, <1>3

(***************************************************************************)
(* The steps of a request.                                                 *)
(***************************************************************************)
LEMMA PullCounts ==
  ASSUME Inductive, CountedByJobs, NEW h \in Handlers, Pull(h)
  PROVE  CountedByJobs'
<1> DEFINE js == Executable(Hub(h))
           r == [Idle EXCEPT !.pc = "loop", !.jobs = js, !.todo = js,
                             !.view = res]
<1>1. Continue(h, r) /\ UNCHANGED <<state, res, work>>
  BY DEF Pull, jmVars, hubVars
<1>2. /\ r.pc = "loop" /\ r.view = res /\ r.cur = Nil
      /\ r.jobs = js /\ r.todo = js
  BY DEF Idle
<1> HIDE DEF r
<1>3. \A s \in Resources : ReportedFor(s, state) \ js = ReportedFor(s, state)
  BY DEF ReportedFor, Executable
<1>4. ResourcesFit(res, state) /\ OneOfEachWork(work')
  BY <1>1, CountedParts
<1> HIDE DEF js
<1>5. Counts(r, state)
  BY <1>2, <1>3, <1>4 DEF Counts, Fits, ResourcesFit
<1> QED
  BY <1>1, <1>4, <1>5, QuietRequestCounts

LEMMA PullFailsCounts ==
  ASSUME Inductive, CountedByJobs, NEW h \in Handlers, PullFails(h)
  PROVE  CountedByJobs'
<1>1. PICK r : Continue(h, r) /\ r.jobs = {} /\ r.todo = {}
               /\ r.cur = Nil /\ r.view = Nil /\ r.pc # "report"
  <2>1. CASE Continue(h, Idle)
    BY <2>1 DEF Idle
  <2>2. ASSUME NEW status,
               Continue(h, [Idle EXCEPT !.pc = "replied", !.code = status])
        PROVE  \E r : Continue(h, r) /\ r.jobs = {} /\ r.todo = {}
                     /\ r.cur = Nil /\ r.view = Nil /\ r.pc # "report"
    <3> DEFINE r == [Idle EXCEPT !.pc = "replied", !.code = status]
    <3>1. /\ r.jobs = {} /\ r.todo = {} /\ r.cur = Nil /\ r.view = Nil
          /\ r.pc # "report"
      BY DEF Idle
    <3>2. Continue(h, r)
      BY <2>2
    <3> HIDE DEF r
    <3> QED
      BY <3>1, <3>2
  <2> QED
    BY <2>1, <2>2 DEF PullFails
<1>2. UNCHANGED <<state, res, work>>
  BY DEF PullFails, jmVars, hubVars
<1>3. OneOfEachWork(work')
  BY <1>2, CountedParts
<1>4. Counts(r, state)
  BY <1>1 DEF Counts, Fits
<1> QED
  BY <1>1, <1>2, <1>3, <1>4, QuietRequestCounts

LEMMA SkipCounts ==
  ASSUME Inductive, CountedByJobs, NEW h \in Handlers, Skip(h)
  PROVE  CountedByJobs'
<1>1. PICK j \in req[h].todo :
        /\ req[h].pc = "loop"
        /\ Continue(h, [req[h] EXCEPT !.todo = @ \ {j}])
        /\ UNCHANGED <<state, res, work>>
  BY DEF Skip, jmVars, hubVars
<1> DEFINE r == [req[h] EXCEPT !.todo = @ \ {j}]
<1>2. req[h] \in Request /\ OneOfEachWork(work')
  BY <1>1, InductiveParts, CountedParts
<1>3. Moves(req[h], r)
  BY <1>1, <1>2 DEF Moves, Request
<1> HIDE DEF r
<1> QED
  BY <1>1, <1>2, <1>3, MoveStep DEF r

LEMMA PromoteCounts ==
  ASSUME Inductive, CountedByJobs, NEW h \in Handlers, Promote(h)
  PROVE  CountedByJobs'
<1>1. PICK j \in req[h].todo :
        /\ req[h].pc = "loop"
        /\ \/ Continue(h, [req[h] EXCEPT !.pc = "execute", !.cur = j,
                                         !.todo = @ \ {j}])
           \/ Continue(h, PromoteError(req[h], j))
        /\ UNCHANGED <<state, res, work>>
  BY DEF Promote, hubVars
<1>2. req[h] \in Request /\ OneOfEachWork(work')
  BY <1>1, InductiveParts, CountedParts
<1>3. CASE Continue(h, [req[h] EXCEPT !.pc = "execute", !.cur = j, !.todo = @ \ {j}])
  <2> DEFINE r == [req[h] EXCEPT !.pc = "execute", !.cur = j, !.todo = @ \ {j}]
  <2>1. Moves(req[h], r)
    BY <1>1, <1>2 DEF Moves, Request
  <2> HIDE DEF r
  <2> QED
    BY <1>1, <1>2, <1>3, <2>1, MoveStep DEF r
<1>4. CASE Continue(h, PromoteError(req[h], j))
  <2>1. Moves(req[h], PromoteError(req[h], j))
    BY <1>1, <1>2 DEF Moves, Request, PromoteError
  <2> QED
    BY <1>1, <1>2, <1>4, <2>1, MoveStep
<1> QED
  BY <1>1, <1>3, <1>4

\* An answer of the hub moves a request.
LEMMA AnswerCounts ==
  ASSUME Inductive, CountedByJobs, NEW h \in Handlers,
         NEW pc \in {"await", "update"}, NEW mw,
         LET r == [req[h] EXCEPT !.pc = pc, !.got = mw]
         IN  Continue(h, r) \/ Continue(h, ExecuteError(req[h])),
         UNCHANGED <<state, res>>, OneOfEachWork(work')
  PROVE  CountedByJobs'
<1> DEFINE r == [req[h] EXCEPT !.pc = pc, !.got = mw]
<1>1. req[h] \in Request
  BY InductiveParts
<1>2. Moves(req[h], r)
  <2>1. /\ r.pc = pc /\ r.cur = req[h].cur /\ r.view = req[h].view
        /\ r.jobs = req[h].jobs /\ r.todo = req[h].todo
    BY <1>1, WithAnswerFields
  <2> HIDE DEF r
  <2> QED
    BY <2>1 DEF Moves
<1>3. Continue(h, r) \/ Continue(h, ExecuteError(req[h]))
  OBVIOUS
<1> HIDE DEF r
<1> QED
  BY <1>2, <1>3, MoveStep, ErrorCounts

LEMMA CreateManifestWorkCounts ==
  ASSUME Inductive, CountedByJobs, NEW h \in Handlers,
         CreateManifestWork(h)
  PROVE  CountedByJobs'
<1>1. UNCHANGED <<state, res>>
  BY DEF CreateManifestWork, jmVars
<1>2. /\ work \in [Works -> ManifestWork \cup {Nil}] /\ OneOfEachWork(work)
  BY InductiveParts, CountedParts DEF Stores
<1>3. ASSUME NEW w \in Works, NEW mw, mw.conds = <<>>,
             work' = [work EXCEPT ![w] = mw], NEW got,
             AnsweredOrLost(h, [req[h] EXCEPT !.pc = "await", !.got = got])
      PROVE  CountedByJobs'
  <2>1. OneOfEachWork(work')
    BY <1>2, <1>3, WorkStays
  <2>2. LET r == [req[h] EXCEPT !.pc = "await", !.got = got]
        IN  Continue(h, r) \/ Continue(h, ExecuteError(req[h]))
    BY <1>3 DEF AnsweredOrLost
  <2> QED
    BY <1>1, <2>1, <2>2, AnswerCounts
<1>4. ASSUME Continue(h, ExecuteError(req[h])), UNCHANGED hubVars
      PROVE  CountedByJobs'
  BY <1>1, <1>2, <1>4, ErrorCounts DEF hubVars
<1>5. CASE \E w \in Works :
             LET mw == [hub |-> Hub(h), rv |-> 1, conds |-> <<>>,
                        deleting |-> FALSE,
                        manifests |-> GenerateManifests(Asks(h).manifests)]
             IN  /\ work' = [work EXCEPT ![w] = mw]
                 /\ AnsweredOrLost(h, [req[h] EXCEPT !.pc = "await",
                      !.got = [name |-> w, rv |-> mw.rv,
                               manifests |-> mw.manifests, conds |-> <<>>]])
  <2> DEFINE mw == [hub |-> Hub(h), rv |-> 1, conds |-> <<>>,
                    deleting |-> FALSE,
                    manifests |-> GenerateManifests(Asks(h).manifests)]
             got(w) == [name |-> w, rv |-> 1, manifests |-> mw.manifests,
                        conds |-> <<>>]
  <2>1. PICK w \in Works :
          /\ work' = [work EXCEPT ![w] = mw]
          /\ AnsweredOrLost(h, [req[h] EXCEPT !.pc = "await", !.got = got(w)])
    BY <1>5
  <2>2. mw.conds = <<>>
    OBVIOUS
  <2> HIDE DEF mw, got
  <2> QED
    BY <2>1, <2>2, <1>3
<1> QED
  BY <1>4, <1>5 DEF CreateManifestWork

\* What a request makes of its view and of the hub's ManifestWork fits.
LEMMA UpdateJobResourceFits ==
  ASSUME Inductive, OneOfEachWork(work), NEW old \in Resource,
         NEW w \in Works, work[w] # Nil
  PROVE  LET mem == UpdateJobResource(old, Get(w))
         IN  /\ mem \in Result
             /\ Len(mem.res.conds) <= Len(old.conds) + Cardinality(ReportTypes)
<1>1. Get(w) \in Snapshot /\ Get(w).conds = work[w].conds
  BY GetOK DEF Inductive, Get
<1>2. Len(Get(w).conds) <= Cardinality(ReportTypes)
  BY <1>1, OneOfEachLength DEF Snapshot, OneOfEachWork
<1>3. UpdateJobResource(old, Get(w)).res.conds = old.conds \o Get(w).conds
  BY DEF UpdateJobResource
<1>4. Len(old.conds \o Get(w).conds) = Len(old.conds) + Len(Get(w).conds)
  BY <1>1, ConcatProperties DEF Snapshot, Resource
<1>5. Len(old.conds) \in Nat /\ Len(Get(w).conds) \in Nat
  BY <1>1, LenProperties DEF Snapshot, Resource
<1>6. UpdateJobResource(old, Get(w)) \in Result
  BY <1>1, UpdateJobResourceOK
<1> DEFINE mem == UpdateJobResource(old, Get(w))
<1>7. Len(mem.res.conds) = Len(old.conds) + Len(Get(w).conds)
  BY <1>3, <1>4
<1>8. Len(mem.res.conds) <= Len(old.conds) + Cardinality(ReportTypes)
  <2> DEFINE a == Len(mem.res.conds)
             b == Len(old.conds)
             c == Len(Get(w).conds)
             k == Cardinality(ReportTypes)
  <2>1. a = b + c /\ b \in Nat /\ c \in Nat /\ c <= k /\ k \in Nat
    BY <1>2, <1>5, <1>7, ReportTypesFinite
  <2> HIDE DEF a, b, c, k
  <2>2. a <= b + k
    BY <2>1
  <2> QED
    BY <2>2 DEF a, b, k
<1> HIDE DEF mem
<1> QED
  BY <1>6, <1>8 DEF mem

LEMMA AwaitAppliedCounts ==
  ASSUME Inductive, CountedByJobs, NEW h \in Handlers,
         AwaitApplied(h)
  PROVE  CountedByJobs'
<1> DEFINE w == req[h].got.name
           mem == UpdateJobResource(View(h), Get(w))
<1>1. /\ req[h].pc = "await" /\ UNCHANGED <<state, res, work>> /\ Found(w, h)
      /\ Continue(h, [req[h] EXCEPT !.pc = "report", !.mem = mem])
  BY DEF AwaitApplied, Polled, At, jmVars, hubVars
<1>2. /\ Asks(h).resource # Nil /\ View(h) \in Resource
  <2>1. WellFormed(req[h]) /\ req[h].pc \in Executing
    BY <1>1, InductiveParts DEF Executing
  <2> QED
    BY <1>1, <2>1, ExecutingHolds DEF WellFormed, Coherent, Asks
<1>3. OneOfEachWork(work) /\ OneOfEachWork(work')
  BY <1>1, CountedParts
<1>4. /\ mem \in Result
      /\ Len(mem.res.conds) <= Len(View(h).conds) + Cardinality(ReportTypes)
  BY <1>1, <1>2, <1>3, UpdateJobResourceFits DEF Found
<1> HIDE DEF mem
<1> QED
  BY <1>1, <1>2, <1>3, <1>4, ResultCounts DEF Executing

LEMMA FetchManifestWorkCounts ==
  ASSUME Inductive, CountedByJobs, NEW h \in Handlers,
         FetchManifestWork(h)
  PROVE  CountedByJobs'
<1>1. UNCHANGED <<state, res, work>> /\ OneOfEachWork(work')
  BY CountedParts DEF FetchManifestWork, jmVars, hubVars
<1>2. LET r == [req[h] EXCEPT !.pc = "update", !.got = Get(View(h).name)]
      IN  Continue(h, r) \/ Continue(h, ExecuteError(req[h]))
  BY DEF FetchManifestWork
<1> QED
  BY <1>1, <1>2, AnswerCounts

LEMMA UpdateCounts ==
  ASSUME Inductive, CountedByJobs, NEW h \in Handlers, Update(h)
  PROVE  CountedByJobs'
<1> DEFINE w == req[h].got.name
           new == Updated(Asks(h), req[h].got.manifests)
           mem == UpdateJobResource(View(h), Get(w))
<1>1. req[h].pc = "update" /\ req[h].pc \in Executing /\ UNCHANGED <<state, res>>
  BY DEF Update, At, Executing, jmVars
<1>2. Asks(h).resource # Nil /\ View(h) \in Resource
  <2>1. WellFormed(req[h])
    BY InductiveParts
  <2> QED
    BY <1>1, <2>1, ExecutingHolds DEF WellFormed, Coherent, Asks
<1>3. work \in [Works -> ManifestWork \cup {Nil}] /\ OneOfEachWork(work)
  BY InductiveParts, CountedParts DEF Stores
<1>4. ASSUME Found(w, h),
             work' = [work EXCEPT ![w].manifests = new,
                       ![w].rv = IF new = work[w].manifests THEN @ ELSE @ + 1],
             AnsweredOrLost(h, [req[h] EXCEPT !.pc = "report", !.mem = mem])
      PROVE  CountedByJobs'
  <2>1. w \in Works /\ work[w] # Nil /\ work[w] \in ManifestWork
    BY <1>3, <1>4 DEF Found
  <2>2. /\ \A v \in Works : v # w => work'[v] = work[v]
        /\ work'[w].conds = work[w].conds
    <3> HIDE DEF w, new
    <3> QED
      BY <1>3, <1>4, <2>1 DEF ManifestWork
  <2>3. OneOfEachWork(work')
    BY <1>3, <2>1, <2>2, WorkStays
  <2>4. /\ mem \in Result
        /\ Len(mem.res.conds) <= Len(View(h).conds) + Cardinality(ReportTypes)
    BY <1>2, <1>3, <2>1, UpdateJobResourceFits
  <2> HIDE DEF mem
  <2>5. LET r == [req[h] EXCEPT !.pc = "report", !.mem = mem]
        IN  Continue(h, r) \/ Continue(h, ExecuteError(req[h]))
    BY <1>4 DEF AnsweredOrLost
  <2> QED
    BY <1>1, <1>2, <2>3, <2>4, <2>5, ResultCounts
<1>5. ASSUME Continue(h, ExecuteError(req[h])), UNCHANGED work
      PROVE  CountedByJobs'
  BY <1>1, <1>3, <1>5, ErrorCounts
<1> QED
  BY <1>4, <1>5 DEF Update

LEMMA DeleteCounts ==
  ASSUME Inductive, CountedByJobs, NEW h \in Handlers, Delete(h)
  PROVE  CountedByJobs'
<1> DEFINE w == View(h).name
           mem == [state |-> "Applied", res |-> View(h)]
<1>1. /\ req[h].pc \in Executing /\ Asks(h).resource # Nil
      /\ UNCHANGED <<state, res>>
  BY DEF Delete, Executes, At, Executing, jmVars
<1>2. View(h) \in Resource
  BY <1>1, ExecutingHolds
<1>3. work \in [Works -> ManifestWork \cup {Nil}] /\ OneOfEachWork(work)
  BY InductiveParts, CountedParts DEF Stores
<1>4. ASSUME Found(w, h), NEW left \in Deleted(w),
             work' = [work EXCEPT ![w] = left],
             AnsweredOrLost(h, [req[h] EXCEPT !.pc = "report", !.mem = mem])
      PROVE  CountedByJobs'
  <2>1. OneOfEachWork(work')
    <3>1. w \in Works /\ work[w] # Nil /\ work[w] \in ManifestWork
      BY <1>3, <1>4 DEF Found
    <3> HIDE DEF w
    <3>2. left # Nil => left.conds = work[w].conds
      BY <1>4, <3>1, DeletedEnds
    <3> QED
      BY <1>3, <1>4, <3>1, <3>2, WorkStays
  <2>2. mem \in Result /\ mem.res = View(h)
    BY <1>2 DEF Result, States
  <2> HIDE DEF mem
  <2>3. Len(mem.res.conds) <= Len(View(h).conds) + Cardinality(ReportTypes)
    <3> DEFINE a == Len(View(h).conds)
               k == Cardinality(ReportTypes)
    <3>1. a \in Nat /\ k \in Nat
      BY <1>2, LenProperties, ReportTypesFinite DEF Resource
    <3> HIDE DEF a, k
    <3>2. a <= a + k
      BY <3>1
    <3> QED
      BY <2>2, <3>2 DEF a, k
  <2>4. LET r == [req[h] EXCEPT !.pc = "report", !.mem = mem]
        IN  Continue(h, r) \/ Continue(h, ExecuteError(req[h]))
    BY <1>4 DEF AnsweredOrLost
  <2> QED
    BY <1>1, <2>1, <2>2, <2>3, <2>4, ResultCounts
<1>5. ASSUME Continue(h, ExecuteError(req[h])), UNCHANGED work
      PROVE  CountedByJobs'
  BY <1>1, <1>3, <1>5, ErrorCounts
<1> QED
  BY <1>4, <1>5 DEF Delete

LEMMA ErrorStepsCounts ==
  ASSUME Inductive, CountedByJobs, NEW h \in Handlers,
         AwaitTimeout(h) \/ Unsupported(h) \/ CallFails(h)
  PROVE  CountedByJobs'
<1>1. Continue(h, ExecuteError(req[h])) /\ UNCHANGED <<state, res, work>>
  BY DEF AwaitTimeout, Unsupported, CallFails, jmVars, hubVars
<1>2. OneOfEachWork(work')
  BY <1>1, CountedParts
<1> QED
  BY <1>1, <1>2, ErrorCounts

(***************************************************************************)
(* The end of a request, and its surroundings.                             *)
(***************************************************************************)
LEMMA RestartCounts ==
  ASSUME Inductive, CountedByJobs,
         \A h \in Handlers : req'[h] = Idle \/ req'[h] = req[h],
         UNCHANGED <<state, res, work>>
  PROVE  CountedByJobs'
<1>1. Counts(Idle, state)
  BY DEF Counts, Fits, Idle
<1>2. \A h \in Handlers : Counts(req'[h], state')
  BY <1>1, CountedParts
<1>3. /\ IsFiniteSet(Reported(state')) /\ OneOfEachWork(work')
      /\ ResourcesFit(res', state')
  BY CountedParts
<1> QED
  BY <1>2, <1>3, PartsCounted

LEMMA DiesCounts ==
  ASSUME Inductive, CountedByJobs, NEW h \in Handlers,
         Panics(h) \/ Exits(h)
  PROVE  CountedByJobs'
<1>1. UNCHANGED <<state, res, work>> /\ (Continue(h, Idle) \/ \E i : Restart(i))
  BY DEF Panics, Exits, jmVars, hubVars
<1>2. \A g \in Handlers : req'[g] = Idle \/ req'[g] = req[g]
  BY <1>1, InductiveParts DEF Continue, Restart
<1> QED
  BY <1>1, <1>2, RestartCounts

\* The job that is stored was not reported when its request pulled it, and is now.
LEMMA StoreCounts ==
  ASSUME Inductive, CountedByJobs, NEW h \in Handlers,
         req[h].pc = "report", Store(h)
  PROVE  /\ IsFiniteSet(Reported(state'))
         /\ Reported(state) \subseteq Reported(state')
         /\ ResourcesFit(res', state')
<1> DEFINE j == req[h].cur
           s == Job[j].resource
           js == ReportedFor(s, state) \ req[h].jobs
<1>1. /\ j \in Jobs /\ j # Nil /\ req[h].mem \in Result /\ s \in Resources
      /\ state \in [Jobs -> JobStates] /\ res \in [Resources -> Resource]
  <2>1. req[h].pc \in Executing /\ WellFormed(req[h]) /\ Stores
    BY InductiveParts DEF Executing
  <2> QED
    BY <2>1, ExecutingHolds DEF WellFormed, Coherent, Request, Asks, Stores
<1>2. /\ IsFiniteSet(Reported(state)) /\ ResourcesFit(res, state)
      /\ Counts(req[h], state)
  BY CountedParts
<1>3. /\ state' = [state EXCEPT ![j] = req[h].mem.state]
      /\ res' = [res EXCEPT ![s] = req[h].mem.res]
      /\ req[h].mem.state # "Created"
  BY <1>1 DEF Store, Asks, Result, States
<1>4. j \in req[h].jobs /\ Len(req[h].mem.res.conds) <= Room(js \cup {j})
  BY <1>1, <1>2 DEF Counts
<1> HIDE DEF s
<1>5. /\ Reported(state') = Reported(state) \cup {j}
      /\ js \cup {j} \in SUBSET ReportedFor(s, state')
  BY <1>1, <1>3 DEF Reported, ReportedFor, s
<1>6. /\ IsFiniteSet(Reported(state')) /\ Reported(state) \subseteq Reported(state')
  BY <1>2, <1>5, FS_AddElement
<1>7. ASSUME NEW t \in Resources, t # s
      PROVE  /\ Len(res'[t].conds) <= Room(ReportedFor(t, state'))
             /\ res'[t].uid # Nil => ReportedFor(t, state') # {}
  <2>1. res'[t] = res[t] /\ Len(res[t].conds) \in Nat
    BY <1>1, <1>3, <1>7, LenProperties DEF Resource
  <2>2. /\ Len(res[t].conds) <= Room(ReportedFor(t, state))
        /\ res[t].uid # Nil => ReportedFor(t, state) # {}
    BY <1>2 DEF ResourcesFit
  <2>3. /\ Room(ReportedFor(t, state)) <= Room(ReportedFor(t, state'))
        /\ Room(ReportedFor(t, state)) \in Nat
        /\ Room(ReportedFor(t, state')) \in Nat
    BY <1>6, FitsStays
  <2>4. ReportedFor(t, state) \subseteq ReportedFor(t, state')
    BY <1>6 DEF Reported, ReportedFor
  <2>5. Len(res'[t].conds) <= Room(ReportedFor(t, state'))
    BY <2>1, <2>2, <2>3
  <2> QED
    BY <2>1, <2>2, <2>4, <2>5
<1>8. Len(res'[s].conds) <= Room(ReportedFor(s, state'))
  <2>1. IsFiniteSet(ReportedFor(s, state'))
    BY <1>6, ReportedForFinite
  <2>2. /\ Room(js \cup {j}) \in Nat
        /\ Room(js \cup {j}) <= Room(ReportedFor(s, state'))
        /\ Room(ReportedFor(s, state')) \in Nat
    BY <1>5, <2>1, RoomGrows, RoomIsNat, FS_Subset
  <2>3. res'[s] = req[h].mem.res /\ Len(req[h].mem.res.conds) \in Nat
    BY <1>1, <1>3, LenProperties DEF Result, Resource
  <2> HIDE DEF j, js
  <2> QED
    BY <1>4, <2>2, <2>3
<1>9. ReportedFor(s, state') # {}
  BY <1>5
<1> QED
  BY <1>6, <1>7, <1>8, <1>9 DEF ResourcesFit

LEMMA ReportCounts ==
  ASSUME Inductive, CountedByJobs, NEW h \in Handlers, Report(h)
  PROVE  CountedByJobs'
<1> DEFINE m == NextJob(req[h])
           answered == [m EXCEPT !.updated = @ \cup {req[h].cur}]
<1>1. /\ req[h].pc = "report" /\ UNCHANGED work
      /\ Store(h) \/ UNCHANGED <<state, res>>
      /\ Continue(h, answered) \/ Continue(h, UpdateError(req[h]))
  BY DEF Report, At, hubVars
<1>2. PICK r \in {answered, UpdateError(req[h])} : Continue(h, r)
  BY <1>1
<1>3. Moves(req[h], r)
  <2>1. req[h] \in Request
    BY InductiveParts
  <2>2. /\ m \in Request /\ m.pc = "loop" /\ m.cur = Nil
        /\ m.view = req[h].view /\ m.jobs = req[h].jobs /\ m.todo = req[h].todo
    BY <2>1, NextJobFields
  <2> HIDE DEF m
  <2>3. Moves(req[h], answered)
    BY <2>2 DEF Moves, Request
  <2> HIDE DEF answered
  <2> QED
    BY <1>2, <2>1, <2>3, ErrorMoves
<1> HIDE DEF answered
<1>4. OneOfEachWork(work') /\ Counts(req[h], state)
  BY <1>1, CountedParts
<1>5. CASE Store(h)
  <2>1. /\ IsFiniteSet(Reported(state')) /\ Reported(state) \subseteq Reported(state')
        /\ ResourcesFit(res', state')
    BY <1>1, <1>5, StoreCounts
  <2>2. Counts(req[h], state')
    BY <1>4, <2>1, InductiveParts, CountsStays
  <2>3. Counts(r, state')
    BY <1>3, <2>2, MovesCounts
  <2> QED
    BY <1>2, <1>4, <2>1, <2>3, OneRequestCounts
<1>6. CASE UNCHANGED <<state, res>>
  BY <1>2, <1>3, <1>4, <1>6, MoveStep
<1> QED
  BY <1>1, <1>5, <1>6

LEMMA ReplyCounts ==
  ASSUME Inductive, CountedByJobs, NEW h \in Handlers, Reply(h)
  PROVE  CountedByJobs'
<1> DEFINE r == [req[h] EXCEPT !.pc = "replied", !.view = Nil,
                               !.code = WriteHeader(@, 200)]
<1>1. Continue(h, r) /\ UNCHANGED <<state, res, work>>
  BY DEF Reply, jmVars, hubVars
<1>2. req[h] \in Request /\ OneOfEachWork(work')
  BY <1>1, InductiveParts, CountedParts
<1>3. Moves(req[h], r)
  BY <1>2 DEF Moves, Request
<1> HIDE DEF r
<1> QED
  BY <1>1, <1>2, <1>3, MoveStep

LEMMA ClientGoneCounts ==
  ASSUME Inductive, CountedByJobs, NEW h \in Handlers, ClientGone(h)
  PROVE  CountedByJobs'
<1> DEFINE r == [req[h] EXCEPT !.gone = TRUE]
<1>1. Continue(h, r) /\ UNCHANGED <<state, res, work>>
  BY DEF ClientGone, jmVars, hubVars
<1>2. req[h] \in Request /\ OneOfEachWork(work')
  BY <1>1, InductiveParts, CountedParts
<1>3. Moves(req[h], r)
  BY <1>2 DEF Moves, Request
<1> HIDE DEF r
<1> QED
  BY <1>1, <1>2, <1>3, MoveStep

LEMMA AgentStatusCounts ==
  ASSUME Inductive, CountedByJobs, NEW w \in Works, AgentStatus(w)
  PROVE  CountedByJobs'
<1>1. /\ work[w] # Nil /\ UNCHANGED <<state, res, req>>
      /\ \E c \in Reports :
           work' = [work EXCEPT ![w].conds = SetCondition(work[w].conds, c),
                                ![w].rv = @ + 1]
  BY DEF AgentStatus, jmVars
<1>2. PICK c \in Reports :
        work' = [work EXCEPT ![w].conds = SetCondition(work[w].conds, c),
                             ![w].rv = @ + 1]
  BY <1>1
<1>3. /\ work \in [Works -> ManifestWork \cup {Nil}] /\ work[w] \in ManifestWork
      /\ OneOfEachWork(work)
  BY <1>1, InductiveParts, CountedParts DEF Stores
<1> DEFINE conds == SetCondition(work[w].conds, c)
<1>4. OneOfEach(conds)
  BY <1>1, <1>3, SetConditionOne DEF OneOfEachWork, ManifestWork
<1>5. work' = [work EXCEPT ![w].conds = conds, ![w].rv = @ + 1]
  BY <1>2
<1> HIDE DEF conds
<1>6. /\ \A v \in Works : v # w => work'[v] = work[v]
      /\ work'[w].conds = conds
  BY <1>3, <1>5 DEF ManifestWork
<1>7. OneOfEachWork(work')
  BY <1>3, <1>4, <1>6 DEF OneOfEachWork
<1>8. /\ IsFiniteSet(Reported(state')) /\ ResourcesFit(res', state')
      /\ \A h \in Handlers : Counts(req'[h], state')
  BY <1>1, CountedParts
<1> QED
  BY <1>7, <1>8, PartsCounted

LEMMA AgentRemovesCounts ==
  ASSUME Inductive, CountedByJobs, NEW w \in Works, AgentRemoves(w)
  PROVE  CountedByJobs'
<1>1. UNCHANGED <<state, res, req>> /\ work' = [work EXCEPT ![w] = Nil]
  BY DEF AgentRemoves, jmVars
<1>2. work \in [Works -> ManifestWork \cup {Nil}] /\ OneOfEachWork(work)
  BY InductiveParts, CountedParts DEF Stores
<1>3. OneOfEachWork(work')
  BY <1>1, <1>2, WorkStays
<1>4. /\ IsFiniteSet(Reported(state')) /\ ResourcesFit(res', state')
      /\ \A h \in Handlers : Counts(req'[h], state')
  BY <1>1, CountedParts
<1> QED
  BY <1>3, <1>4, PartsCounted

(***************************************************************************)
(* The invariant, and what follows from it.                                *)
(***************************************************************************)
LEMMA CountedInit ==
  ASSUME Init
  PROVE  CountedByJobs
<1>1. Reported(state) = {} /\ \A s \in Resources : ReportedFor(s, state) = {}
  BY DEF Init, Reported, ReportedFor
<1>2. IsFiniteSet(Reported(state)) /\ Room({}) \in Nat
  BY <1>1, FS_EmptySet, RoomIsNat
<1>3. \A s \in Resources : Len(res[s].conds) = 0
  BY EmptySeq DEF Init
<1>4. ResourcesFit(res, state)
  <2> SUFFICES ASSUME NEW s \in Resources
               PROVE  Len(res[s].conds) <= Room(ReportedFor(s, state))
    BY DEF ResourcesFit, Init
  <2> DEFINE m == Room({})
  <2>1. Len(res[s].conds) = 0 /\ Room(ReportedFor(s, state)) = m
    BY <1>1, <1>3
  <2>2. m \in Nat
    BY <1>2
  <2> HIDE DEF m
  <2> QED
    BY <2>1, <2>2
<1>5. OneOfEachWork(work)
  BY DEF Init, OneOfEachWork
<1>6. \A h \in Handlers : Counts(req[h], state)
  BY DEF Init, Idle, Counts, Fits
<1> QED
  BY <1>2, <1>4, <1>5, <1>6, CountedParts

LEMMA CountedStep ==
  ASSUME Inductive, CountedByJobs, [Next]_vars
  PROVE  CountedByJobs'
<1>1. ASSUME NEW h \in Handlers,
             Pull(h) \/ PullFails(h) \/ Step(h) \/ ClientGone(h)
      PROVE  CountedByJobs'
  BY <1>1, PullCounts, PullFailsCounts, SkipCounts, PromoteCounts,
     CreateManifestWorkCounts,
     AwaitAppliedCounts, FetchManifestWorkCounts, UpdateCounts, DeleteCounts,
     ErrorStepsCounts, DiesCounts, ReportCounts, ReplyCounts, ClientGoneCounts
     DEF Step, Runs
<1>2. ASSUME NEW i \in Instances, Crash(i)
      PROVE  CountedByJobs'
  BY <1>2, RestartCounts DEF Crash, Restart, jmVars, hubVars
<1>3. ASSUME NEW w \in Works, AgentStatus(w) \/ AgentRemoves(w)
      PROVE  CountedByJobs'
  BY <1>3, AgentStatusCounts, AgentRemovesCounts
<1>4. CASE UNCHANGED vars
  BY <1>4, RestartCounts DEF vars
<1> QED
  BY <1>1, <1>2, <1>3, <1>4 DEF Next

\* For any jobs, requests and reports: what a request holds of a resource leaves
\* room for the conditions of its jobs.  It carries the next theorem.
THEOREM CountedInvariant == Spec => []CountedByJobs
<1>1. Init => CountedByJobs
  BY CountedInit
<1>2. Inductive /\ CountedByJobs /\ [Next]_vars => CountedByJobs'
  BY CountedStep
<1> QED
  BY <1>1, <1>2, InductiveInvariant, PTL DEF Spec

\* Neither requests that execute the same job nor failures in reporting it make the
\* conditions of a resource grow by more than one of each type for each job.
THEOREM ConditionsGrow == Spec => []ConditionsGrowByJobs
<1>1. CountedByJobs => ConditionsGrowByJobs
  BY DEF CountedByJobs
<1> QED
  BY <1>1, CountedInvariant, PTL
=============================================================================
