--------------------------- MODULE WorkloadProofs ---------------------------
(***************************************************************************)
(* Workload, for slices of any length: the loops over the slices compute   *)
(* what ManifestOps states for sets, so Workload implements Payload.       *)
(*                                                                         *)
(* A loop is a recursive function of the number of iterations.  That such  *)
(* a function exists, and what it returns, is shown by induction, as a     *)
(* consequence of the well-foundedness of < on the natural numbers: the    *)
(* property to show is the set of numbers that have it, and the body of a  *)
(* loop is a function, so that the lemmas need no operator parameter.      *)
(***************************************************************************)
EXTENDS Workload, ManifestOpsProofs, SequenceTheorems, WellFoundedInduction

(***************************************************************************)
(* Loops.                                                                  *)
(***************************************************************************)
\* Induction up to N.
LEMMA UpTo ==
  ASSUME NEW N \in Nat, NEW S, 0 \in S, \A n \in 1..N : n - 1 \in S => n \in S
  PROVE  \A n \in 0..N : n \in S
<1> SUFFICES ASSUME NEW n \in 0..N, n \notin S
             PROVE  FALSE
  OBVIOUS
<1> DEFINE T == {k \in 0..N : k \notin S}
<1>1. T \subseteq Nat /\ T # {}
  OBVIOUS
<1>2. PICK k \in T : \A l \in T : ~(<<l, k>> \in OpToRel(<, Nat))
  BY <1>1, WFMin, NatLessThanWellFounded
<1>3. k \in 1..N /\ k - 1 \in 0..N
  <2>1. k \in 0..N /\ k # 0
    OBVIOUS
  <2> QED
    BY <2>1
<1>4. k - 1 \in T
  BY <1>2, <1>3
<1>5. <<k - 1, k>> \in OpToRel(<, Nat)
  BY <1>3 DEF OpToRel
<1> QED
  BY <1>2, <1>4, <1>5

\* What a loop has made after n iterations, each of which is a function.
IsLoop(f, N, X, x0, g) ==
  /\ f \in [0..N -> X]
  /\ f[0] = x0
  /\ \A n \in 1..N : f[n] = g[n][f[n - 1]]

\* Started with a value of X, a loop whose iterations take X to X makes values of X.
LEMMA LoopExists ==
  ASSUME NEW N \in Nat, NEW X, NEW x0 \in X, NEW g \in [1..N -> [X -> X]]
  PROVE  \E f : IsLoop(f, N, X, x0, g)
<1> DEFINE Runs(f, m) == /\ f \in [0..N -> X]
                         /\ f[0] = x0
                         /\ \A n \in 1..m : f[n] = g[n][f[n - 1]]
           S == {m \in 0..N : \E f : Runs(f, m)}
<1>1. 0 \in S
  <2>1. Runs([n \in 0..N |-> x0], 0)
    OBVIOUS
  <2> HIDE DEF Runs
  <2>2. \E f : Runs(f, 0)
    BY <2>1
  <2> QED
    BY <2>2
<1>2. ASSUME NEW m \in 1..N, m - 1 \in S
      PROVE  m \in S
  <2>1. PICK f : Runs(f, m - 1)
    BY <1>2
  <2> DEFINE e == [f EXCEPT ![m] = g[m][f[m - 1]]]
  <2>2. m \in 0..N /\ m - 1 \in 0..N /\ m # 0
    OBVIOUS
  <2>3. e \in [0..N -> X] /\ e[0] = x0
    BY <2>1, <2>2
  <2>4. ASSUME NEW n \in 1..m
        PROVE  e[n] = g[n][e[n - 1]]
    <3>1. n \in 0..N /\ n - 1 \in 0..N /\ n - 1 # m
      BY <2>4
    <3>2. CASE n = m
      BY <2>1, <2>2, <3>1, <3>2
    <3>3. CASE n # m
      <4>1. n \in 1..(m - 1)
        BY <3>3
      <4> QED
        BY <2>1, <2>2, <3>1, <3>3, <4>1
    <3> QED
      BY <3>2, <3>3
  <2>5. Runs(e, m)
    BY <2>3, <2>4
  <2> HIDE DEF Runs, e
  <2>6. \E h : Runs(h, m)
    BY <2>5
  <2> QED
    BY <2>2, <2>6
<1> HIDE DEF S
<1>3. N \in S
  <2>1. \A n \in 0..N : n \in S
    BY <1>1, <1>2, UpTo
  <2> QED
    BY <2>1
<1>4. PICK f : Runs(f, N)
  BY <1>3 DEF S
<1>5. IsLoop(f, N, X, x0, g)
  BY <1>4 DEF IsLoop
<1> QED
  BY <1>5

(***************************************************************************)
(* Decoding the manifests of a job.                                        *)
(***************************************************************************)
LEMMA DecodingLoop ==
  ASSUME NEW start \in Seq(Manifest), NEW ms \in Seq(Manifest)
  PROVE  LET slice == Decoding(start, ms)
         IN  /\ slice \in [0..Len(ms) -> Seq(Manifest)]
             /\ slice[0] = start
             /\ \A n \in 1..Len(ms) :
                  slice[n] = IF ms[n].kind = "Unregistered" THEN slice[n - 1]
                             ELSE Append(slice[n - 1], ms[n])
<1> DEFINE N == Len(ms)
           X == Seq(Manifest)
           body(n, s) == IF ms[n].kind = "Unregistered" THEN s
                         ELSE Append(s, ms[n])
           P(f) == f = [n \in 0..N |-> IF n = 0 THEN start ELSE body(n, f[n - 1])]
           slice == Decoding(start, ms)
<1>1. N \in Nat /\ \A n \in 1..N : ms[n] \in Manifest
  BY LenProperties, ElementOfSeq
<1>2. \A n \in 1..N : \A s \in X : body(n, s) \in X
  BY <1>1, AppendProperties
<1>3. slice = CHOOSE f : P(f)
  BY DEF Decoding
<1> HIDE DEF slice, body, X, N
<1>4. \E f : P(f)
  <2> DEFINE g == [n \in 1..N |-> [s \in X |-> body(n, s)]]
  <2>1. g \in [1..N -> [X -> X]]
    BY <1>2
  <2>2. start \in X
    BY DEF X
  <2> HIDE DEF g
  <2>3. PICK f : IsLoop(f, N, X, start, g)
    BY <1>1, <2>1, <2>2, LoopExists
  <2>4. ASSUME NEW n \in 1..N
        PROVE  f[n] = body(n, f[n - 1])
    <3>1. n - 1 \in 0..N
      BY <1>1
    <3>2. f[n - 1] \in X
      BY <2>3, <3>1 DEF IsLoop
    <3> QED
      BY <2>3, <3>2 DEF g, IsLoop
  <2>5. \A n \in 0..N : f[n] = IF n = 0 THEN start ELSE body(n, f[n - 1])
    <3>1. \A n \in 0..N : n = 0 \/ n \in 1..N
      BY <1>1
    <3> QED
      BY <2>3, <2>4, <3>1 DEF IsLoop
  <2>6. P(f)
    BY <2>3, <2>5 DEF IsLoop
  <2> HIDE DEF P
  <2> QED
    BY <2>6
<1>5. P(slice)
  <2> HIDE DEF P
  <2> QED
    BY <1>3, <1>4, Zenon
<1> DEFINE e(n) == IF n = 0 THEN start ELSE body(n, slice[n - 1])
<1>6. slice = [n \in 0..N |-> e(n)]
  BY <1>5
<1>7. slice[0] = start /\ \A n \in 1..N : slice[n] = body(n, slice[n - 1])
  <2>1. 0 \in 0..N /\ \A n \in 1..N : n \in 0..N /\ n # 0
    BY <1>1
  <2> QED
    BY <1>6, <2>1
<1>8. slice \in [0..N -> X]
  <2> DEFINE S == {n \in 0..N : slice[n] \in X}
  <2>1. 0 \in S
    BY <1>1, <1>7 DEF X
  <2>2. ASSUME NEW n \in 1..N, n - 1 \in S
        PROVE  n \in S
    BY <1>2, <1>7, <2>2
  <2> HIDE DEF S
  <2>3. \A n \in 0..N : n \in S
    BY <1>1, <2>1, <2>2, UpTo
  <2>4. \A n \in 0..N : e(n) \in X
    BY <1>6, <2>3 DEF S
  <2> HIDE DEF e
  <2> QED
    BY <1>6, <2>4
<1> QED
  BY <1>7, <1>8 DEF slice, body, X, N

\* The manifests of a slice, one at a time.
LEMMA AppendToSet ==
  ASSUME NEW X, NEW s \in Seq(X), NEW x \in X
  PROVE  ToSet(Append(s, x)) = ToSet(s) \cup {x}
<1> DEFINE n == Len(s)
           t == Append(s, x)
<1>1. n \in Nat /\ DOMAIN s = 1..n
  BY LenProperties
<1>2. DOMAIN t = 1..(n + 1) /\ t[n + 1] = x /\ \A k \in 1..n : t[k] = s[k]
  BY <1>1, AppendProperties
<1> HIDE DEF n, t
<1>3. \A k \in 1..(n + 1) : k \in 1..n \/ k = n + 1
  BY <1>1
<1>4. n + 1 \in 1..(n + 1) /\ \A k \in 1..n : k \in 1..(n + 1)
  BY <1>1
<1> QED
  BY <1>1, <1>2, <1>3, <1>4 DEF ToSet, t

LEMMA ToSetType ==
  ASSUME NEW s \in Seq(Manifest)
  PROVE  ToSet(s) \in SUBSET Manifest
BY LenProperties, ElementOfSeq DEF ToSet

\* The slice has the manifests that decode, after what it had to begin with.
LEMMA DecodedIs ==
  ASSUME NEW start \in Seq(Manifest), NEW ms \in Seq(Manifest)
  PROVE  /\ Decoded(start, ms) \in Seq(Manifest)
         /\ ToSet(Decoded(start, ms)) = ToSet(start) \cup Decodable(ToSet(ms))
<1> DEFINE N == Len(ms)
           slice == Decoding(start, ms)
           upTo(n) == {ms[k] : k \in {l \in 1..n : ms[l].kind # "Unregistered"}}
           S == {n \in 0..N : ToSet(slice[n]) = ToSet(start) \cup upTo(n)}
<1>1. /\ N \in Nat /\ DOMAIN ms = 1..N
      /\ \A n \in 1..N : ms[n] \in Manifest
  BY LenProperties, ElementOfSeq
<1>2. /\ slice \in [0..N -> Seq(Manifest)] /\ slice[0] = start
      /\ \A n \in 1..N :
           slice[n] = IF ms[n].kind = "Unregistered" THEN slice[n - 1]
                      ELSE Append(slice[n - 1], ms[n])
  BY DecodingLoop
<1> HIDE DEF slice, N
<1>3. 0 \in S
  BY <1>1, <1>2
<1>4. ASSUME NEW n \in 1..N, n - 1 \in S
      PROVE  n \in S
  <2>1. n \in 0..N /\ n - 1 \in 0..N /\ n \in 1..n
    BY <1>1
  <2>2. \A k \in 1..n : k \in 1..(n - 1) \/ k = n
    BY <1>1
  <2>3. \A k \in 1..(n - 1) : k \in 1..n
    BY <1>1
  <2>4. ToSet(slice[n - 1]) = ToSet(start) \cup upTo(n - 1)
    BY <1>4
  <2>5. CASE ms[n].kind = "Unregistered"
    <3>1. upTo(n) = upTo(n - 1)
      BY <2>2, <2>3, <2>5
    <3> HIDE DEF upTo
    <3>2. slice[n] = slice[n - 1]
      BY <1>2, <2>5
    <3> QED
      BY <2>1, <2>4, <3>1, <3>2
  <2>6. CASE ms[n].kind # "Unregistered"
    <3>1. upTo(n) = upTo(n - 1) \cup {ms[n]}
      BY <2>1, <2>2, <2>3, <2>6
    <3> HIDE DEF upTo
    <3>2. slice[n] = Append(slice[n - 1], ms[n])
      BY <1>2, <2>6
    <3>3. ToSet(slice[n]) = ToSet(slice[n - 1]) \cup {ms[n]}
      BY <1>1, <1>2, <2>1, <3>2, AppendToSet
    <3> QED
      BY <2>1, <2>4, <3>1, <3>3
  <2> QED
    BY <2>5, <2>6
<1> HIDE DEF S
<1>5. \A n \in 0..N : n \in S
  BY <1>1, <1>3, <1>4, UpTo
<1>6. N \in 0..N
  BY <1>1
<1>7. ToSet(slice[N]) = ToSet(start) \cup upTo(N)
  BY <1>5, <1>6 DEF S
<1>8. upTo(N) = Decodable(ToSet(ms))
  BY <1>1 DEF Decodable, ToSet
<1> QED
  BY <1>2, <1>6, <1>7, <1>8 DEF Decoded, slice, N

(***************************************************************************)
(* Remediating the manifests of a workload.                                *)
(***************************************************************************)
Acc == [panic : BOOLEAN, updated : Seq(Manifest)]

LEMMA StartType ==
  /\ Start \in Acc /\ ~Start.panic
  /\ Start.updated = <<NamespaceManifest>>
BY DEF Start, Acc, NamespaceManifest, Manifest, Kinds

\* What an iteration makes of a manifest.
LEMMA IterationIs ==
  ASSUME NEW acc \in Acc, NEW m \in Manifest, NEW sub \in ScaleTypes
  PROVE  LET next == Iteration(acc, m, sub)
         IN  /\ next \in Acc
             /\ next.panic <=> acc.panic \/ Faulty(m, sub)
             /\ ~next.panic =>
                  next.updated = IF m.kind # "Deployment" THEN acc.updated
                                 ELSE Append(acc.updated, Remediate(m, sub))
             /\ ~next.panic /\ m.kind = "Deployment" =>
                  /\ Remediate(m, sub) \in Manifest
                  /\ Remediate(m, sub).kind = "Deployment"
<1> DEFINE next == Iteration(acc, m, sub)
<1>1. CASE acc.panic \/ Faulty(m, sub)
  <2>1. next = [acc EXCEPT !.panic = TRUE]
    BY <1>1 DEF Iteration
  <2>2. next \in Acc /\ next.panic
    BY <2>1 DEF Acc
  <2> QED
    BY <1>1, <2>2
<1>2. CASE ~(acc.panic \/ Faulty(m, sub)) /\ m.kind # "Deployment"
  <2>1. next = acc
    BY <1>2 DEF Iteration
  <2> QED
    BY <1>2, <2>1
<1>3. CASE ~(acc.panic \/ Faulty(m, sub)) /\ m.kind = "Deployment"
  <2>1. next = [acc EXCEPT !.updated = Append(@, Remediate(m, sub))]
    BY <1>3 DEF Iteration
  <2>2. Remediate(m, sub) \in Manifest /\ Remediate(m, sub).kind = m.kind
    BY <1>3, RemediateType DEF Faulty
  <2> DEFINE t == Append(acc.updated, Remediate(m, sub))
  <2>3. t \in Seq(Manifest)
    BY <2>2, AppendProperties DEF Acc
  <2> HIDE DEF t
  <2>4. next = [acc EXCEPT !.updated = t]
    BY <2>1 DEF t
  <2>5. next \in Acc /\ next.updated = t /\ next.panic = acc.panic
    BY <2>3, <2>4 DEF Acc
  <2> QED
    BY <1>3, <2>2, <2>5 DEF t
<1> QED
  BY <1>1, <1>2, <1>3

LEMMA UpdatingLoop ==
  ASSUME NEW ms \in Seq(Manifest), NEW sub \in ScaleTypes
  PROVE  LET made == Updating(ms, sub)
         IN  /\ made \in [0..Len(ms) -> Acc]
             /\ made[0] = Start
             /\ \A n \in 1..Len(ms) :
                  made[n] = Iteration(made[n - 1], ms[n], sub)
<1> DEFINE N == Len(ms)
           body(n, acc) == Iteration(acc, ms[n], sub)
           P(f) == f = [n \in 0..N |-> IF n = 0 THEN Start ELSE body(n, f[n - 1])]
           made == Updating(ms, sub)
<1>1. N \in Nat /\ \A n \in 1..N : ms[n] \in Manifest
  BY LenProperties, ElementOfSeq
<1>2. \A n \in 1..N : \A acc \in Acc : body(n, acc) \in Acc
  BY <1>1, IterationIs
<1>3. made = CHOOSE f : P(f)
  BY DEF Updating
<1> HIDE DEF made, body, N
<1>4. \E f : P(f)
  <2> DEFINE g == [n \in 1..N |-> [acc \in Acc |-> body(n, acc)]]
  <2>1. g \in [1..N -> [Acc -> Acc]]
    BY <1>2
  <2> HIDE DEF g
  <2>2. PICK f : IsLoop(f, N, Acc, Start, g)
    BY <1>1, <2>1, StartType, LoopExists
  <2>3. ASSUME NEW n \in 1..N
        PROVE  f[n] = body(n, f[n - 1])
    <3>1. n - 1 \in 0..N
      BY <1>1
    <3>2. f[n - 1] \in Acc
      BY <2>2, <3>1 DEF IsLoop
    <3> QED
      BY <2>2, <3>2 DEF g, IsLoop
  <2>4. \A n \in 0..N : f[n] = IF n = 0 THEN Start ELSE body(n, f[n - 1])
    <3>1. \A n \in 0..N : n = 0 \/ n \in 1..N
      BY <1>1
    <3> QED
      BY <2>2, <2>3, <3>1 DEF IsLoop
  <2>5. P(f)
    BY <2>2, <2>4 DEF IsLoop
  <2> HIDE DEF P
  <2> QED
    BY <2>5
<1>5. P(made)
  <2> HIDE DEF P
  <2> QED
    BY <1>3, <1>4, Zenon
<1> DEFINE e(n) == IF n = 0 THEN Start ELSE body(n, made[n - 1])
<1>6. made = [n \in 0..N |-> e(n)]
  BY <1>5
<1>7. made[0] = Start /\ \A n \in 1..N : made[n] = body(n, made[n - 1])
  <2>1. 0 \in 0..N /\ \A n \in 1..N : n \in 0..N /\ n # 0
    BY <1>1
  <2> QED
    BY <1>6, <2>1
<1>8. made \in [0..N -> Acc]
  <2> DEFINE S == {n \in 0..N : made[n] \in Acc}
  <2>1. 0 \in S
    BY <1>1, <1>7, StartType
  <2>2. ASSUME NEW n \in 1..N, n - 1 \in S
        PROVE  n \in S
    BY <1>2, <1>7, <2>2
  <2> HIDE DEF S
  <2>3. \A n \in 0..N : n \in S
    BY <1>1, <2>1, <2>2, UpTo
  <2>4. \A n \in 0..N : e(n) \in Acc
    BY <1>6, <2>3 DEF S
  <2> HIDE DEF e
  <2> QED
    BY <1>6, <2>4
<1> QED
  BY <1>7, <1>8 DEF made, body, N

\* What the loop has made of the first n manifests: a fault in any of them is met,
\* and the slice has the Namespace and then the remediated Deployments.
Remediated(ms, n, sub) ==
  {Remediate(ms[k], sub) : k \in {l \in 1..n : ms[l].kind = "Deployment"}}

Made(acc, ms, n, sub) ==
  /\ acc.panic <=> \E k \in 1..n : Faulty(ms[k], sub)
  /\ ~acc.panic =>
       /\ ToSet(acc.updated) = {NamespaceManifest} \cup Remediated(ms, n, sub)
       /\ Len(acc.updated) >= 1
       /\ Len(acc.updated) >= 2 <=> \E k \in 1..n : ms[k].kind = "Deployment"
       /\ \A k \in 2..Len(acc.updated) : acc.updated[k].kind = "Deployment"

LEMMA MadeStart ==
  ASSUME NEW ms, NEW sub
  PROVE  Made(Start, ms, 0, sub)
<1>1. Len(<<NamespaceManifest>>) = 1 /\ ToSet(<<NamespaceManifest>>) = {NamespaceManifest}
  BY DEF ToSet
<1> HIDE DEF NamespaceManifest
<1>2. ~Start.panic /\ Start.updated = <<NamespaceManifest>>
  BY StartType
<1>3. Remediated(ms, 0, sub) = {}
  BY DEF Remediated
<1> QED
  BY <1>1, <1>2, <1>3 DEF Made

LEMMA MadeStep ==
  ASSUME NEW acc \in Acc, NEW ms \in Seq(Manifest), NEW n \in 1..Len(ms),
         NEW sub \in ScaleTypes, Made(acc, ms, n - 1, sub)
  PROVE  Made(Iteration(acc, ms[n], sub), ms, n, sub)
<1> DEFINE m == ms[n]
           next == Iteration(acc, m, sub)
           new == Remediate(m, sub)
<1>1. /\ n \in Nat /\ n \in 1..n /\ \A k \in 1..n : k \in 1..(n - 1) \/ k = n
      /\ \A k \in 1..(n - 1) : k \in 1..n
  BY LenProperties
<1>2. m \in Manifest
  BY ElementOfSeq
<1>3. /\ next \in Acc
      /\ next.panic <=> acc.panic \/ Faulty(m, sub)
      /\ ~next.panic => next.updated = IF m.kind # "Deployment" THEN acc.updated
                                       ELSE Append(acc.updated, new)
      /\ ~next.panic /\ m.kind = "Deployment" =>
           new \in Manifest /\ new.kind = "Deployment"
  BY <1>2, IterationIs
<1> HIDE DEF next, new
<1>4. next.panic <=> \E k \in 1..n : Faulty(ms[k], sub)
  BY <1>1, <1>3 DEF Made
<1>5. ASSUME ~next.panic, m.kind # "Deployment"
      PROVE  Made(next, ms, n, sub)
  <2>1. next.updated = acc.updated /\ ~acc.panic
    BY <1>3, <1>5
  <2>2. Remediated(ms, n, sub) = Remediated(ms, n - 1, sub)
    BY <1>1, <1>5 DEF Remediated
  <2>3. (\E k \in 1..n : ms[k].kind = "Deployment")
          <=> \E k \in 1..(n - 1) : ms[k].kind = "Deployment"
    BY <1>1, <1>5
  <2> HIDE DEF m
  <2> QED
    BY <1>4, <2>1, <2>2, <2>3 DEF Made
<1>6. ASSUME ~next.panic, m.kind = "Deployment"
      PROVE  Made(next, ms, n, sub)
  <2> DEFINE s == acc.updated
             t == next.updated
  <2>1. /\ t = Append(s, new) /\ ~acc.panic /\ new \in Manifest
        /\ new.kind = "Deployment" /\ s \in Seq(Manifest)
    BY <1>3, <1>6 DEF Acc
  <2>2. /\ ToSet(s) = {NamespaceManifest} \cup Remediated(ms, n - 1, sub)
        /\ Len(s) >= 1
        /\ \A k \in 2..Len(s) : s[k].kind = "Deployment"
    BY <2>1 DEF Made
  <2> HIDE DEF s, t
  <2>3. Remediated(ms, n, sub) = Remediated(ms, n - 1, sub) \cup {new}
    BY <1>1, <1>6 DEF Remediated, new
  <2>4. ToSet(t) = {NamespaceManifest} \cup Remediated(ms, n, sub)
    BY <2>1, <2>2, <2>3, AppendToSet
  <2>5. /\ Len(s) \in Nat /\ Len(t) = Len(s) + 1
        /\ t[Len(s) + 1] = new /\ \A k \in 1..Len(s) : t[k] = s[k]
    BY <2>1, AppendProperties, LenProperties
  <2>6. ASSUME NEW k \in 2..Len(t)
        PROVE  t[k].kind = "Deployment"
    <3>1. k \in 2..Len(s) \/ k = Len(s) + 1
      BY <2>5
    <3>2. \A l \in 2..Len(s) : l \in 1..Len(s)
      BY <2>5
    <3> QED
      BY <2>1, <2>2, <2>5, <3>1, <3>2
  <2>7. Len(t) >= 2
    BY <2>2, <2>5
  <2> QED
    BY <1>1, <1>4, <1>6, <2>4, <2>5, <2>6, <2>7 DEF Made, t
<1>7. ASSUME next.panic
      PROVE  Made(next, ms, n, sub)
  BY <1>4, <1>7 DEF Made
<1> QED
  BY <1>5, <1>6, <1>7 DEF next

LEMMA LoopMade ==
  ASSUME NEW ms \in Seq(Manifest), NEW sub \in ScaleTypes
  PROVE  Loop(ms, sub) \in Acc /\ Made(Loop(ms, sub), ms, Len(ms), sub)
<1> DEFINE N == Len(ms)
           made == Updating(ms, sub)
           S == {n \in 0..N : Made(made[n], ms, n, sub)}
<1>1. N \in Nat /\ N \in 0..N
  BY LenProperties
<1>2. /\ made \in [0..N -> Acc] /\ made[0] = Start
      /\ \A n \in 1..N : made[n] = Iteration(made[n - 1], ms[n], sub)
  BY UpdatingLoop
<1> HIDE DEF made
<1>3. 0 \in S
  BY <1>1, <1>2, MadeStart
<1>4. ASSUME NEW n \in 1..N, n - 1 \in S
      PROVE  n \in S
  <2>1. n \in 0..N /\ n - 1 \in 0..N
    BY <1>1
  <2>2. made[n - 1] \in Acc /\ Made(made[n - 1], ms, n - 1, sub)
    BY <1>2, <1>4, <2>1
  <2>3. Made(made[n], ms, n, sub)
    BY <1>2, <2>2, MadeStep
  <2> QED
    BY <2>1, <2>3
<1> HIDE DEF S
<1>5. \A n \in 0..N : n \in S
  BY <1>1, <1>3, <1>4, UpTo
<1>6. Made(made[N], ms, N, sub) /\ made[N] \in Acc
  BY <1>1, <1>2, <1>5 DEF S
<1> QED
  BY <1>6 DEF Loop, made

\* The loop refuses what RemediationPanics says, and otherwise makes what
\* RemediateManifests says.
LEMMA LoopIs ==
  ASSUME NEW ms \in Seq(Manifest), NEW sub \in ScaleTypes
  PROVE  LET end == Loop(ms, sub)
         IN  /\ end.updated \in Seq(Manifest)
             /\ RemediationPanics(ToSet(ms), sub)
                  <=> end.panic \/ Len(end.updated) < 2
             /\ ~end.panic =>
                  ToSet(end.updated) = RemediateManifests(ToSet(ms), sub)
             /\ ~end.panic /\ Len(end.updated) >= 2 =>
                  end.updated[2].kind = "Deployment"
<1> DEFINE end == Loop(ms, sub)
           N == Len(ms)
<1>1. N \in Nat /\ DOMAIN ms = 1..N
  BY LenProperties
<1>2. end \in Acc /\ Made(end, ms, N, sub)
  BY LoopMade
<1> HIDE DEF end, N
<1>3. end.updated \in Seq(Manifest) /\ Len(end.updated) \in Nat
  BY <1>2, LenProperties DEF Acc
<1>4. /\ Deployments(ToSet(ms)) # {}
           <=> \E k \in 1..N : ms[k].kind = "Deployment"
      /\ \A m : m \in Deployments(ToSet(ms))
               <=> \E k \in 1..N : m = ms[k] /\ ms[k].kind = "Deployment"
  BY <1>1 DEF Deployments, ToSet
<1>5. (\E k \in 1..N : Faulty(ms[k], sub))
        <=> \/ sub \in Replicas /\ \E m \in Deployments(ToSet(ms)) : m.replicas = Nil
            \/ sub = "scale-out" /\ \E m \in Deployments(ToSet(ms)) : m.req = Nil
  BY <1>4 DEF Faulty
<1>6. RemediationPanics(ToSet(ms), sub)
        <=> end.panic \/ Len(end.updated) < 2
  <2>1. end.panic <=> \E k \in 1..N : Faulty(ms[k], sub)
    BY <1>2 DEF Made
  <2>2. ~end.panic => (Len(end.updated) >= 2 <=> Deployments(ToSet(ms)) # {})
    BY <1>2, <1>4 DEF Made
  <2>3. Len(end.updated) < 2 <=> ~(Len(end.updated) >= 2)
    BY <1>3
  <2> QED
    BY <1>5, <2>1, <2>2, <2>3 DEF RemediationPanics
<1>7. ASSUME ~end.panic
      PROVE  ToSet(end.updated) = RemediateManifests(ToSet(ms), sub)
  <2>1. ToSet(end.updated) = {NamespaceManifest} \cup Remediated(ms, N, sub)
    BY <1>2, <1>7 DEF Made
  <2>2. Remediated(ms, N, sub) = {Remediate(m, sub) : m \in Deployments(ToSet(ms))}
    BY <1>4 DEF Remediated
  <2> QED
    BY <2>1, <2>2 DEF RemediateManifests
<1>8. ASSUME ~end.panic, Len(end.updated) >= 2
      PROVE  end.updated[2].kind = "Deployment"
  <2>1. 2 \in 2..Len(end.updated)
    BY <1>3, <1>8
  <2> QED
    BY <1>2, <1>8, <2>1 DEF Made
<1> QED
  BY <1>3, <1>6, <1>7, <1>8 DEF end

(***************************************************************************)
(* Types.                                                                  *)
(***************************************************************************)
LEMMA StartsType ==
  /\ <<>> \in Seq(Manifest) /\ ToSet(<<>>) = {}
  /\ <<NamespaceManifest>> \in Seq(Manifest)
  /\ ToSet(<<NamespaceManifest>>) = {NamespaceManifest}
<1>1. NamespaceManifest \in Manifest
  BY DEF NamespaceManifest, Manifest, Kinds
<1> HIDE DEF NamespaceManifest
<1> QED
  BY <1>1 DEF ToSet

LEMMA TypeStep == TypeOK /\ [Next]_vars => TypeOK'
<1> SUFFICES ASSUME TypeOK, [Next]_vars  PROVE TypeOK'
  OBVIOUS
<1>1. ASSUME NEW ms \in JobManifests,
             GenerateManifestWork(ms) \/ ReplaceDeployment(ms)
      PROVE  TypeOK'
  <2>1. ms \in Seq(Manifest)
    BY SlicesAssumption
  <2>2. /\ Decoded(<<>>, ms) \in Seq(Manifest)
        /\ Decoded(<<NamespaceManifest>>, ms) \in Seq(Manifest)
    BY <2>1, StartsType, DecodedIs
  <2>3. /\ workload' \in Seq(Manifest) /\ origin' = ms /\ net' = 0
        /\ steps' = steps + 1
    BY <1>1, <2>2 DEF GenerateManifestWork, ReplaceDeployment, Write
  <2> QED
    BY <2>1, <2>3 DEF TypeOK
<1>2. ASSUME NEW sub \in ScaleTypes, UpdateDeploymentAttributes(sub)
      PROVE  TypeOK'
  <2>1. Loop(workload, sub).updated \in Seq(Manifest)
    BY LoopIs DEF TypeOK
  <2>2. /\ workload' = Loop(workload, sub).updated /\ UNCHANGED origin
        /\ steps' = steps + 1 /\ net' \in {net, net + 1, net - 1}
    BY <1>2 DEF UpdateDeploymentAttributes, Write
  <2> QED
    BY <2>1, <2>2 DEF TypeOK
<1>3. CASE UNCHANGED vars
  BY <1>3 DEF TypeOK, vars
<1> QED
  BY <1>1, <1>2, <1>3 DEF Next

\* Whatever the writes, the workload is a slice of manifests, which the loops need.
THEOREM WorkloadTypeCorrect == Spec => []TypeOK
<1>1. Init => TypeOK
  BY StartsType DEF Init, TypeOK
<1> QED
  BY <1>1, TypeStep, PTL DEF Spec

(***************************************************************************)
(* What the loops promise.                                                 *)
(***************************************************************************)
\* A remediation refuses exactly the payloads that panic in Payload, for slices of
\* any length and whatever the place of a manifest in them.
THEOREM RefusalsAgree == Spec => []RefusesAsPayload
<1>1. TypeOK => RefusesAsPayload
  BY LoopIs DEF TypeOK, RefusesAsPayload
<1> QED
  BY <1>1, WorkloadTypeCorrect, PTL

\* The manifest a remediation logs is a Deployment.
THEOREM LogsDeployments == Spec => LoggedIsDeployment
<1>1. ASSUME TypeOK, NEW sub \in ScaleTypes, UpdateDeploymentAttributes(sub)
      PROVE  workload'[2].kind = "Deployment"
  BY <1>1, LoopIs DEF TypeOK, UpdateDeploymentAttributes
<1>2. TypeOK =>
        [(\E sub \in ScaleTypes : UpdateDeploymentAttributes(sub)) =>
           workload'[2].kind = "Deployment"]_vars
  BY <1>1
<1> QED
  BY <1>2, WorkloadTypeCorrect, PTL DEF LoggedIsDeployment

(***************************************************************************)
(* The refinement.                                                         *)
(***************************************************************************)
\* Payload speaks of the same operations on sets of manifests.
LEMMA SameOperations ==
  ASSUME NEW ms, NEW sub
  PROVE  /\ AsSets!ExitsProcess(ms) <=> ExitsProcess(ms)
         /\ AsSets!GenerateManifests(ms) = GenerateManifests(ms)
         /\ AsSets!ReplaceManifests(ms) = ReplaceManifests(ms)
         /\ AsSets!RemediationPanics(ms, sub) <=> RemediationPanics(ms, sub)
         /\ AsSets!RemediateManifests(ms, sub) = RemediateManifests(ms, sub)
         /\ AsSets!ScaleTypes = ScaleTypes
<1>1. /\ AsSets!Deployments(ms) = Deployments(ms)
      /\ AsSets!Decodable(ms) = Decodable(ms)
      /\ AsSets!NamespaceManifest = NamespaceManifest
      /\ AsSets!Replicas = Replicas
      /\ AsSets!ScaleTypes = ScaleTypes
  BY DEF AsSets!Deployments, Deployments, AsSets!Decodable, Decodable,
         AsSets!NamespaceManifest, NamespaceManifest, AsSets!Replicas, Replicas,
         AsSets!ScaleTypes, ScaleTypes, AsSets!Quantities, Quantities
<1>2. \A n : AsSets!Int32(n) = Int32(n)
  BY DEF AsSets!Int32, Int32
<1>3. \A n : AsSets!HorizontalPodAutoscaling(sub, n) = HorizontalPodAutoscaling(sub, n)
  BY <1>2 DEF AsSets!HorizontalPodAutoscaling, HorizontalPodAutoscaling
<1>4. \A q, d : AsSets!AdjustResource(q, d) = AdjustResource(q, d)
  BY DEF AsSets!AdjustResource, AdjustResource
<1>5. \A r : AsSets!VerticalPodAutoscaling(sub, r) = VerticalPodAutoscaling(sub, r)
  BY <1>4 DEF AsSets!VerticalPodAutoscaling, VerticalPodAutoscaling,
              AsSets!CpuAdjustment, CpuAdjustment,
              AsSets!MemAdjustment, MemAdjustment
<1>6. \A m : AsSets!Remediate(m, sub) = Remediate(m, sub)
  BY <1>1, <1>3, <1>5 DEF AsSets!Remediate, Remediate
<1>7. AsSets!RemediateManifests(ms, sub) = RemediateManifests(ms, sub)
  BY <1>1, <1>6 DEF AsSets!RemediateManifests, RemediateManifests
<1>8. AsSets!ExitsProcess(ms) <=> ExitsProcess(ms)
  BY DEF AsSets!ExitsProcess, ExitsProcess
<1>9. /\ AsSets!GenerateManifests(ms) = GenerateManifests(ms)
      /\ AsSets!ReplaceManifests(ms) = ReplaceManifests(ms)
  BY <1>1 DEF AsSets!GenerateManifests, GenerateManifests,
              AsSets!ReplaceManifests, ReplaceManifests
<1>10. AsSets!RemediationPanics(ms, sub) <=> RemediationPanics(ms, sub)
  BY <1>1 DEF AsSets!RemediationPanics, RemediationPanics
<1> QED
  BY <1>1, <1>7, <1>8, <1>9, <1>10

\* What the two slices the loop starts from hold when it ends.
LEMMA DecodedFromStarts ==
  ASSUME NEW ms \in Seq(Manifest)
  PROVE  /\ ToSet(Decoded(<<>>, ms)) = Decodable(ToSet(ms))
         /\ ToSet(Decoded(<<NamespaceManifest>>, ms))
              = {NamespaceManifest} \cup Decodable(ToSet(ms))
<1> DEFINE none == <<>>
           namespace == <<NamespaceManifest>>
<1>1. /\ none \in Seq(Manifest) /\ ToSet(none) = {}
      /\ namespace \in Seq(Manifest) /\ ToSet(namespace) = {NamespaceManifest}
  BY StartsType
<1>2. /\ ToSet(Decoded(none, ms)) = Decodable(ToSet(ms))
      /\ ToSet(Decoded(namespace, ms)) = {NamespaceManifest} \cup Decodable(ToSet(ms))
  <2> HIDE DEF none, namespace
  <2>1. ToSet(Decoded(none, ms)) = ToSet(none) \cup Decodable(ToSet(ms))
    BY <1>1, DecodedIs
  <2>2. ToSet(Decoded(namespace, ms)) = ToSet(namespace) \cup Decodable(ToSet(ms))
    BY <1>1, DecodedIs
  <2> QED
    BY <1>1, <2>1, <2>2
<1> QED
  BY <1>2, Zenon

\* The process ends for a slice when it does for its set.
LEMMA AccessibleIs ==
  ASSUME NEW ms \in Seq(Manifest)
  PROVE  Accessible(ms) <=> ~ExitsProcess(ToSet(ms))
<1>1. ToSet(Decoded(<<>>, ms)) = Decodable(ToSet(ms))
  BY DecodedFromStarts
<1> QED
  BY <1>1 DEF Accessible, ExitsProcess, Decodable

LEMMA WriteRefines ==
  ASSUME TypeOK, NEW ms \in JobManifests,
         GenerateManifestWork(ms) \/ ReplaceDeployment(ms)
  PROVE  AsSets!Next
<1> DEFINE set == ToSet(ms)
<1>1. ms \in Seq(Manifest) /\ set \in {ToSet(s) : s \in JobManifests}
  BY SlicesAssumption
<1>2. /\ ToSet(Decoded(<<>>, ms)) = ReplaceManifests(set)
      /\ ToSet(Decoded(<<NamespaceManifest>>, ms)) = GenerateManifests(set)
  BY <1>1, DecodedFromStarts DEF ReplaceManifests, GenerateManifests
<1>3. ~AsSets!ExitsProcess(set) /\ ToSet(origin') = set /\ AsSets!Write
  BY <1>1, AccessibleIs, SameOperations
     DEF GenerateManifestWork, ReplaceDeployment, Write, AsSets!Write
<1>4. CASE GenerateManifestWork(ms)
  <2>1. AsSets!Create(set)
    BY <1>2, <1>3, <1>4, SameOperations DEF GenerateManifestWork, AsSets!Create
  <2> QED
    BY <1>1, <2>1 DEF AsSets!Next
<1>5. CASE ReplaceDeployment(ms)
  <2>1. AsSets!Replace(set)
    BY <1>2, <1>3, <1>5, SameOperations DEF ReplaceDeployment, AsSets!Replace
  <2> QED
    BY <1>1, <2>1 DEF AsSets!Next
<1> QED
  BY <1>4, <1>5

LEMMA UpdateRefines ==
  ASSUME TypeOK, NEW sub \in ScaleTypes, UpdateDeploymentAttributes(sub)
  PROVE  AsSets!Next
<1>1. /\ ~AsSets!RemediationPanics(ToSet(workload), sub)
      /\ ToSet(workload') = AsSets!RemediateManifests(ToSet(workload), sub)
  <2>1. /\ workload \in Seq(Manifest) /\ ~Loop(workload, sub).panic
        /\ Len(Loop(workload, sub).updated) >= 2
        /\ workload' = Loop(workload, sub).updated
    BY DEF TypeOK, UpdateDeploymentAttributes
  <2>2. Len(Loop(workload, sub).updated) \in Nat
    BY <2>1, LoopIs, LenProperties
  <2> QED
    BY <2>1, <2>2, LoopIs, SameOperations
<1>2. net' = net + AsSets!Change(sub)
  BY DEF UpdateDeploymentAttributes, AsSets!Change, TypeOK
<1>3. AsSets!Scale(sub)
  BY <1>1, <1>2 DEF UpdateDeploymentAttributes, Write, AsSets!Scale, AsSets!Write
<1> QED
  BY <1>3, SameOperations DEF AsSets!Next

\* For slices of any length, in any order and with repetitions, the loops implement
\* Payload: the order of the slice and the place where a loop stops do not matter.
THEOREM PayloadImplemented == Spec => ImplementsPayload
<1>1. Init => AsSets!Init
  BY StartsType DEF Init, AsSets!Init
<1>2. TypeOK /\ [Next]_vars => [AsSets!Next]_(AsSets!vars)
  <2> SUFFICES ASSUME TypeOK, [Next]_vars
               PROVE  AsSets!Next \/ UNCHANGED AsSets!vars
    OBVIOUS
  <2>1. CASE UNCHANGED vars
    BY <2>1 DEF vars, AsSets!vars
  <2> QED
    BY <2>1, WriteRefines, UpdateRefines DEF Next
<1> QED
  BY <1>1, <1>2, WorkloadTypeCorrect, PTL
     DEF Spec, ImplementsPayload, AsSets!Spec
=============================================================================
