-------------------------- MODULE ManifestOpsProofs -------------------------
(***************************************************************************)
(* Facts about the operators of ManifestOps, for the proofs about the      *)
(* modules built from them.                                                *)
(***************************************************************************)
EXTENDS ManifestOps, SequenceTheorems, TLAPS

\* A number is its quotient times the divisor plus its remainder.
LEMMA Division ==
  ASSUME NEW a \in Int, NEW d \in Nat \ {0}
  PROVE  a = (d * (a \div d)) + (a % d)
BY SMT

\* There is one remainder only.
LEMMA RemainderUnique ==
  ASSUME NEW d \in Nat \ {0}, NEW p \in Int, NEW q \in Int,
         NEW r \in 0..(d - 1), NEW s \in 0..(d - 1),
         (d * p) + r = (d * q) + s
  PROVE  r = s
<1>1. d * (p - q) = s - r
  BY SMT
<1>2. CASE p = q
  BY <1>2, SMT
<1>3. CASE p - q >= 1
  <2>1. d * (p - q) >= d
    BY <1>3, SMT
  <2> QED
    BY <1>1, <2>1, SMT
<1>4. CASE p - q <= -1
  <2>1. d * (p - q) <= -d
    BY <1>4, SMT
  <2> QED
    BY <1>1, <2>1, SMT
<1> QED
  BY <1>2, <1>3, <1>4, SMT

\* Adding multiples of the divisor leaves the remainder.
LEMMA RemainderShift ==
  ASSUME NEW d \in Nat \ {0}, NEW a \in Int, NEW k \in Int
  PROVE  (a + (d * k)) % d = a % d
<1> DEFINE b == a + (d * k)
<1>1. /\ b \in Int /\ a \div d \in Int /\ b \div d \in Int
      /\ a % d \in 0..(d - 1) /\ b % d \in 0..(d - 1)
  BY SMT
<1>2. a = (d * (a \div d)) + (a % d)
  BY Division
<1>3. b = (d * (b \div d)) + (b % d)
  BY <1>1, Division
<1>4. b = (d * ((a \div d) + k)) + (a % d)
  BY <1>1, <1>2, SMT
<1>5. (a \div d) + k \in Int
  BY <1>1
<1> HIDE DEF b
<1>6. b % d = a % d
  BY <1>1, <1>3, <1>4, <1>5, RemainderUnique
<1> QED
  BY <1>6 DEF b

\* Conversion to int32 gives an integer of the width of an int32.
LEMMA Int32Range ==
  ASSUME NEW n \in Int
  PROVE  Int32(n) \in -Int32Half .. (Int32Half - 1)
BY Int32HalfAssumption DEF Int32

\* int32 arithmetic forgets whole turns: converting an operand first makes no
\* difference to the conversion of a sum.
LEMMA Int32Sum ==
  ASSUME NEW n \in Int, NEW d \in Int
  PROVE  Int32(Int32(n) + d) = Int32(n + d)
<1> DEFINE M == 2 * Int32Half
           a == n + Int32Half
<1>1. M \in Nat \ {0} /\ a \in Int /\ Int32Half \in Nat
  BY Int32HalfAssumption
<1>2. a \div M \in Int /\ a % M \in Int
  BY <1>1
<1>3. a = (M * (a \div M)) + (a % M)
  BY <1>1, Division
<1>4. Int32(n) = (a % M) - Int32Half
  BY DEF Int32
<1> HIDE DEF M, a
<1>5. (a % M) + d = (a + d) + (M * (-(a \div M)))
  BY <1>1, <1>2, <1>3
<1>6. ((a % M) + d) % M = (a + d) % M
  <2>1. a + d \in Int /\ -(a \div M) \in Int
    BY <1>1, <1>2
  <2>2. ((a + d) + (M * (-(a \div M)))) % M = (a + d) % M
    BY <1>1, <2>1, RemainderShift
  <2> QED
    BY <1>5, <2>2
<1>7. Int32(n) + d + Int32Half = (a % M) + d
  BY <1>1, <1>2, <1>4
<1>8. n + d + Int32Half = a + d
  BY <1>1 DEF a
<1> QED
  BY <1>6, <1>7, <1>8 DEF Int32, M

LEMMA AdjustResourceType ==
  ASSUME NEW q \in Int, NEW d \in Int
  PROVE  AdjustResource(q, d) \in Int
BY DEF AdjustResource

\* The generated payload consists of manifests, and holds the Namespace.
LEMMA GenerateManifestsType ==
  ASSUME NEW ms \in SUBSET Manifest
  PROVE  GenerateManifests(ms) \in SUBSET Manifest
BY DEF GenerateManifests, NamespaceManifest, Decodable, Manifest, Kinds

LEMMA ReplaceManifestsType ==
  ASSUME NEW ms \in SUBSET Manifest
  PROVE  ReplaceManifests(ms) \in SUBSET Manifest
BY DEF ReplaceManifests, Decodable

\* A Deployment that does not make the remediation panic is turned into a
\* Deployment of the same identity.
LEMMA RemediateType ==
  ASSUME NEW m \in Manifest, NEW sub \in ScaleTypes,
         sub \in Replicas => m.replicas # Nil
  PROVE  /\ Remediate(m, sub) \in Manifest
         /\ Remediate(m, sub).id = m.id
         /\ Remediate(m, sub).kind = m.kind
<1>1. CASE sub \in Replicas
  <2>1. HorizontalPodAutoscaling(sub, m.replicas) \in Int
    BY <1>1, Int32Range, Int32HalfAssumption
       DEF HorizontalPodAutoscaling, Manifest
  <2> QED
    BY <1>1, <2>1 DEF Remediate, Manifest
<1>2. CASE sub \notin Replicas
  <2>1. VerticalPodAutoscaling(sub, m.req) \in Requests \cup {Nil}
    <3>1. CASE m.req = Nil
      BY <3>1 DEF VerticalPodAutoscaling
    <3>2. CASE m.req # Nil
      <4>1. m.req.cpu \in Int /\ m.req.mem \in Int
        BY <3>2 DEF Manifest, Requests
      <4>2. \A d \in Int : /\ AdjustResource(m.req.cpu, d) \in Int
                          /\ AdjustResource(m.req.mem, d) \in Int
        BY <4>1, AdjustResourceType
      <4> QED
        BY <3>2, <4>2
           DEF VerticalPodAutoscaling, Requests, CpuAdjustment, MemAdjustment
    <3> QED
      BY <3>1, <3>2
  <2> QED
    BY <1>2, <2>1 DEF Remediate, Manifest
<1> QED
  BY <1>1, <1>2

LEMMA RemediateManifestsType ==
  ASSUME NEW ms \in SUBSET Manifest, NEW sub \in ScaleTypes,
         ~RemediationPanics(ms, sub)
  PROVE  RemediateManifests(ms, sub) \in SUBSET Manifest
<1>1. NamespaceManifest \in Manifest
  BY DEF NamespaceManifest, Manifest, Kinds
<1>2. \A m \in Deployments(ms) : m \in Manifest
                              /\ (sub \in Replicas => m.replicas # Nil)
  BY DEF Deployments, RemediationPanics
<1> QED
  BY <1>1, <1>2, RemediateType DEF RemediateManifests

\* A status with conditions is mapped to one of the four states.
LEMMA StateMapperType ==
  ASSUME NEW conds
  PROVE  StateMapper(conds) \in States
BY DEF StateMapper, States
=============================================================================
