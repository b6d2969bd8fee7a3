---------------------------- MODULE PayloadProofs ---------------------------
(***************************************************************************)
(* The properties of Payload, for any manifests, any width of an int32 and *)
(* any number of writes.                                                   *)
(***************************************************************************)
EXTENDS Payload, ManifestOpsProofs

(***************************************************************************)
(* Types, and what a payload can hold.                                     *)
(***************************************************************************)
LEMMA TypeInit == Init => TypeOK /\ ReadsBack
BY MaxStepsAssumption DEF Init, TypeOK, ReadsBack

LEMMA TypeStep == TypeOK /\ ReadsBack /\ [Next]_vars => (TypeOK /\ ReadsBack)'
<1> SUFFICES ASSUME TypeOK, ReadsBack, [Next]_vars
             PROVE  TypeOK' /\ ReadsBack'
  OBVIOUS
<1> USE MaxStepsAssumption
<1>1. ASSUME NEW ms \in JobManifests, Create(ms)
      PROVE  TypeOK' /\ ReadsBack'
  <2>1. ms \in SUBSET Manifest
    BY <1>1, JobManifestsAssumption
  <2>2. payload' \in SUBSET Manifest
    BY <1>1, <2>1, GenerateManifestsType DEF Create
  <2> QED
    BY <1>1, <2>1, <2>2
       DEF Create, Write, TypeOK, ReadsBack, GenerateManifests, Decodable,
           NamespaceManifest, ExitsProcess
<1>2. ASSUME NEW ms \in JobManifests, Replace(ms)
      PROVE  TypeOK' /\ ReadsBack'
  <2>1. ms \in SUBSET Manifest
    BY <1>2, JobManifestsAssumption
  <2>2. payload' \in SUBSET Manifest
    BY <1>2, <2>1, ReplaceManifestsType DEF Replace
  <2> QED
    BY <1>2, <2>1, <2>2
       DEF Replace, Write, TypeOK, ReadsBack, ReplaceManifests, Decodable,
           ExitsProcess
<1>3. ASSUME NEW sub \in ScaleTypes, Scale(sub)
      PROVE  TypeOK' /\ ReadsBack'
  <2>1. payload \in SUBSET Manifest /\ ~RemediationPanics(payload, sub)
    BY <1>3 DEF TypeOK, Scale
  <2>2. payload' \in SUBSET Manifest
    BY <1>3, <2>1, RemediateManifestsType DEF Scale
  <2>3. \A m \in payload' : m.kind \in {"Namespace", "Deployment"}
    <3>1. \A m \in Deployments(payload) :
            /\ m \in Manifest
            /\ m.kind = "Deployment"
            /\ sub \in Replicas => m.replicas # Nil
      BY <2>1 DEF Deployments, RemediationPanics
    <3>2. \A m \in Deployments(payload) : Remediate(m, sub).kind = "Deployment"
      BY <3>1, RemediateType
    <3> QED
      BY <1>3, <3>2 DEF Scale, RemediateManifests, NamespaceManifest
  <2>4. net' \in Int
    BY <1>3 DEF Scale, Change, TypeOK
  <2> QED
    BY <1>3, <2>2, <2>3, <2>4 DEF Scale, Write, TypeOK, ReadsBack
<1>4. CASE UNCHANGED vars
  BY <1>4 DEF vars, TypeOK, ReadsBack
<1> QED
  BY <1>1, <1>2, <1>3, <1>4 DEF Next

\* Whatever the writes, the payload consists of manifests that a remediation can
\* read back: generation and replacement leave out the rest.
THEOREM PayloadReadsBack == Spec => [](TypeOK /\ ReadsBack)
<1>1. Init => TypeOK /\ ReadsBack
  BY TypeInit
<1>2. TypeOK /\ ReadsBack /\ [Next]_vars => (TypeOK /\ ReadsBack)'
  BY TypeStep
<1> QED
  BY <1>1, <1>2, PTL DEF Spec

\* Every variable keeps its type.
THEOREM PayloadTypeCorrect == Spec => []TypeOK
BY PayloadReadsBack, PTL

(***************************************************************************)
(* Scalings add up.                                                        *)
(***************************************************************************)
\* The conversion of a converted number is no further change.
LEMMA Int32Idempotent ==
  ASSUME NEW n \in Int
  PROVE  Int32(Int32(n)) = Int32(n)
<1>1. Int32(n) \in Int
  BY Int32Range, Int32HalfAssumption
<1>2. Int32(Int32(n) + 0) = Int32(n + 0)
  BY Int32Sum
<1> QED
  BY <1>1, <1>2

LEMMA ReplicasStep ==
  TypeOK /\ ReplicasCountScalings /\ [Next]_vars => ReplicasCountScalings'
<1> SUFFICES ASSUME TypeOK, ReplicasCountScalings, [Next]_vars
             PROVE  ReplicasCountScalings'
  OBVIOUS
<1>1. ASSUME NEW ms \in JobManifests, Create(ms) \/ Replace(ms)
      PROVE  ReplicasCountScalings'
  <2>1. \A m \in Deployments(payload') : m \in Deployments(origin')
    BY <1>1 DEF Create, Replace, GenerateManifests, ReplaceManifests,
                Decodable, Deployments, NamespaceManifest
  <2>2. net' = 0 /\ origin' \in SUBSET Manifest
    BY <1>1, JobManifestsAssumption DEF Create, Replace
  <2>3. \A m \in Deployments(origin') :
          m.replicas # Nil => m.replicas + net' = m.replicas
    BY <2>2 DEF Deployments, Manifest
  <2> QED
    BY <2>1, <2>3 DEF ReplicasCountScalings
<1>2. ASSUME NEW sub \in ScaleTypes, Scale(sub)
      PROVE  ReplicasCountScalings'
  <2> SUFFICES ASSUME NEW d \in Deployments(payload')
               PROVE  \E o \in Deployments(origin') :
                        /\ o.id = d.id
                        /\ o.replicas # Nil =>
                             /\ d.replicas # Nil
                             /\ Int32(d.replicas) = Int32(o.replicas + net')
    BY DEF ReplicasCountScalings
  <2>1. PICK m \in Deployments(payload) : d = Remediate(m, sub)
    BY <1>2 DEF Scale, RemediateManifests, Deployments, NamespaceManifest
  <2>2. m \in Manifest /\ (sub \in Replicas => m.replicas # Nil)
    BY <1>2, <2>1 DEF Scale, RemediationPanics, Deployments, TypeOK
  <2>3. PICK o \in Deployments(origin) :
          /\ o.id = m.id
          /\ o.replicas # Nil =>
               m.replicas # Nil /\ Int32(m.replicas) = Int32(o.replicas + net)
    BY <2>1 DEF ReplicasCountScalings
  <2>4. d.id = m.id
    BY <2>1, <2>2, RemediateType
  <2>5. ASSUME o.replicas # Nil
        PROVE  d.replicas # Nil /\ Int32(d.replicas) = Int32(o.replicas + net')
    <3>1. o.replicas \in Int /\ m.replicas \in Int /\ net \in Int
      BY <2>2, <2>3, <2>5 DEF TypeOK, Deployments, Manifest
    <3>2. CASE sub \in Replicas
      <4> DEFINE c == IF sub = "scale-up" THEN 1 ELSE -1
      <4>1. c \in Int /\ net' = net + c
        BY <1>2, <3>2 DEF Scale, Change, Replicas
      <4>2. d.replicas = Int32(m.replicas + c)
        BY <2>1, <2>2, <3>1, <3>2
           DEF Remediate, HorizontalPodAutoscaling, Manifest
      <4> HIDE DEF c
      <4>3. Int32(d.replicas) = Int32(m.replicas + c)
        BY <3>1, <4>1, <4>2, Int32Idempotent
      <4>4. Int32(m.replicas + c) = Int32(Int32(o.replicas + net) + c)
        BY <2>3, <2>5, <3>1, <4>1, Int32Sum
      <4>5. Int32(Int32(o.replicas + net) + c) = Int32((o.replicas + net) + c)
        <5>1. o.replicas + net \in Int
          BY <3>1
        <5> QED
          BY <4>1, <5>1, Int32Sum
      <4>6. (o.replicas + net) + c = o.replicas + net'
        BY <3>1, <4>1
      <4>7. d.replicas \in Int
        BY <3>1, <4>1, <4>2, Int32Range, Int32HalfAssumption
      <4> QED
        BY <4>3, <4>4, <4>5, <4>6, <4>7, NilAssumption
    <3>3. CASE sub \notin Replicas
      <4>1. d.replicas = m.replicas
        BY <2>1, <2>2, <3>3 DEF Remediate, Manifest
      <4>2. net' = net
        BY <1>2, <3>1, <3>3 DEF Scale, Change, Replicas
      <4> QED
        BY <2>3, <2>5, <4>1, <4>2
    <3> QED
      BY <3>2, <3>3
  <2>6. o \in Deployments(origin')
    BY <1>2 DEF Scale
  <2> QED
    BY <2>3, <2>4, <2>5, <2>6
<1>3. CASE UNCHANGED vars
  BY <1>3 DEF vars, ReplicasCountScalings
<1> QED
  BY <1>1, <1>2, <1>3 DEF Next

\* For any mix of scalings, replacements and numbers of replicas, a Deployment
\* has the replicas it came with plus the net number of scale-ups, in int32.
THEOREM ScalingsAddUp == Spec => []ReplicasCountScalings
<1>1. Init => ReplicasCountScalings
  BY DEF Init, ReplicasCountScalings, Deployments
<1>2. TypeOK /\ ReplicasCountScalings /\ [Next]_vars => ReplicasCountScalings'
  BY ReplicasStep
<1> QED
  BY <1>1, <1>2, PayloadReadsBack, PTL DEF Spec

(***************************************************************************)
(* Requests stay on their grid.                                            *)
(***************************************************************************)
\* Adjusting a quantity that is not negative by whole adjustments.
LEMMA AdjustKeepsRemainder ==
  ASSUME NEW q \in Nat, NEW a \in Nat \ {0}, NEW sign \in {1, -1}
  PROVE  /\ AdjustResource(q, sign * a) \in Nat
         /\ AdjustResource(q, sign * a) % a = q % a
<1>1. q \in Int /\ sign \in Int /\ sign * a = a * sign /\ sign * a \in Int
  OBVIOUS
<1>2. (q + (a * sign)) % a = q % a
  BY <1>1, RemainderShift
<1> QED
  BY <1>1, <1>2 DEF AdjustResource

LEMMA RequestsStep ==
  TypeOK /\ RequestsKeepRemainder /\ [Next]_vars => RequestsKeepRemainder'
<1> SUFFICES ASSUME TypeOK, RequestsKeepRemainder, [Next]_vars
             PROVE  RequestsKeepRemainder'
  OBVIOUS
<1>1. ASSUME NEW ms \in JobManifests, Create(ms) \/ Replace(ms)
      PROVE  RequestsKeepRemainder'
  <2>1. \A m \in Deployments(payload') : m \in Deployments(origin')
    BY <1>1 DEF Create, Replace, GenerateManifests, ReplaceManifests,
                Decodable, Deployments, NamespaceManifest
  <2>2. \A m \in Deployments(origin') :
          m.req # Nil => m.req.cpu >= 0 /\ m.req.mem >= 0
    BY <1>1, JobManifestsAssumption DEF Create, Replace, Deployments
  <2> QED
    BY <2>1, <2>2 DEF RequestsKeepRemainder
<1>2. ASSUME NEW sub \in ScaleTypes, Scale(sub)
      PROVE  RequestsKeepRemainder'
  <2> SUFFICES ASSUME NEW d \in Deployments(payload')
               PROVE  \E o \in Deployments(origin') :
                        /\ o.id = d.id
                        /\ d.req = Nil <=> o.req = Nil
                        /\ d.req # Nil =>
                             /\ d.req.cpu >= 0 /\ d.req.mem >= 0
                             /\ d.req.cpu % CpuAdjustment
                                  = o.req.cpu % CpuAdjustment
                             /\ d.req.mem % MemAdjustment
                                  = o.req.mem % MemAdjustment
    BY DEF RequestsKeepRemainder
  <2>1. PICK m \in Deployments(payload) : d = Remediate(m, sub)
    BY <1>2 DEF Scale, RemediateManifests, Deployments, NamespaceManifest
  <2>2. m \in Manifest /\ (sub \in Replicas => m.replicas # Nil)
    BY <1>2, <2>1 DEF Scale, RemediationPanics, Deployments, TypeOK
  <2>3. PICK o \in Deployments(origin) :
          /\ o.id = m.id
          /\ m.req = Nil <=> o.req = Nil
          /\ m.req # Nil =>
               /\ m.req.cpu >= 0 /\ m.req.mem >= 0
               /\ m.req.cpu % CpuAdjustment = o.req.cpu % CpuAdjustment
               /\ m.req.mem % MemAdjustment = o.req.mem % MemAdjustment
    BY <2>1 DEF RequestsKeepRemainder
  <2>4. d.id = m.id
    BY <2>1, <2>2, RemediateType
  <2>5. CASE sub \in Replicas
    <3>1. d.req = m.req
      BY <2>1, <2>2, <2>5 DEF Remediate, Manifest
    <3> QED
      BY <1>2, <2>3, <2>4, <3>1 DEF Scale
  <2>6. CASE sub \notin Replicas
    <3>1. d.req = VerticalPodAutoscaling(sub, m.req)
      BY <2>1, <2>2, <2>6 DEF Remediate, Manifest
    <3>2. CASE m.req = Nil
      BY <1>2, <2>3, <2>4, <3>1, <3>2 DEF Scale, VerticalPodAutoscaling
    <3>3. CASE m.req # Nil
      <4> DEFINE sign == IF sub = "scale-out" THEN 1 ELSE -1
      <4>1. m.req.cpu \in Nat /\ m.req.mem \in Nat
        BY <2>2, <2>3, <3>3 DEF Manifest, Requests
      <4>2. d.req = [cpu |-> AdjustResource(m.req.cpu, sign * CpuAdjustment),
                     mem |-> AdjustResource(m.req.mem, sign * MemAdjustment)]
        BY <3>1, <3>3 DEF VerticalPodAutoscaling
      <4>3. sign \in {1, -1}
        OBVIOUS
      <4>4. CpuAdjustment \in Nat \ {0} /\ MemAdjustment \in Nat \ {0}
        BY DEF CpuAdjustment, MemAdjustment
      <4> HIDE DEF sign
      <4>5. \A q \in Nat, a \in Nat \ {0} :
              /\ AdjustResource(q, sign * a) \in Nat
              /\ AdjustResource(q, sign * a) % a = q % a
        BY <4>3, AdjustKeepsRemainder
      <4>6. d.req.cpu \in Nat
            /\ d.req.cpu % CpuAdjustment = m.req.cpu % CpuAdjustment
        <5>1. d.req.cpu = AdjustResource(m.req.cpu, sign * CpuAdjustment)
          BY <4>2
        <5> QED
          BY <4>1, <4>4, <4>5, <5>1
      <4>7. d.req.mem \in Nat
            /\ d.req.mem % MemAdjustment = m.req.mem % MemAdjustment
        <5>1. d.req.mem = AdjustResource(m.req.mem, sign * MemAdjustment)
          BY <4>2
        <5> QED
          BY <4>1, <4>4, <4>5, <5>1
      <4>8. d.req \in Requests
        BY <4>2, <4>6, <4>7 DEF Requests
      <4>9. d.req # Nil
        BY <4>8, NilAssumption
      <4> QED
        BY <1>2, <2>3, <2>4, <3>3, <4>6, <4>7, <4>9 DEF Scale
    <3> QED
      BY <3>2, <3>3
  <2> QED
    BY <2>5, <2>6
<1>3. CASE UNCHANGED vars
  BY <1>3 DEF vars, RequestsKeepRemainder
<1> QED
  BY <1>1, <1>2, <1>3 DEF Next

\* For any mix of scalings and replacements, requests that came non-negative
\* stay so, and keep their remainder by the adjustment.
THEOREM RequestsStayNonNegative == Spec => []RequestsKeepRemainder
<1>1. Init => RequestsKeepRemainder
  BY DEF Init, RequestsKeepRemainder, Deployments
<1>2. TypeOK /\ RequestsKeepRemainder /\ [Next]_vars => RequestsKeepRemainder'
  BY RequestsStep
<1> QED
  BY <1>1, <1>2, PayloadReadsBack, PTL DEF Spec
=============================================================================
