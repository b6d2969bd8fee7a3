---------------------------- MODULE ServerProofs ----------------------------
(***************************************************************************)
(* Server, for any number of requests and faults.                          *)
(***************************************************************************)
EXTENDS Server, TLAPS

(***************************************************************************)
(* What holds of one request.                                              *)
(***************************************************************************)
NoClients(r) == Uses(RouteOf[r]) = <<>>

\* The parts of ClientsKept that are about request r in the state s.
Sound(r, s, cls) ==
  /\ s.pc \in {"config", "flag", "define"} => s.next = 1
  /\ \A n \in 1..4 :
       \/ s.pc = "configure" /\ n < s.next
       \/ s.pc = "serve" /\ ~NoClients(r)
       => ClientNames[n] \in cls \cup s.lost

LEMMA KeptParts ==
  ClientsKept <=> TypeOK /\ \A r \in Requests : Sound(r, req[r], clients)
BY DEF ClientsKept, Sound, NoClients, At

LEMMA KeptNext ==
  ASSUME TypeOK', UNCHANGED inside,
         \A r \in Requests : Sound(r, req'[r], clients')
  PROVE  ClientsKept'
BY DEF ClientsKept, Sound, NoClients, At

LEMMA NamesAreClients == \A n \in 1..4 : ClientNames[n] \in Clients
BY DEF Clients

LEMMA UsesType == \A route : Uses(route) \in Seq(Clients)
<1>1. /\ "clientsetWorkOper" \in Clients /\ "clientsetClusterOper" \in Clients
      /\ "clientOperator" \in Clients
  <2>1. /\ ClientNames[2] = "clientsetWorkOper"
        /\ ClientNames[3] = "clientsetClusterOper"
        /\ ClientNames[4] = "clientOperator"
    BY DEF ClientNames
  <2> QED
    BY <2>1, NamesAreClients
<1> HIDE DEF Clients
<1> QED
  BY <1>1 DEF Uses

LEMMA IdleSound ==
  /\ Idle \in Request
  /\ \A r, cls : Sound(r, Idle, cls)
BY DEF Idle, Request, Sound

LEMMA FaultType ==
  ASSUME TypeOK, UNCHANGED faults \/ Fault
  PROVE  faults' \in 0..MaxFaults
BY ServerAssumption DEF TypeOK, Fault

\* A step that leaves the flag and the clients, and gives one request another state.
LEMMA OneRequest ==
  ASSUME ClientsKept, NEW r \in Requests, NEW s \in Request,
         req' = [req EXCEPT ![r] = s],
         UNCHANGED <<inside, main, listener>>, UNCHANGED faults \/ Fault,
         clients' \in SUBSET Clients, clients \subseteq clients',
         kubeconfig' \in BOOLEAN,
         Sound(r, s, clients')
  PROVE  ClientsKept'
<1>1. TypeOK /\ \A q \in Requests : Sound(q, req[q], clients)
  BY KeptParts
<1>2. TypeOK'
  BY <1>1, FaultType DEF TypeOK
<1>3. ASSUME NEW q \in Requests
      PROVE  Sound(q, req'[q], clients')
  <2>1. CASE q = r
    BY <1>1, <2>1 DEF TypeOK
  <2>2. CASE q # r
    BY <1>1, <2>2 DEF TypeOK, Sound
  <2> QED
    BY <2>1, <2>2
<1> QED
  BY <1>2, <1>3, KeptNext

LEMMA EndStep ==
  ASSUME ClientsKept, End, UNCHANGED inside, UNCHANGED faults \/ Fault
  PROVE  ClientsKept'
<1>1. TypeOK'
  BY KeptParts, FaultType, IdleSound DEF End, TypeOK
<1>2. \A r \in Requests : Sound(r, req'[r], clients')
  BY IdleSound DEF End
<1> QED
  BY <1>1, <1>2, KeptNext

\* Steps of the goroutines alone.
LEMMA GoroutineStep ==
  ASSUME ClientsKept, UNCHANGED <<inside, clients, kubeconfig, req>>,
         UNCHANGED faults \/ Fault,
         main' \in {"down", "init", "notified", "waiting", "stopping"},
         listener' \in {"off", "starting", "open"}
  PROVE  ClientsKept'
<1>1. TypeOK /\ \A q \in Requests : Sound(q, req[q], clients)
  BY KeptParts
<1>2. TypeOK'
  BY <1>1, FaultType DEF TypeOK
<1> QED
  BY <1>1, <1>2, KeptNext

(***************************************************************************)
(* The steps of a request.                                                 *)
(***************************************************************************)
\* A request that goes on: its type, and what Go leaves as it is.
LEMMA GoFields ==
  ASSUME TypeOK, NEW r \in Requests,
         NEW pc \in {"config", "flag", "define", "configure", "serve",
                     "answered", "panicked"}
  PROVE  /\ Go(r, pc) \in Request /\ Go(r, pc).pc = pc
         /\ Go(r, pc).next = req[r].next /\ Go(r, pc).todo = req[r].todo
         /\ Go(r, pc).lost = req[r].lost
<1>1. req[r] \in Request
  BY DEF TypeOK
<1> QED
  BY <1>1 DEF Go, Request

LEMMA AcceptStep ==
  ASSUME ClientsKept, NEW r \in Requests, Accept(r)
  PROVE  ClientsKept'
<1> DEFINE pc == IF NoClients(r) THEN "serve" ELSE "config"
           s == [Idle EXCEPT !.pc = pc]
<1>1. /\ req' = [req EXCEPT ![r] = s]
      /\ UNCHANGED <<inside, main, listener, clients, kubeconfig, faults>>
  BY DEF Accept, Continue, NoClients
<1>2. TypeOK
  BY KeptParts
<1>3. /\ s \in Request /\ s.pc = pc /\ s.next = 1
      /\ s.lost = {} /\ pc \in {"serve", "config"}
      /\ pc = "serve" <=> NoClients(r)
  <2>1. /\ pc \in {"serve", "config"}
        /\ pc = "serve" <=> NoClients(r)
    OBVIOUS
  <2> HIDE DEF pc
  <2>2. Idle \in Request /\ Idle.next = 1 /\ Idle.lost = {}
    BY IdleSound DEF Idle
  <2> HIDE DEF Idle
  <2>3. s \in Request /\ s.pc = pc /\ s.next = 1 /\ s.lost = {}
    BY <2>1, <2>2 DEF Request
  <2> QED
    BY <2>1, <2>3
<1> HIDE DEF s, pc
<1>4. Sound(r, s, clients')
  BY <1>1, <1>3 DEF Sound
<1> QED
  BY <1>1, <1>2, <1>3, <1>4, OneRequest DEF TypeOK

\* A request that changes its pc only, to one of which nothing more is claimed.
LEMMA GoStep ==
  ASSUME ClientsKept, NEW r \in Requests,
         NEW pc \in {"config", "flag", "define", "configure", "answered",
                     "panicked"},
         Continue(r, Go(r, pc)),
         pc \in {"config", "flag", "define", "configure"} => req[r].next = 1,
         UNCHANGED <<inside, main, listener, clients>>,
         UNCHANGED faults \/ Fault, kubeconfig' \in {kubeconfig, TRUE}
  PROVE  ClientsKept'
<1>1. TypeOK /\ Sound(r, req[r], clients)
  BY KeptParts
<1>2. /\ Go(r, pc) \in Request /\ Go(r, pc).pc = pc
      /\ Go(r, pc).next = req[r].next
  BY <1>1, GoFields
<1>3. kubeconfig' \in BOOLEAN
  BY <1>1 DEF TypeOK
<1>4. Sound(r, Go(r, pc), clients')
  BY <1>1, <1>2, <1>3 DEF Sound
<1> QED
  BY <1>1, <1>2, <1>3, <1>4, OneRequest DEF TypeOK, Continue

LEMMA FlagSteps ==
  ASSUME ClientsKept, NEW r \in Requests,
         ReadConfig(r) \/ LookUpFlag(r) \/ DefineFlag(r)
  PROVE  ClientsKept'
<1>1. TypeOK /\ Sound(r, req[r], clients)
  BY KeptParts
<1>2. CASE ReadConfig(r)
  <2>1. req[r].pc = "config" /\ req[r].next = 1
    BY <1>1, <1>2 DEF ReadConfig, At, Sound
  <2>2. /\ \/ inside /\ Continue(r, Go(r, "configure"))
           \/ Continue(r, Go(r, "flag"))
        /\ UNCHANGED <<inside, main, listener, clients, kubeconfig>>
        /\ UNCHANGED faults \/ Fault
    BY <1>2 DEF ReadConfig, Found
  <2> QED
    BY <2>1, <2>2, GoStep
<1>3. CASE LookUpFlag(r)
  <2>1. req[r].pc = "flag" /\ req[r].next = 1
    BY <1>1, <1>3 DEF LookUpFlag, At, Sound
  <2>2. /\ \/ Continue(r, Go(r, "panicked"))
           \/ ~kubeconfig /\ Continue(r, Go(r, "define"))
        /\ UNCHANGED <<inside, main, listener, clients, kubeconfig, faults>>
    BY <1>3 DEF LookUpFlag, Redefinition
  <2> QED
    BY <2>1, <2>2, GoStep
<1>4. CASE DefineFlag(r)
  <2>1. req[r].pc = "define" /\ req[r].next = 1
    BY <1>1, <1>4 DEF DefineFlag, At, Sound
  <2>2. /\ Continue(r, Go(r, "configure")) \/ Continue(r, Go(r, "panicked"))
        /\ kubeconfig' = TRUE
        /\ UNCHANGED <<inside, main, listener, clients, faults>>
    BY <1>4 DEF DefineFlag
  <2> QED
    BY <2>1, <2>2, GoStep
<1> QED
  BY <1>2, <1>3, <1>4

\* A client configured: this request has one more, the others lose none.
LEMMA ConfiguredStep ==
  ASSUME ClientsKept, NEW r \in Requests, At(r, "configure"),
         clients' = clients \cup {ClientNames[req[r].next]},
         Continue(r, Configured(r)),
         UNCHANGED <<inside, main, listener, kubeconfig, faults>>
  PROVE  ClientsKept'
<1> DEFINE k == req[r].next
           c == ClientNames[k]
           s == Configured(r)
<1>1. TypeOK /\ Sound(r, req[r], clients)
  BY KeptParts
<1>2. req[r] \in Request /\ k \in 1..4 /\ req[r].pc = "configure"
  BY <1>1 DEF TypeOK, Request, At
<1>3. c \in Clients
  BY <1>2, NamesAreClients
<1>4. Uses(RouteOf[r]) \in Seq(Clients)
  BY UsesType
<1>5. /\ s \in Request
      /\ s.lost = req[r].lost \ {c}
      /\ \/ s.pc = "configure" /\ k < 4 /\ s.next = k + 1
         \/ s.pc = "serve" /\ k = 4
  <2> DEFINE l == [req[r] EXCEPT !.lost = @ \ {c}]
  <2>1. /\ l \in Request /\ l.pc = "configure"
        /\ l.lost = req[r].lost \ {c} /\ l.next = k
    BY <1>2 DEF Request
  <2>2. s = IF k < 4 THEN [l EXCEPT !.next = k + 1]
                     ELSE [l EXCEPT !.pc = "serve", !.todo = Uses(RouteOf[r])]
    BY DEF Configured
  <2> HIDE DEF l, s, c
  <2>3. CASE k < 4
    <3>1. k + 1 \in 1..4
      BY <1>2, <2>3
    <3>2. s = [l EXCEPT !.next = k + 1]
      BY <2>2, <2>3
    <3> HIDE DEF k
    <3> QED
      BY <2>1, <2>3, <3>1, <3>2 DEF Request
  <2>4. CASE k = 4
    <3>1. s = [l EXCEPT !.pc = "serve", !.todo = Uses(RouteOf[r])]
      BY <2>2, <2>4
    <3> QED
      BY <1>4, <2>1, <2>4, <3>1 DEF Request
  <2> QED
    BY <1>2, <2>3, <2>4
<1>6. ASSUME NEW n \in 1..4, n <= k
      PROVE  ClientNames[n] \in clients' \cup s.lost
  <2>1. CASE n = k
    BY <2>1
  <2>2. CASE n < k
    BY <1>1, <1>2, <1>5, <1>6, <2>2 DEF Sound
  <2> QED
    BY <1>2, <1>6, <2>1, <2>2
<1> HIDE DEF s
<1>7. Sound(r, s, clients')
  <2>1. ASSUME NEW n \in 1..4,
               \/ s.pc = "configure" /\ n < s.next
               \/ s.pc = "serve" /\ ~NoClients(r)
        PROVE  n <= k
    BY <1>2, <1>5, <2>1
  <2> QED
    BY <1>1, <1>5, <1>6, <2>1 DEF Sound
<1>8. /\ clients' \in SUBSET Clients /\ clients \subseteq clients'
      /\ kubeconfig' \in BOOLEAN
  BY <1>1, <1>3 DEF TypeOK
<1> QED
  BY <1>5, <1>7, <1>8, OneRequest DEF Continue, s

\* A client that could not be configured: this request ends, the others have lost it.
LEMMA ConfigureFailsStep ==
  ASSUME ClientsKept, NEW r \in Requests, At(r, "configure"),
         clients' = clients \ {ClientNames[req[r].next]},
         req' = [q \in Requests |->
                   IF q = r THEN ConfigureFails(r)
                   ELSE [req[q] EXCEPT
                           !.lost = @ \cup {ClientNames[req[r].next]}]],
         UNCHANGED <<inside, main, listener, kubeconfig>>, Fault
  PROVE  ClientsKept'
<1> DEFINE c == ClientNames[req[r].next]
<1>1. TypeOK /\ \A q \in Requests : Sound(q, req[q], clients)
  BY KeptParts
<1>2. c \in Clients
  <2>1. req[r].next \in 1..4
    BY <1>1 DEF TypeOK, Request
  <2> QED
    BY <2>1, NamesAreClients
<1> HIDE DEF c
<1>3. ASSUME NEW q \in Requests
      PROVE  req'[q] \in Request /\ Sound(q, req'[q], clients')
  <2>1. CASE q = r
    <3>1. /\ req'[q] = Go(r, "panicked") /\ Go(r, "panicked") \in Request
          /\ Go(r, "panicked").pc = "panicked"
      BY <1>1, <2>1, GoFields DEF ConfigureFails
    <3> QED
      BY <1>1, <2>1, <3>1 DEF Sound
  <2>2. CASE q # r
    <3>1. req'[q] = [req[q] EXCEPT !.lost = @ \cup {c}] /\ req[q] \in Request
      BY <1>1, <2>2 DEF TypeOK, c
    <3>2. /\ req'[q] \in Request /\ req'[q].lost = req[q].lost \cup {c}
          /\ req'[q].pc = req[q].pc /\ req'[q].next = req[q].next
      BY <1>2, <3>1 DEF Request
    <3>3. clients' = clients \ {c}
      BY DEF c
    <3>4. Sound(q, req[q], clients)
      BY <1>1
    <3> QED
      BY <3>2, <3>3, <3>4 DEF Sound
  <2> QED
    BY <2>1, <2>2
<1>4. req' = [q \in Requests |-> req'[q]]
  OBVIOUS
<1>5. TypeOK'
  BY <1>1, <1>3, <1>4, FaultType DEF TypeOK
<1> QED
  BY <1>3, <1>5, KeptNext

LEMMA UseStep ==
  ASSUME ClientsKept, NEW r \in Requests, Use(r)
  PROVE  ClientsKept'
<1>1. TypeOK /\ Sound(r, req[r], clients)
  BY KeptParts
<1>2. /\ \/ Continue(r, Go(r, "panicked"))
         \/ Continue(r, [req[r] EXCEPT !.todo = Tail(@)])
      /\ req[r].todo # <<>>
      /\ UNCHANGED <<inside, main, listener, clients, kubeconfig, faults>>
  BY DEF Use
<1>3. CASE Continue(r, Go(r, "panicked"))
  BY <1>2, <1>3, GoStep
<1>4. CASE Continue(r, [req[r] EXCEPT !.todo = Tail(@)])
  <2> DEFINE s == [req[r] EXCEPT !.todo = Tail(@)]
  <2>1. req[r] \in Request /\ Tail(req[r].todo) \in Seq(Clients)
    BY <1>1, <1>2 DEF TypeOK, Request
  <2>2. /\ s \in Request /\ s.pc = req[r].pc /\ s.next = req[r].next
        /\ s.lost = req[r].lost
    BY <2>1 DEF Request
  <2>3. req' = [req EXCEPT ![r] = s]
    BY <1>4 DEF Continue
  <2> HIDE DEF s
  <2>4. Sound(r, s, clients')
    BY <1>1, <1>2, <2>2 DEF Sound
  <2> QED
    BY <1>1, <1>2, <2>2, <2>3, <2>4, OneRequest DEF TypeOK
<1> QED
  BY <1>2, <1>3, <1>4

LEMMA AnswerStep ==
  ASSUME ClientsKept, NEW r \in Requests, Answer(r)
  PROVE  ClientsKept'
<1>1. /\ Continue(r, Go(r, "answered"))
      /\ UNCHANGED <<inside, main, listener, clients, kubeconfig, faults>>
  BY DEF Answer
<1> QED
  BY <1>1, GoStep

(***************************************************************************)
(* The inductive invariant.                                                *)
(***************************************************************************)
LEMMA KeptInit == Init => ClientsKept
<1> SUFFICES ASSUME Init  PROVE ClientsKept
  OBVIOUS
<1>1. TypeOK
  <2>1. 0 \in 0..MaxFaults
    BY ServerAssumption
  <2>2. req \in [Requests -> Request]
    BY IdleSound DEF Init
  <2> QED
    BY <2>1, <2>2 DEF Init, TypeOK
<1>2. \A r \in Requests : Sound(r, req[r], clients)
  BY IdleSound DEF Init
<1> QED
  BY <1>1, <1>2, KeptParts

LEMMA KeptStep == ClientsKept /\ [Next]_vars => ClientsKept'
<1> SUFFICES ASSUME ClientsKept, [Next]_vars  PROVE ClientsKept'
  OBVIOUS
<1>1. TypeOK
  BY KeptParts
<1>2. CASE UNCHANGED vars
  BY <1>1, <1>2, GoroutineStep DEF vars, process, TypeOK
<1>3. CASE Start \/ Notify \/ AwaitStop \/ Listen
  BY <1>1, <1>3, GoroutineStep DEF Start, Notify, AwaitStop, Listen, TypeOK
<1>4. CASE ListenFails \/ Terminate \/ Return
  BY <1>4, EndStep DEF ListenFails, Terminate, Return
<1>5. CASE Interrupt
  <2>1. CASE End /\ UNCHANGED inside /\ Fault
    BY <2>1, EndStep
  <2>2. CASE /\ UNCHANGED <<inside, clients, kubeconfig, req, listener>>
             /\ Fault /\ main' \in {main, "stopping"}
    BY <1>1, <2>2, GoroutineStep DEF TypeOK
  <2> QED
    BY <1>5, <2>1, <2>2 DEF Interrupt, process
<1>6. ASSUME NEW r \in Requests, Accept(r)
      PROVE  ClientsKept'
  BY <1>6, AcceptStep
<1>7. ASSUME NEW r \in Requests, Configure(r)
      PROVE  ClientsKept'
  BY <1>7, ConfiguredStep, ConfigureFailsStep DEF Configure
<1>8. ASSUME NEW r \in Requests, FlagsRace(r)
      PROVE  ClientsKept'
  BY <1>8, EndStep DEF FlagsRace
<1>9. ASSUME NEW r \in Requests,
             \/ ReadConfig(r) \/ LookUpFlag(r) \/ DefineFlag(r)
             \/ Use(r) \/ Answer(r)
      PROVE  ClientsKept'
  BY <1>9, FlagSteps, UseStep, AnswerStep
<1> QED
  BY <1>2, <1>3, <1>4, <1>5, <1>6, <1>7, <1>8, <1>9 DEF Next, Run, Serve

\* A request that is configuring its clients (InClusterConfig, job.go:196-214) finds
\* those it has configured so far, unless another has failed to configure one since.
THEOREM ClientsInvariant == Spec => []ClientsKept
BY KeptInit, KeptStep, PTL DEF Spec

\* Every variable keeps its type.
THEOREM ServerTypeCorrect == Spec => []TypeOK
<1>1. ClientsKept => TypeOK
  BY DEF ClientsKept
<1> QED
  BY <1>1, ClientsInvariant, PTL

\* However the configurations of requests mix, one that is served finds every
\* client, unless another has failed to configure it since.
THEOREM ServedHaveClients == Spec => []OnlyFailuresTakeClients
<1>1. ClientsKept => OnlyFailuresTakeClients
  BY DEF ClientsKept, OnlyFailuresTakeClients
<1> QED
  BY <1>1, ClientsInvariant, PTL
=============================================================================
