------------------------------- MODULE Server -------------------------------
(***************************************************************************)
(* The process around the handlers: how it starts, stops and ends, and how *)
(* requests that run at the same time configure and use the package-level  *)
(* Kubernetes clients.                                                     *)
(***************************************************************************)
EXTENDS Naturals, Sequences, FiniteSets

CONSTANTS
  Requests,   \* requests that can be in progress at the same time
  RouteOf,    \* the route of each
  MaxFaults   \* bound: signals, and failures of the system around the process

Routes == {"home", "healthz", "execute", "resource", "sync"}

ASSUME ServerAssumption ==
  /\ RouteOf \in [Requests -> Routes]
  /\ MaxFaults \in Nat

\* The clients, in the order in which they are configured.
ClientNames ==
  <<"clientset", "clientsetWorkOper", "clientsetClusterOper", "clientOperator">>

Clients == {ClientNames[n] : n \in 1..4}

\* The clients a handler uses, in order.  Where it uses one again and again this
\* is the last use.
Uses(route) ==
  CASE route = "execute"  -> <<"clientOperator", "clientsetWorkOper">>
    [] route = "resource" -> <<"clientsetWorkOper">>
    [] route = "sync"     -> <<"clientsetClusterOper", "clientsetWorkOper">>
    [] OTHER              -> <<>>

VARIABLES
  inside,      \* whether the process runs inside of a cluster
  main,        \* the goroutine of Server.Run
  listener,    \* the goroutine of ListenAndServe
  clients,     \* those that are not nil
  kubeconfig,  \* whether the flag of this name is defined
  req,         \* the requests
  faults

process == <<main, listener, clients, kubeconfig, req>>
vars == <<inside, process, faults>>

Request ==
  [pc   : {"idle", "config", "flag", "define", "configure", "serve",
           "answered", "panicked"},
   next : 1..4,                  \* index of the next client to configure
   todo : Seq(Clients),          \* the uses of clients still to come
   lost : SUBSET Clients]        \* history: clients that another request failed
                                 \* to configure, after this one had

Idle == [pc |-> "idle", next |-> 1, todo |-> <<>>, lost |-> {}]

TypeOK ==
  /\ inside \in BOOLEAN
  /\ main \in {"down", "init", "notified", "waiting", "stopping"}
  /\ listener \in {"off", "starting", "open"}
  /\ clients \in SUBSET Clients
  /\ kubeconfig \in BOOLEAN
  /\ req \in [Requests -> Request]
  /\ faults \in 0..MaxFaults

Init ==
  /\ inside \in BOOLEAN
  /\ main = "down"
  /\ listener = "off"
  /\ clients = {}
  /\ kubeconfig = FALSE
  /\ req = [r \in Requests |-> Idle]
  /\ faults = 0

Fault == faults < MaxFaults /\ faults' = faults + 1

\* The process ends, whatever its goroutines are doing.
End ==
  /\ main' = "down"
  /\ listener' = "off"
  /\ clients' = {}
  /\ kubeconfig' = FALSE
  /\ req' = [r \in Requests |-> Idle]

(***************************************************************************)
(* Server.Run: registering for the signal, listening, waiting, returning.  *)
(***************************************************************************)
\* The process starts, or is started again.
Start ==
  /\ main = "down"
  /\ main' = "init"
  /\ UNCHANGED <<inside, listener, clients, kubeconfig, req, faults>>

Notify ==
  /\ main = "init"
  /\ main' = "notified"
  /\ listener' = "starting"
  /\ UNCHANGED <<inside, clients, kubeconfig, req, faults>>

AwaitStop ==
  /\ main = "notified"
  /\ main' = "waiting"
  /\ UNCHANGED <<inside, listener, clients, kubeconfig, req, faults>>

Listen ==
  /\ listener = "starting"
  /\ listener' = "open"
  /\ UNCHANGED <<inside, main, clients, kubeconfig, req, faults>>

\* The port is taken, or accepting fails: logger.Fatal.
ListenFails ==
  /\ listener # "off"
  /\ Fault
  /\ End
  /\ UNCHANGED inside

\* os.Interrupt.  Before it is registered for, it kills; the channel has no buffer,
\* so that it is dropped when main is not waiting for it.
Interrupt ==
  /\ Fault
  /\ CASE main = "init"    -> End
       [] main = "waiting" -> /\ main' = "stopping"
                              /\ UNCHANGED <<listener, clients, kubeconfig, req>>
       [] OTHER            -> main # "down" /\ UNCHANGED process
  /\ UNCHANGED inside

\* Any other signal, Kubernetes' SIGTERM among them.
Terminate ==
  /\ main # "down"
  /\ Fault
  /\ End
  /\ UNCHANGED inside

\* main returns at once: no one waits for the context of the shutdown timeout.
Return ==
  /\ main = "stopping"
  /\ End
  /\ UNCHANGED <<inside, faults>>

(***************************************************************************)
(* A request: InClusterConfig, then the handler's use of the clients.  A   *)
(* panic ends the request, and net/http recovers.                          *)
(***************************************************************************)
Continue(r, s) == req' = [req EXCEPT ![r] = s]
At(r, pc) == req[r].pc = pc
Go(r, pc) == [req[r] EXCEPT !.pc = pc]

Busy(r) == req[r].pc \notin {"idle", "answered", "panicked"}

\* The health check and the home page configure nothing.
Accept(r) ==
  /\ listener = "open"
  /\ ~Busy(r)
  /\ Continue(r, [Idle EXCEPT
                    !.pc = IF Uses(RouteOf[r]) = <<>> THEN "serve" ELSE "config"])
  /\ UNCHANGED <<inside, main, listener, clients, kubeconfig, faults>>

\* Mutant: clients that another request left are used as they are.
Found_Once(r) ==
  IF clients = {} THEN Go(r, "configure")
  ELSE [Go(r, "serve") EXCEPT !.todo = Uses(RouteOf[r])]

Found(r) == Go(r, "configure")

\* rest.InClusterConfig finds the environment and the token of the cluster.
ReadConfig(r) ==
  /\ At(r, "config")
  /\ \/ inside /\ Continue(r, Found(r)) /\ UNCHANGED faults
     \/ inside /\ Continue(r, Go(r, "flag")) /\ Fault
     \/ ~inside /\ Continue(r, Go(r, "flag")) /\ UNCHANGED faults
  /\ UNCHANGED <<inside, main, listener, clients, kubeconfig>>

\* flag.String of a name that is defined already panics.
Redefinition(r) == Go(r, "panicked")

LookUpFlag(r) ==
  /\ At(r, "flag")
  /\ Continue(r, IF kubeconfig THEN Redefinition(r) ELSE Go(r, "define"))
  /\ UNCHANGED <<inside, main, listener, clients, kubeconfig, faults>>

\* The file that the flag names is read, or cannot be read.
DefineFlag(r) ==
  /\ At(r, "define")
  /\ kubeconfig' = TRUE
  /\ \E pc \in {"configure", "panicked"} : Continue(r, Go(r, pc))
  /\ UNCHANGED <<inside, main, listener, clients, faults>>

\* Two requests in the map of the flags at once, one of them to write: the runtime
\* may notice, which no one can recover from.
FlagsRace(r) ==
  /\ req[r].pc \in {"flag", "define"}
  /\ \E q \in Requests \ {r} : At(q, "define")
  /\ End
  /\ UNCHANGED <<inside, faults>>

\* NewForConfig for the next client.
Configured(r) ==
  LET n == req[r].next
      s == [req[r] EXCEPT !.lost = @ \ {ClientNames[n]}]
  IN  IF n < 4 THEN [s EXCEPT !.next = n + 1]
      ELSE [s EXCEPT !.pc = "serve", !.todo = Uses(RouteOf[r])]

\* Mutant: the error is logged, and the next client is configured.
ConfigureFails_GoOn(r) == Configured(r)

ConfigureFails(r) == Go(r, "panicked")

Configure(r) ==
  /\ At(r, "configure")
  /\ LET c == ClientNames[req[r].next]
     IN  \/ /\ clients' = clients \cup {c}
            /\ Continue(r, Configured(r))
            /\ UNCHANGED faults
         \/ /\ clients' = clients \ {c}
            /\ req' = [q \in Requests |->
                         IF q = r THEN ConfigureFails(r)
                         ELSE [req[q] EXCEPT !.lost = @ \cup {c}]]
            /\ Fault
  /\ UNCHANGED <<inside, main, listener, kubeconfig>>

\* A call through a client that is nil panics.
Use(r) ==
  /\ At(r, "serve")
  /\ req[r].todo # <<>>
  /\ Continue(r, IF Head(req[r].todo) \in clients
                 THEN [req[r] EXCEPT !.todo = Tail(@)]
                 ELSE Go(r, "panicked"))
  /\ UNCHANGED <<inside, main, listener, clients, kubeconfig, faults>>

Answer(r) ==
  /\ At(r, "serve")
  /\ req[r].todo = <<>>
  /\ Continue(r, Go(r, "answered"))
  /\ UNCHANGED <<inside, main, listener, clients, kubeconfig, faults>>

Serve(r) ==
  ReadConfig(r) \/ LookUpFlag(r) \/ DefineFlag(r) \/ FlagsRace(r)
  \/ Configure(r) \/ Use(r) \/ Answer(r)

Run == Start \/ Notify \/ AwaitStop \/ Return

Next ==
  \/ Run \/ Listen \/ ListenFails \/ Interrupt \/ Terminate
  \/ \E r \in Requests : Accept(r) \/ Serve(r)

(***************************************************************************)
(* The goroutines run, the container is restarted, and those that call the *)
(* service call again.                                                     *)
(***************************************************************************)
Fairness ==
  /\ WF_vars(Run)
  /\ WF_vars(Listen)
  /\ \A r \in Requests : WF_vars(Accept(r)) /\ WF_vars(Serve(r))

Spec == Init /\ [][Next]_vars /\ Fairness

(***************************************************************************)
(* Properties.                                                             *)
(***************************************************************************)
\* A request that has configured its clients finds them all, however its steps mix
\* with those of others that configure the same variables: only one that failed to
\* configure a client after it can have left nil there.
OnlyFailuresTakeClients ==
  \A r \in Requests, n \in 1..4 :
    At(r, "serve") /\ Uses(RouteOf[r]) # <<>> =>
      ClientNames[n] \in clients \cup req[r].lost

\* What keeps it, inductively: a request that is configuring finds the clients it has
\* configured so far, and it starts with the first.
ClientsKept ==
  /\ TypeOK
  /\ \A r \in Requests :
       /\ req[r].pc \in {"config", "flag", "define"} => req[r].next = 1
       /\ \A n \in 1..4 :
            \/ At(r, "configure") /\ n < req[r].next
            \/ At(r, "serve") /\ Uses(RouteOf[r]) # <<>>
            => ClientNames[n] \in clients \cup req[r].lost

\* Inside of a cluster, failures leave nothing behind: neither a flag that was
\* defined when the token could not be read, nor a client left nil, nor a process
\* that has ended keeps a route from being answered again and again.
EventuallyAnswered ==
  inside => \A r \in Requests : []<>At(r, "answered")
=============================================================================
