------------------------------- MODULE Firewall -------------------------------
(***************************************************************************)
(* The request pipeline (AntelopeFirewall::handle_request): filters, rate  *)
(* limiters, matching, pinning, routing, the node's metrics, the request   *)
(* to the node, the response's headers and the limiters on failures.  Each *)
(* connection runs it for one request at a time; between two awaits other  *)
(* connections run, and at any await the client may hang up.  The limiters *)
(* appear by their verdicts alone (RateLimiter, PinLimiter have the rest), *)
(* the health checker by the set of nodes it marks healthy (HealthChecker).*)
(***************************************************************************)
EXTENDS Integers, Sequences, FiniteSets

CONSTANTS
  Task,         \* the connections
  Node,         \* upstream nodes: one scheme, host and port each
  Pool,         \* get_nodes and push_nodes: the nodes for each kind of request
  Pinnable,     \* the get_nodes entries that are pinnable
  NameOf,       \* the name of each get_nodes entry
  HostOf,       \* a node's name in the metrics: from its host, without its port
  Weight,       \* weights
  RoutingMode,  \* routing_mode
  Modes,        \* the limiters in order: "Before" (on attempts) or "After"
  None,         \* no node, or no name
  MayHangUp,    \* whether clients hang up
  MaxRequests,  \* bound: requests in one behaviour
  MaxFlips      \* bound: changes of verdict of the health checker

Kind == {"read", "push"}
Name == {NameOf[n] : n \in Node}
Host == {HostOf[n] : n \in Node}
Limiter == 1 .. Len(Modes)

ASSUME TaskAssumption == IsFiniteSet(Task)
ASSUME PoolAssumption == Pool \in [Kind -> SUBSET Node] /\ Pinnable \subseteq Pool["read"]
ASSUME NoneAssumption == None \notin Node /\ None \notin Name
ASSUME WeightAssumption == Weight \in [Node -> Nat \ {0}]
ASSUME RoutingAssumption ==
  RoutingMode \in {"round_robin", "least_connections", "random"}
ASSUME ModesAssumption == Modes \in Seq({"Before", "After"})

\* build_node_set refuses two pinnable entries of one list with the same name.
ASSUME UniqueNames == \A m, n \in Pinnable : NameOf[m] = NameOf[n] => m = n

VARIABLES
  healthy,     \* the nodes the health checker marks healthy
  flips,       \* how often that has changed
  registered,  \* hosts whose counters the Prometheus registry has
  held,        \* hosts whose counters are in MATCHING_COUNTERS
  processed,   \* node_processed
  outcomes,    \* node_success + node_client_error + node_server_error
  pc,          \* where each connection is
  kind,        \* the kind of endpoint it asks for
  want,        \* the node name it asks for
  urls,        \* the nodes matched
  node,        \* the node chosen
  by,          \* the node whose answer arrived; None: none the firewall knows
  status,      \* what kind of status the answer has
  named,       \* the names the response's X-Antelope-Upstream will carry
  next,        \* the limiter the loop over them has come to
  told,        \* charges for failing answers, by limiter
  failures,    \* history: failing answers received
  lost,        \* history: failing answers whose request ended before they were charged
  seen,        \* history: nodes marked healthy at some time during the request
  panicked,    \* history: whether a registration has failed
  requests     \* requests so far

health == <<healthy, flips>>
metrics == <<registered, held, processed, outcomes>>
charges == <<told, failures, lost>>
request == <<kind, want>>
reply == <<by, status, named>>
history == <<panicked, requests>>
vars == <<health, metrics, pc, request, urls, node, reply, next, charges, seen, history>>

Place == {"idle", "received", "limiting", "choosing", "looking", "registering",
          "inserting", "sending", "answered", "counting"}

(* Type correctness of the shared state and of every connection's locals.   *)
TypeOK ==
  /\ healthy \subseteq Node /\ flips \in Nat
  /\ registered \subseteq Host /\ held \subseteq Host
  /\ processed \in [Host -> Nat] /\ outcomes \in [Host -> Nat]
  /\ pc \in [Task -> Place]
  /\ kind \in [Task -> Kind] /\ want \in [Task -> Name \cup {None}]
  /\ urls \in [Task -> SUBSET Node]
  /\ node \in [Task -> Node \cup {None}] /\ by \in [Task -> Node \cup {None}]
  /\ status \in [Task -> {"success", "error", "other"}]
  /\ named \in [Task -> SUBSET Name]
  /\ next \in [Task -> Nat]
  /\ told \in [Limiter -> Nat] /\ failures \in Nat /\ lost \in Nat
  /\ seen \in [Task -> SUBSET Node]
  /\ panicked \in BOOLEAN /\ requests \in Nat

Init ==
  /\ healthy = Node /\ flips = 0
  /\ registered = {} /\ held = {}
  /\ processed = [h \in Host |-> 0] /\ outcomes = [h \in Host |-> 0]
  /\ pc = [t \in Task |-> "idle"]
  /\ kind = [t \in Task |-> "read"] /\ want = [t \in Task |-> None]
  /\ urls = [t \in Task |-> {}]
  /\ node = [t \in Task |-> None] /\ by = [t \in Task |-> None]
  /\ status = [t \in Task |-> "success"]
  /\ named = [t \in Task |-> {}]
  /\ next = [t \in Task |-> 1]
  /\ told = [i \in Limiter |-> 0] /\ failures = 0 /\ lost = 0
  /\ seen = [t \in Task |-> {}]
  /\ panicked = FALSE /\ requests = 0

Goto(t, place) == pc' = [pc EXCEPT ![t] = place]

\* The handler returns or is dropped, and its locals with it.
Leave(t) ==
  /\ Goto(t, "idle")
  /\ kind' = [kind EXCEPT ![t] = "read"] /\ want' = [want EXCEPT ![t] = None]
  /\ urls' = [urls EXCEPT ![t] = {}]
  /\ node' = [node EXCEPT ![t] = None] /\ by' = [by EXCEPT ![t] = None]
  /\ status' = [status EXCEPT ![t] = "success"]
  /\ named' = [named EXCEPT ![t] = {}]
  /\ next' = [next EXCEPT ![t] = 1]
  /\ seen' = [seen EXCEPT ![t] = {}]

----------------------------------------------------------------------------
(* A request for a read or a push endpoint, with or without ?upstream=.     *)
Receive(t) ==
  /\ pc[t] = "idle"
  /\ requests < MaxRequests
  /\ requests' = requests + 1
  /\ \E k \in Kind : kind' = [kind EXCEPT ![t] = k]
  /\ \E x \in Name \cup {None} : want' = [want EXCEPT ![t] = x]
  /\ seen' = [seen EXCEPT ![t] = healthy]
  /\ Goto(t, "received")
  /\ UNCHANGED <<health, metrics, urls, node, reply, next, charges, panicked>>

(* The body is too large, unreadable or not JSON, a filter blocks the       *)
(* request, or its method is OPTIONS: it is answered before any limiter.    *)
TurnAway(t) ==
  /\ pc[t] = "received"
  /\ Leave(t)
  /\ UNCHANGED <<health, metrics, charges, history>>

PassFilters(t) ==
  /\ pc[t] = "received"
  /\ Goto(t, "limiting")
  /\ UNCHANGED <<health, metrics, request, urls, node, reply, next, charges, seen, history>>

(* The limiters are asked in their configured order.                        *)
LimiterPasses(t) ==
  /\ pc[t] = "limiting"
  /\ next[t] \in Limiter
  /\ next' = [next EXCEPT ![t] = @ + 1]
  /\ UNCHANGED <<health, metrics, pc, request, urls, node, reply, charges, seen, history>>

LimiterDenies(t) ==
  /\ pc[t] = "limiting"
  /\ next[t] \in Limiter
  /\ Leave(t)
  /\ UNCHANGED <<health, metrics, charges, history>>

(***************************************************************************)
(* As in RateLimiter, a definition whose name starts with Bad is a         *)
(* plausible mistake in the definition after it and is used nowhere.       *)
(***************************************************************************)
\* What the two matching rules leave: the pool, then its healthy nodes.
BadMatched(k) ==  \* a pool with no healthy node is used whole
  IF Pool[k] \cap healthy = {} THEN Pool[k] ELSE Pool[k] \cap healthy
Matched(k) == Pool[k] \cap healthy

Match(t) ==
  LET found == Matched(kind[t]) IN
  /\ pc[t] = "limiting"
  /\ next[t] \notin Limiter
  /\ found # {}
  /\ urls' = [urls EXCEPT ![t] = found]
  /\ Goto(t, "choosing")
  /\ UNCHANGED <<health, metrics, request, node, reply, next, charges, seen, history>>

(* No node is left to route to.                                             *)
FailToRoute(t) ==
  /\ pc[t] = "limiting"
  /\ next[t] \notin Limiter
  /\ Matched(kind[t]) = {}
  /\ Leave(t)
  /\ UNCHANGED <<health, metrics, charges, history>>

\* The matched nodes a request asks for by name; only a read can ask.
Asked(t) ==
  {n \in urls[t] \cap Pinnable : kind[t] = "read" /\ NameOf[n] = want[t]}

(***************************************************************************)
(* The nodes the routing mode may pick.  The maps of counts are never      *)
(* written, so every node has the same count: round_robin takes the first  *)
(* of the matched set's order, which is arbitrary, and least_connections   *)
(* the greatest weight.                                                    *)
(***************************************************************************)
Candidates(U) ==
  IF RoutingMode = "least_connections"
    THEN {n \in U : \A m \in U : Weight[m] <= Weight[n]}
    ELSE U

Choose(t, n) ==
  /\ node' = [node EXCEPT ![t] = n]
  /\ urls' = [urls EXCEPT ![t] = {}]
  /\ want' = [want EXCEPT ![t] = None]
  /\ Goto(t, "looking")
  /\ UNCHANGED <<health, metrics, kind, reply, next, charges, seen, history>>

(* The pin limiter admits the request.                                      *)
Pin(t) ==
  /\ pc[t] = "choosing"
  /\ \E n \in Asked(t) : Choose(t, n)

(* The request asks for nothing it can have, or the pin limiter drops its   *)
(* pin.                                                                     *)
Route(t) ==
  /\ pc[t] = "choosing"
  /\ \E n \in Candidates(urls[t]) : Choose(t, n)

----------------------------------------------------------------------------
HostAt(t) == HostOf[node[t]]

AddOne(count, h) == [count EXCEPT ![h] = @ + 1]

BadIsHeld(h) == h \in registered  \* known to the registry is taken for held
IsHeld(h) == h \in held

(* The counters of the node's host are in the map.                          *)
FindCounters(t) ==
  /\ pc[t] = "looking"
  /\ IsHeld(HostAt(t))
  /\ processed' = AddOne(processed, HostAt(t))
  /\ Goto(t, "sending")
  /\ UNCHANGED <<health, registered, held, outcomes, request, urls, node, reply, next,
                 charges, seen, history>>

(* They are not, and the read lock is dropped before they are made.         *)
MissCounters(t) ==
  /\ pc[t] = "looking"
  /\ ~IsHeld(HostAt(t))
  /\ Goto(t, "registering")
  /\ UNCHANGED <<health, metrics, request, urls, node, reply, next, charges, seen, history>>

BadRegister(t) ==  \* a counter that is registered already is no error
  /\ pc[t] = "registering"
  /\ registered' = registered \cup {HostAt(t)}
  /\ processed' = AddOne(processed, HostAt(t))
  /\ Goto(t, "inserting")
  /\ UNCHANGED <<health, held, outcomes, request, urls, node, reply, next, charges,
                 seen, history>>

(* The counters are registered and the request counted.                     *)
Register(t) ==
  /\ pc[t] = "registering"
  /\ HostAt(t) \notin registered
  /\ registered' = registered \cup {HostAt(t)}
  /\ processed' = AddOne(processed, HostAt(t))
  /\ Goto(t, "inserting")
  /\ UNCHANGED <<health, held, outcomes, request, urls, node, reply, next, charges,
                 seen, history>>

(* Another request has registered them: unwrap panics, and the connection's *)
(* task with it.                                                            *)
RegisterTwice(t) ==
  /\ pc[t] = "registering"
  /\ HostAt(t) \in registered
  /\ panicked' = TRUE
  /\ Leave(t)
  /\ UNCHANGED <<health, metrics, charges, requests>>

(* The write lock is taken and the counters put in the map.                 *)
Insert(t) ==
  /\ pc[t] = "inserting"
  /\ held' = held \cup {HostAt(t)}
  /\ Goto(t, "sending")
  /\ UNCHANGED <<health, registered, processed, outcomes, request, urls, node, reply,
                 next, charges, seen, history>>

----------------------------------------------------------------------------
(* The request to the node fails.                                           *)
Unreachable(t) ==
  /\ pc[t] = "sending"
  /\ Leave(t)
  /\ UNCHANGED <<health, metrics, charges, history>>

\* The counter an answer goes to: that of the node the request was sent to.
BadTally(t, from) == IF from \in Node THEN HostOf[from] ELSE HostAt(t)
Tally(t, from) == HostAt(t)

\* The names a response carries when the upstream sent the names in sent.
BadNames(t, from, sent) ==  \* wherever a redirect led, the node chosen is named
  IF kind[t] = "read" /\ node[t] \in Pinnable THEN {NameOf[node[t]]} ELSE {}

Names(t, from, sent) ==
  IF kind[t] = "read" /\ node[t] \in Pinnable /\ from = node[t]
    THEN {NameOf[node[t]]}
    ELSE {}

(* The head of an answer arrives, from the node chosen or from wherever a   *)
(* redirect led.  It is counted, unless its status is neither a success nor *)
(* an error, and the response is named.                                     *)
AnswerFrom(t, from, s, sent) ==
  /\ pc[t] = "sending"
  /\ by' = [by EXCEPT ![t] = from]
  /\ status' = [status EXCEPT ![t] = s]
  /\ named' = [named EXCEPT ![t] = Names(t, from, sent)]
  /\ outcomes' = IF s = "other" THEN outcomes ELSE AddOne(outcomes, Tally(t, from))
  /\ failures' = failures + IF s = "success" THEN 0 ELSE 1
  /\ Goto(t, "answered")
  /\ UNCHANGED <<health, registered, held, processed, request, urls, node, next, told,
                 lost, seen, history>>

Answer(t) ==
  \E from \in Node \cup {None}, s \in {"success", "error", "other"},
     sent \in {{}} \cup {{x} : x \in Name} : AnswerFrom(t, from, s, sent)

\* A failing answer in hand is lost to the limiters not told of it yet.
LoseAnswer(t) ==
  /\ lost' = lost + IF status[t] = "success" THEN 0 ELSE 1
  /\ Leave(t)
  /\ UNCHANGED <<health, metrics, told, failures, history>>

(* The body does not arrive (unwrap panics) or is not JSON (the client gets *)
(* an error response): the loop over the limiters is not reached.           *)
UnusableBody(t) ==
  /\ pc[t] = "answered"
  /\ LoseAnswer(t)

ReadBody(t) ==
  /\ pc[t] = "answered"
  /\ next' = [next EXCEPT ![t] = 1]
  /\ Goto(t, "counting")
  /\ UNCHANGED <<health, metrics, request, urls, node, reply, charges, seen, history>>

\* A limiter on failures charges every status but a success.
BadCharge(t, i) == IF i = 1 /\ status[t] # "success" THEN 1 ELSE 0  \* only the first
Charge(t, i) == IF Modes[i] = "After" /\ status[t] # "success" THEN 1 ELSE 0

(* The limiters on failures are told in order; each has its own mutex.      *)
TellLimiter(t) ==
  /\ pc[t] = "counting"
  /\ next[t] \in Limiter
  /\ told' = [told EXCEPT ![next[t]] = @ + Charge(t, next[t])]
  /\ next' = [next EXCEPT ![t] = @ + 1]
  /\ UNCHANGED <<health, metrics, pc, request, urls, node, reply, failures, lost, seen,
                 history>>

Respond(t) ==
  /\ pc[t] = "counting"
  /\ next[t] \notin Limiter
  /\ Leave(t)
  /\ UNCHANGED <<health, metrics, charges, history>>

(* The client hangs up and the handler is dropped where it awaits.  Nothing *)
(* is awaited between the look for the counters and their insertion, nor    *)
(* after the last limiter.                                                  *)
HangUp(t) ==
  /\ MayHangUp
  /\ pc[t] \notin {"idle", "registering"}
  /\ pc[t] = "counting" => next[t] \in Limiter
  /\ LoseAnswer(t)

(* The health checker changes its mind about a node.                        *)
FlipHealth(n) ==
  /\ flips < MaxFlips
  /\ flips' = flips + 1
  /\ healthy' = IF n \in healthy THEN healthy \ {n} ELSE healthy \cup {n}
  /\ seen' = [t \in Task |-> IF pc[t] = "idle" THEN {} ELSE seen[t] \cup healthy']
  /\ UNCHANGED <<metrics, pc, request, urls, node, reply, next, charges, history>>

Admission(t) ==
  Receive(t) \/ TurnAway(t) \/ PassFilters(t) \/ LimiterPasses(t) \/ LimiterDenies(t)

Routing(t) == Match(t) \/ FailToRoute(t) \/ Pin(t) \/ Route(t)

Counters(t) ==
  FindCounters(t) \/ MissCounters(t) \/ Register(t) \/ RegisterTwice(t) \/ Insert(t)

Forwarding(t) ==
  \/ Unreachable(t) \/ Answer(t) \/ UnusableBody(t) \/ ReadBody(t) \/ TellLimiter(t)
  \/ Respond(t) \/ HangUp(t)

Quiet ==
  /\ requests = MaxRequests
  /\ flips = MaxFlips
  /\ \A t \in Task : pc[t] = "idle"
  /\ UNCHANGED vars

Next ==
  \/ \E t \in Task : Admission(t) \/ Routing(t) \/ Counters(t) \/ Forwarding(t)
  \/ \E n \in Node : FlipHealth(n)
  \/ Quiet

Spec == Init /\ [][Next]_vars

----------------------------------------------------------------------------
Chosen == {"looking", "registering", "inserting", "sending", "answered", "counting"}

(* A request goes to a node of its pool that the health checker marked      *)
(* healthy at some time since the request arrived, whatever verdicts fall   *)
(* while it waits for the pin limiter or for the metrics.                   *)
RoutedWasHealthy ==
  \A t \in Task : pc[t] \in Chosen => node[t] \in Pool[kind[t]] \cap seen[t]

(* The name on a response leads back to the node that answered: it is the   *)
(* name of one pinnable node, and that is the node behind the answer, what- *)
(* ever redirects it followed and whatever name the upstream sent.          *)
NameLeadsBack ==
  \A t \in Task : \A x \in named[t] :
    /\ kind[t] = "read"
    /\ {n \in Pinnable : NameOf[n] = x} = {by[t]}

(* The counters an answer is counted with are in the map: the unwrap on the *)
(* second look cannot fail.                                                 *)
CountersPresent == \A t \in Task : pc[t] = "sending" => HostAt(t) \in held

(* The counters of a host are made once: no two requests are about to put   *)
(* counters of one host into the map, and none replaces what is there.      *)
OneRegistration ==
  \A s, t \in Task :
    pc[s] = "inserting" /\ pc[t] = "inserting" /\ HostAt(s) = HostAt(t)
      => s = t /\ HostAt(s) \in registered \ held

\* The requests counted for a host whose outcome is not.
UnderWay(h) == {t \in Task : pc[t] \in {"inserting", "sending"} /\ HostAt(t) = h}

(* No host has more outcomes than requests sent to it, counting the ones    *)
(* under way, however answers were redirected.                              *)
OutcomesCovered ==
  \A h \in Host : outcomes[h] + Cardinality(UnderWay(h)) <= processed[h]

\* The failing answers limiter i is still to be told of.
Owed(i) ==
  {t \in Task : /\ status[t] # "success"
                /\ pc[t] = "answered" \/ (pc[t] = "counting" /\ next[t] <= i)}

(* Every limiter on failures has the same view of the answers: it has       *)
(* charged or is about to charge every failing answer, except those whose   *)
(* request ended in the middle.                                             *)
LimitersAgree ==
  \A i \in Limiter :
    Modes[i] = "After" =>
      LET known == told[i] + Cardinality(Owed(i))
      IN  known <= failures /\ failures <= known + lost

InFlight(n) == Cardinality({t \in Task : pc[t] \in Chosen /\ node[t] = n})

(* default_config.toml on routing_mode: "least_connections will send to     *)
(* servers with the least number of current connections, allowing for more  *)
(* requests to servers with higher weight": of the matched nodes, a request *)
(* that asks for none by name goes to one with the fewest requests under    *)
(* way for its weight.                                                      *)
LeastConnections ==
  [][\A t \in Task :
       pc[t] = "choosing" /\ pc'[t] \in Chosen /\ Asked(t) = {} =>
         \A m \in urls[t] : InFlight(node'[t]) * Weight[m] <= InFlight(m) * Weight[node'[t]]]_vars

(* Each registration of a host's counters is followed by an unwrap, which   *)
(* asserts that it cannot fail.                                             *)
RegistrationSucceeds == ~panicked
===============================================================================
