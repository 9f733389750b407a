---------------------------- MODULE FirewallProofs ----------------------------
(***************************************************************************)
(* What holds of the request pipeline for every set of connections, nodes  *)
(* and limiters, every topology build_node_set accepts and every number of *)
(* requests.                                                               *)
(***************************************************************************)
EXTENDS Firewall, FiniteSetTheorems, TLAPS

(* A request whose node is chosen has a node.  TypeOK alone is not          *)
(* inductive: the host of a request that registers counters is the host of  *)
(* a node only because of this.                                             *)
NodeInv == \A t \in Task : pc[t] \in Chosen => node[t] \in Node

TypeInv == TypeOK /\ NodeInv

----------------------------------------------------------------------------
(* What Leave does to one connection's locals.                              *)
LEMMA LeaveType ==
  ASSUME TypeInv, NEW t \in Task, Leave(t)
  PROVE  /\ pc' \in [Task -> Place]
         /\ kind' \in [Task -> Kind] /\ want' \in [Task -> Name \cup {None}]
         /\ urls' \in [Task -> SUBSET Node]
         /\ node' \in [Task -> Node \cup {None}] /\ by' \in [Task -> Node \cup {None}]
         /\ status' \in [Task -> {"success", "error", "other"}]
         /\ named' \in [Task -> SUBSET Name]
         /\ next' \in [Task -> Nat]
         /\ seen' \in [Task -> SUBSET Node]
         /\ NodeInv'
<1>1. pc' \in [Task -> Place] /\ NodeInv'
  BY DEF TypeInv, TypeOK, NodeInv, Leave, Goto, Place, Chosen
<1>2. kind' \in [Task -> Kind] /\ want' \in [Task -> Name \cup {None}]
  BY DEF TypeInv, TypeOK, Leave, Kind
<1>3. urls' \in [Task -> SUBSET Node] /\ seen' \in [Task -> SUBSET Node]
  BY DEF TypeInv, TypeOK, Leave
<1>4. named' \in [Task -> SUBSET Name]
  BY DEF TypeInv, TypeOK, Leave
<1>5. node' \in [Task -> Node \cup {None}] /\ by' \in [Task -> Node \cup {None}]
  BY DEF TypeInv, TypeOK, Leave
<1>6. /\ status' \in [Task -> {"success", "error", "other"}]
      /\ next' \in [Task -> Nat]
  BY DEF TypeInv, TypeOK, Leave
<1> QED
  BY <1>1, <1>2, <1>3, <1>4, <1>5, <1>6

(* A connection that moves on with its node unchanged, from a place where   *)
(* it has one to another, or to a place where it needs none.                *)
LEMMA GotoType ==
  ASSUME TypeInv, NEW t \in Task, NEW place \in Place, Goto(t, place), UNCHANGED node,
         place \in Chosen => pc[t] \in Chosen
  PROVE  pc' \in [Task -> Place] /\ NodeInv'
  BY DEF TypeInv, TypeOK, NodeInv, Goto

(* A count of requests per host stays one.                                  *)
LEMMA AddOneType ==
  ASSUME NEW f \in [Host -> Nat], NEW h \in Host
  PROVE  AddOne(f, h) \in [Host -> Nat]
  BY DEF AddOne

LEMMA HostAtType ==
  ASSUME NodeInv, NEW t \in Task, pc[t] \in Chosen
  PROVE  HostAt(t) \in Host
  BY DEF NodeInv, HostAt, Host

LEMMA AdmissionType ==
  ASSUME TypeInv, NEW t \in Task, Admission(t)
  PROVE  TypeInv'
<1> USE DEF health, metrics, charges, request, reply, history
<1>1. CASE Receive(t)
  <2>1. pc' \in [Task -> Place] /\ NodeInv'
    BY <1>1, GotoType DEF Receive, Place, Chosen
  <2>2. /\ kind' \in [Task -> Kind] /\ want' \in [Task -> Name \cup {None}]
        /\ seen' \in [Task -> SUBSET Node] /\ requests' \in Nat
    BY <1>1 DEF TypeInv, TypeOK, Receive
  <2> QED
    BY <1>1, <2>1, <2>2 DEF TypeInv, TypeOK, Receive
<1>2. CASE TurnAway(t)
  BY <1>2, LeaveType DEF TypeInv, TypeOK, TurnAway
<1>3. CASE PassFilters(t)
  <2>1. pc' \in [Task -> Place] /\ NodeInv'
    BY <1>3, GotoType DEF PassFilters, Place, Chosen
  <2> QED
    BY <1>3, <2>1 DEF TypeInv, TypeOK, PassFilters
<1>4. CASE LimiterPasses(t)
  <2>1. next' \in [Task -> Nat]
    BY <1>4 DEF TypeInv, TypeOK, LimiterPasses
  <2> QED
    BY <1>4, <2>1 DEF TypeInv, TypeOK, NodeInv, LimiterPasses
<1>5. CASE LimiterDenies(t)
  BY <1>5, LeaveType DEF TypeInv, TypeOK, LimiterDenies
<1> QED
  BY <1>1, <1>2, <1>3, <1>4, <1>5 DEF Admission

LEMMA RoutingType ==
  ASSUME TypeInv, NEW t \in Task, Routing(t)
  PROVE  TypeInv'
<1> USE DEF health, metrics, charges, request, reply, history
<1>1. CASE Match(t)
  <2>1. pc' \in [Task -> Place] /\ NodeInv'
    BY <1>1, GotoType DEF Match, Place, Chosen
  <2>2. urls' \in [Task -> SUBSET Node]
    BY <1>1 DEF TypeInv, TypeOK, Match, Matched
  <2> QED
    BY <1>1, <2>1, <2>2 DEF TypeInv, TypeOK, Match
<1>2. CASE FailToRoute(t)
  BY <1>2, LeaveType DEF TypeInv, TypeOK, FailToRoute
<1>3. ASSUME NEW n \in urls[t], Choose(t, n)
      PROVE  TypeInv'
  <2>1. n \in Node
    BY DEF TypeInv, TypeOK
  <2>2. pc' \in [Task -> Place] /\ node' \in [Task -> Node \cup {None}] /\ NodeInv'
    BY <1>3, <2>1 DEF TypeInv, TypeOK, NodeInv, Choose, Goto, Place, Chosen
  <2>3. urls' \in [Task -> SUBSET Node] /\ want' \in [Task -> Name \cup {None}]
    BY <1>3 DEF TypeInv, TypeOK, Choose
  <2> QED
    BY <1>3, <2>2, <2>3 DEF TypeInv, TypeOK, Choose
<1>4. CASE Pin(t)
  BY <1>3, <1>4 DEF Pin, Asked
<1>5. CASE Route(t)
  BY <1>3, <1>5 DEF Route, Candidates
<1> QED
  BY <1>1, <1>2, <1>4, <1>5 DEF Routing

LEMMA CountersType ==
  ASSUME TypeInv, NEW t \in Task, Counters(t)
  PROVE  TypeInv'
<1> USE DEF health, metrics, charges, request, reply, history
<1>1. CASE FindCounters(t)
  <2>1. pc' \in [Task -> Place] /\ NodeInv'
    BY <1>1, GotoType DEF FindCounters, Place, Chosen
  <2>2. HostAt(t) \in Host
    BY <1>1, HostAtType DEF TypeInv, FindCounters, Chosen
  <2> QED
    BY <1>1, <2>1, <2>2, AddOneType DEF TypeInv, TypeOK, FindCounters
<1>2. CASE MissCounters(t)
  <2>1. pc' \in [Task -> Place] /\ NodeInv'
    BY <1>2, GotoType DEF MissCounters, Place, Chosen
  <2> QED
    BY <1>2, <2>1 DEF TypeInv, TypeOK, MissCounters
<1>3. CASE Register(t)
  <2>1. pc' \in [Task -> Place] /\ NodeInv'
    BY <1>3, GotoType DEF Register, Place, Chosen
  <2>2. HostAt(t) \in Host
    BY <1>3, HostAtType DEF TypeInv, Register, Chosen
  <2> QED
    BY <1>3, <2>1, <2>2, AddOneType DEF TypeInv, TypeOK, Register
<1>4. CASE RegisterTwice(t)
  BY <1>4, LeaveType DEF TypeInv, TypeOK, RegisterTwice
<1>5. CASE Insert(t)
  <2>1. pc' \in [Task -> Place] /\ NodeInv'
    BY <1>5, GotoType DEF Insert, Place, Chosen
  <2>2. HostAt(t) \in Host
    BY <1>5, HostAtType DEF TypeInv, Insert, Chosen
  <2> QED
    BY <1>5, <2>1, <2>2 DEF TypeInv, TypeOK, Insert
<1> QED
  BY <1>1, <1>2, <1>3, <1>4, <1>5 DEF Counters

LEMMA ForwardingType ==
  ASSUME TypeInv, NEW t \in Task, Forwarding(t)
  PROVE  TypeInv'
<1> USE DEF health, metrics, charges, request, reply, history
<1>1. CASE Unreachable(t)
  BY <1>1, LeaveType DEF TypeInv, TypeOK, Unreachable
<1>2. ASSUME NEW from \in Node \cup {None}, NEW s \in {"success", "error", "other"},
             NEW sent, AnswerFrom(t, from, s, sent)
      PROVE  TypeInv'
  <2>1. pc' \in [Task -> Place] /\ NodeInv'
    BY <1>2, GotoType DEF AnswerFrom, Place, Chosen
  <2>2. HostAt(t) \in Host /\ node[t] \in Node
    BY <1>2, HostAtType DEF TypeInv, NodeInv, AnswerFrom, Chosen
  <2>3. outcomes' \in [Host -> Nat]
    BY <1>2, <2>2, AddOneType DEF TypeInv, TypeOK, AnswerFrom, Tally
  <2>4. Names(t, from, sent) \subseteq Name
    BY <2>2 DEF Names, Name
  <2>5. named' \in [Task -> SUBSET Name]
    BY <1>2, <2>4 DEF TypeInv, TypeOK, AnswerFrom
  <2>6. /\ by' \in [Task -> Node \cup {None}]
        /\ status' \in [Task -> {"success", "error", "other"}]
        /\ failures' \in Nat
    BY <1>2 DEF TypeInv, TypeOK, AnswerFrom
  <2> QED
    BY <1>2, <2>1, <2>3, <2>5, <2>6 DEF TypeInv, TypeOK, AnswerFrom
<1>3. CASE LoseAnswer(t)
  <2>1. lost' \in Nat
    BY <1>3 DEF TypeInv, TypeOK, LoseAnswer
  <2> QED
    BY <1>3, <2>1, LeaveType DEF TypeInv, TypeOK, LoseAnswer
<1>4. CASE ReadBody(t)
  <2>1. pc' \in [Task -> Place] /\ NodeInv'
    BY <1>4, GotoType DEF ReadBody, Place, Chosen
  <2>2. next' \in [Task -> Nat]
    BY <1>4 DEF TypeInv, TypeOK, ReadBody
  <2> QED
    BY <1>4, <2>1, <2>2 DEF TypeInv, TypeOK, ReadBody
<1>5. CASE TellLimiter(t)
  <2>1. told' \in [Limiter -> Nat]
    BY <1>5 DEF TypeInv, TypeOK, TellLimiter, Charge
  <2>2. next' \in [Task -> Nat]
    BY <1>5 DEF TypeInv, TypeOK, TellLimiter
  <2> QED
    BY <1>5, <2>1, <2>2 DEF TypeInv, TypeOK, NodeInv, TellLimiter
<1>6. CASE Respond(t)
  BY <1>6, LeaveType DEF TypeInv, TypeOK, Respond
<1> QED
  BY <1>1, <1>2, <1>3, <1>4, <1>5, <1>6 DEF Forwarding, Answer, UnusableBody, HangUp

LEMMA TypeInductive == TypeInv /\ [Next]_vars => TypeInv'
<1> SUFFICES ASSUME TypeInv, [Next]_vars
             PROVE  TypeInv'
  OBVIOUS
<1>1. ASSUME NEW n \in Node, FlipHealth(n)
      PROVE  TypeInv'
  <2>1. healthy' \subseteq Node /\ flips' \in Nat
    BY <1>1 DEF TypeInv, TypeOK, FlipHealth
  <2>2. seen' \in [Task -> SUBSET Node]
    BY <1>1, <2>1 DEF TypeInv, TypeOK, FlipHealth
  <2> QED
    BY <1>1, <2>1, <2>2
    DEF TypeInv, TypeOK, NodeInv, FlipHealth, metrics, charges, request, reply, history
<1>2. CASE UNCHANGED vars
  BY <1>2 DEF TypeInv, TypeOK, NodeInv, vars, health, metrics, charges, request, reply,
              history
<1>3. CASE \E t \in Task : Admission(t) \/ Routing(t) \/ Counters(t) \/ Forwarding(t)
  BY <1>3, AdmissionType, RoutingType, CountersType, ForwardingType
<1> QED
  BY <1>1, <1>2, <1>3 DEF Next, Quiet

LEMMA TypeInvHolds == Spec => []TypeInv
<1>1. Init => TypeInv
  <2> SUFFICES ASSUME Init
               PROVE  TypeInv
    OBVIOUS
  <2>1. told \in [Limiter -> Nat] /\ next \in [Task -> Nat]
    BY DEF Init
  <2> QED
    BY <2>1 DEF Init, TypeInv, TypeOK, NodeInv, Place, Kind, Chosen
<1> QED
  BY <1>1, TypeInductive, PTL DEF Spec

(* Every state of the pipeline is well typed.                               *)
THEOREM TypeCorrect == Spec => []TypeOK
<1>1. TypeInv => TypeOK
  BY DEF TypeInv
<1> QED
  BY <1>1, TypeInvHolds, PTL

----------------------------------------------------------------------------
Step(t) == Admission(t) \/ Routing(t) \/ Counters(t) \/ Forwarding(t)

(* The locals of a handler are its own: a step of one connection leaves     *)
(* those of every other alone, and the verdicts of the health checker.      *)
LEMMA OthersUntouched ==
  ASSUME TypeOK, NEW t \in Task, Step(t), NEW s \in Task, s # t
  PROVE  /\ pc'[s] = pc[s] /\ kind'[s] = kind[s] /\ urls'[s] = urls[s]
         /\ node'[s] = node[s] /\ by'[s] = by[s] /\ named'[s] = named[s]
         /\ status'[s] = status[s] /\ next'[s] = next[s] /\ seen'[s] = seen[s]
<1> USE DEF TypeOK, health, metrics, charges, request, reply, history, Goto, Leave
<1>1. CASE Admission(t)
  BY <1>1 DEF Admission, Receive, TurnAway, PassFilters, LimiterPasses, LimiterDenies
<1>2. CASE Routing(t)
  BY <1>2 DEF Routing, Match, FailToRoute, Pin, Route, Choose
<1>3. CASE Counters(t)
  BY <1>3 DEF Counters, FindCounters, MissCounters, Register, RegisterTwice, Insert
<1>4. CASE Forwarding(t)
  BY <1>4 DEF Forwarding, Unreachable, Answer, AnswerFrom, UnusableBody, LoseAnswer,
              ReadBody, TellLimiter, Respond, HangUp
<1> QED
  BY <1>1, <1>2, <1>3, <1>4 DEF Step

LEMMA VerdictsUntouched ==
  ASSUME NEW t \in Task, Step(t)
  PROVE  healthy' = healthy
<1> USE DEF health
<1>1. CASE Admission(t)
  BY <1>1 DEF Admission, Receive, TurnAway, PassFilters, LimiterPasses, LimiterDenies
<1>2. CASE Routing(t)
  BY <1>2 DEF Routing, Match, FailToRoute, Pin, Route, Choose
<1>3. CASE Counters(t)
  BY <1>3 DEF Counters, FindCounters, MissCounters, Register, RegisterTwice, Insert
<1>4. CASE Forwarding(t)
  BY <1>4 DEF Forwarding, Unreachable, Answer, AnswerFrom, UnusableBody, LoseAnswer,
              ReadBody, TellLimiter, Respond, HangUp
<1> QED
  BY <1>1, <1>2, <1>3, <1>4 DEF Step

(* A connection whose handler has ended is idle and holds nothing.          *)
LEMMA LeaveOwn ==
  ASSUME TypeOK, NEW t \in Task, Leave(t)
  PROVE  pc'[t] = "idle" /\ named'[t] = {}
  BY DEF TypeOK, Leave, Goto

(* A request that has its nodes but no node yet holds nodes of its pool     *)
(* that were healthy while it was there; so does the one chosen.            *)
MatchAt(t) ==
  /\ pc[t] # "idle" => healthy \subseteq seen[t]
  /\ pc[t] = "choosing" => urls[t] \subseteq Pool[kind[t]] \cap seen[t]
  /\ pc[t] \in Chosen => node[t] \in Pool[kind[t]] \cap seen[t]

MatchInv == \A t \in Task : MatchAt(t)

LEMMA MatchStep ==
  ASSUME TypeOK, NEW t \in Task, MatchAt(t), Step(t)
  PROVE  MatchAt(t)'
<1> USE DEF TypeOK, MatchAt, Chosen, health, metrics, charges, request, reply, history
<1>1. CASE Leave(t)
  BY <1>1, LeaveOwn
<1>2. CASE Receive(t)
  BY <1>2 DEF Receive, Goto
<1>3. CASE PassFilters(t) \/ LimiterPasses(t)
  BY <1>3 DEF PassFilters, LimiterPasses, Goto
<1>4. CASE Match(t)
  BY <1>4 DEF Match, Matched, Goto
<1>5. CASE Pin(t) \/ Route(t)
  BY <1>5 DEF Pin, Route, Asked, Candidates, Choose, Goto
<1>6. CASE FindCounters(t) \/ MissCounters(t) \/ Register(t) \/ Insert(t)
  BY <1>6 DEF FindCounters, MissCounters, Register, Insert, Goto
<1>7. CASE Answer(t) \/ ReadBody(t) \/ TellLimiter(t)
  BY <1>7 DEF Answer, AnswerFrom, ReadBody, TellLimiter, Goto
<1> QED
  BY <1>1, <1>2, <1>3, <1>4, <1>5, <1>6, <1>7
  DEF Step, Admission, Routing, Counters, Forwarding, TurnAway, LimiterDenies,
      FailToRoute, RegisterTwice, Unreachable, UnusableBody, LoseAnswer, Respond, HangUp

(* A request goes to a node of its own pool that was marked healthy at some *)
(* time since the request arrived.                                          *)
THEOREM RoutedWasHealthyHolds == Spec => []RoutedWasHealthy
<1>1. Init => MatchInv
  BY DEF Init, MatchInv, MatchAt, Chosen
<1>2. TypeOK /\ MatchInv /\ [Next]_vars => MatchInv'
  <2> SUFFICES ASSUME TypeOK, MatchInv, [Next]_vars, NEW s \in Task
               PROVE  MatchAt(s)'
    BY DEF MatchInv
  <2>1. MatchAt(s)
    BY DEF MatchInv
  <2>2. ASSUME NEW t \in Task, Step(t)
        PROVE  MatchAt(s)'
    <3>1. CASE s = t
      BY <2>1, <2>2, <3>1, MatchStep
    <3>2. CASE s # t
      BY <2>1, <2>2, <3>2, OthersUntouched, VerdictsUntouched DEF MatchAt
    <3> QED
      BY <3>1, <3>2
  <2>3. ASSUME NEW n \in Node, FlipHealth(n)
        PROVE  MatchAt(s)'
    <3>1. UNCHANGED <<pc, kind, urls, node>>
      BY <2>3 DEF FlipHealth, request
    <3>2. pc[s] # "idle" => seen'[s] = seen[s] \cup healthy'
      BY <2>3 DEF FlipHealth
    <3> QED
      BY <2>1, <3>1, <3>2 DEF MatchAt, Chosen
  <2>4. CASE UNCHANGED vars
    BY <2>1, <2>4 DEF vars, health, request, MatchAt
  <2> QED
    BY <2>2, <2>3, <2>4 DEF Next, Quiet, Step
<1>3. MatchInv => RoutedWasHealthy
  BY DEF MatchInv, MatchAt, RoutedWasHealthy
<1> QED
  BY <1>1, <1>2, <1>3, TypeCorrect, PTL DEF Spec

----------------------------------------------------------------------------
(* The names of a response are decided once, with the answer.               *)
NameAt(t) ==
  named[t] # {} =>
    /\ kind[t] = "read"
    /\ by[t] \in Pinnable
    /\ named[t] = {NameOf[by[t]]}
    /\ pc[t] \in {"answered", "counting"}

NameInv == \A t \in Task : NameAt(t)

LEMMA NameStep ==
  ASSUME TypeOK, NEW t \in Task, NameAt(t), Step(t)
  PROVE  NameAt(t)'
<1> USE DEF TypeOK, NameAt, health, metrics, charges, request, reply, history
<1>1. CASE Leave(t)
  BY <1>1, LeaveOwn
<1>2. CASE Receive(t)
  BY <1>2 DEF Receive, Goto
<1>3. CASE PassFilters(t) \/ LimiterPasses(t) \/ Match(t)
  BY <1>3 DEF PassFilters, LimiterPasses, Match, Goto
<1>4. CASE Pin(t) \/ Route(t)
  BY <1>4 DEF Pin, Route, Choose, Goto
<1>5. CASE FindCounters(t) \/ MissCounters(t) \/ Register(t) \/ Insert(t)
  BY <1>5 DEF FindCounters, MissCounters, Register, Insert, Goto
<1>6. CASE Answer(t)
  BY <1>6 DEF Answer, AnswerFrom, Names, Goto
<1>7. CASE ReadBody(t) \/ TellLimiter(t)
  BY <1>7 DEF ReadBody, TellLimiter, Goto
<1> QED
  BY <1>1, <1>2, <1>3, <1>4, <1>5, <1>6, <1>7
  DEF Step, Admission, Routing, Counters, Forwarding, TurnAway, LimiterDenies,
      FailToRoute, RegisterTwice, Unreachable, UnusableBody, LoseAnswer, Respond, HangUp

(* The name a response carries is the name of the node that answered and of *)
(* no other pinnable node.  Rests on UniqueNames, which build_node_set      *)
(* enforces.                                                                *)
THEOREM NameLeadsBackHolds == Spec => []NameLeadsBack
<1>1. Init => NameInv
  BY DEF Init, NameInv, NameAt
<1>2. TypeOK /\ NameInv /\ [Next]_vars => NameInv'
  <2> SUFFICES ASSUME TypeOK, NameInv, [Next]_vars, NEW s \in Task
               PROVE  NameAt(s)'
    BY DEF NameInv
  <2>1. NameAt(s)
    BY DEF NameInv
  <2>2. ASSUME NEW t \in Task, Step(t)
        PROVE  NameAt(s)'
    <3>1. CASE s = t
      BY <2>1, <2>2, <3>1, NameStep
    <3>2. CASE s # t
      BY <2>1, <2>2, <3>2, OthersUntouched DEF NameAt
    <3> QED
      BY <3>1, <3>2
  <2>3. CASE UNCHANGED <<pc, kind, by, named>>
    BY <2>1, <2>3 DEF NameAt
  <2> QED
    BY <2>2, <2>3 DEF Next, Quiet, FlipHealth, Step, vars, request, reply
<1>3. NameInv => NameLeadsBack
  <2> SUFFICES ASSUME NameInv, NEW t \in Task, NEW x \in named[t]
               PROVE  kind[t] = "read" /\ {n \in Pinnable : NameOf[n] = x} = {by[t]}
    BY DEF NameLeadsBack
  <2>1. kind[t] = "read" /\ by[t] \in Pinnable /\ x = NameOf[by[t]]
    BY DEF NameInv, NameAt
  <2> QED
    BY <2>1, UniqueNames
<1> QED
  BY <1>1, <1>2, <1>3, TypeCorrect, PTL DEF Spec

----------------------------------------------------------------------------
(***************************************************************************)
(* The registry and the map.  A host in the map is registered, and the     *)
(* host of a request about to insert its counters is registered and not    *)
(* yet in the map: without that nothing keeps a second request from        *)
(* registering it.                                                         *)
(***************************************************************************)
Inserting(t) == pc[t] = "inserting"

MetricsInv ==
  /\ held \subseteq registered
  /\ \A t \in Task : Inserting(t) => HostAt(t) \in registered \ held
  /\ \A s, t \in Task : Inserting(s) /\ Inserting(t) /\ HostAt(s) = HostAt(t) => s = t
  /\ CountersPresent

(* Only three actions touch the registry or the map, or move a request to   *)
(* where it relies on them.                                                 *)
LEMMA MetricsFrame ==
  ASSUME TypeOK, NEW t \in Task, Step(t),
         ~Register(t), ~Insert(t), ~FindCounters(t)
  PROVE  \/ UNCHANGED <<registered, held>> /\ pc'[t] \notin {"inserting", "sending"}
         \/ UNCHANGED <<registered, held, pc, node>>
<1> USE DEF TypeOK, metrics
<1>1. CASE Leave(t) /\ UNCHANGED metrics
  BY <1>1, LeaveOwn
<1>2. CASE Receive(t) \/ PassFilters(t) \/ LimiterPasses(t)
  BY <1>2 DEF Receive, PassFilters, LimiterPasses, Goto
<1>3. CASE Match(t) \/ Pin(t) \/ Route(t) \/ MissCounters(t)
  BY <1>3 DEF Match, Pin, Route, Choose, MissCounters, Goto
<1>4. CASE Answer(t) \/ ReadBody(t)
  BY <1>4 DEF Answer, AnswerFrom, ReadBody, Goto
<1>5. CASE TellLimiter(t)
  BY <1>5 DEF TellLimiter
<1> QED
  BY <1>1, <1>2, <1>3, <1>4, <1>5
  DEF Step, Admission, Routing, Counters, Forwarding, TurnAway, LimiterDenies,
      FailToRoute, RegisterTwice, Unreachable, UnusableBody, LoseAnswer, Respond, HangUp

LEMMA MetricsStep ==
  ASSUME TypeOK, MetricsInv, NEW t \in Task, Step(t)
  PROVE  MetricsInv'
<1> USE DEF MetricsInv, CountersPresent, HostAt, Inserting
<1>o. ASSUME NEW s \in Task, s # t
      PROVE  pc'[s] = pc[s] /\ node'[s] = node[s]
  BY <1>o, OthersUntouched
<1>1. CASE Register(t)
  <2>1. /\ HostAt(t) \notin registered /\ registered' = registered \cup {HostAt(t)}
        /\ held' = held /\ pc'[t] = "inserting" /\ node' = node
    BY <1>1 DEF TypeOK, Register, Goto
  <2> QED
    BY <1>o, <2>1
<1>2. CASE Insert(t)
  <2>1. /\ pc[t] = "inserting" /\ held' = held \cup {HostAt(t)}
        /\ registered' = registered /\ pc'[t] = "sending" /\ node' = node
    BY <1>2 DEF TypeOK, Insert, Goto
  <2> QED
    BY <1>o, <2>1
<1>3. CASE FindCounters(t)
  <2>1. /\ HostAt(t) \in held /\ held' = held /\ registered' = registered
        /\ pc'[t] = "sending" /\ node' = node
    BY <1>3 DEF TypeOK, FindCounters, IsHeld, Goto
  <2> QED
    BY <1>o, <2>1
<1>4. CASE UNCHANGED <<registered, held>> /\ pc'[t] \notin {"inserting", "sending"}
  BY <1>o, <1>4
<1>5. CASE UNCHANGED <<registered, held, pc, node>>
  BY <1>5
<1> QED
  BY <1>1, <1>2, <1>3, <1>4, <1>5, MetricsFrame

LEMMA MetricsInvHolds == Spec => []MetricsInv
<1>1. Init => MetricsInv
  BY DEF Init, MetricsInv, CountersPresent, Inserting
<1>2. TypeOK /\ MetricsInv /\ [Next]_vars => MetricsInv'
  <2> SUFFICES ASSUME TypeOK, MetricsInv, [Next]_vars
               PROVE  MetricsInv'
    OBVIOUS
  <2>1. CASE UNCHANGED <<registered, held, pc, node>>
    BY <2>1 DEF MetricsInv, CountersPresent, HostAt, Inserting
  <2>2. ASSUME NEW t \in Task, Step(t)
        PROVE  MetricsInv'
    BY <2>2, MetricsStep
  <2> QED
    BY <2>1, <2>2 DEF Next, Quiet, FlipHealth, Step, vars, metrics
<1> QED
  BY <1>1, <1>2, TypeCorrect, PTL DEF Spec

(* The counters of the node a request was sent to are in the map when its   *)
(* answer arrives, whatever the other connections do and whoever hangs up.  *)
THEOREM CountersPresentHolds == Spec => []CountersPresent
<1>1. MetricsInv => CountersPresent
  BY DEF MetricsInv
<1> QED
  BY <1>1, MetricsInvHolds, PTL

(* At most one request is about to put counters of a host into the map, and *)
(* none are there yet.                                                      *)
THEOREM OneRegistrationHolds == Spec => []OneRegistration
<1>1. MetricsInv => OneRegistration
  BY DEF MetricsInv, OneRegistration, Inserting
<1> QED
  BY <1>1, MetricsInvHolds, PTL

----------------------------------------------------------------------------
(***************************************************************************)
(* The metrics of a host count a request when it is sent and its outcome   *)
(* when the answer is there, by whichever host answers.  The difference is *)
(* at least the requests that are between the two.                         *)
(***************************************************************************)
LEMMA UnderWayType ==
  ASSUME NEW h
  PROVE  IsFiniteSet(UnderWay(h)) /\ Cardinality(UnderWay(h)) \in Nat
<1>1. UnderWay(h) \in SUBSET Task
  BY DEF UnderWay
<1> QED
  BY <1>1, TaskAssumption, FS_Subset, FS_CardinalityType

(* What a step does to the requests under way to a host is what it does to  *)
(* its own.                                                                 *)
LEMMA UnderWayStep ==
  ASSUME TypeOK, NEW t \in Task, Step(t), NEW h \in Host
  PROVE  /\ UnderWay(h)' \subseteq UnderWay(h) \cup {t}
         /\ t \notin UnderWay(h)' => UnderWay(h)' = UnderWay(h) \ {t}
         /\ t \in UnderWay(h)' => UnderWay(h)' = UnderWay(h) \cup {t}
<1>1. ASSUME NEW s \in Task, s # t
      PROVE  s \in UnderWay(h)' <=> s \in UnderWay(h)
  BY <1>1, OthersUntouched DEF UnderWay, HostAt
<1>2. UnderWay(h) \subseteq Task /\ UnderWay(h)' \subseteq Task
  BY DEF UnderWay
<1> QED
  BY <1>1, <1>2

(* Sending counts a request that was not under way.                         *)
LEMMA SendingCounts ==
  ASSUME TypeInv, NEW t \in Task, FindCounters(t) \/ Register(t), NEW h \in Host
  PROVE  /\ outcomes' = outcomes
         /\ t \notin UnderWay(h)
         /\ processed'[h] = processed[h] + IF t \in UnderWay(h)' THEN 1 ELSE 0
<1>1. /\ outcomes' = outcomes /\ processed' = AddOne(processed, HostAt(t))
      /\ pc[t] \notin {"inserting", "sending"} /\ pc'[t] \in {"inserting", "sending"}
      /\ node' = node /\ processed \in [Host -> Nat]
  BY DEF TypeInv, TypeOK, FindCounters, Register, Goto
<1> QED
  BY <1>1 DEF AddOne, UnderWay, HostAt

(* An answer takes a request that was under way off, and counts at most     *)
(* once, for the host it was sent to.                                       *)
LEMMA AnswerCounts ==
  ASSUME TypeInv, NEW t \in Task, Answer(t), NEW h \in Host
  PROVE  /\ processed' = processed
         /\ t \notin UnderWay(h)'
         /\ outcomes'[h] \in {outcomes[h], outcomes[h] + IF t \in UnderWay(h) THEN 1 ELSE 0}
<1>1. /\ processed' = processed /\ pc[t] = "sending" /\ pc'[t] = "answered"
      /\ outcomes' \in {outcomes, AddOne(outcomes, HostAt(t))}
      /\ outcomes \in [Host -> Nat]
  BY DEF TypeInv, TypeOK, Answer, AnswerFrom, Tally, Goto
<1> QED
  BY <1>1 DEF AddOne, UnderWay

(* Every other step leaves the counts alone and sends nothing.              *)
LEMMA CountsFrame ==
  ASSUME TypeOK, NEW t \in Task, Step(t),
         ~FindCounters(t), ~Register(t), ~Answer(t), NEW h \in Host
  PROVE  /\ UNCHANGED <<processed, outcomes>>
         /\ t \in UnderWay(h)' => t \in UnderWay(h)
<1> USE DEF TypeOK, UnderWay, HostAt, metrics, health
<1>1. CASE Leave(t) /\ UNCHANGED metrics
  BY <1>1, LeaveOwn
<1>2. CASE Receive(t) \/ PassFilters(t) \/ LimiterPasses(t)
  BY <1>2 DEF Receive, PassFilters, LimiterPasses, Goto
<1>3. CASE Match(t) \/ Pin(t) \/ Route(t) \/ MissCounters(t)
  BY <1>3 DEF Match, Pin, Route, Choose, MissCounters, Goto
<1>4. CASE Insert(t)
  BY <1>4 DEF Insert, Goto
<1>5. CASE ReadBody(t) \/ TellLimiter(t)
  BY <1>5 DEF ReadBody, TellLimiter, Goto
<1> QED
  BY <1>1, <1>2, <1>3, <1>4, <1>5
  DEF Step, Admission, Routing, Counters, Forwarding, TurnAway, LimiterDenies,
      FailToRoute, RegisterTwice, Unreachable, UnusableBody, LoseAnswer, Respond, HangUp

LEMMA OutcomesStep ==
  ASSUME TypeInv, OutcomesCovered, NEW t \in Task, Step(t)
  PROVE  OutcomesCovered'
<1> SUFFICES ASSUME NEW h \in Host
             PROVE  outcomes'[h] + Cardinality(UnderWay(h)') <= processed'[h]
  BY DEF OutcomesCovered
<1>1. /\ outcomes[h] \in Nat /\ processed[h] \in Nat /\ TypeOK
      /\ outcomes[h] + Cardinality(UnderWay(h)) <= processed[h]
  BY DEF TypeInv, TypeOK, OutcomesCovered
<1>2. IsFiniteSet(UnderWay(h)) /\ Cardinality(UnderWay(h)) \in Nat
  BY UnderWayType
<1>3. ASSUME t \in UnderWay(h)'
      PROVE  Cardinality(UnderWay(h)') =
               Cardinality(UnderWay(h)) + IF t \in UnderWay(h) THEN 0 ELSE 1
  BY <1>1, <1>2, <1>3, UnderWayStep, FS_AddElement
<1>4. ASSUME t \notin UnderWay(h)'
      PROVE  Cardinality(UnderWay(h)') =
               Cardinality(UnderWay(h)) - IF t \in UnderWay(h) THEN 1 ELSE 0
  BY <1>1, <1>2, <1>4, UnderWayStep, FS_RemoveElement
<1>5. CASE FindCounters(t) \/ Register(t)
  BY <1>1, <1>2, <1>3, <1>4, <1>5, SendingCounts
<1>6. CASE Answer(t)
  BY <1>1, <1>2, <1>4, <1>6, AnswerCounts
<1>7. CASE ~FindCounters(t) /\ ~Register(t) /\ ~Answer(t)
  <2>1. /\ UNCHANGED <<processed, outcomes>>
        /\ t \in UnderWay(h)' => t \in UnderWay(h)
    BY <1>1, <1>7, CountsFrame
  <2> QED
    BY <1>1, <1>2, <1>3, <1>4, <2>1
<1> QED
  BY <1>5, <1>6, <1>7

(* No host ever has more outcomes than requests sent to it, for every       *)
(* number of connections and whatever nodes its answers were redirected to: *)
(* the outcome goes to the host the request was counted for.                *)
THEOREM OutcomesCoveredHolds == Spec => []OutcomesCovered
<1>1. Init => OutcomesCovered
  <2> SUFFICES ASSUME Init, NEW h \in Host
               PROVE  outcomes[h] + Cardinality(UnderWay(h)) <= processed[h]
    BY DEF OutcomesCovered
  <2>1. UnderWay(h) = {} /\ outcomes[h] = 0 /\ processed[h] = 0
    BY DEF Init, UnderWay
  <2> QED
    BY <2>1, FS_EmptySet
<1>2. TypeInv /\ OutcomesCovered /\ [Next]_vars => OutcomesCovered'
  <2> SUFFICES ASSUME TypeInv, OutcomesCovered, [Next]_vars
               PROVE  OutcomesCovered'
    OBVIOUS
  <2>1. CASE UNCHANGED <<processed, outcomes, pc, node>>
    BY <2>1 DEF OutcomesCovered, UnderWay, HostAt
  <2>2. ASSUME NEW t \in Task, Step(t)
        PROVE  OutcomesCovered'
    BY <2>2, OutcomesStep
  <2> QED
    BY <2>1, <2>2 DEF Next, Quiet, FlipHealth, Step, vars, metrics
<1> QED
  BY <1>1, <1>2, TypeInvHolds, PTL DEF Spec

----------------------------------------------------------------------------
(***************************************************************************)
(* The limiters on failures.  A failing answer is owed to limiter i from   *)
(* its arrival until the loop has passed i, and whoever ends the request   *)
(* in between is counted in lost.  The loop's position is needed: one at 0 *)
(* would be outside the list and yet owe every limiter.                    *)
(***************************************************************************)
OwedInv ==
  /\ LimitersAgree
  /\ \A t \in Task : next[t] # 0

LEMMA OwedType ==
  ASSUME NEW i
  PROVE  IsFiniteSet(Owed(i)) /\ Cardinality(Owed(i)) \in Nat
<1>1. Owed(i) \in SUBSET Task
  BY DEF Owed
<1> QED
  BY <1>1, TaskAssumption, FS_Subset, FS_CardinalityType

(* Of what is owed to a limiter, a step changes what its own request owes.  *)
LEMMA OwedStep ==
  ASSUME TypeOK, NEW t \in Task, Step(t), NEW i \in Limiter
  PROVE  /\ t \in Owed(i)' => Owed(i)' = Owed(i) \cup {t}
         /\ t \notin Owed(i)' => Owed(i)' = Owed(i) \ {t}
<1>1. ASSUME NEW s \in Task, s # t
      PROVE  s \in Owed(i)' <=> s \in Owed(i)
  BY <1>1, OthersUntouched DEF Owed
<1>2. Owed(i) \subseteq Task /\ Owed(i)' \subseteq Task
  BY DEF Owed
<1> QED
  BY <1>1, <1>2

(* The debt of one request to limiter i: what is not told of it.            *)
Debt(t, i) == IF t \in Owed(i) THEN 1 ELSE 0

LEMMA OwedChange ==
  ASSUME TypeOK, NEW t \in Task, Step(t), NEW i \in Limiter
  PROVE  /\ Cardinality(Owed(i)) \in Nat /\ Cardinality(Owed(i)') \in Nat
         /\ Cardinality(Owed(i)') = Cardinality(Owed(i)) + Debt(t, i)' - Debt(t, i)
<1>1. IsFiniteSet(Owed(i)) /\ Cardinality(Owed(i)) \in Nat
  BY OwedType
<1>2. CASE t \in Owed(i)'
  <2>1. Cardinality(Owed(i)') =
          IF t \in Owed(i) THEN Cardinality(Owed(i)) ELSE Cardinality(Owed(i)) + 1
    BY <1>1, <1>2, OwedStep, FS_AddElement
  <2>2. Debt(t, i)' = 1
    BY <1>2 DEF Debt
  <2> QED
    BY <1>1, <2>1, <2>2 DEF Debt
<1>3. CASE t \notin Owed(i)'
  <2>1. Cardinality(Owed(i)') =
          IF t \in Owed(i) THEN Cardinality(Owed(i)) - 1 ELSE Cardinality(Owed(i))
    BY <1>1, <1>3, OwedStep, FS_RemoveElement
  <2>2. Debt(t, i)' = 0
    BY <1>3 DEF Debt
  <2>3. Cardinality(Owed(i)') \in Nat
    BY <1>1, <1>3, OwedStep, FS_RemoveElement, FS_CardinalityType
  <2> QED
    BY <1>1, <2>1, <2>2, <2>3 DEF Debt
<1> QED
  BY <1>2, <1>3

(* A request that ends settles its debt as lost, whether it owes nothing,   *)
(* something or everything.                                                 *)
LEMMA LosingSettles ==
  ASSUME TypeOK, NEW t \in Task, LoseAnswer(t), NEW i \in Limiter
  PROVE  /\ UNCHANGED <<told, failures>> /\ Debt(t, i)' = 0
         /\ lost' \in Nat /\ lost' >= lost + Debt(t, i)
<1>1. /\ UNCHANGED <<told, failures>> /\ pc'[t] = "idle"
      /\ lost' = lost + IF status[t] = "success" THEN 0 ELSE 1
      /\ lost \in Nat
  BY DEF TypeOK, LoseAnswer, Leave, Goto
<1>2. t \notin Owed(i)' /\ (t \in Owed(i) => status[t] # "success")
  BY <1>1 DEF Owed
<1> QED
  BY <1>1, <1>2 DEF Debt

(* The arrival of a failing answer makes it owed to every limiter.          *)
LEMMA ArrivalOwes ==
  ASSUME TypeOK, NEW t \in Task, Answer(t), NEW i \in Limiter
  PROVE  /\ UNCHANGED <<told, lost>>
         /\ Debt(t, i) = 0 /\ failures' = failures + Debt(t, i)'
<1>1. PICK s \in {"success", "error", "other"} :
        /\ UNCHANGED <<told, lost>> /\ pc[t] = "sending" /\ pc'[t] = "answered"
        /\ status'[t] = s /\ failures' = failures + IF s = "success" THEN 0 ELSE 1
  BY DEF TypeOK, Answer, AnswerFrom, Goto
<1>2. t \notin Owed(i) /\ (t \in Owed(i)' <=> s # "success")
  BY <1>1 DEF Owed
<1> QED
  BY <1>1, <1>2 DEF Debt

(* A limiter on failures that is told charges what it was owed; telling one *)
(* leaves the others' debts alone.                                          *)
LEMMA TellingPays ==
  ASSUME TypeOK, NEW t \in Task, TellLimiter(t), NEW i \in Limiter, Modes[i] = "After"
  PROVE  /\ UNCHANGED <<failures, lost>>
         /\ told'[i] = told[i] + Debt(t, i) - Debt(t, i)'
         /\ next'[t] # 0
<1>1. /\ UNCHANGED <<failures, lost, status, pc>> /\ pc[t] = "counting"
      /\ next[t] \in Limiter /\ next'[t] = next[t] + 1 /\ next[t] \in Nat
      /\ told' = [told EXCEPT ![next[t]] = @ + Charge(t, next[t])]
      /\ told \in [Limiter -> Nat] /\ i \in Nat
  BY DEF TypeOK, TellLimiter, reply, Limiter
<1>2. t \in Owed(i) <=> status[t] # "success" /\ next[t] <= i
  BY <1>1 DEF Owed
<1>3. t \in Owed(i)' <=> status[t] # "success" /\ next[t] + 1 <= i
  BY <1>1 DEF Owed
<1>4. CASE next[t] = i
  <2>1. told'[i] = told[i] + IF status[t] # "success" THEN 1 ELSE 0
    BY <1>1, <1>4 DEF Charge
  <2> QED
    BY <1>1, <1>2, <1>3, <1>4, <2>1 DEF Debt
<1>5. CASE next[t] # i
  <2>1. told'[i] = told[i] /\ (next[t] <= i <=> next[t] + 1 <= i)
    BY <1>1, <1>5
  <2> QED
    BY <1>1, <1>2, <1>3, <2>1 DEF Debt
<1> QED
  BY <1>4, <1>5

(* Every other step charges nobody and changes no debt.                     *)
LEMMA DebtFrame ==
  ASSUME TypeOK, NEW t \in Task, next[t] # 0, Step(t), NEW i \in Limiter,
         ~Answer(t), ~LoseAnswer(t), ~TellLimiter(t)
  PROVE  UNCHANGED <<told, failures, lost>> /\ Debt(t, i)' = Debt(t, i)
<1> USE DEF TypeOK, Debt, Owed, charges, reply
<1>1. CASE Leave(t) /\ UNCHANGED charges /\ pc[t] \notin {"answered", "counting"}
  BY <1>1, LeaveOwn
<1>2. CASE Respond(t)
  <2>1. /\ UNCHANGED charges /\ pc[t] = "counting" /\ next[t] \in Nat \ {0}
        /\ next[t] \notin Limiter /\ pc'[t] = "idle" /\ i \in Limiter
    BY <1>2, LeaveOwn DEF Respond
  <2>2. ~(next[t] <= i)
    BY <2>1, ModesAssumption DEF Limiter
  <2> QED
    BY <2>1, <2>2
<1>3. CASE Receive(t) \/ PassFilters(t) \/ LimiterPasses(t)
  BY <1>3 DEF Receive, PassFilters, LimiterPasses, Goto
<1>4. CASE Match(t) \/ Pin(t) \/ Route(t)
  BY <1>4 DEF Match, Pin, Route, Choose, Goto
<1>5. CASE FindCounters(t) \/ MissCounters(t) \/ Register(t) \/ Insert(t)
  BY <1>5 DEF FindCounters, MissCounters, Register, Insert, Goto
<1>6. CASE ReadBody(t)
  <2>1. /\ UNCHANGED <<charges, status>> /\ pc[t] = "answered" /\ pc'[t] = "counting"
        /\ next'[t] = 1 /\ 1 <= i
    BY <1>6 DEF ReadBody, Goto, Limiter
  <2> QED
    BY <2>1
<1> QED
  BY <1>1, <1>2, <1>3, <1>4, <1>5, <1>6
  DEF Step, Admission, Routing, Counters, Forwarding, TurnAway, LimiterDenies,
      FailToRoute, RegisterTwice, Unreachable, UnusableBody, HangUp

LEMMA PositionStep ==
  ASSUME TypeOK, NEW t \in Task, next[t] # 0, Step(t)
  PROVE  next'[t] # 0
<1> USE DEF TypeOK, reply
<1>1. CASE Leave(t)
  BY <1>1 DEF Leave
<1>2. CASE LimiterPasses(t) \/ TellLimiter(t)
  BY <1>2 DEF LimiterPasses, TellLimiter
<1>3. CASE ReadBody(t)
  BY <1>3 DEF ReadBody
<1>4. CASE next' = next
  BY <1>4
<1> QED
  BY <1>1, <1>2, <1>3, <1>4
  DEF Step, Admission, Routing, Counters, Forwarding, Receive, TurnAway, PassFilters,
      LimiterDenies, Match, FailToRoute, Pin, Route, Choose, FindCounters, MissCounters,
      Register, RegisterTwice, Insert, Unreachable, Answer, AnswerFrom, UnusableBody,
      LoseAnswer, Respond, HangUp

LEMMA AgreeStep ==
  ASSUME TypeOK, OwedInv, NEW t \in Task, Step(t)
  PROVE  LimitersAgree'
<1> SUFFICES ASSUME NEW i \in Limiter, Modes[i] = "After"
             PROVE  LET known == told'[i] + Cardinality(Owed(i)')
                    IN  known <= failures' /\ failures' <= known + lost'
  BY DEF LimitersAgree
<1>1. LET known == told[i] + Cardinality(Owed(i))
      IN  known <= failures /\ failures <= known + lost
  BY DEF OwedInv, LimitersAgree
<1>2. told[i] \in Nat /\ failures \in Nat /\ lost \in Nat /\ next[t] # 0
  BY DEF TypeOK, OwedInv
<1>3. /\ Cardinality(Owed(i)) \in Nat /\ Cardinality(Owed(i)') \in Nat
      /\ Cardinality(Owed(i)') = Cardinality(Owed(i)) + Debt(t, i)' - Debt(t, i)
      /\ Debt(t, i) \in {0, 1} /\ Debt(t, i)' \in {0, 1}
  BY OwedChange DEF Debt
<1>4. CASE Answer(t)
  BY <1>1, <1>2, <1>3, <1>4, ArrivalOwes
<1>5. CASE LoseAnswer(t)
  BY <1>1, <1>2, <1>3, <1>5, LosingSettles
<1>6. CASE TellLimiter(t)
  BY <1>1, <1>2, <1>3, <1>6, TellingPays
<1>7. CASE ~Answer(t) /\ ~LoseAnswer(t) /\ ~TellLimiter(t)
  BY <1>1, <1>2, <1>3, <1>7, DebtFrame
<1> QED
  BY <1>4, <1>5, <1>6, <1>7

(* All limiters on failures know of the same failing answers, up to those   *)
(* whose request ended before the loop over them was through: for every     *)
(* list of limiters in any order, every number of connections, and wherever *)
(* clients hang up.                                                         *)
THEOREM LimitersAgreeHolds == Spec => []LimitersAgree
<1>1. Init => OwedInv
  <2> SUFFICES ASSUME Init PROVE OwedInv
    OBVIOUS
  <2>1. \A t \in Task : next[t] # 0
    BY DEF Init
  <2>2. ASSUME NEW i \in Limiter
        PROVE  told[i] = 0 /\ Cardinality(Owed(i)) = 0 /\ failures = 0 /\ lost = 0
    <3>1. Owed(i) = {}
      BY DEF Init, Owed
    <3> QED
      BY <3>1, FS_EmptySet DEF Init
  <2> QED
    BY <2>1, <2>2 DEF OwedInv, LimitersAgree
<1>2. TypeOK /\ OwedInv /\ [Next]_vars => OwedInv'
  <2> SUFFICES ASSUME TypeOK, OwedInv, [Next]_vars
               PROVE  OwedInv'
    OBVIOUS
  <2>1. CASE UNCHANGED <<told, failures, lost, status, pc, next>>
    BY <2>1 DEF OwedInv, LimitersAgree, Owed
  <2>2. ASSUME NEW t \in Task, Step(t)
        PROVE  OwedInv'
    <3>1. ASSUME NEW s \in Task
          PROVE  next'[s] # 0
      BY <2>2, <3>1, PositionStep, OthersUntouched DEF OwedInv
    <3> QED
      BY <2>2, <3>1, AgreeStep DEF OwedInv
  <2> QED
    BY <2>1, <2>2 DEF Next, Quiet, FlipHealth, Step, vars, charges, reply
<1>3. OwedInv => LimitersAgree
  BY DEF OwedInv
<1> QED
  BY <1>1, <1>2, <1>3, TypeCorrect, PTL DEF Spec

===============================================================================
