------------------------------- MODULE Startup -------------------------------
(***************************************************************************)
(* How a configuration becomes a firewall (from_config and build_node_set  *)
(* in src/config.rs).  The steps come in the order of the code, and each   *)
(* fills one of the process's statics; a rule that is broken stops the     *)
(* process with an error, and three of them with a panic.  What this       *)
(* module establishes of the two node sets is what Firewall assumes.       *)
(***************************************************************************)
EXTENDS Integers, Sequences, FiniteSets

CONSTANTS
  Configs,        \* the parsed configurations
  PinnableNames,  \* the names is_valid_pinnable_name accepts
  MetricNames,    \* the names Prometheus takes as part of a metric's name
  Absent          \* an Option that is None, or a string that does not parse

(***************************************************************************)
(* A configuration: the exporter's address and the firewall's own, the     *)
(* bound on bodies, whether a header carries the client's address, the     *)
(* three filter lists (an absent one is empty), the rate limiters, the pin *)
(* window, the two node lists, and the interval of the health check        *)
(* (Absent: there is none).  A limiter has a name, what it limits on, a    *)
(* bucket_type, the keys it selects (or Absent) and a window_duration; a   *)
(* node has a name, a url (its origin and path, or Absent), a weight (or   *)
(* Absent) and the pinnable flag.                                          *)
(***************************************************************************)
VARIABLES
  config,         \* the configuration being loaded
  phase,          \* how far from_config is, or how it ended
  at,             \* the position in the list a loop is going through
  blockedIps,     \* BLOCKED_IPS
  blocked,        \* BLOCKED_CONTRACTS
  allowed,        \* ALLOW_ONLY_CONTRACTS
  ratelimiters,   \* the firewall's rate limiters, in order
  selected,       \* SELECT_ACCOUNTS, by the name of the limiter
  entries,        \* the set build_node_set is building
  pushNodes,      \* PUSH_NODES
  getNodes,       \* GET_NODES
  watched         \* the urls HEALTH_CHECKER watches; Absent: there is none

lists == <<blockedIps, blocked, allowed>>
limits == <<ratelimiters, selected>>
nodes == <<entries, pushNodes, getNodes, watched>>
startup == <<config, phase, at, lists, limits, nodes>>

Loading == {"start", "filter", "limiters", "push", "get", "health"}
Ended == {"ready", "refused", "panicked"}

LimitOns == {"attempt", "failure"}
BucketTypes == {"contract", "ip", "authorizer", "table"}
Weights == Nat \cup {Absent}

Items(list) == {list[i] : i \in DOMAIN list}
IsList(s) == s \in Seq(Items(s))

ConfigsAreTyped ==
  \A c \in Configs :
    /\ IsList(c.limiters) /\ IsList(c.push) /\ IsList(c.get)
    /\ c.healthcheck \in Nat \cup {Absent}
    /\ \A r \in Items(c.limiters) : r.on \in LimitOns /\ r.bucket \in BucketTypes
    /\ \A n \in Items(c.push) \cup Items(c.get) :
         n.weight \in Weights

ASSUME ConfigsAssumption == ConfigsAreTyped
ASSUME AbsentAssumption == Absent \notin Nat \cup {"off", "free", "taken"}

(* Type correctness of what is loaded so far.                               *)
TypeOK ==
  /\ config \in Configs
  /\ phase \in Loading \cup Ended
  /\ at \in Nat \ {0}
  /\ ratelimiters \in Seq(Items(config.limiters))
  /\ DOMAIN selected \subseteq {r.name : r \in Items(config.limiters)}
  /\ \A e \in entries \cup pushNodes \cup getNodes : e.weight \in Nat

Init ==
  /\ config \in Configs
  /\ phase = "start" /\ at = 1
  /\ blockedIps = {} /\ blocked = {} /\ allowed = {}
  /\ ratelimiters = <<>> /\ selected = [n \in {} |-> {}]
  /\ entries = {} /\ pushNodes = {} /\ getNodes = {}
  /\ watched = Absent

EndAs(outcome) ==
  /\ phase' = outcome
  /\ UNCHANGED <<config, at, lists, nodes>>

Refuse == EndAs("refused") /\ UNCHANGED limits

\* The loop over the next list begins.
GoTo(next) == phase' = next /\ at' = 1

----------------------------------------------------------------------------
(* The exporter runs, if one is configured, and both addresses parse.       *)
Begin ==
  /\ phase = "start"
  /\ config.prometheus \in {"off", "free"} /\ config.address # Absent
  /\ GoTo("filter")
  /\ UNCHANGED <<config, lists, limits, nodes>>

(* The exporter cannot start.                                               *)
RefuseExporter ==
  /\ phase = "start"
  /\ config.prometheus = "taken"
  /\ Refuse

(* parse().unwrap(): the exporter's address comes first.                    *)
PanicAddress ==
  /\ phase = "start"
  /\ \/ config.prometheus = Absent
     \/ config.prometheus # "taken" /\ config.address = Absent
  /\ EndAs("panicked")
  /\ UNCHANGED limits

BothListed == config.block # {} /\ config.allow # {}

LoadFilter ==
  /\ phase = "filter"
  /\ ~BothListed
  /\ blockedIps' = config.blockIps
  /\ blocked' = config.block
  /\ allowed' = config.allow
  /\ GoTo("limiters")
  /\ UNCHANGED <<config, limits, nodes>>

RefuseFilter == phase = "filter" /\ BothListed /\ Refuse

----------------------------------------------------------------------------
LimiterNames == {ratelimiters[i].name : i \in DOMAIN ratelimiters}

AtLimiter == phase = "limiters" /\ at \in DOMAIN config.limiters

(***************************************************************************)
(* As in RateLimiter, a definition whose name starts with Bad is a         *)
(* plausible mistake in the definition after it and is used nowhere.       *)
(***************************************************************************)
BadNameRefused(r) == r.name = "pinned"  \* a name may be used twice
NameRefused(r) == r.name = "pinned" \/ r.name \in LimiterNames

BadSelect(r) ==  \* a limiter that selects nothing in particular selects no account
  selected' = [n \in DOMAIN selected \cup {r.name} |->
                 IF n # r.name THEN selected[n]
                 ELSE IF r.select = Absent THEN {} ELSE r.select]

\* SELECT_ACCOUNTS gets the accounts of the limiter, if it has any.
Select(r) ==
  selected' = IF r.select = Absent THEN selected
              ELSE [n \in DOMAIN selected \cup {r.name} |->
                      IF n = r.name THEN r.select ELSE selected[n]]

\* RateLimiter::new divides the time by the window, and registers counters
\* that carry the limiter's name.
Constructible(r) == r.window # 0 /\ r.name \in MetricNames

AddLimiter ==
  LET r == config.limiters[at] IN
  /\ AtLimiter
  /\ ~NameRefused(r)
  /\ Constructible(r)
  /\ Select(r)
  /\ ratelimiters' = Append(ratelimiters, r)
  /\ at' = at + 1
  /\ UNCHANGED <<config, phase, lists, nodes>>

RefuseLimiter == AtLimiter /\ NameRefused(config.limiters[at]) /\ Refuse

(* The constructor's division or one of its unwraps panics.                 *)
PanicLimiter ==
  LET r == config.limiters[at] IN
  /\ AtLimiter
  /\ ~NameRefused(r)
  /\ ~Constructible(r)
  /\ Select(r)
  /\ EndAs("panicked")
  /\ UNCHANGED ratelimiters

SetPinLimiter ==
  /\ phase = "limiters" /\ at \notin DOMAIN config.limiters
  /\ config.pinWindow # 0
  /\ GoTo("push")
  /\ UNCHANGED <<config, lists, limits, nodes>>

RefusePinWindow ==
  /\ phase = "limiters" /\ at \notin DOMAIN config.limiters
  /\ config.pinWindow = 0
  /\ Refuse

----------------------------------------------------------------------------
List == IF phase = "push" THEN config.push ELSE config.get

AtNode == phase \in {"push", "get"} /\ at \in DOMAIN List

BadWeightOf(n) == n.weight  \* the default is forgotten
WeightOf(n) == IF n.weight = Absent THEN 1 ELSE n.weight

\* A url that does not parse has no origin.
SameOrigin(u, v) == u # Absent /\ v # Absent /\ u.origin = v.origin

\* The rules of one list, given the entries before this one.  Two entries
\* that are not pinnable may share a name, but no two share an origin.
BadNodeRefused(n) ==  \* the urls are told apart as they are written
  \/ WeightOf(n) = 0
  \/ n.pinnable /\ \E e \in entries : e.pinnable /\ e.name = n.name
  \/ n.pinnable /\ n.name \notin PinnableNames
  \/ n.url = Absent
  \/ \E e \in entries : e.url = n.url

NodeRefused(n) ==
  \/ WeightOf(n) = 0
  \/ n.pinnable /\ \E e \in entries : e.pinnable /\ e.name = n.name
  \/ n.pinnable /\ n.name \notin PinnableNames
  \/ n.url = Absent
  \/ \E e \in entries : SameOrigin(e.url, n.url)

EntryOf(n) ==
  [name |-> n.name, url |-> n.url, weight |-> WeightOf(n), pinnable |-> n.pinnable]

AddNode ==
  LET n == List[at] IN
  /\ AtNode
  /\ ~NodeRefused(n)
  /\ entries' = entries \cup {EntryOf(n)}
  /\ at' = at + 1
  /\ UNCHANGED <<config, phase, lists, limits, pushNodes, getNodes, watched>>

RefuseNode == AtNode /\ NodeRefused(List[at]) /\ Refuse

PublishPush ==
  /\ phase = "push" /\ ~AtNode
  /\ pushNodes' = entries
  /\ entries' = {}
  /\ GoTo("get")
  /\ UNCHANGED <<config, lists, limits, getNodes, watched>>

PublishGet ==
  /\ phase = "get" /\ ~AtNode
  /\ getNodes' = entries
  /\ entries' = {}
  /\ GoTo("health")
  /\ UNCHANGED <<config, lists, limits, pushNodes, watched>>

Urls(S) == {e.url : e \in S}

(* The matching rules are installed and the health checker, if there is to  *)
(* be one, is started on the nodes of both lists, with any interval: a 0    *)
(* leaves no pause between its sweeps.                                      *)
Finish ==
  /\ phase = "health"
  /\ watched' =
    IF config.healthcheck = Absent THEN Absent ELSE Urls(getNodes \cup pushNodes)
  /\ GoTo("ready")
  /\ UNCHANGED <<config, lists, limits, entries, pushNodes, getNodes>>

Load ==
  \/ Begin \/ RefuseExporter \/ PanicAddress
  \/ LoadFilter \/ RefuseFilter
  \/ AddLimiter \/ RefuseLimiter \/ PanicLimiter
  \/ SetPinLimiter \/ RefusePinWindow
  \/ AddNode \/ RefuseNode \/ PublishPush \/ PublishGet
  \/ Finish

LoadSpec == Init /\ [][Load]_startup

----------------------------------------------------------------------------
\* What Firewall assumes of a list of nodes.
Sound(S) ==
  /\ \A e \in S : e.weight > 0 /\ (e.pinnable => e.name \in PinnableNames)
  /\ \A d, e \in S :
       \/ d = e
       \/ ~SameOrigin(d.url, e.url) /\ ~(d.pinnable /\ e.pinnable /\ d.name = e.name)

(* "Pinnable names must be unique", "Each scheme, host and port must appear *)
(* once per list": a node set is never in use that breaks one of the rules, *)
(* the half of a configuration that is refused later included.              *)
NodeSetsSound == Sound(pushNodes) /\ Sound(getNodes)

\* The rules, of a list as it is written.
ListAcceptable(list) ==
  /\ \A i \in DOMAIN list :
       /\ list[i].weight # 0
       /\ list[i].url # Absent
       /\ list[i].pinnable => list[i].name \in PinnableNames
  /\ \A i, j \in DOMAIN list :
       i # j => /\ ~SameOrigin(list[i].url, list[j].url)
                /\ ~(list[i].pinnable /\ list[j].pinnable /\ list[i].name = list[j].name)

\* The rules from_config looks at, and answers with an error.
KeepsChecked(c) ==
  /\ c.prometheus # "taken"
  /\ c.block = {} \/ c.allow = {}
  /\ \A i \in DOMAIN c.limiters :
       /\ c.limiters[i].name # "pinned"
       /\ \A j \in DOMAIN c.limiters : i # j => c.limiters[i].name # c.limiters[j].name
  /\ c.pinWindow # 0
  /\ ListAcceptable(c.push) /\ ListAcceptable(c.get)

\* The rules it leaves to an unwrap or a division: the addresses parse, no
\* window is zero, and Prometheus takes the names.
KeepsUnchecked(c) ==
  /\ c.prometheus # Absent /\ c.address # Absent
  /\ \A i \in DOMAIN c.limiters : Constructible(c.limiters[i])

(* The configurations that start are those that keep the rules the code     *)
(* enforces, whatever order they are broken in.  An error is only given for *)
(* a rule that is checked, and a panic only for one that is not: windows of *)
(* zero, which the file forbids ("non-zero Integer"), are among those.  The *)
(* file also forbids an interval of zero; the code does not, and starts.    *)
VerdictIsRight ==
  /\ phase \in Ended => (phase = "ready" <=> KeepsChecked(config) /\ KeepsUnchecked(config))
  /\ phase = "refused" => ~KeepsChecked(config)
  /\ phase = "panicked" => ~KeepsUnchecked(config)

Configured(list) == {EntryOf(list[i]) : i \in DOMAIN list}

(* A firewall that starts has what was configured and nothing else: every   *)
(* node once, with its own name and weight; every limiter in order, and     *)
(* the accounts of the limiters that select some and of no other; and a     *)
(* health check of every node that a request can be routed to.              *)
LoadedAsConfigured ==
  phase = "ready" =>
    /\ pushNodes = Configured(config.push) /\ Cardinality(pushNodes) = Len(config.push)
    /\ getNodes = Configured(config.get) /\ Cardinality(getNodes) = Len(config.get)
    /\ ratelimiters = config.limiters
    /\ \A i \in DOMAIN config.limiters :
         LET r == config.limiters[i] IN
         IF r.select = Absent THEN r.name \notin DOMAIN selected
         ELSE r.name \in DOMAIN selected /\ selected[r.name] = r.select
    /\ config.healthcheck # Absent => watched = Urls(pushNodes) \cup Urls(getNodes)
=============================================================================
