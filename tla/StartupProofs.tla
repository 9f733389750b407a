---------------------------- MODULE StartupProofs ----------------------------
(***************************************************************************)
(* What TLAPS proves of the loading, for any set of configurations: lists  *)
(* of any length, any names and any weights.                               *)
(***************************************************************************)
EXTENDS Startup, FunctionTheorems, FiniteSetTheorems, TLAPS

\* What the assumption says of the configuration that is loaded.
LEMMA ConfigTyped ==
  ASSUME TypeOK
  PROVE  /\ IsList(config.limiters) /\ IsList(config.push) /\ IsList(config.get)
         /\ \A i \in DOMAIN config.push : config.push[i].weight \in Weights
         /\ \A i \in DOMAIN config.get : config.get[i].weight \in Weights
  BY ConfigsAssumption DEF TypeOK, ConfigsAreTyped, Items

\* The node AddNode adds has a weight, and one above 0.
LEMMA WeightIsPositive ==
  ASSUME TypeOK, AtNode, ~NodeRefused(List[at])
  PROVE  EntryOf(List[at]).weight \in Nat \ {0}
  BY ConfigTyped, AbsentAssumption DEF AtNode, List, NodeRefused, WeightOf, Weights, EntryOf

LEMMA TypeInit == Init => TypeOK
  BY DEF Init, TypeOK, Loading, Items

LEMMA TypeNext == TypeOK /\ [Load]_startup => TypeOK'
<1> SUFFICES ASSUME TypeOK, [Load]_startup PROVE TypeOK'
  OBVIOUS
<1> USE DEF TypeOK, lists, nodes, limits, GoTo, EndAs, Refuse, Loading, Ended
<1>1. CASE Begin \/ LoadFilter \/ SetPinLimiter
  BY <1>1 DEF Begin, LoadFilter, SetPinLimiter
<1>2. CASE RefuseExporter \/ PanicAddress \/ RefuseFilter \/ RefusePinWindow
  BY <1>2 DEF RefuseExporter, PanicAddress, RefuseFilter, RefusePinWindow
<1>3. CASE RefuseLimiter \/ RefuseNode
  BY <1>3 DEF RefuseLimiter, RefuseNode
<1>4. ASSUME AtLimiter, Select(config.limiters[at])
      PROVE  DOMAIN selected' \subseteq {r.name : r \in Items(config.limiters)}
  <2> DEFINE r == config.limiters[at]
  <2>1. r \in Items(config.limiters)
    BY <1>4 DEF AtLimiter, Items
  <2>2. DOMAIN selected' \subseteq DOMAIN selected \cup {r.name}
    BY <1>4 DEF Select
  <2>3. QED
    BY <2>1, <2>2
<1>5. CASE AddLimiter
  <2>1. config.limiters[at] \in Items(config.limiters)
    BY <1>5 DEF AddLimiter, AtLimiter, Items
  <2>2. QED
    BY <1>4, <1>5, <2>1 DEF AddLimiter
<1>6. CASE PanicLimiter
  BY <1>4, <1>6 DEF PanicLimiter
<1>7. CASE AddNode
  BY <1>7, WeightIsPositive DEF AddNode
<1>8. CASE PublishPush \/ PublishGet \/ Finish
  BY <1>8 DEF PublishPush, PublishGet, Finish
<1>9. CASE UNCHANGED startup
  BY <1>9 DEF startup
<1>10. QED
  BY <1>1, <1>2, <1>3, <1>5, <1>6, <1>7, <1>8, <1>9 DEF Load

(* What has been loaded keeps its types at every step of the loading.       *)
THEOREM TypeCorrect == LoadSpec => []TypeOK
<1>1. QED
  BY TypeInit, TypeNext, PTL DEF LoadSpec

----------------------------------------------------------------------------
(***************************************************************************)
(* The node sets.  The set that is being built keeps the rules entry by    *)
(* entry, so that it can be published, and what is published stays.        *)
(***************************************************************************)
SoundInv == TypeOK /\ Sound(entries) /\ NodeSetsSound

LEMMA SoundWithOneMore ==
  ASSUME TypeOK, AtNode, ~NodeRefused(List[at]), Sound(entries)
  PROVE  Sound(entries \cup {EntryOf(List[at])})
<1> DEFINE n == List[at]
           new == EntryOf(n)
<1>1. new.weight > 0 /\ (new.pinnable => new.name \in PinnableNames)
  BY WeightIsPositive DEF NodeRefused, EntryOf
<1>2. ASSUME NEW e \in entries
      PROVE  /\ ~SameOrigin(e.url, new.url) /\ ~SameOrigin(new.url, e.url)
             /\ ~(new.pinnable /\ e.pinnable /\ new.name = e.name)
  BY <1>2 DEF NodeRefused, EntryOf, SameOrigin
<1>3. QED
  BY <1>1, <1>2 DEF Sound

LEMMA SoundNext == SoundInv /\ [Load]_startup => SoundInv'
<1> SUFFICES ASSUME SoundInv, [Load]_startup PROVE SoundInv'
  OBVIOUS
<1>1. TypeOK /\ TypeOK'
  BY TypeNext DEF SoundInv
<1> USE DEF SoundInv, NodeSetsSound
<1>2. CASE AddNode
  BY <1>1, <1>2, SoundWithOneMore DEF AddNode
<1>3. CASE PublishPush \/ PublishGet
  BY <1>1, <1>3 DEF PublishPush, PublishGet, Sound
<1>4. CASE UNCHANGED <<entries, pushNodes, getNodes>>
  BY <1>1, <1>4 DEF Sound
<1>5. UNCHANGED <<entries, pushNodes, getNodes>> \/ AddNode \/ PublishPush \/ PublishGet
  BY DEF Load, startup, nodes, lists, limits, Refuse, EndAs, Begin, RefuseExporter, PanicAddress,
         LoadFilter, RefuseFilter, AddLimiter, RefuseLimiter, PanicLimiter, SetPinLimiter,
         RefusePinWindow, RefuseNode, Finish
<1>6. QED
  BY <1>2, <1>3, <1>4, <1>5

(* No node set that breaks a rule of build_node_set is ever in use: not     *)
(* while the loading goes on, and not when it is refused half way.          *)
THEOREM NodeSetsSoundHolds == LoadSpec => []NodeSetsSound
<1>1. Init => SoundInv
  BY TypeInit DEF Init, SoundInv, NodeSetsSound, Sound
<1>2. SoundInv => NodeSetsSound
  BY DEF SoundInv
<1>3. QED
  BY <1>1, <1>2, SoundNext, PTL DEF LoadSpec

----------------------------------------------------------------------------
(***************************************************************************)
(* The verdict.  The loops refuse an element for what came before it in    *)
(* its list, and the rules speak of whole lists: the invariant says that   *)
(* the part of each list that has been gone through keeps its rules, that  *)
(* the names and the entries kept of it are those of that part, and that   *)
(* what was refused deserved it.                                           *)
(***************************************************************************)
AddressesOk(c) == c.prometheus \in {"off", "free"} /\ c.address # Absent
FilterOk(c) == c.block = {} \/ c.allow = {}

NamesOk(list, n) ==
  \A i \in 1 .. n :
    /\ list[i].name # "pinned"
    /\ \A j \in 1 .. n : i # j => list[i].name # list[j].name

BuildsOk(list, n) == \A i \in 1 .. n : Constructible(list[i])

LimitersOk(list, n) == NamesOk(list, n) /\ BuildsOk(list, n)

NodesOk(list, n) ==
  /\ \A i \in 1 .. n :
       /\ list[i].weight # 0
       /\ list[i].url # Absent
       /\ list[i].pinnable => list[i].name \in PinnableNames
  /\ \A i, j \in 1 .. n :
       i # j => /\ ~SameOrigin(list[i].url, list[j].url)
                /\ ~(list[i].pinnable /\ list[j].pinnable /\ list[i].name = list[j].name)

RulesOk ==
  /\ phase \notin {"start", "refused", "panicked"} => AddressesOk(config)
  /\ phase \in {"limiters", "push", "get", "health", "ready"} => FilterOk(config)
  /\ phase \in {"push", "get", "health", "ready"} =>
       LimitersOk(config.limiters, Len(config.limiters)) /\ config.pinWindow # 0
  /\ phase \in {"get", "health", "ready"} => NodesOk(config.push, Len(config.push))
  /\ phase \in {"health", "ready"} => NodesOk(config.get, Len(config.get))
  /\ phase = "refused" => ~KeepsChecked(config)
  /\ phase = "panicked" => ~KeepsUnchecked(config)

LoopsOk ==
  /\ phase \in {"start", "filter"} => ratelimiters = <<>>
  /\ phase \in {"start", "filter", "limiters"} => entries = {}
  /\ phase = "limiters" =>
       /\ at <= Len(config.limiters) + 1
       /\ LimitersOk(config.limiters, at - 1)
       /\ ratelimiters = [i \in 1 .. at - 1 |-> config.limiters[i]]
  /\ phase \in {"push", "get"} =>
       /\ at <= Len(List) + 1
       /\ NodesOk(List, at - 1)
       /\ entries = {EntryOf(List[i]) : i \in 1 .. at - 1}

VerdictInv == TypeOK /\ RulesOk /\ LoopsOk

\* The rules as the invariant has them, of whole lists.
LEMMA RulesAre ==
  ASSUME TypeOK
  PROVE  /\ KeepsChecked(config) <=>
              /\ config.prometheus # "taken" /\ FilterOk(config)
              /\ NamesOk(config.limiters, Len(config.limiters)) /\ config.pinWindow # 0
              /\ NodesOk(config.push, Len(config.push)) /\ NodesOk(config.get, Len(config.get))
         /\ KeepsUnchecked(config) <=>
              /\ config.prometheus # Absent /\ config.address # Absent
              /\ BuildsOk(config.limiters, Len(config.limiters))
<1>1. /\ DOMAIN config.limiters = 1 .. Len(config.limiters)
      /\ DOMAIN config.push = 1 .. Len(config.push)
      /\ DOMAIN config.get = 1 .. Len(config.get)
  BY ConfigTyped DEF IsList
<1>2. /\ ListAcceptable(config.push) <=> NodesOk(config.push, Len(config.push))
      /\ ListAcceptable(config.get) <=> NodesOk(config.get, Len(config.get))
  BY <1>1 DEF ListAcceptable, NodesOk
<1>3. QED
  BY <1>1, <1>2 DEF KeepsChecked, KeepsUnchecked, FilterOk, NamesOk, BuildsOk

\* The names AddLimiter has seen are those of the limiters before this one.
LEMMA NamesSeen ==
  ASSUME VerdictInv, phase = "limiters"
  PROVE  LimiterNames = {config.limiters[i].name : i \in 1 .. at - 1}
  BY DEF VerdictInv, LoopsOk, LimiterNames, TypeOK

\* An element is refused exactly when it breaks a rule with those before it.
LEMMA NodeVerdict ==
  ASSUME VerdictInv, AtNode
  PROVE  /\ ~NodeRefused(List[at]) => NodesOk(List, at)
         /\ NodeRefused(List[at]) => ~NodesOk(List, Len(List))
<1> DEFINE n == List[at]
<1>1. /\ at \in 1 .. Len(List) /\ Len(List) \in Nat
      /\ NodesOk(List, at - 1)
      /\ entries = {EntryOf(List[i]) : i \in 1 .. at - 1}
  <2>1. phase \in {"push", "get"} /\ at \in DOMAIN List
    BY DEF AtNode
  <2>2. IsList(List)
    BY ConfigTyped DEF VerdictInv, List
  <2>3. DOMAIN List = 1 .. Len(List) /\ Len(List) \in Nat
    BY <2>2 DEF IsList
  <2>4. NodesOk(List, at - 1) /\ entries = {EntryOf(List[i]) : i \in 1 .. at - 1}
    BY <2>1 DEF VerdictInv, LoopsOk
  <2>5. QED
    BY <2>1, <2>3, <2>4
<1>2. n.weight \in Weights
  BY ConfigTyped DEF VerdictInv, AtNode, List
<1>3. WeightOf(n) = 0 <=> n.weight = 0
  BY <1>2, AbsentAssumption DEF WeightOf, Weights
<1>4. ASSUME ~NodeRefused(n) PROVE NodesOk(List, at)
  <2>1. ASSUME NEW j \in 1 .. at - 1
        PROVE  /\ ~SameOrigin(List[j].url, n.url) /\ ~SameOrigin(n.url, List[j].url)
               /\ ~(n.pinnable /\ List[j].pinnable /\ n.name = List[j].name)
    <3>1. EntryOf(List[j]) \in entries
      BY <1>1
    <3>2. /\ EntryOf(List[j]).url = List[j].url
          /\ EntryOf(List[j]).name = List[j].name
          /\ EntryOf(List[j]).pinnable = List[j].pinnable
      BY DEF EntryOf
    <3>3. QED
      BY <1>4, <3>1, <3>2 DEF NodeRefused, SameOrigin
  <2>2. n.weight # 0 /\ n.url # Absent /\ (n.pinnable => n.name \in PinnableNames)
    BY <1>3, <1>4 DEF NodeRefused
  <2>3. \A i \in 1 .. at : i = at \/ i \in 1 .. at - 1
    BY <1>1
  <2>4. QED
    BY <1>1, <2>1, <2>2, <2>3 DEF NodesOk
<1>5. ASSUME NodeRefused(n) PROVE ~NodesOk(List, Len(List))
  <2>1. CASE n.weight = 0 \/ n.url = Absent \/ (n.pinnable /\ n.name \notin PinnableNames)
    BY <1>1, <2>1 DEF NodesOk
  <2>2. ASSUME NEW e \in entries,
               SameOrigin(e.url, n.url) \/ (n.pinnable /\ e.pinnable /\ e.name = n.name)
        PROVE  ~NodesOk(List, Len(List))
    <3>1. PICK j \in 1 .. at - 1 : e = EntryOf(List[j])
      BY <1>1
    <3>2. j \in 1 .. Len(List) /\ j # at
      BY <1>1
    <3>3. e.url = List[j].url /\ e.name = List[j].name /\ e.pinnable = List[j].pinnable
      BY <3>1 DEF EntryOf
    <3>4. QED
      BY <1>1, <2>2, <3>2, <3>3 DEF NodesOk
  <2>3. QED
    BY <1>3, <1>5, <2>1, <2>2 DEF NodeRefused
<1>6. QED
  BY <1>4, <1>5

LEMMA LimiterVerdict ==
  ASSUME VerdictInv, AtLimiter
  PROVE  LET r == config.limiters[at]
         IN  /\ ~NameRefused(r) /\ Constructible(r) => LimitersOk(config.limiters, at)
             /\ NameRefused(r) => ~NamesOk(config.limiters, Len(config.limiters))
             /\ ~Constructible(r) => ~BuildsOk(config.limiters, Len(config.limiters))
<1> DEFINE r == config.limiters[at]
<1>1. at \in 1 .. Len(config.limiters) /\ Len(config.limiters) \in Nat /\ LimitersOk(config.limiters, at - 1)
  BY ConfigTyped DEF VerdictInv, LoopsOk, TypeOK, AtLimiter, IsList
<1>2. LimiterNames = {config.limiters[i].name : i \in 1 .. at - 1}
  BY NamesSeen DEF AtLimiter
<1>3. ASSUME ~NameRefused(r), Constructible(r) PROVE LimitersOk(config.limiters, at)
  <2>1. \A i \in 1 .. at : i = at \/ i \in 1 .. at - 1
    BY <1>1
  <2>2. NamesOk(config.limiters, at)
    BY <1>1, <1>2, <1>3, <2>1 DEF NameRefused, LimitersOk, NamesOk
  <2>3. BuildsOk(config.limiters, at)
    BY <1>1, <1>3, <2>1 DEF LimitersOk, BuildsOk
  <2>4. QED
    BY <2>2, <2>3 DEF LimitersOk
<1>4. ASSUME NameRefused(r) PROVE ~NamesOk(config.limiters, Len(config.limiters))
  <2>1. CASE r.name = "pinned"
    BY <1>1, <2>1 DEF NamesOk
  <2>2. CASE r.name \in LimiterNames
    <3>1. PICK j \in 1 .. at - 1 : r.name = config.limiters[j].name
      BY <1>2, <2>2
    <3>2. j \in 1 .. Len(config.limiters) /\ j # at
      BY <1>1
    <3>3. QED
      BY <1>1, <3>1, <3>2 DEF NamesOk
  <2>3. QED
    BY <1>4, <2>1, <2>2 DEF NameRefused
<1>5. ASSUME ~Constructible(r) PROVE ~BuildsOk(config.limiters, Len(config.limiters))
  BY <1>1, <1>5 DEF BuildsOk
<1>6. QED
  BY <1>3, <1>4, <1>5

LEMMA RulesNext == VerdictInv /\ [Load]_startup => VerdictInv'
<1> SUFFICES ASSUME VerdictInv, [Load]_startup PROVE RulesOk' /\ LoopsOk'
  BY TypeNext DEF VerdictInv
<1>1. TypeOK /\ TypeOK'
  BY TypeNext DEF VerdictInv
<1>2. /\ IsList(config.limiters) /\ IsList(config.push) /\ IsList(config.get)
      /\ at \in Nat \ {0}
  BY <1>1, ConfigTyped DEF TypeOK
<1> USE DEF GoTo, EndAs, Refuse, lists, nodes, limits
<1>3. RulesOk /\ LoopsOk
  BY DEF VerdictInv
<1>4. ASSUME config' = config,
             \/ phase' = "refused" /\ ~KeepsChecked(config)
             \/ phase' = "panicked" /\ ~KeepsUnchecked(config)
      PROVE  RulesOk' /\ LoopsOk'
  BY <1>4 DEF RulesOk, LoopsOk
<1>5. CASE Begin
  BY <1>3, <1>5 DEF Begin, RulesOk, LoopsOk, AddressesOk
<1>6. CASE RefuseExporter \/ PanicAddress
  BY <1>4, <1>6 DEF RefuseExporter, PanicAddress, KeepsChecked, KeepsUnchecked
<1>7. CASE LoadFilter
  <2>1. LimitersOk(config.limiters, 0) /\ [i \in 1 .. 0 |-> config.limiters[i]] = << >>
    BY DEF LimitersOk, NamesOk, BuildsOk
  <2>2. QED
    BY <1>2, <1>3, <1>7, <2>1
       DEF LoadFilter, BothListed, IsList, RulesOk, LoopsOk, FilterOk
<1>8. CASE RefuseFilter
  BY <1>4, <1>8 DEF RefuseFilter, BothListed, KeepsChecked
<1>9. CASE AddLimiter
  <2>1. LimitersOk(config.limiters, at)
    BY <1>9, LimiterVerdict DEF AddLimiter
  <2>2. at \in 1 .. Len(config.limiters)
    BY <1>2, <1>9 DEF AddLimiter, AtLimiter, IsList
  <2>3. ratelimiters' = [i \in 1 .. at |-> config.limiters[i]]
    BY <1>1, <1>2, <1>3, <1>9 DEF AddLimiter, AtLimiter, LoopsOk, TypeOK
  <2>4. QED
    BY <1>2, <1>3, <1>9, <2>1, <2>2, <2>3
       DEF AddLimiter, AtLimiter, RulesOk, LoopsOk, IsList
<1>10. CASE RefuseLimiter \/ PanicLimiter
  <2>1. /\ RefuseLimiter => ~NamesOk(config.limiters, Len(config.limiters))
        /\ PanicLimiter => ~BuildsOk(config.limiters, Len(config.limiters))
    BY LimiterVerdict DEF RefuseLimiter, PanicLimiter
  <2>2. QED
    BY <1>1, <1>4, <1>10, <2>1, RulesAre DEF RefuseLimiter, PanicLimiter
<1>11. CASE SetPinLimiter
  <2>1. at = Len(config.limiters) + 1
    BY <1>2, <1>3, <1>11 DEF SetPinLimiter, LoopsOk, IsList
  <2>2. NodesOk(config.push, 0) /\ {EntryOf(config.push[i]) : i \in 1 .. 0} = {}
    BY DEF NodesOk
  <2>3. QED
    BY <1>2, <1>3, <1>11, <2>1, <2>2
       DEF SetPinLimiter, RulesOk, LoopsOk, List, IsList
<1>12. CASE RefusePinWindow
  BY <1>4, <1>12 DEF RefusePinWindow, KeepsChecked
<1>13. CASE AddNode
  <2>1. NodesOk(List, at)
    BY <1>13, NodeVerdict DEF AddNode
  <2>2. at \in 1 .. Len(List) /\ List' = List /\ phase \in {"push", "get"}
    BY <1>2, <1>13 DEF AddNode, AtNode, List, IsList
  <2>3. entries' = {EntryOf(List[i]) : i \in 1 .. at}
    BY <1>3, <1>13, <2>2 DEF AddNode, LoopsOk
  <2>4. UNCHANGED <<config, phase>> /\ at' = at + 1
    BY <1>13 DEF AddNode
  <2>5. RulesOk'
    BY <1>3, <2>2, <2>4 DEF RulesOk
  <2>6. at' - 1 = at /\ at' <= Len(List') + 1
    BY <1>2, <2>2, <2>4 DEF List, IsList
  <2>7. LoopsOk'
    BY <2>1, <2>2, <2>3, <2>4, <2>6 DEF LoopsOk
  <2>8. QED
    BY <2>5, <2>7
<1>14. CASE RefuseNode
  <2>1. ~NodesOk(List, Len(List))
    BY <1>14, NodeVerdict DEF RefuseNode
  <2>2. QED
    BY <1>1, <1>4, <1>14, <2>1, RulesAre DEF RefuseNode, List
<1>15. CASE PublishPush
  <2>1. at = Len(config.push) + 1 /\ NodesOk(config.push, at - 1)
    <3>1. phase = "push" /\ List = config.push /\ at \notin DOMAIN config.push
      BY <1>15 DEF PublishPush, AtNode, List
    <3>2. at <= Len(config.push) + 1 /\ NodesOk(config.push, at - 1)
      BY <1>3, <3>1 DEF LoopsOk
    <3>3. DOMAIN config.push = 1 .. Len(config.push) /\ Len(config.push) \in Nat
      BY <1>2 DEF IsList
    <3>4. QED
      BY <1>2, <3>1, <3>2, <3>3
  <2>2. NodesOk(config.get, 0) /\ {EntryOf(config.get[i]) : i \in 1 .. 0} = {}
    BY DEF NodesOk
  <2>3. QED
    BY <1>2, <1>3, <1>15, <2>1, <2>2
       DEF PublishPush, RulesOk, LoopsOk, List, IsList
<1>16. CASE PublishGet
  <2>1. at = Len(config.get) + 1 /\ NodesOk(config.get, at - 1)
    <3>1. phase = "get" /\ List = config.get /\ at \notin DOMAIN config.get
      BY <1>16 DEF PublishGet, AtNode, List
    <3>2. at <= Len(config.get) + 1 /\ NodesOk(config.get, at - 1)
      BY <1>3, <3>1 DEF LoopsOk
    <3>3. DOMAIN config.get = 1 .. Len(config.get) /\ Len(config.get) \in Nat
      BY <1>2 DEF IsList
    <3>4. QED
      BY <1>2, <3>1, <3>2, <3>3
  <2>2. at - 1 = Len(config.get)
    BY <1>2, <2>1 DEF IsList
  <2>3. NodesOk(config.get, Len(config.get))
    BY <2>1, <2>2
  <2>4. /\ phase = "get" /\ phase' = "health"
        /\ UNCHANGED <<config, ratelimiters>> /\ entries' = {}
    BY <1>16 DEF PublishGet
  <2>5. RulesOk'
    BY <1>3, <2>3, <2>4 DEF RulesOk
  <2>6. LoopsOk'
    BY <2>4 DEF LoopsOk
  <2>7. QED
    BY <2>5, <2>6
<1>17. CASE Finish
  BY <1>3, <1>17 DEF Finish, RulesOk, LoopsOk
<1>18. CASE UNCHANGED startup
  BY <1>3, <1>18 DEF startup, RulesOk, LoopsOk, List
<1>19. QED
  BY <1>1, <1>5, <1>6, <1>7, <1>8, <1>9, <1>10, <1>11, <1>12, <1>13, <1>14, <1>15, <1>16,
     <1>17, <1>18
     DEF Load

LEMMA VerdictFollows == VerdictInv => VerdictIsRight
<1> SUFFICES ASSUME VerdictInv PROVE VerdictIsRight
  OBVIOUS
<1>1. RulesOk /\ TypeOK
  BY DEF VerdictInv
<1>2. phase = "ready" => KeepsChecked(config) /\ KeepsUnchecked(config)
  BY <1>1, RulesAre, AbsentAssumption DEF RulesOk, AddressesOk, LimitersOk
<1>3. QED
  BY <1>1, <1>2 DEF RulesOk, VerdictIsRight, Ended

(* A configuration that keeps every rule the code enforces is started, and  *)
(* one that breaks some is not; an error is given for a rule that is        *)
(* checked, and a panic comes of one that is not, whatever the order.       *)
THEOREM VerdictIsRightHolds == LoadSpec => []VerdictIsRight
<1>1. Init => VerdictInv
  BY TypeInit DEF Init, VerdictInv, RulesOk, LoopsOk
<1>2. QED
  BY <1>1, RulesNext, VerdictFollows, PTL DEF LoadSpec

----------------------------------------------------------------------------
(***************************************************************************)
(* What is loaded.  Of each list that has been gone through, the static    *)
(* that was filled from it holds every element and no other; that a node   *)
(* list loses no node to another of the same url follows from its rules.   *)
(***************************************************************************)
SelectOk(sel, list, n) ==
  /\ DOMAIN sel \subseteq {list[i].name : i \in 1 .. n}
  /\ \A i \in 1 .. n :
       IF list[i].select = Absent THEN list[i].name \notin DOMAIN sel
       ELSE list[i].name \in DOMAIN sel /\ sel[list[i].name] = list[i].select

StaticsOk ==
  /\ phase \in {"start", "filter"} => DOMAIN selected = {}
  /\ phase = "limiters" => SelectOk(selected, config.limiters, at - 1)
  /\ phase \in {"push", "get", "health", "ready"} =>
       /\ ratelimiters = config.limiters
       /\ SelectOk(selected, config.limiters, Len(config.limiters))
  /\ phase \in {"get", "health", "ready"} => pushNodes = Configured(config.push)
  /\ phase \in {"health", "ready"} => getNodes = Configured(config.get)
  /\ phase = "ready" /\ config.healthcheck # Absent => watched = Urls(pushNodes \cup getNodes)

LoadedInv == VerdictInv /\ StaticsOk

LEMMA SelectOneMore ==
  ASSUME VerdictInv, AtLimiter, ~NameRefused(config.limiters[at]), Constructible(config.limiters[at]),
         SelectOk(selected, config.limiters, at - 1), Select(config.limiters[at])
  PROVE  SelectOk(selected', config.limiters, at)
<1> DEFINE list == config.limiters
           r == list[at]
<1>1. at \in Nat \ {0}
  BY DEF VerdictInv, TypeOK
<1>2. \A i \in 1 .. at - 1 : list[i].name # r.name
  BY NamesSeen DEF NameRefused, AtLimiter
<1>3. \A i \in 1 .. at : i = at \/ i \in 1 .. at - 1
  BY <1>1
<1>4. r.name \notin DOMAIN selected
  BY <1>2 DEF SelectOk
<1>5. CASE r.select = Absent
  BY <1>1, <1>3, <1>4, <1>5 DEF Select, SelectOk
<1>6. CASE r.select # Absent
  <2>1. /\ DOMAIN selected' = DOMAIN selected \cup {r.name}
        /\ selected'[r.name] = r.select
        /\ \A n \in DOMAIN selected : selected'[n] = selected[n]
    BY <1>4, <1>6 DEF Select
  <2>2. DOMAIN selected' \subseteq {list[i].name : i \in 1 .. at}
    <3>1. DOMAIN selected \subseteq {list[i].name : i \in 1 .. at - 1}
      BY DEF SelectOk
    <3>2. at \in 1 .. at /\ 1 .. at - 1 \subseteq 1 .. at
      BY <1>1
    <3>3. QED
      BY <2>1, <3>1, <3>2
  <2>3. ASSUME NEW i \in 1 .. at - 1
        PROVE  IF list[i].select = Absent THEN list[i].name \notin DOMAIN selected'
               ELSE list[i].name \in DOMAIN selected' /\ selected'[list[i].name] = list[i].select
    BY <1>2, <2>1 DEF SelectOk
  <2>4. QED
    BY <1>3, <1>6, <2>1, <2>2, <2>3 DEF SelectOk
<1>7. QED
  BY <1>5, <1>6

LEMMA StaticsNext == LoadedInv /\ [Load]_startup => LoadedInv'
<1> SUFFICES ASSUME LoadedInv, [Load]_startup PROVE StaticsOk'
  BY RulesNext DEF LoadedInv
<1>1. VerdictInv /\ TypeOK /\ LoopsOk /\ StaticsOk
  BY DEF LoadedInv, VerdictInv
<1>2. /\ config.limiters \in Seq(Items(config.limiters))
      /\ config.push \in Seq(Items(config.push)) /\ config.get \in Seq(Items(config.get))
      /\ at \in Nat \ {0}
  BY <1>1, ConfigTyped DEF TypeOK, IsList
<1> USE DEF GoTo, EndAs, Refuse, lists, nodes, limits
<1>3. ASSUME phase' \in {"refused", "panicked"} PROVE StaticsOk'
  BY <1>3 DEF StaticsOk
<1>4. CASE RefuseExporter \/ PanicAddress \/ RefuseFilter \/ RefuseLimiter \/ PanicLimiter
           \/ RefusePinWindow \/ RefuseNode
  BY <1>3, <1>4 DEF RefuseExporter, PanicAddress, RefuseFilter, RefuseLimiter, PanicLimiter,
                    RefusePinWindow, RefuseNode
<1>5. CASE Begin \/ LoadFilter
  <2>1. DOMAIN selected = {}
    BY <1>1, <1>5 DEF Begin, LoadFilter, StaticsOk
  <2>2. SelectOk(selected, config.limiters, 0)
    BY <2>1 DEF SelectOk
  <2>3. QED
    BY <1>5, <2>1, <2>2 DEF Begin, LoadFilter, StaticsOk
<1>6. CASE AddLimiter
  <2>1. SelectOk(selected', config.limiters, at)
    BY <1>1, <1>6, SelectOneMore DEF AddLimiter, AtLimiter, StaticsOk
  <2>2. QED
    BY <1>2, <1>6, <2>1 DEF AddLimiter, AtLimiter, StaticsOk
<1>7. CASE SetPinLimiter
  <2>1. at - 1 = Len(config.limiters)
    BY <1>1, <1>2, <1>7 DEF SetPinLimiter, LoopsOk
  <2>2. ratelimiters = config.limiters
    BY <1>1, <1>2, <1>7, <2>1 DEF SetPinLimiter, LoopsOk
  <2>3. QED
    BY <1>1, <1>7, <2>1, <2>2 DEF SetPinLimiter, StaticsOk
<1>8. CASE AddNode
  BY <1>1, <1>8 DEF AddNode, AtNode, StaticsOk
<1>9. CASE PublishPush
  <2>1. entries = Configured(config.push)
    BY <1>1, <1>2, <1>9 DEF PublishPush, AtNode, List, LoopsOk, Configured
  <2>2. QED
    BY <1>1, <1>9, <2>1 DEF PublishPush, StaticsOk
<1>10. CASE PublishGet
  <2>1. entries = Configured(config.get)
    BY <1>1, <1>2, <1>10 DEF PublishGet, AtNode, List, LoopsOk, Configured
  <2>2. QED
    BY <1>1, <1>10, <2>1 DEF PublishGet, StaticsOk
<1>11. CASE Finish
  <2>1. getNodes \cup pushNodes = pushNodes \cup getNodes
    OBVIOUS
  <2>2. QED
    BY <1>1, <1>11, <2>1 DEF Finish, StaticsOk
<1>12. CASE UNCHANGED startup
  BY <1>1, <1>12 DEF startup, StaticsOk
<1>13. QED
  BY <1>4, <1>5, <1>6, <1>7, <1>8, <1>9, <1>10, <1>11, <1>12 DEF Load

\* A list that keeps its rules has as many entries as elements.
LEMMA NothingLost ==
  ASSUME NEW list, list \in Seq(Items(list)), NodesOk(list, Len(list))
  PROVE  Cardinality(Configured(list)) = Len(list)
<1> DEFINE S == 1 .. Len(list)
           F == [i \in S |-> EntryOf(list[i])]
<1>1. F \in [S -> Configured(list)]
  BY DEF Configured
<1>2. \A e \in Configured(list) : \E i \in S : F[i] = e
  BY DEF Configured
<1>3. ASSUME NEW i \in S, NEW j \in S, F[i] = F[j] PROVE i = j
  <2>1. list[i].url = list[j].url
    BY <1>3 DEF EntryOf
  <2>2. list[i].url # Absent
    BY DEF NodesOk
  <2>3. QED
    BY <2>1, <2>2 DEF NodesOk, SameOrigin
<1>4. F \in Bijection(S, Configured(list))
  BY <1>1, <1>2, <1>3, Fun_IsBij
<1>5. ExistsBijection(S, Configured(list))
  BY <1>4 DEF ExistsBijection
<1>6. QED
  BY <1>5, FS_CountingElements

LEMMA LoadedFollows == LoadedInv => LoadedAsConfigured
<1> SUFFICES ASSUME LoadedInv, phase = "ready" PROVE LoadedAsConfigured
  BY DEF LoadedAsConfigured
<1>1. /\ config.push \in Seq(Items(config.push)) /\ config.get \in Seq(Items(config.get))
      /\ config.limiters \in Seq(Items(config.limiters))
  BY ConfigTyped DEF LoadedInv, VerdictInv, IsList
<1>2. NodesOk(config.push, Len(config.push)) /\ NodesOk(config.get, Len(config.get))
  BY DEF LoadedInv, VerdictInv, RulesOk
<1>3. /\ Cardinality(Configured(config.push)) = Len(config.push)
      /\ Cardinality(Configured(config.get)) = Len(config.get)
  BY <1>1, <1>2, NothingLost
<1>4. Urls(pushNodes \cup getNodes) = Urls(pushNodes) \cup Urls(getNodes)
  BY DEF Urls
<1> DEFINE n == Len(config.limiters)
<1>5. DOMAIN config.limiters = 1 .. n
  BY <1>1
<1>6. /\ ratelimiters = config.limiters
      /\ SelectOk(selected, config.limiters, n)
      /\ pushNodes = Configured(config.push) /\ getNodes = Configured(config.get)
      /\ config.healthcheck # Absent => watched = Urls(pushNodes \cup getNodes)
  BY DEF LoadedInv, StaticsOk
<1>7. QED
  BY <1>3, <1>4, <1>5, <1>6 DEF LoadedAsConfigured, SelectOk

(* A firewall that starts routes to, limits by and watches exactly what its *)
(* configuration says; nothing of a list is dropped, merged or mixed up     *)
(* with the next one's.                                                     *)
THEOREM LoadedAsConfiguredHolds == LoadSpec => []LoadedAsConfigured
<1>1. Init => LoadedInv
  BY TypeInit DEF Init, LoadedInv, VerdictInv, RulesOk, LoopsOk, StaticsOk
<1>2. QED
  BY <1>1, StaticsNext, LoadedFollows, PTL DEF LoadSpec
=============================================================================
