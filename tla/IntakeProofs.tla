----------------------------- MODULE IntakeProofs -----------------------------
(***************************************************************************)
(* What TLAPS proves of the way in, for any configurations and requests,   *)
(* and for any decoder.                                                    *)
(***************************************************************************)
EXTENDS Intake, StartupProofs

(* A request is handled beside the loading, never within it: what holds of  *)
(* a firewall that loads holds of one that serves.                          *)
LEMMA IntakeStepLoads == [Next]_vars => [Load]_startup
  BY DEF Next, LoadStep, Handle, Receive, RefuseLarge, RefuseBody, ReadNothing, ReadObject,
         DecoderPanics, BlockByFilter, AnswerOptions, PassFilter, LimiterPasses,
         LimiterDenies, Match, Answer, vars

(* The firewall that serves requests is a firewall that loads as Startup    *)
(* says, so that every property of the loading holds of it too: nothing a   *)
(* request does touches a static.                                           *)
THEOREM IntakeLoads == Spec => LoadSpec
  BY IntakeStepLoads, PTL DEF Spec, IntakeInit, LoadSpec

(* So no request is served on a configuration that breaks a rule, with a    *)
(* node set that is not sound, or by other statics than those configured,   *)
(* then or at any later time.                                               *)
THEOREM ServesAsConfigured ==
  Spec => [](TypeOK /\ NodeSetsSound /\ VerdictIsRight /\ LoadedAsConfigured)
  BY IntakeLoads, TypeCorrect, NodeSetsSoundHolds, VerdictIsRightHolds,
     LoadedAsConfiguredHolds, PTL

----------------------------------------------------------------------------
(***************************************************************************)
(* How far a request is, and what that says of the rest of the state.      *)
(***************************************************************************)
Early == {"idle", "received", "too large", "bad body", "died"}
Asked == {"limiting", "limited", "matched", "unroutable"}

ListsLoaded ==
  /\ phase \in {"limiters", "push", "get", "health", "ready"} =>
       blockedIps = config.blockIps /\ blocked = config.block /\ allowed = config.allow
  /\ phase # "ready" \/ config.healthcheck = Absent => watched = Absent

StageOk ==
  /\ stage # "idle" => phase = "ready" /\ req \in Requests
  /\ stage \notin Asked => buckets = <<>>
  /\ stage \in Early => json = Null
  /\ stage \in Early \cup Asked \cup {"read", "blocked", "options"}

FilterKept ==
  /\ stage \in Asked \cup {"options"} => FilterPasses
  /\ stage = "blocked" => ~FilterPasses

\* What limiter r has done of a request, if the last thing it did was to deny it.
Settled(b, r, denying) ==
  /\ IF denying THEN b.weighed # {} /\ b.weighed \subseteq Keys(r)
     ELSE b.weighed = Keys(r)
  /\ b.charged = IF r.on = "attempt" THEN b.weighed ELSE {}

\* The limiters asked so far are the first ones, and only the last has denied.
BucketsOk ==
  /\ IsList(buckets) /\ Len(buckets) <= Len(ratelimiters)
  /\ \A i \in DOMAIN buckets :
       Settled(buckets[i], ratelimiters[i], stage = "limited" /\ i = Len(buckets))

FrontInv == LoadedInv /\ ListsLoaded /\ StageOk /\ FilterKept /\ BucketsOk

LEMMA ListsNext == ListsLoaded /\ [Load]_startup => ListsLoaded'
<1> SUFFICES ASSUME ListsLoaded, [Load]_startup PROVE ListsLoaded'
  OBVIOUS
<1> USE DEF ListsLoaded, lists, nodes, limits, GoTo, EndAs, Refuse
<1>1. CASE Begin \/ LoadFilter \/ SetPinLimiter \/ PublishPush \/ PublishGet \/ Finish
  BY <1>1 DEF Begin, LoadFilter, SetPinLimiter, PublishPush, PublishGet, Finish
<1>2. CASE RefuseExporter \/ PanicAddress \/ RefuseFilter \/ RefuseLimiter \/ PanicLimiter
           \/ RefusePinWindow \/ RefuseNode
  BY <1>2 DEF RefuseExporter, PanicAddress, RefuseFilter, RefuseLimiter, AtLimiter, AtNode,
              PanicLimiter, RefusePinWindow, RefuseNode
<1>3. CASE AddLimiter \/ AddNode
  BY <1>3 DEF AddLimiter, AtLimiter, AddNode, AtNode
<1>4. CASE UNCHANGED startup
  BY <1>4 DEF startup
<1> QED
  BY <1>1, <1>2, <1>3, <1>4 DEF Load

\* Once it is ready, the loading is over.
LEMMA LoadEnds == Load => phase # "ready"
  BY DEF Load, Begin, RefuseExporter, PanicAddress, LoadFilter, RefuseFilter, AddLimiter,
         RefuseLimiter, PanicLimiter, SetPinLimiter, RefusePinWindow, AddNode, RefuseNode,
         PublishPush, PublishGet, Finish, AtLimiter, AtNode

LEMMA ListAppend ==
  ASSUME NEW s, IsList(s), NEW e
  PROVE  /\ IsList(Append(s, e)) /\ Len(s) \in Nat /\ DOMAIN s = 1 .. Len(s)
         /\ Len(Append(s, e)) = Len(s) + 1
         /\ DOMAIN Append(s, e) = 1 .. Len(s) + 1
         /\ \A i \in DOMAIN s : Append(s, e)[i] = s[i]
         /\ Append(s, e)[Len(s) + 1] = e
<1> DEFINE S == Items(s) \cup {e}
<1>1. s \in Seq(S) /\ e \in S
  BY DEF IsList
<1>2. /\ Append(s, e) \in Seq(S)
      /\ Len(s) \in Nat /\ DOMAIN s = 1 .. Len(s)
      /\ Len(Append(s, e)) = Len(s) + 1
      /\ DOMAIN Append(s, e) = 1 .. Len(s) + 1
      /\ \A i \in DOMAIN s : Append(s, e)[i] = s[i]
      /\ Append(s, e)[Len(s) + 1] = e
  BY <1>1
<1> HIDE DEF S
<1>3. \A i \in 1 .. Len(Append(s, e)) : Append(s, e)[i] \in Items(Append(s, e))
  BY <1>2 DEF Items
<1>4. IsList(Append(s, e))
  BY <1>2, <1>3 DEF IsList
<1> QED
  BY <1>2, <1>4

----------------------------------------------------------------------------
LEMMA FrontInit == IntakeInit => FrontInv
<1> SUFFICES ASSUME IntakeInit PROVE FrontInv
  OBVIOUS
<1>1. LoadedInv
  BY TypeInit DEF IntakeInit, Init, LoadedInv, VerdictInv, RulesOk, LoopsOk, StaticsOk
<1>2. ListsLoaded /\ StageOk /\ FilterKept
  BY DEF IntakeInit, Init, ListsLoaded, StageOk, FilterKept, Early, Asked
<1>3. BucketsOk
  BY DEF IntakeInit, Init, BucketsOk, IsList, Items
<1> QED
  BY <1>1, <1>2, <1>3 DEF FrontInv

\* While the loading goes on no request has come.
LEMMA FrontLoads ==
  ASSUME FrontInv, LoadStep
  PROVE  StageOk' /\ FilterKept' /\ BucketsOk'
<1>1. stage = "idle"
  BY LoadEnds DEF FrontInv, StageOk, LoadStep
<1>2. buckets = <<>> /\ json = Null
  BY <1>1 DEF FrontInv, StageOk, Early, Asked
<1>3. Len(ratelimiters') \in Nat
  BY StaticsNext DEF FrontInv, LoadStep, LoadedInv, VerdictInv, TypeOK
<1> QED
  BY <1>1, <1>2, <1>3
  DEF LoadStep, arrival, StageOk, FilterKept, BucketsOk, Early, Asked, IsList, Items, Null

\* What the limiters charge is read off what does not change any more.
LEMMA KeysKept ==
  ASSUME UNCHANGED <<startup, arrival, json>>
  PROVE  /\ \A r : Keys(r)' = Keys(r)
         /\ FilterPasses' = FilterPasses
  BY DEF startup, lists, limits, nodes, arrival, Keys, SelectedOf, Tables, FilterPasses,
         ContractsPass

LEMMA FrontHandles ==
  ASSUME FrontInv, Handle
  PROVE  StageOk' /\ FilterKept' /\ BucketsOk'
<1> USE DEF Early, Asked
<1>1. StageOk /\ FilterKept /\ BucketsOk
  BY DEF FrontInv
<1>2. CASE Receive
  BY <1>1, <1>2 DEF Receive, startup, limits, StageOk, FilterKept, BucketsOk, IsList, Items
<1>3. CASE RefuseLarge \/ RefuseBody \/ ReadNothing \/ DecoderPanics
  <2>1. /\ UNCHANGED <<startup, arrival, json, buckets>> /\ stage = "received"
        /\ stage' \in {"too large", "bad body", "read", "died"}
    BY <1>3 DEF RefuseLarge, RefuseBody, ReadNothing, DecoderPanics, AtObject, AtBody, Answer
  <2>2. buckets = <<>> /\ json = Null /\ phase = "ready" /\ req \in Requests
    BY <1>1, <2>1 DEF StageOk
  <2>3. StageOk'
    <3>1. phase' = "ready" /\ req' \in Requests /\ buckets' = <<>> /\ json' = Null
      BY <2>1, <2>2 DEF startup, arrival
    <3>2. stage' \in Early \cup Asked \cup {"read", "blocked", "options"}
      BY <2>1
    <3> HIDE DEF Early, Asked
    <3> QED
      BY <3>1, <3>2 DEF StageOk
  <2>4. FilterKept'
    BY <2>1 DEF FilterKept
  <2>5. BucketsOk'
    <3>1. buckets' = buckets /\ ratelimiters' = ratelimiters
      BY <2>1 DEF startup, limits
    <3>2. \A i \in DOMAIN buckets' : FALSE
      BY <2>2, <3>1
    <3> QED
      BY <1>1, <3>1, <3>2 DEF BucketsOk, IsList, Items
  <2> QED
    BY <2>3, <2>4, <2>5
<1>4. CASE ReadObject
  BY <1>1, <1>4 DEF ReadObject, AtObject, AtBody, startup, arrival, limits, StageOk,
                    FilterKept, BucketsOk, IsList, Items
<1>5. CASE BlockByFilter \/ AnswerOptions \/ PassFilter
  <2>1. UNCHANGED <<startup, arrival, json, buckets>> /\ stage = "read" /\ buckets = <<>>
    BY <1>1, <1>5 DEF BlockByFilter, AnswerOptions, PassFilter, Answer, StageOk
  <2>2. FilterPasses' = FilterPasses
    BY <2>1, KeysKept
  <2>3. StageOk' /\ FilterKept'
    BY <1>1, <1>5, <2>1, <2>2
    DEF BlockByFilter, AnswerOptions, PassFilter, Answer, startup, arrival, StageOk, FilterKept
  <2>4. BucketsOk'
    BY <1>1, <2>1 DEF startup, limits, BucketsOk, IsList, Items
  <2> QED
    BY <2>3, <2>4
<1>6. CASE LimiterPasses \/ LimiterDenies
  <2>1. /\ UNCHANGED <<startup, arrival, json>> /\ stage = "limiting"
        /\ stage' \in {"limiting", "limited"}
        /\ Len(buckets) + 1 \in DOMAIN ratelimiters
    BY <1>6 DEF LimiterPasses, LimiterDenies, AtTurn, Turn
  <2>2. FilterPasses' = FilterPasses /\ \A r : Keys(r)' = Keys(r)
    BY <2>1, KeysKept
  <2>3. ratelimiters' = ratelimiters /\ DOMAIN ratelimiters = 1 .. Len(ratelimiters)
        /\ Len(ratelimiters) \in Nat
    BY <2>1 DEF startup, limits, FrontInv, LoadedInv, VerdictInv, TypeOK
  <2> DEFINE r == ratelimiters[Len(buckets) + 1]
  <2>4. PICK keys : /\ Charge(keys)
                    /\ IF stage' = "limited" THEN keys # {} /\ keys \subseteq Keys(r)
                       ELSE keys = Keys(r)
    <3>1. CASE LimiterPasses
      BY <2>1, <3>1 DEF LimiterPasses, Turn
    <3>2. CASE LimiterDenies
      BY <3>2 DEF LimiterDenies, Turn
    <3> QED
      BY <1>6, <3>1, <3>2
  <2> DEFINE b == [weighed |-> keys, charged |-> IF r.on = "attempt" THEN keys ELSE {}]
  <2>5. buckets' = Append(buckets, b)
    BY <2>4 DEF Charge, Turn
  <2>6. Settled(b, r, stage' = "limited")
    BY <2>4 DEF Settled
  <2> HIDE DEF b
  <2>7. StageOk' /\ FilterKept'
    BY <1>1, <2>1, <2>2 DEF startup, arrival, StageOk, FilterKept
  <2>8. /\ IsList(buckets') /\ Len(buckets) \in Nat /\ DOMAIN buckets = 1 .. Len(buckets)
        /\ Len(buckets') = Len(buckets) + 1
        /\ DOMAIN buckets' = 1 .. Len(buckets) + 1
        /\ \A i \in DOMAIN buckets : buckets'[i] = buckets[i]
        /\ buckets'[Len(buckets) + 1] = b
    BY <1>1, <2>5, ListAppend DEF BucketsOk
  <2>9. ASSUME NEW i \in DOMAIN buckets'
        PROVE  Settled(buckets'[i], ratelimiters[i], stage' = "limited" /\ i = Len(buckets'))
    <3>1. CASE i \in DOMAIN buckets
      <4>1. Settled(buckets[i], ratelimiters[i], FALSE)
        BY <1>1, <2>1, <3>1 DEF BucketsOk, Settled
      <4>2. i # Len(buckets') /\ buckets'[i] = buckets[i]
        BY <2>8, <3>1
      <4> QED
        BY <4>1, <4>2 DEF Settled
    <3>2. CASE i = Len(buckets) + 1
      BY <2>8, <2>6, <3>2 DEF Settled
    <3> QED
      BY <2>8, <3>1, <3>2
  <2>10. ASSUME NEW i \in DOMAIN buckets'
        PROVE  Settled(buckets[i], ratelimiters[i], stage = "limited" /\ i = Len(buckets))'
    BY <2>2, <2>3, <2>9 DEF Settled
  <2>11. BucketsOk'
    BY <2>1, <2>3, <2>8, <2>10 DEF BucketsOk
  <2> QED
    BY <2>7, <2>11
<1>7. CASE Match
  <2>1. UNCHANGED <<startup, arrival, json, buckets>> /\ stage = "limiting"
        /\ stage' \in {"unroutable", "matched"}
    BY <1>7 DEF Match
  <2>2. FilterPasses' = FilterPasses /\ \A r : Keys(r)' = Keys(r)
    BY <2>1, KeysKept
  <2>3. StageOk' /\ FilterKept'
    BY <1>1, <2>1, <2>2 DEF startup, arrival, StageOk, FilterKept
  <2>4. BucketsOk'
    BY <1>1, <2>1, <2>2 DEF startup, limits, BucketsOk, Settled, IsList, Items
  <2> QED
    BY <2>3, <2>4
<1> QED
  BY <1>2, <1>3, <1>4, <1>5, <1>6, <1>7 DEF Handle

LEMMA FrontNext == FrontInv /\ [Next]_vars => FrontInv'
<1> SUFFICES ASSUME FrontInv, [Next]_vars PROVE FrontInv'
  OBVIOUS
<1>1. LoadedInv' /\ ListsLoaded'
  BY IntakeStepLoads, StaticsNext, ListsNext DEF FrontInv
<1>2. CASE UNCHANGED vars
  <2>1. StageOk' /\ FilterKept'
    BY <1>2, KeysKept DEF vars, startup, arrival, FrontInv, StageOk, FilterKept
  <2>2. BucketsOk'
    BY <1>2, KeysKept DEF vars, startup, limits, FrontInv, BucketsOk, Settled, IsList, Items
  <2> QED
    BY <1>1, <2>1, <2>2 DEF FrontInv
<1> QED
  BY <1>1, <1>2, FrontLoads, FrontHandles DEF FrontInv, Next

LEMMA FrontHolds == Spec => []FrontInv
  BY FrontInit, FrontNext, PTL DEF Spec

----------------------------------------------------------------------------
LEMMA PoolMatches ==
  ASSUME FrontInv, Match
  PROVE  RoutedToItsPool'
<1>1. /\ phase = "ready" /\ FilterPasses /\ LoadedInv /\ stage = "limiting"
      /\ UNCHANGED <<startup, arrival, buckets>>
  BY DEF Match, FrontInv, StageOk, FilterKept, Asked
<1>2. /\ pushNodes = Configured(config.push) /\ getNodes = Configured(config.get)
      /\ ratelimiters = config.limiters
      /\ config.healthcheck = Absent => watched = Absent
  BY <1>1 DEF LoadedInv, StaticsOk, FrontInv, ListsLoaded
<1> DEFINE due == Configured(IF req.path \in PushEndpoints THEN config.push ELSE config.get)
<1>3. PoolOf(req.path) = due
  BY <1>1, <1>2, EndpointsAssumption DEF PoolOf, FilterPasses
<1>4. pool' \subseteq PoolOf(req.path) /\ (watched = Absent => pool' = PoolOf(req.path))
  BY DEF Match
<1>5. Len(buckets) = Len(config.limiters)
  <2>1. /\ Len(buckets) + 1 \notin DOMAIN ratelimiters /\ Len(buckets) <= Len(ratelimiters)
        /\ DOMAIN ratelimiters = 1 .. Len(ratelimiters) /\ Len(ratelimiters) \in Nat
        /\ Len(buckets) \in Nat
    BY DEF Match, Turn, FrontInv, BucketsOk, IsList, LoadedInv, VerdictInv, TypeOK
  <2> QED
    BY <1>2, <2>1
<1> QED
  BY <1>1, <1>2, <1>3, <1>4, <1>5 DEF RoutedToItsPool, startup, arrival, Configured

(* A request that is matched has been asked of every configured limiter and *)
(* goes to configured nodes of its kind of endpoint, to all of them when no *)
(* health checker runs: for every configuration that starts, every request  *)
(* and whatever the decoder makes of its body.                              *)
THEOREM RoutedToItsPoolHolds == Spec => []RoutedToItsPool
<1>1. IntakeInit => RoutedToItsPool
  BY DEF IntakeInit, RoutedToItsPool
<1>2. FrontInv /\ RoutedToItsPool /\ [Next]_vars => RoutedToItsPool'
  <2> SUFFICES ASSUME FrontInv, RoutedToItsPool, [Next]_vars PROVE RoutedToItsPool'
    OBVIOUS
  <2>1. CASE Match
    BY <2>1, PoolMatches
  <2>2. CASE UNCHANGED vars
    BY <2>2 DEF vars, startup, arrival, RoutedToItsPool, Configured
  <2>3. CASE LoadStep
    BY <2>3, LoadEnds DEF FrontInv, StageOk, LoadStep, RoutedToItsPool
  <2>4. CASE Handle /\ ~Match
    BY <2>4 DEF Handle, Receive, RefuseLarge, RefuseBody, ReadNothing, ReadObject, DecoderPanics,
      BlockByFilter, AnswerOptions, PassFilter, LimiterPasses, LimiterDenies, AtTurn, Answer,
      RoutedToItsPool
  <2> QED
    BY <2>1, <2>2, <2>3, <2>4 DEF Next
<1> QED
  BY <1>1, <1>2, FrontHolds, PTL DEF Spec

----------------------------------------------------------------------------
(***************************************************************************)
(* What is weighed.  What the decoder makes of bytes is the one thing the  *)
(* theorems below take from the run front and not from a proof: its        *)
(* property PackedIsRead.  It says nothing of where a body has the bytes.  *)
(***************************************************************************)
HasObject == req.method = "POST" /\ req.body.kind = "object"

\* What the rest of the way goes by.
JsonOk ==
  Read =>
    /\ Weighs => json.unpacked_trx = req.trx
    /\ ~Weighs /\ Plain => Silent(json.unpacked_trx)
    /\ json.code = IF HasObject THEN req.body.code ELSE Absent
    /\ json.table = IF HasObject THEN req.body.table ELSE Absent

LEMMA JsonFixed ==
  ASSUME UNCHANGED <<arrival, json>>, Read, JsonOk
  PROVE  JsonOk'
  BY DEF JsonOk, Weighs, Carries, Plain, HasObject, Silent, arrival

LEMMA ObjectIsWeighed ==
  ASSUME PackedIsRead, FrontInv, ReadObject
  PROVE  JsonOk'
<1>1. /\ HasObject /\ req \in Requests /\ req # Absent /\ stage = "received"
      /\ req' = req
  BY RequestsAssumption
  DEF ReadObject, AtObject, AtBody, HasObject, FrontInv, StageOk, arrival
<1>2. PICK checked \in BOOLEAN :
        json' = [unpacked_trx |-> IF Unpacked(checked).outcome = "ok" THEN Unpacked(checked).value
                                  ELSE req.body.unpacked_trx,
                 code |-> req.body.code, table |-> req.body.table]
  BY DEF ReadObject
<1> DEFINE bytes == PackedOf(req.body)
<1>3. Weighs <=> req.trx # Absent /\ bytes = req.packed
  BY <1>1 DEF Weighs, Carries, HasObject, PackedOf
<1>4. ASSUME Weighs PROVE json'.unpacked_trx = req.trx
  <2>1. bytes = req.packed /\ bytes # Absent /\ req.trx # Absent
    BY <1>1, <1>3, <1>4, RequestsAssumption
  <2>2. Unpacked(checked) = Decode(req.packed, checked)
    BY <2>1 DEF Unpacked
  <2>3. Unpacked(checked).outcome = "ok" /\ Unpacked(checked).value = req.trx
    BY <1>1, <2>1, <2>2 DEF PackedIsRead, ReadsRight
  <2> QED
    BY <1>2, <2>3
<1>5. ASSUME ~Weighs, Plain PROVE Silent(json'.unpacked_trx)
  <2>1. req.body.unpacked_trx = Absent
    BY <1>1, <1>5 DEF Plain, HasObject
  <2>2. CASE bytes = Absent
    BY <1>2, <2>1, <2>2 DEF Unpacked, Silent
  <2>3. CASE bytes # Absent
    <3>1. bytes \in BytesIn(req.body)
      BY <1>1, <2>3 DEF BytesIn, HasObject, PackedOf
    <3>2. bytes # req.packed
      BY <1>1, <1>3, <1>5, <2>3, RequestsAssumption
    <3>3. Unpacked(checked).outcome = "ok" => Silent(Unpacked(checked).value)
      BY <1>1, <2>3, <3>1, <3>2 DEF PackedIsRead, ReadsRight, Unpacked
    <3> QED
      BY <1>2, <2>1, <3>3 DEF Silent
  <2> QED
    BY <2>2, <2>3
<1>6. json'.code = req.body.code /\ json'.table = req.body.table
  BY <1>2
<1> QED
  BY <1>1, <1>4, <1>5, <1>6 DEF JsonOk, Weighs, Carries, Plain, HasObject, Silent

LEMMA JsonNext ==
  ASSUME PackedIsRead, FrontInv, JsonOk, [Next]_vars
  PROVE  JsonOk'
<1>1. CASE UNCHANGED <<arrival, json>> /\ (Read' => Read)
  BY <1>1, JsonFixed DEF JsonOk
<1>2. CASE Receive \/ RefuseLarge \/ RefuseBody \/ DecoderPanics
  BY <1>2 DEF Receive, RefuseLarge, RefuseBody, DecoderPanics, Answer, JsonOk, Read
<1>3. CASE ReadNothing
  <2>1. /\ UNCHANGED <<arrival, json>> /\ json = Null /\ req \in Requests /\ ~HasObject
    BY <1>3 DEF ReadNothing, AtBody, Answer, FrontInv, StageOk, Early, HasObject
  <2>2. ~Weighs
    BY <2>1 DEF Weighs, Carries, HasObject
  <2>3. JsonOk
    BY <2>1, <2>2 DEF JsonOk, Null, Silent
  <2>4. req' = req /\ json' = json
    BY <2>1 DEF arrival
  <2> QED
    BY <2>1, <2>2, <2>4 DEF JsonOk, Weighs, Carries, HasObject, Silent, Null
<1>4. CASE ReadObject
  BY <1>4, ObjectIsWeighed
<1>5. CASE LoadStep \/ UNCHANGED vars
  BY <1>1, <1>5 DEF LoadStep, vars, Read
<1>6. CASE BlockByFilter \/ AnswerOptions \/ PassFilter \/ LimiterPasses \/ LimiterDenies \/ Match
  BY <1>1, <1>6
  DEF BlockByFilter, AnswerOptions, PassFilter, LimiterPasses, LimiterDenies, Match, AtTurn,
      Answer, Read
<1> QED
  BY <1>2, <1>3, <1>4, <1>5, <1>6 DEF Next, Handle

LEMMA JsonHolds == Spec /\ []PackedIsRead => []JsonOk
<1>1. IntakeInit => JsonOk
  BY DEF IntakeInit, JsonOk, Read
<1>2. PackedIsRead /\ FrontInv /\ JsonOk /\ [Next]_vars => JsonOk'
  BY JsonNext
<1> QED
  BY <1>1, <1>2, FrontHolds, PTL DEF Spec

(* The transaction that is weighed is the one the client packed, if the     *)
(* body carries it in one of its two members and whatever it says beside    *)
(* it; a body that does not has none weighed in its stead.  Of the decoder  *)
(* this takes that it reads what is packed and makes nothing of the rest.   *)
THEOREM WeighedIsCarriedHolds == Spec /\ []PackedIsRead => []WeighedIsCarried
<1>1. JsonOk => WeighedIsCarried
  BY DEF JsonOk, WeighedIsCarried
<1> QED
  BY <1>1, JsonHolds, PTL

\* The selectors find the contracts and the authorizers of the client.
LEMMA SelectorsFind ==
  ASSUME FrontInv, JsonOk, Read, Plain
  PROVE  Accounts(json) = Called /\ Actors(json) = Authorizers
<1>1. req \in Requests
  BY DEF FrontInv, StageOk, Read
<1>2. CASE Weighs
  <2>1. json.unpacked_trx = req.trx /\ req.trx # Absent
    BY <1>2 DEF JsonOk, Weighs, Carries
  <2>2. Absent \notin CalledBy(req.trx) /\ Absent \notin AuthorizersOf(req.trx)
    BY <1>1, <2>1, RequestsAssumption
  <2> QED
    BY <1>2, <2>1, <2>2 DEF Accounts, Actors, Called, Authorizers
<1>3. CASE ~Weighs
  <2>1. Silent(json.unpacked_trx)
    BY <1>3 DEF JsonOk
  <2> QED
    BY <1>3, <2>1 DEF Silent, Accounts, Actors, Called, Authorizers
<1> QED
  BY <1>2, <1>3

\* Where nothing is overlooked, what is looked at is all there is.
LEMMA NothingOverlooked ==
  ASSUME req # Absent, ~Overlooked
  PROVE  Called = AllCalled
<1>1. CASE req.trx = Absent
  BY <1>1 DEF Called, AllCalled, Weighs, Carries
<1>2. CASE req.trx # Absent
  <2>1. Weighs /\ req.trx.ctx_free_actions = <<>> /\ req.method = "POST"
    BY <1>2 DEF Overlooked, Weighs, Carries
  <2>2. {a.account : a \in Items(req.trx.ctx_free_actions)} = {}
    BY <2>1 DEF Items
  <2> QED
    BY <1>2, <2>1, <2>2 DEF Called, AllCalled
<1> QED
  BY <1>1, <1>2

LEMMA PolicyFollows == FrontInv /\ JsonOk => PolicyKept
<1> SUFFICES ASSUME FrontInv, JsonOk, Read, stage # "read", Plain
             PROVE  /\ stage = "blocked" <=> ~Permits(Called)
                    /\ ~Overlooked => (stage = "blocked" <=> ~Permits(AllCalled))
  BY DEF PolicyKept
<1>1. Accounts(json) = Called
  BY SelectorsFind
<1>2. /\ blockedIps = config.blockIps /\ blocked = config.block /\ allowed = config.allow
      /\ config.block = {} \/ config.allow = {}
  BY DEF FrontInv, StageOk, ListsLoaded, LoadedInv, VerdictInv, RulesOk, FilterOk, Read
<1>3. FilterPasses <=> Permits(Called)
  BY <1>1, <1>2 DEF FilterPasses, ContractsPass, Permits
<1>4. stage = "blocked" <=> ~FilterPasses
  BY DEF FrontInv, StageOk, FilterKept, Read, Early, Asked
<1>5. req # Absent
  BY RequestsAssumption DEF FrontInv, StageOk, Read
<1> QED
  BY <1>3, <1>4, <1>5, NothingOverlooked

(* The filter blocks exactly the requests the configuration's lists say, by *)
(* all that the client's transaction calls where nothing of it is           *)
(* overlooked, and by the actions it looks at where something is: for every *)
(* configuration that starts and every decoder that keeps PackedIsRead.     *)
THEOREM PolicyKeptHolds == Spec /\ []PackedIsRead => []PolicyKept
  BY PolicyFollows, FrontHolds, JsonHolds, PTL

\* What a limiter selects is what its configuration says to select.
LEMMA KeysBySelection ==
  ASSUME Accounts(json) = Called, Actors(json) = Authorizers, JsonOk, Read,
         NEW r, r.bucket \in BucketTypes, \A K : SelectedOf(r.name, K) = Of(r, K)
  PROVE  Keys(r) = Due(r)
<1>1. SelectedOf(r.name, Tables) =
        IF /\ req.path \in TableEndpoints
           /\ req.method = "POST" /\ req.body.kind = "object"
           /\ req.body.code # Absent /\ req.body.table # Absent
        THEN Of(r, {<<req.body.code, req.body.table>>}) ELSE {}
  <2>1. CASE HasObject
    <3>1. json.code = req.body.code /\ json.table = req.body.table
      BY <2>1 DEF JsonOk
    <3> QED
      BY <2>1, <3>1 DEF Tables, HasObject, SelectedOf
  <2>2. CASE ~HasObject
    <3>1. json.code = Absent
      BY <2>2 DEF JsonOk
    <3>2. Tables = {}
      BY <3>1 DEF Tables
    <3>3. SelectedOf(r.name, Tables) = {}
      BY <3>2 DEF SelectedOf
    <3> QED
      BY <2>2, <3>3 DEF HasObject
  <2> QED
    BY <2>1, <2>2
<1>2. CASE r.bucket = "contract"
  BY <1>2 DEF Keys, Due
<1>3. CASE r.bucket = "ip"
  BY <1>3 DEF Keys, Due
<1>4. CASE r.bucket = "authorizer"
  BY <1>4 DEF Keys, Due
<1>5. CASE r.bucket = "table"
  BY <1>1, <1>5 DEF Keys, Due
<1> QED
  BY <1>2, <1>3, <1>4, <1>5 DEF BucketTypes

\* A limiter of the configuration is asked for the keys that are due.
LEMMA KeysAreDue ==
  ASSUME FrontInv, JsonOk, Read, Plain, NEW i \in DOMAIN config.limiters
  PROVE  Keys(config.limiters[i]) = Due(config.limiters[i])
<1> DEFINE r == config.limiters[i]
<1>1. Accounts(json) = Called /\ Actors(json) = Authorizers
  BY SelectorsFind
<1>2. r.bucket \in BucketTypes
  BY ConfigsAssumption DEF FrontInv, LoadedInv, VerdictInv, TypeOK, ConfigsAreTyped, Items
<1>3. IF r.select = Absent THEN r.name \notin DOMAIN selected
      ELSE r.name \in DOMAIN selected /\ selected[r.name] = r.select
  BY LoadedFollows DEF FrontInv, StageOk, Read, LoadedAsConfigured
<1>4. \A K : SelectedOf(r.name, K) = Of(r, K)
  BY <1>3 DEF SelectedOf, Of
<1> QED
  BY <1>1, <1>2, <1>4, KeysBySelection

LEMMA BucketsFollowInv == FrontInv /\ JsonOk => BucketsFollow
<1> SUFFICES ASSUME FrontInv, JsonOk, Plain, NEW i \in DOMAIN buckets
             PROVE  LET r == config.limiters[i]
                        denying == stage = "limited" /\ i = Len(buckets)
                    IN  /\ IF denying THEN buckets[i].weighed # {} /\ buckets[i].weighed \subseteq Due(r)
                           ELSE buckets[i].weighed = Due(r)
                        /\ buckets[i].charged = IF r.on = "attempt" THEN buckets[i].weighed ELSE {}
  BY DEF BucketsFollow
<1>1. stage \in Asked
  BY DEF FrontInv, StageOk
<1>2. Read /\ phase = "ready"
  BY <1>1 DEF Asked, Read, FrontInv, StageOk
<1>3. ratelimiters = config.limiters
  BY <1>2 DEF FrontInv, LoadedInv, StaticsOk
<1>4. i \in DOMAIN config.limiters
  BY <1>3 DEF FrontInv, BucketsOk, IsList, LoadedInv, VerdictInv, TypeOK
<1>5. Settled(buckets[i], config.limiters[i], stage = "limited" /\ i = Len(buckets))
  BY <1>3 DEF FrontInv, BucketsOk
<1>6. Keys(config.limiters[i]) = Due(config.limiters[i])
  BY <1>2, <1>4, KeysAreDue
<1> QED
  BY <1>5, <1>6 DEF Settled

(* What a request that is let through or denied has cost it: each limiter   *)
(* before the one that denies has weighed all the keys its configuration    *)
(* selects and no other, that one some of them, and only the limiters on    *)
(* attempts have charged what they weighed; for lists of limiters of any    *)
(* length and every decoder that keeps PackedIsRead.                        *)
THEOREM BucketsFollowHolds == Spec /\ []PackedIsRead => []BucketsFollow
  BY BucketsFollowInv, FrontHolds, JsonHolds, PTL
=============================================================================
