-------------------------------- MODULE Intake --------------------------------
(***************************************************************************)
(* What a started firewall reads off one request (the first half of        *)
(* handle_request, with the closures from_config gives the filter, the     *)
(* rate limiters and the first matching rule): the client's address, the   *)
(* body and the transaction packed in it, then the filter's verdict, the   *)
(* keys each limiter charges and the pool of nodes.  Nothing writes the    *)
(* statics once they are loaded, so requests do not meet here: they meet   *)
(* in the limiters (RateLimiter) and from the matched nodes on (Firewall). *)
(***************************************************************************)
EXTENDS Startup

CONSTANTS
  Decode(_, _),   \* from_bytes of bytes, with and without overflow checks: Decoder's FromBytes
  Requests,       \* the requests
  PushEndpoints,  \* PUSH_ENDPOINTS
  GetEndpoints,   \* GET_ENDPOINTS
  TableEndpoints  \* get_table_rows and get_table_by_scope

ASSUME EndpointsAssumption ==
  TableEndpoints \subseteq GetEndpoints /\ GetEndpoints \cap PushEndpoints = {}

(***************************************************************************)
(* A request: its method, path, peer, the entries of the configured header *)
(* (Absent: there is none; an entry is an address, or Absent if it does    *)
(* not parse), the upper bound of its size, and its body.  A body is       *)
(* unreadable, empty, no JSON, JSON that is no object, or an object with   *)
(* some of five members.  The member "transaction" is Absent or has a      *)
(* packed_trx of its own, and any packed_trx is Absent (or no hex) or      *)
(* bytes.  Two more fields are no part of what arrives, and say what the   *)
(* client meant: trx is the transaction it packed (or Absent), of which    *)
(* every name is there, and packed is the bytes it packed it into.  They   *)
(* may be anywhere in the body, or in it in another form: nothing is       *)
(* assumed of where.                                                       *)
(***************************************************************************)
\* The contracts a transaction calls and the accounts that authorize it.
CalledBy(trx) == {a.account : a \in Items(trx.actions)}
AuthorizersOf(trx) ==
  {b.actor : b \in UNION {Items(a.authorization) : a \in Items(trx.actions)}}

ASSUME RequestsAssumption ==
  /\ Absent \notin Requests
  /\ \A r \in Requests :
       /\ r.trx = Absent <=> r.packed = Absent
       /\ r.trx # Absent => Absent \notin CalledBy(r.trx) \cup AuthorizersOf(r.trx)

VARIABLES
  req,      \* the request
  stage,    \* how far it is, or how it was answered
  ip,       \* the client's address
  json,     \* the members of the parsed body that are looked at
  buckets,  \* what each limiter asked so far has weighed and charged
  pool      \* the nodes that match

arrival == <<req, ip>>
vars == <<startup, arrival, stage, json, buckets, pool>>

Null == [unpacked_trx |-> Absent, code |-> Absent, table |-> Absent]

IntakeInit ==
  /\ Init
  /\ stage = "idle" /\ req = Absent /\ ip = Absent
  /\ json = Null /\ buckets = <<>> /\ pool = {}

\* Startup's own steps come first.
LoadStep == Load /\ UNCHANGED <<arrival, stage, json, buckets, pool>>

Answer(how) == stage' = how /\ UNCHANGED <<startup, arrival, json, buckets, pool>>

----------------------------------------------------------------------------
\* The first entry of the header, if one is configured and parses.
ClientIp(r) ==
  IF config.ipHeader /\ r.header # Absent /\ r.header[1] # Absent THEN r.header[1] ELSE r.peer

Receive ==
  /\ phase = "ready" /\ stage = "idle"
  /\ req' \in Requests
  /\ ip' = ClientIp(req')
  /\ stage' = "received"
  /\ UNCHANGED <<startup, json, buckets, pool>>

TooLarge == req.size > config.maxBody

RefuseLarge == stage = "received" /\ TooLarge /\ Answer("too large")

AtBody == stage = "received" /\ ~TooLarge

(* Only a POST has its body read.                                           *)
RefuseBody ==
  /\ AtBody
  /\ req.method = "POST" /\ req.body.kind \in {"unreadable", "text"}
  /\ Answer("bad body")

ReadNothing ==
  /\ AtBody
  /\ req.method # "POST" \/ req.body.kind \in {"empty", "array"}
  /\ Answer("read")

(***************************************************************************)
(* As in RateLimiter, a definition whose name starts with Bad is a         *)
(* plausible mistake in the definition after it and is used nowhere.       *)
(***************************************************************************)
BadPackedOf(body) == body.packed_trx  \* a transaction that is nested is overlooked

\* A member "transaction" hides a packed_trx beside it, even if it is no object.
PackedOf(body) ==
  IF body.transaction = Absent THEN body.packed_trx ELSE body.transaction.packed_trx

Unpacked(checked) ==
  LET packed == PackedOf(req.body)
  IN  IF packed = Absent THEN [outcome |-> "none"] ELSE Decode(packed, checked)

AtObject == AtBody /\ req.method = "POST" /\ req.body.kind = "object"

(* The transaction replaces an unpacked_trx the body carries; what cannot   *)
(* be decoded leaves the body as it came.                                   *)
ReadObject ==
  /\ AtObject
  /\ \E checked \in BOOLEAN :
       LET trx == Unpacked(checked) IN
       /\ trx.outcome # "panic"
       /\ json' = [unpacked_trx |-> IF trx.outcome = "ok" THEN trx.value
                                    ELSE req.body.unpacked_trx,
                   code |-> req.body.code, table |-> req.body.table]
  /\ stage' = "read"
  /\ UNCHANGED <<startup, arrival, buckets, pool>>

(* In a build with overflow checks the connection's task dies.              *)
DecoderPanics ==
  /\ AtObject
  /\ Unpacked(TRUE).outcome = "panic"
  /\ Answer("died")

----------------------------------------------------------------------------
\* What the selectors find: strings only.
Accounts(j) ==
  IF j.unpacked_trx = Absent THEN {} ELSE CalledBy(j.unpacked_trx) \ {Absent}
Actors(j) ==
  IF j.unpacked_trx = Absent THEN {} ELSE AuthorizersOf(j.unpacked_trx) \ {Absent}

ContractsPass ==
  IF blocked = {} /\ allowed = {} THEN TRUE
  ELSE IF blocked = {} THEN Accounts(json) \subseteq allowed
  ELSE Accounts(json) \cap blocked = {}

FilterPasses ==
  /\ req.path \in PushEndpoints \cup GetEndpoints
  /\ ip \notin blockedIps
  /\ ContractsPass

BlockByFilter == stage = "read" /\ ~FilterPasses /\ Answer("blocked")

(* The preflight is answered after the filter and before the limiters.      *)
AnswerOptions ==
  /\ stage = "read" /\ FilterPasses
  /\ req.method = "OPTIONS"
  /\ Answer("options")

PassFilter ==
  /\ stage = "read" /\ FilterPasses
  /\ req.method # "OPTIONS"
  /\ Answer("limiting")

----------------------------------------------------------------------------
BadSelectedOf(name, keys) == keys  \* the accounts to select are not looked up

SelectedOf(name, keys) ==
  IF name \in DOMAIN selected THEN keys \cap selected[name] ELSE keys

\* A key is the sequence of the parts the code joins with "::".
Tables ==
  IF req.path \in TableEndpoints /\ json.code # Absent /\ json.table # Absent
    THEN {<<json.code, json.table>>} ELSE {}

\* The keys of a limiter, by its bucket_type.
Keys(r) ==
  CASE r.bucket = "contract" -> SelectedOf(r.name, {<<a>> : a \in Accounts(json)})
    [] r.bucket = "ip" -> {<<ip>>}
    [] r.bucket = "authorizer" -> SelectedOf(r.name, {<<a>> : a \in Actors(json)})
    [] r.bucket = "table" -> {<<ip>> \o t : t \in SelectedOf(r.name, Tables)}

Turn == Len(buckets) + 1

AtTurn == stage = "limiting" /\ Turn \in DOMAIN ratelimiters

\* A limiter on failures charges nothing before the answer is there.
Charge(keys) ==
  buckets' = Append(buckets,
    [weighed |-> keys,
     charged |-> IF ratelimiters[Turn].on = "attempt" THEN keys ELSE {}])

(* The limiter has room for every key.                                      *)
LimiterPasses ==
  /\ AtTurn
  /\ Charge(Keys(ratelimiters[Turn]))
  /\ UNCHANGED <<startup, arrival, stage, json, pool>>

(* The loop over the keys, in the order of a hash set, comes to one that is *)
(* full: it is charged like those before it, and the rest is left alone.    *)
LimiterDenies ==
  /\ AtTurn
  /\ \E keys \in SUBSET Keys(ratelimiters[Turn]) : keys # {} /\ Charge(keys)
  /\ stage' = "limited"
  /\ UNCHANGED <<startup, arrival, json, pool>>

BadPoolOf(path) ==  \* the push endpoints are not told apart
  IF path \in GetEndpoints \cup PushEndpoints THEN getNodes ELSE {}

\* The first matching rule.
PoolOf(path) ==
  CASE path \in GetEndpoints -> getNodes
    [] path \in PushEndpoints -> pushNodes
    [] OTHER -> {}

(* The second rule keeps the nodes whose url the health checker has marked  *)
(* healthy; it can have marked any of those it watches.                     *)
Match ==
  /\ stage = "limiting" /\ Turn \notin DOMAIN ratelimiters
  /\ IF watched = Absent THEN pool' = PoolOf(req.path)
     ELSE \E up \in SUBSET watched : pool' = {e \in PoolOf(req.path) : e.url \in up}
  /\ stage' = IF pool' = {} THEN "unroutable" ELSE "matched"
  /\ UNCHANGED <<startup, arrival, json, buckets>>

Handle ==
  \/ Receive \/ RefuseLarge \/ RefuseBody \/ ReadNothing \/ ReadObject \/ DecoderPanics
  \/ BlockByFilter \/ AnswerOptions \/ PassFilter
  \/ LimiterPasses \/ LimiterDenies
  \/ Match

Next == LoadStep \/ Handle

Spec == IntakeInit /\ [][Next]_vars
----------------------------------------------------------------------------
Read == stage \notin {"idle", "received", "too large", "bad body", "died"}

\* A transaction that brings no action.
Silent(trx) == trx = Absent \/ (CalledBy(trx) = {} /\ AuthorizersOf(trx) = {})

\* The bytes in the two members of a body that can hold some.
BytesIn(body) ==
  IF body.kind # "object" THEN {}
  ELSE ({body.packed_trx} \cup
        IF body.transaction = Absent THEN {} ELSE {body.transaction.packed_trx}) \ {Absent}

ReadsRight(r) ==
  \A checked \in BOOLEAN :
    /\ r.trx # Absent =>
         Decode(r.packed, checked).outcome = "ok" /\ Decode(r.packed, checked).value = r.trx
    /\ \A bytes \in BytesIn(r.body) \ {r.packed} :
         Decode(bytes, checked).outcome = "ok" => Silent(Decode(bytes, checked).value)

(* With overflow checks and without, Decode reads every field of the        *)
(* transaction a client packed, whatever the lengths of its lists and names *)
(* and however many bytes come after it, and it finds no action in bytes    *)
(* that nobody packed.                                                      *)
PackedIsRead == stage = "received" => ReadsRight(req)

\* Where the endpoints for one transaction have it: in a member packed_trx of
\* the body, or of the member "transaction" if there is one.
Carries(r) ==
  /\ r.trx # Absent /\ r.method = "POST" /\ r.body.kind = "object"
  /\ r.packed = IF r.body.transaction = Absent THEN r.body.packed_trx
                ELSE r.body.transaction.packed_trx

Weighs == req # Absent /\ Carries(req)

\* Requests that carry none there and bring an unpacked_trx of their own are
\* weighed by that one; the properties below leave them out.
Plain == Weighs \/ req.method # "POST" \/ req.body.kind # "object"
                \/ req.body.unpacked_trx = Absent

(* What is weighed is the transaction the client packed, the whole of it    *)
(* and whatever the body says beside it, if the body carries it in one of   *)
(* the two members.  One that is elsewhere is not found, and nothing is     *)
(* weighed in its stead: within an array (push_transactions), beside a      *)
(* member "transaction" that hides it, or compressed.                       *)
WeighedIsCarried ==
  Read /\ Plain =>
    IF Weighs THEN json.unpacked_trx = req.trx ELSE Silent(json.unpacked_trx)

\* What is called and authorized where the filter and the limiters look: not by
\* the context free actions, and not by a transaction carried elsewhere.
Called == IF Weighs THEN CalledBy(req.trx) ELSE {}
Authorizers == IF Weighs THEN AuthorizersOf(req.trx) ELSE {}

\* All that the client's transaction calls, as the configuration file has it.
AllCalled ==
  IF req.method # "POST" \/ req.trx = Absent THEN {}
  ELSE CalledBy(req.trx) \cup {a.account : a \in Items(req.trx.ctx_free_actions)}

Overlooked ==
  req.trx # Absent /\ (~Weighs \/ req.trx.ctx_free_actions # <<>>)

Permits(called) ==
  /\ req.path \in PushEndpoints \cup GetEndpoints
  /\ ip \notin config.blockIps
  /\ called \cap config.block = {}
  /\ config.allow = {} \/ called \subseteq config.allow

(* "Block transactions that contain an action sent to an account in the     *)
(* below array", "only allow requests that contain only actions sent to     *)
(* accounts in the below array": that, and no more, is what the filter      *)
(* does, through the statics and the decoder, unless the request has        *)
(* actions that are overlooked.  Then it goes by the others.                *)
PolicyKept ==
  Read /\ stage # "read" /\ Plain =>
    /\ stage = "blocked" <=> ~Permits(Called)
    /\ ~Overlooked => (stage = "blocked" <=> ~Permits(AllCalled))

Of(r, keys) == IF r.select = Absent THEN keys ELSE keys \cap r.select

\* The keys a limiter of the configuration is to go by for the request.
Due(r) ==
  CASE r.bucket = "contract" -> Of(r, {<<a>> : a \in Called})
    [] r.bucket = "ip" -> {<<ip>>}
    [] r.bucket = "authorizer" -> Of(r, {<<a>> : a \in Authorizers})
    [] r.bucket = "table" ->
         {<<ip>> \o t : t \in IF /\ req.path \in TableEndpoints
                                  /\ req.method = "POST" /\ req.body.kind = "object"
                                  /\ req.body.code # Absent /\ req.body.table # Absent
                               THEN Of(r, {<<req.body.code, req.body.table>>}) ELSE {}}

(* What a request has cost by the time it is let through or denied: every   *)
(* limiter before the one that denies has weighed each contract,            *)
(* authorizer, table or address it selects and nothing else, the one that   *)
(* denies some of them, and those after it none.  What was weighed has been *)
(* charged by a limiter on attempts, and by one on failures nothing has.    *)
BucketsFollow ==
  req # Absent /\ Plain => \A i \in DOMAIN buckets :
    LET r == config.limiters[i]
        denying == stage = "limited" /\ i = Len(buckets)
    IN  /\ IF denying THEN buckets[i].weighed # {} /\ buckets[i].weighed \subseteq Due(r)
           ELSE buckets[i].weighed = Due(r)
        /\ buckets[i].charged = IF r.on = "attempt" THEN buckets[i].weighed ELSE {}

(* A request that is matched has been asked of every limiter, and goes to   *)
(* nodes configured for its kind of endpoint: to all of them, if no health  *)
(* checker runs.                                                            *)
RoutedToItsPool ==
  stage \in {"matched", "unroutable"} =>
    LET due == Configured(IF req.path \in PushEndpoints THEN config.push ELSE config.get) IN
    /\ Len(buckets) = Len(config.limiters)
    /\ pool \subseteq due
    /\ config.healthcheck = Absent => pool = due
=============================================================================
