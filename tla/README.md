# Antelope firewall: TLA+ models, checks and proofs

Antelope firewall is an HTTP reverse proxy in front of the nodes of an Antelope
blockchain: it filters requests, limits their rate, checks which nodes are in
sync and routes requests to them. It is written in Rust on tokio and hyper; each
connection is a task that serves one request at a time, and a request that is
awaiting something lets every other one run. All the shared state lives behind
tokio locks in `src/antelope-firewall-lib/src/`.

This directory holds TLA+ models of the parts where the order of events decides
the outcome and of the way a configuration and a request's bytes are read, TLC
configurations for them, and proofs checked by TLAPS.

## 1. Inventory

| Component (source) | State it keeps | Operations | Talks to | What is hard | What makes it correct |
|---|---|---|---|---|---|
| `AntelopeFirewall` (`firewall_builder.rs`) | `node_counts`, `node_weights` maps (never written), locals of each request | `handle_request` | every other part, the nodes, the client | a request awaits at a dozen places; at each, verdicts, counters and windows change, or the client hangs up and hyper drops the handler | routed to a node that was healthy; the response named after the node that answered; metrics that cover every request; limiters on failures that agree |
| `RateLimiter` (`ratelimiter.rs`) | window number, counts of that window, counts of the one before, behind one mutex | `should_request_pass`, `increment`, `post_increment`, `update_current_window` | called twice per request; reads a `JsonDataCache`; calls bucket functions | charge after the answer; clock read anew per bucket; roll over skipped windows; return in the middle of the loop | ceilings per window and per stretch of time; counts are the true record; no unearned denial; no waiter starves |
| `PinLimiter` (`firewall_builder.rs`) | map from (address, name) to window start and count, at most `MAX_PIN_KEYS`, behind a mutex | `admits`, `make_room` | called by the routing stage | the clock is read before the mutex is awaited; the sweep of a full map | capacity; live windows are kept; a key's rate, while it is held and when it is swept |
| `HealthChecker` (`healthcheck.rs`) | `healthy_map` behind a read-write lock | `start` (an endless loop), `get_status` | probes the nodes; matching reads the map | a probe without a timeout; a write lock held while a body is read | verdicts are fresh, and right two sweeps after the last change; lagging nodes leave, synced ones return; requests are not kept waiting |
| Matching (`matching_engine.rs`, rules in `config.rs`) | none | the rules in order, each given what the one before left | reads `healthy_map` | its result is used after later awaits | only healthy nodes of the pool |
| `JsonDataCache` (`json_data_cache.rs`) | a JSON value behind a read-write lock | fetch loop, `get_data` | filters and limiters read it | a source that fails, stalls or falls silent; a status beside an old value | nobody is judged without it or with what is two timeouts old; it follows its source within two timeouts; it recovers; silence is noticed |
| `Filter` (`filter.rs`, instances in `config.rs`) | none of its own | `should_request_pass` | the transaction deserializer | conjunction over contracts, addresses, mappers | the contracts the client's transaction calls against the lists of the file, where the filter looks for them |
| Deserializer (`de.rs`) | none | `varuint32`, names, actions, transactions | filters and bucket functions | shift widths, truncated input | decodes what nodes encode |
| Configuration (`config.rs`, `default_config.toml`) | global sets of nodes, blocked addresses and contracts, selected accounts, behind read-write locks | `from_config`, `build_node_set` | builds all of the above once | partial replacement when refused | unique pinnable names, one entry per origin, positive weights; a start exactly when every rule it enforces is kept, with what was configured |
| Prometheus (`prometheus.rs`) | registry, `MATCHING_COUNTERS` | registration, increments, exporter | the pipeline | a check and an act under different guards | a host's counters are made once |
| Response constructors, types, binary, `router.rs` (not built) | none | | | | |

The path of one request: filters, then `should_request_pass` of every limiter in
order, then matching (pool, then health), then the pin or the routing mode, then
the node's counters, then the request to the node, then counting and naming the
answer, then `post_increment` of every limiter in order, then the response. The
health checker runs beside it and shares only `healthy_map`.

`PROJECT.json` lists the components with their status and, under `hazards`, what
in this code a test would hardly reach, each at its line.

## 2. Modules

| Module | Models | Role |
|---|---|---|
| `Startup` | `from_config`, `build_node_set` | specification and properties |
| `Decoder` | `de.rs`, as far as a `Transaction` reaches | operators; and the format from the client's side, external |
| `Intake` | the first half of `handle_request` with the closures of `from_config` | extends `Startup`: a firewall is loaded, then reads one request, with a decoder that is a parameter |
| `Quota` | nothing in the code | abstract specification: what a counter over windows promises |
| `RateLimiter` | `ratelimiter.rs`, one limiter | specification and properties; implements `Quota` on attempts |
| `RateLimiterAudit` | the same, beside a record | history variables for the properties on the record: the charges by window, the failures by the clock's window, and what was let through before each tick |
| `PinLimiter` | `PinLimiter` in `firewall_builder.rs` | specification and properties; implements `Quota` |
| `HealthChecker` | `healthcheck.rs` | specification and properties |
| `JsonDataCache` | `json_data_cache.rs`, `Filter::should_request_pass` | specification and properties |
| `Firewall` | `handle_request`, matching, the per node counters | specification and properties; the limiters appear by their verdicts, the health checker by its set of healthy nodes |
| `MC...` | | values and symmetry for TLC |
| `...Proofs` | | theorems; each extends its module and TLAPS |

The limiter, the pin limiter and the health checker are separate because each
shares one lock-protected object with the requests and nothing else: what
`Firewall` leaves open about them (any verdict at any time) includes everything
they do. `Startup` shows of the loaded node sets what `Firewall` assumes of its
constants (unique pinnable names, one node per origin, positive weights). `Intake`
has one request: nothing writes the statics once they are loaded, so two requests
meet only in the parts the other modules model.

A definition whose name starts with `Bad` is a plausible mistake in the definition
after it. No specification uses one; `PROJECT.json` names, for every property of
every passing run, the mistake that breaks it.

### Startup

`config` is the parsed file, `phase` and `at` the place in `from_config` and in the
list its loop goes through, the rest one variable per static. The error returns are
`RefuseExporter`, `RefuseFilter`, `RefuseLimiter`, `RefusePinWindow` and `RefuseNode`,
the panics `PanicAddress` and `PanicLimiter` (a window of zero, a name Prometheus does
not take); `KeepsChecked` and `KeepsUnchecked` are the rules of the two kinds. The
interval of the health check is subject to no rule. `entries` is the set `build_node_set` builds; `PublishPush` replaces
`PUSH_NODES` before the other list is looked at. The check for a duplicate url after
the one for a duplicate origin can never fail, and is no action. The statics are
process wide and only ever grow or are replaced; the binary loads once, and so does
the model.

### Decoder and Intake

An integer is the set of the positions of its bits, since the code shifts and masks
and does not add; widths are those of the code. `Parse` follows a description of the
type wanted, as serde does. `ParseVaruint` has both builds: with overflow checks the
sixth byte panics, without them it shifts by the distance modulo 32. `Encode` is the
inverse as the client computes it, and external.

`Intake` takes the decoder as the parameter `Decode`, and `front.cfg` gives it
`FromBytes`: the provers can say nothing of the recursion in `Parse`, and nothing in
the rest of the intake depends on how it is done. What does matter is `PackedIsRead`,
which the run checks for each of its requests: the decoder reads every field of what was packed,
with overflow checks and without, and finds no action in the other bytes a body has. It
speaks of bytes only. A request has the transaction its client packed and the bytes it
packed it into (`trx`, `packed`) as fields of their own, for the properties to speak of,
and nothing is assumed of where the body carries them: `Carries` says whether they are in
one of the two members in which the endpoints for a single transaction have them. The run
has every transaction in both and elsewhere: in an array, as `push_transactions` takes
it, beside a member `transaction` that hides it, and in another form. What follows for
the filter is in `PolicyKept`: it is held to the documentation, except where `Overlooked`
says that actions are not looked at, and then to the actions that are.

`buckets` is the record of what each limiter has weighed and charged by the time the
request is let through or denied: a limiter that denies has stopped somewhere in a hash
set, one on failures has charged nothing yet. When the limiter denies is `RateLimiter`'s
concern, and any verdict is possible here.

| Action | Code |
|---|---|
| `Receive`, `RefuseLarge` | the client's address from the header or the peer; the size hint |
| `RefuseBody`, `ReadNothing` | a body that breaks or is no JSON; no body to look at. An array is JSON with no member, and is weighed as a request without actions |
| `ReadObject`, `DecoderPanics` | `PackedOf` finds the packed transaction, a member `transaction` hiding the one beside it; what decodes replaces `unpacked_trx` |
| `BlockByFilter`, `AnswerOptions`, `PassFilter` | the filter `from_config` makes, then the preflight |
| `LimiterPasses`, `LimiterDenies` | the next limiter computes its keys (`Keys`) and has room for all, or visits some of them and stops at a full one; `Charge` |
| `Match` | the two matching rules, in order |

### RateLimiter

`window`, `last`, `cur` are the three parts of `current_window_state`; `clock` is
`SystemTime::now()` in ticks. The mutex is not a variable: a task has it exactly
when its `pc` is `"checking"`.

| Action | Code |
|---|---|
| `Arrive` | a request calls `should_request_pass` and waits for the mutex |
| `TakeMutex`, `Refuse` | the mutex is taken and `update_current_window` runs; the second when the cache or `should_be_limited` ends the call there |
| `PassBucket`, `DenyBucket` | one turn of the loop over the buckets: the estimate, the hard ceiling, and `increment` for a limiter on attempts, charged whatever the verdict; the second returns at once and leaves the rest uncharged |
| `Admit` | the loop ends, the mutex is dropped, the request goes on |
| `Answer`, `EndUncounted` | the answer is there; or the request ends without `post_increment` |
| `PostIncrement`, `SkipIncrement` | `post_increment`, which does not roll the window; the second when the cache holds nothing usable |
| `Tick` | the clock moves, also while the mutex is held |

The estimate is kept scaled by the window length, so that it stays an integer.
The code computes it in `f32`; `OverLimitVerdicts` leaves the verdict open where
the two sides are equal, which is where rounding decides.

`Promise` maps the limiter to `Quota`: what a bucket used is what it was let through
with in the window (`passed`), and its window began when the limiter's did.

### PinLimiter

`state` is the map, as a function on the keys it holds; `waiting` the calls that
have read the clock and wait for the mutex, with the time they read. `Renew`,
`Open`, `SweepAndOpen`, `RefuseFull`, `CountOne` and `RefuseSpent` are the six
outcomes of `admits` under the mutex, each one step since nothing is awaited
there. `grants` and `swept` are history. `Promise` maps the map to `Quota`: a key the
map does not hold has used nothing, which is why a sweep must only take what is over.

### HealthChecker

One loop: `Answer` (the send returns), `TakeWriteLock`, `Judge` (the body is read,
the verdict recorded, the lock dropped) and `Wake`. `Outdate` is the age of a
good answer passing the grace period while it waits, since the age is judged at the
end. `world` says what each node does, changes at any time, and includes nodes that
accept a request and never answer (`silent`) or send a head and no body (`stalled`).
`Ask`, `Read` and `HangUp` are the requests being matched. `since` and `steady` are
history: the verdicts since the last one on a node, and the sweeps, counted to two, that
ended since a node, or its answer on the way, last changed.

### JsonDataCache

`phase`, `coming` and `spent` are the fetch under way: its step, the body that is on
its way and the time against the client's timeout, which ends head and body together
(`Expire`). `data` and `status` are the pair under the lock; `Fail` writes the status
alone. `Take` is `handle_cache_option` in a filter, `Judge` the end of its function,
any time later. `source` changes at any time. `age`, `comingAge`, `handAge` and `calm`
(the time since the source last changed) are history, counted up to two timeouts, the
first age that is too old.

### Firewall

`pc` has one place per stretch between two awaits: `received` (the body is awaited),
`limiting`, `choosing` (the pin limiter is awaited), `looking` (the read lock on the
counters), `registering`, `inserting` (the write lock), `sending`, `answered` (the
body of the answer), `counting` (`post_increment`). `TurnAway`, `LimiterDenies`,
`FailToRoute`, `Unreachable` and `UnusableBody` are the early returns, `RegisterTwice`
the panic of an `unwrap`. `HangUp` drops the handler wherever it awaits, and nowhere
else. `AnswerFrom` counts the answer for the host the request was *sent* to, and
names the response only if the answer came from the node chosen. `registered` and
`held` are apart because the Prometheus registry and the map are.

## 3. Runs

| Run | Question | Bounds and why they are enough |
|---|---|---|
| `front` | Which configurations start and with what? Does the decoder read what was packed (`PackedIsRead`)? What do the filter, the limiters and the matching rules make of the bytes of a request? | 100 configurations, each a base with one or two rules broken or varied, of up to three limiters and two nodes a list: every rule concerns one entry or two. 178 requests: transactions with lists of none, one, two and more than 127 elements (a second byte of length), numbers of one to five bytes, names with inner dots and thirteen characters, context free actions, in each of the places a body can carry them, where they are looked for and where not, the transaction a test of `de.rs` gives, truncated and over-long input, every kind of body, method, path and header |
| `attempt_limiter` | Do the ceilings of a limiter on attempts hold, per window (`AttemptCeiling`) and over any stretch of a window's length (`SpanCeiling`, three times the limit and one more, which is not the documented bound: finding 9), are its maps the true record (`CountsMatchLedger`), and does it implement `Quota` (`KeepsQuota`)? | 2 connections (the mutex leaves one inside), 2 buckets (a denial between them), limit 1, three windows of 2 ticks (two rolls and one skipped window), 5 requests (one more than a window can let through) |
| `failure_limiter` | How far does a limiter on failures overshoot, are its maps the true record by the windows it believes in, is a denial earned, does every request get its verdict and every answer its charge? | 2 connections in flight, limit 2, so that a denial needs counts and not one request; three windows, charges on either side of each roll; 6 requests, enough to pass the bound of `FailureOvershoot` if it could be passed |
| `failure_forgotten` | Is every failure charged in the last two windows still counted? No | three windows, limit 1 |
| `pin_limiter` | Do capacity, live windows, the rate and the quota hold with callers that decide with old times, and by how much can a swept key exceed the rate (`OvertakenRate`)? | room for 2 keys of 3, so that the sweep runs and may fail; 2 callers, so that one is overtaken; three windows |
| `pin_overlap` | Does the rate hold for a swept key as well? No | the same with limit 1 |
| `health_checker` | Are verdicts fresh, are they right once two sweeps have ended since the node changed (`VerdictsSettle`), do nodes leave and return, is every request matched? | 3 nodes, one before, at and after the one that misbehaves; 1 reader, since readers do not interact. No counter needs a bound |
| `health_stall` | Does a lagging node always leave? No | 2 nodes: one silent, one lagging |
| `cache` | Is nothing stale or missing judged with; does the cache hold what its source has said for two timeouts (`CacheSettles`); does it recover, and notice silence? | 2 documents (a replacement), 2 requests, a timeout of 2 ticks (a fetch may be young or about to end) |
| `pipeline` | Routing, naming, counters and charges, with redirects, hang-ups and changing verdicts | 2 connections and 2 requests: all races here are between two requests; 3 nodes on 2 hosts, two of them told apart by port only, two with one name of which one is pinnable; 3 limiters, two of them on failures; 2 changes of verdict. A variant with 3 requests and 1 change has been run too (10 million states, no error) |
| `registration_panic` | Can the registration of counters fail? Yes | 2 first requests for one host |
| `least_connections` | Does a request go to the node with the fewest requests under way for its weight? No | 2 requests, 3 nodes |

Deadlock is checked in every run but `front`, which loads one configuration, reads
one request and is over. `Quiet` steps mark the one state in which the others may
stop: bounds used up and nobody waiting. Named bounds: `MaxTime`,
`MaxArrivals`, `MaxRequests`, `MaxFlips`. Symmetry is used over connections, keys and
buckets, in runs without liveness only; `MCFirewall` has none over nodes since they
differ.

### Fairness

* A task that holds a mutex runs on (weak fairness of the loop's turns): tokio
  schedules it and nothing in the loop waits for the outside. A hang-up there is not
  modelled: dropping the handler only releases the mutex earlier.
* A task that waits for a mutex or a read lock gets it if it is released again and
  again (strong fairness): tokio's locks queue their waiters first come, first served.
* The checker's task is scheduled and its timer fires (weak fairness of its steps).
* The fetching task of the cache runs on and time goes by (weak fairness of its steps
  and of `Tick`): the lock is held for one assignment or one clone. The source is not
  fair; `Recovers` and `SilenceNoticed` speak of sources that stay as they are.
* Nodes and clients are not fair: nothing makes a node answer. Where a property needs
  it to, that is an antecedent (`Answering` in `LaggardsLeave` and `ReturnsInSync`, no
  stalled body in `EveryRequestMatched`), and `health_stall` shows it is needed.

### Findings

1. `failure_forgotten`: `post_increment` files a failure under a window that may be
   over, and the next roll drops it early.
2. `pin_overlap`: a caller with an older time opens a window for a key that a caller
   with a later time has just swept, and the windows overlap. The quota holds all the
   same, since it speaks of one window at a time. The true bound on the rate, proved, is
   `OvertakenRate`: one limit more for each window gone by and each connection but one.
3. `health_stall`: one node that never answers the probe freezes every verdict.
4. `registration_panic`: two first requests for a host both register its counters, and
   the second panics. If the client of the first hangs up while its request waits for
   the write lock, every later request for that host does.
5. `least_connections`: the counts are never written, so connections play no part.

Five more are seen in passing runs, whose properties say what the code does and where
that is not what its documentation says:

6. `front`, `VerdictIsRight`: the interval of the health check is documented as
   non-zero (`default_config.toml:76`) and not checked. A configuration with an interval
   of zero starts, and is among the run's.
7. `front`, `VerdictIsRight`: so is a limiter's window (`default_config.toml:124`), and
   here a zero panics the process while it loads, after some statics are filled. The
   pin window of zero gets an error.
8. `front`, `PolicyKept`: the lists of contracts are documented to apply to any
   transaction that contains an action sent to a listed account
   (`default_config.toml:83,91`). The filter looks at the actions of the one transaction
   it finds: not at its context free actions, not into the arrays of
   `push_transactions`, not at a `packed_trx` beside a member `transaction`, and not
   into a compressed one. The limiters by contract and authorizer see the same.
9. `attempt_limiter`, `SpanCeiling`: at most twice the limit is documented "for any
   given window" (`default_config.toml:119-120`). That holds of the limiter's own windows
   (`AttemptCeiling`). A stretch of the same length that starts elsewhere sees more: with
   limit 30 and 60 seconds, 45 requests about second 40 and 22 more by second 99. The
   bound is three times the limit and one; behaviours of this run reach it (`SpanCeiling`
   with `3 * Limit` in place of `3 * Limit + 1` is violated).
10. `cache`, `JudgedOnFresh` and `CacheSettles`: the comments say that the source is
    fetched every interval (`json_data_cache.rs:7,33`). The interval is awaited once, and
    fetches follow each other at once: the bounds of two timeouts rest on that, and would
    grow by the interval in the loop the comments describe.

Two smaller ones: a limiter on failures exceeds the documented twice the limit by the
requests in flight, and the true bound, proved, is `FailureOvershoot`. And an error page
that is not JSON is charged to no limiter (`UnusableBody`); `LimitersAgree` counts it as
lost to all alike.

## 4. Proofs

All hold for any sets of connections, buckets, keys, nodes, configurations and
requests, and any limit, window, capacity and list of limiters, from the named
assumptions of the modules, which state what the configuration and the build enforce (a
positive window, unique pinnable names, known modes and bucket types, lists that are
sequences, a finite set of connections, not empty where it is counted). Three theorems of `IntakeProofs` say
`Spec /\ []PackedIsRead => ...`: of the decoder they take what the run `front` checks,
that bytes somebody packed are read and others bring no action. Where a body has its
bytes is no part of the hypothesis.

| Module | Theorems | Argument |
|---|---|---|
| `StartupProofs` | `TypeCorrect`, `NodeSetsSoundHolds`, `VerdictIsRightHolds`, `LoadedAsConfiguredHolds` | `SoundInv`: the entries built so far keep the rules, since `NodeRefused` compares each node with all of them. `VerdictInv`: `RulesOk` and `LoopsOk`, each rule whose place in the code is passed holds of the configuration, and the loop's prefix keeps the rules of its list; a refusal exhibits the entry, or the pair, that breaks a rule that is checked, and a panic the one that breaks another. `LoadedInv` adds `StaticsOk`: what each static holds is what the prefix configures, and the entries are as many as the nodes read, because their origins differ |
| `JsonDataCacheProofs` | `TypeCorrect`, `JudgedOnFreshHolds`, `CacheSettlesHolds` | a usable value was sent at most a timeout before its fetch ended, and the fetch that follows has taken the rest of its age. `LagInv` compares three times with `calm`: a fetch begun after the last change brings what the source says; one begun before it ends within a timeout; and what the cache shows from then on is the outcome of a fetch that saw the source as it is |
| `RateLimiterProofs` | `TypeCorrect`, `AttemptCeilingHolds`, `KeepsQuotaHolds`, `FailureOvershootHolds`, `DenialIsEarnedHolds` | `AttemptInv`: the ceiling speaks of requests let through, but the charge happens turns earlier. So `OneChecker` (one task in the loop), `LoopInv` (what is still to visit is part of the request) and `HoldersRoom` (every bucket visited already still has room and a charge not yet matched by an admission) are needed. `OvershootInv` adds the overshoot to it: the set of outstanding agreements grows only when there is room. The denial follows since the estimate is a weighted mean of two counts while the clock is inside the window (`MeanBelow`) |
| `RateLimiterAuditProofs` | `CountsMatchLedgerHolds`, `SpanCeilingHolds` | `LedgerInv` adds to `CountsMatchLedger` that nothing is filed under a window to come, so that a roll over skipped windows finds zeros. `SpanInv` is about the record between two ticks. A request weighed while the clock left its window is let through late; the mutex leaves one such (`OneLate`), so what the window and the one before let through is bounded by `passed`, `last` and the limit, and one more (`InWindow`, `InTwoWindows`). A stretch that begins in the window before the last is the hard case: an admission in its second half needs an estimate with room, and as the estimate is a weighted mean one of the two counts is at most the limit (`MeanKept`) |
| `PinLimiterProofs` | `TypeCorrect`, `CapacityHolds`, `LiveWindowKeptHolds`, `HeldKeyRateHolds`, `OvertakenRateHolds`, `KeepsQuotaHolds` | `ClockInv`: no caller's time and no window's start is ahead of the clock, so a window that ended by a caller's time has ended by the clock. `LimitInv`: no count above the limit. `RateInv`: what a key has been granted is at most one limit for each window that ended before its present one started, and its present count. `OvertakenInv`, for a key that may be swept, counts for each window on the clock the openings that are still possible: an opening with a time of an earlier window uses up a call that is waiting with such a time, and of these there are at most all connections but the one whose later reading swept the key. Grants and openings left together never pass the bound |
| `IntakeProofs` | `IntakeLoads`, `ServesAsConfigured`, `RoutedToItsPoolHolds`, `WeighedIsCarriedHolds`, `PolicyKeptHolds`, `BucketsFollowHolds` | `IntakeLoads`: a step of a request leaves Startup's variables alone, so the theorems above hold while requests are served. `FrontInv`: no request comes before the loading is over, the statics then hold the file's lists, a stage past the filter means its verdict still stands, and the limiters asked are a prefix of the list, of which only the last can have stopped short (`Settled`). `JsonOk`: past the body, the members looked at are those of the request, with the packed transaction in its place if it was carried there, and none if not. `NothingOverlooked`: what is looked at is then all there is, unless `Overlooked`. The last three need `PackedIsRead`, and only in the step that reads the body |
| `HealthCheckerProofs` | `TypeCorrect`, `SweepFreshHolds`, `VerdictsSettleHolds` | `SweepInv`: the age of a verdict is given exactly by the distance from the loop's position, around the list. `LagInv`: after the end of one sweep the answer under way for the loop's node is from after the change, and the nodes the loop has passed have the right verdict; at the end of the second it has passed all |
| `FirewallProofs` | `TypeCorrect`, `RoutedWasHealthyHolds`, `NameLeadsBackHolds`, `CountersPresentHolds`, `OneRegistrationHolds`, `OutcomesCoveredHolds`, `LimitersAgreeHolds` | `TypeInv` with the chosen node being a node; `MatchInv`: the matched set consists of pool nodes seen healthy during this request; `NameInv`: a name is that of the pinnable node chosen, which is the one that answered, and `UniqueNames` makes it lead back; `MetricsInv`: what the map holds is registered, what is about to be inserted is registered and not held, by one request only. `RegisterTwice` leaves it intact, and that is why the panic of finding 4 cannot become a second set of counters. `OutcomesCovered` is inductive: a request enters `UnderWay` when its host is counted and leaves it for one outcome at most. `OwedInv` adds to `LimitersAgree` that the loop over the limiters starts at the first: a failing answer is owed to a limiter from its arrival until the loop has passed it, so a step moves it from `Owed` to `told` or to `lost` |

A step of one connection leaves the others' locals alone (`OthersUntouched`), so the
invariants of `Firewall` that speak of one connection are proved for one step of it.

The two refinements are step simulations. Initial states map to initial states; each
step of a limiter maps to one `Decide` of `Quota`, the roll forgetting every bucket
and an admission granting those of the request, to a `Tick`, or to a stutter. The
limiter forgets only when the clock has left the window, and the pin counter only
windows that ended by a time the clock has passed: the same `AttemptInv` and
`ClockInv` as above.

Every safety invariant of the runs, with the exception of `PackedIsRead`, is stated by
a theorem. The inductive invariants were model-checked before they were proved.

Only model-checked: `PackedIsRead`, since what `Parse` computes for every input is an
induction over the bytes and over the types, which the provers cannot do; and the
liveness properties (`EveryRequestDecided`, `EveryAnswerHandled`, `LaggardsLeave`,
`ReturnsInSync`, `EveryRequestMatched`, `Recovers`, `SilenceNoticed`), which need
fairness and ENABLED. Of four of them the safety half is proved: `CacheSettles` bounds
the lag behind `Recovers` and `SilenceNoticed`, and `VerdictsSettle` that behind
`LaggardsLeave` and `ReturnsInSync`; that the fetches and the sweeps go on is what
fairness adds.

## 5. Not modelled, and why

* The clock of the rate limiter does not step back. If it did within a check, the
  second reading would fail and the check panic.
* `f32` beyond the choice at equality, and counts that overflow `u64`.
* Bodies, headers and JSON: by whether they can be used, and for the two headers
  the properties speak of, by what they carry.
* The fixed Prometheus counters and the exporter: I/O without feedback.
* The binary, packaging and scripts: no state. `router.rs` is not part of the build.
* `routing_mode = "round_robin"` in the order documented: its counts are as dead as
  those of `least_connections`; `Candidates` in `Firewall` has what happens.
* The parts of `de.rs` no transaction reaches: signed and 128 bit integers, booleans,
  strings, options, enums, maps (most are `unimplemented!`).
* Parsing of toml, urls, addresses, hex and JSON by libraries: by its outcome. A url that
  parses has a host here; one without (`mailto:`) panics the `unwrap` of the
  `least_connections` choice (`firewall_builder.rs:463`). `block_ips` are compared as text, and are values here.
* A health check interval of more seconds than `chrono` can hold, which panics on start.

## 6. Plan

Order: what decides who gets through and where to, first. Done: limiters, health
checker, pipeline, the abstract quota and both refinements, the cache, loading, the
deserializer and the intake of a request, with the proofs of section 4.

What is left, in order of worth:

1. A verdict map that may change at any time as an abstract specification, which
   `HealthChecker` implements and `Firewall!FlipHealth` assumes.
2. The documented `round_robin`, once the code keeps its counts.
3. A clock that steps back.
