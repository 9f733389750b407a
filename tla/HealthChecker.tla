---------------------------- MODULE HealthChecker ----------------------------
(***************************************************************************)
(* The health checker (src/healthcheck.rs): one task that asks the nodes   *)
(* in turn for their head block, for ever, and the map of verdicts it      *)
(* shares with the requests that are being matched.  The request it sends  *)
(* has no timeout, and the write lock on the map is taken before the body  *)
(* of the answer is read.                                                  *)
(***************************************************************************)
EXTENDS Integers

CONSTANTS
  NodeCount,  \* the urls of get_nodes and push_nodes, in the checker's order
  Reader      \* the connections whose request is being matched

ASSUME NodeAssumption == NodeCount \in Nat \ {0}

Node == 1 .. NodeCount

(***************************************************************************)
(* What a node does when it is asked: it reports a head block within the   *)
(* grace period, or an older one, or fails (no connection, error status,   *)
(* not the JSON expected), or accepts the request and never answers, or    *)
(* sends the head of an answer and never its body.                         *)
(***************************************************************************)
Condition == {"synced", "lagging", "failing", "silent", "stalled"}
Report == {"synced", "lagging", "failing"}

VARIABLES
  world,    \* what each node is doing
  healthy,  \* healthy_map
  at,       \* the node the loop has come to
  phase,    \* where the loop is for that node
  answer,   \* what the node's answer amounts to
  waiting,  \* the requests that wait for the read lock
  since,    \* history: verdicts on any node since the last one on this node
  steady    \* history: sweeps that ended, to two, since a node or its answer changed

probe == <<at, phase, answer>>
vars == <<world, healthy, probe, waiting, since, steady>>

\* The checker waits for the answer, for the write lock, for the body with the
\* lock held, or for the next interval.
Phase == {"sending", "locking", "judging", "sleeping"}

(* Type correctness.  Every node of the pools has an entry in healthy_map.  *)
TypeOK ==
  /\ world \in [Node -> Condition]
  /\ healthy \in [Node -> BOOLEAN]
  /\ at \in Node
  /\ phase \in Phase
  /\ answer \in Report
  /\ waiting \subseteq Reader
  /\ since \in [Node -> Nat]
  /\ steady \in [Node -> 0 .. 2]

\* Every node starts healthy, as if a sweep had just ended.
Init ==
  /\ world \in [Node -> Condition]
  /\ healthy = [n \in Node |-> TRUE]
  /\ at = 1
  /\ phase = "sending"
  /\ answer = "failing"
  /\ waiting = {}
  /\ since = [n \in Node |-> NodeCount - n]
  /\ steady = [n \in Node |-> 0]

----------------------------------------------------------------------------
(* The client's send returns.  A node that stalls in the body has either     *)
(* kind of report in it.                                                    *)
Answer ==
  /\ phase = "sending"
  /\ world[at] # "silent"
  /\ answer' \in IF world[at] = "stalled" THEN {"synced", "lagging"} ELSE {world[at]}
  /\ phase' = "locking"
  /\ UNCHANGED <<world, healthy, at, waiting, since, steady>>

TakeWriteLock ==
  /\ phase = "locking"
  /\ phase' = "judging"
  /\ UNCHANGED <<world, healthy, at, answer, waiting, since, steady>>

\* The grace period is taken off the clock when the body has been read, so an
\* answer grows too old while it waits for the lock or for its body.
Outdate ==
  /\ phase \in {"locking", "judging"}
  /\ answer = "synced"
  /\ answer' = "lagging"
  /\ steady' = [steady EXCEPT ![at] = 0]
  /\ UNCHANGED <<world, healthy, at, phase, waiting, since>>

(***************************************************************************)
(* As in RateLimiter, a definition whose name starts with Bad is a         *)
(* plausible mistake in the definition after it and is used nowhere.       *)
(***************************************************************************)
BadAdvance ==  \* a node that fails ends the sweep
  IF at < NodeCount /\ answer = "synced"
    THEN at' = at + 1 /\ phase' = "sending"
    ELSE at' = 1 /\ phase' = "sleeping"

Advance ==
  IF at < NodeCount
    THEN at' = at + 1 /\ phase' = "sending"
    ELSE at' = 1 /\ phase' = "sleeping"

\* The body is there, or is not waited for.
BodyRead == answer = "failing" \/ world[at] # "stalled"

\* The verdict on the node at hand, and the end of a sweep.
Recorded ==
  /\ since' = [n \in Node |-> IF n = at THEN 0 ELSE since[n] + 1]
  /\ steady' = [n \in Node |->
       IF at' = 1 /\ world[n] \in Report /\ steady[n] < 2 THEN steady[n] + 1 ELSE steady[n]]

BadJudge ==  \* a bad verdict is logged and not recorded
  /\ phase = "judging"
  /\ BodyRead
  /\ healthy' = [healthy EXCEPT ![at] = @ \/ answer = "synced"]
  /\ Advance
  /\ Recorded
  /\ UNCHANGED <<world, answer, waiting>>

BadJudgeForGood ==  \* a node that was dropped stays dropped
  /\ phase = "judging"
  /\ BodyRead
  /\ healthy' = [healthy EXCEPT ![at] = @ /\ answer = "synced"]
  /\ Advance
  /\ Recorded
  /\ UNCHANGED <<world, answer, waiting>>

(* categorize_response_healthy returns, the verdict is recorded and the     *)
(* write lock dropped; the loop goes on to the next node or to sleep.       *)
Judge ==
  /\ phase = "judging"
  /\ BodyRead
  /\ healthy' = [healthy EXCEPT ![at] = answer = "synced"]
  /\ Advance
  /\ Recorded
  /\ UNCHANGED <<world, answer, waiting>>

(* The interval is over.                                                    *)
Wake ==
  /\ phase = "sleeping"
  /\ phase' = "sending"
  /\ UNCHANGED <<world, healthy, at, answer, waiting, since, steady>>

(* A request is to be matched: filter_healthy_urls asks for the read lock.  *)
Ask(r) ==
  /\ r \notin waiting
  /\ waiting' = waiting \cup {r}
  /\ UNCHANGED <<world, healthy, probe, since, steady>>

BadWriteLocked == phase # "sleeping"  \* the lock is held from the send on
WriteLocked == phase = "judging"

(* The request gets the lock, reads the map in one go and drops the lock.   *)
Read(r) ==
  /\ r \in waiting
  /\ ~WriteLocked
  /\ waiting' = waiting \ {r}
  /\ UNCHANGED <<world, healthy, probe, since, steady>>

(* The client of a request that waits hangs up.                             *)
HangUp(r) ==
  /\ r \in waiting
  /\ waiting' = waiting \ {r}
  /\ UNCHANGED <<world, healthy, probe, since, steady>>

(* A node starts to do something else.                                      *)
Change(n) ==
  /\ \E c \in Condition \ {world[n]} : world' = [world EXCEPT ![n] = c]
  /\ steady' = [steady EXCEPT ![n] = 0]
  /\ UNCHANGED <<healthy, probe, waiting, since>>

Next ==
  \/ Answer
  \/ TakeWriteLock
  \/ Outdate
  \/ Judge
  \/ Wake
  \/ \E r \in Reader : Ask(r) \/ Read(r) \/ HangUp(r)
  \/ \E n \in Node : Change(n)

Spec == Init /\ [][Next]_vars

(***************************************************************************)
(* The checker's task is scheduled and its timer fires.  tokio's RwLock    *)
(* serves its waiters in the order they came, so a request that waits gets *)
(* its turn if the lock is released time after time.  A node is not fair:  *)
(* Answer and Judge are disabled for as long as it is silent or stalled.   *)
(***************************************************************************)
Fairness ==
  /\ WF_vars(Answer) /\ WF_vars(TakeWriteLock) /\ WF_vars(Judge) /\ WF_vars(Wake)
  /\ \A r \in Reader : SF_vars(Read(r))

FairSpec == Spec /\ Fairness

----------------------------------------------------------------------------
(* The verdicts a request reads are at most one sweep old: between two      *)
(* verdicts on a node every other node gets exactly one, whichever of them  *)
(* fail.                                                                    *)
SweepFresh == \A n \in Node : since[n] < NodeCount

(* How far the verdicts may lag behind the nodes: once two sweeps have      *)
(* ended since a node that answers last changed, its verdict is the right   *)
(* one.  One is not enough: the first may rest on an answer from before.    *)
VerdictsSettle ==
  \A n \in Node : steady[n] = 2 => healthy[n] = (world[n] = "synced")

\* From some time on every request the checker sends is answered in full.
Answering == \A n \in Node : <>[](world[n] \notin {"silent", "stalled"})

(* A node whose head block is too old is taken out of the pools for as long *)
(* as it lags, provided no node leaves the checker without an answer.       *)
LaggardsLeave ==
  Answering => \A n \in Node : <>[](world[n] = "lagging") => <>[](~healthy[n])

(* Under the same condition a node that is back in sync returns, unless its *)
(* answers keep growing too old on the way to their verdict.                *)
ReturnsInSync ==
  Answering =>
    \A n \in Node :
      <>[](world[n] = "synced") /\ <>[][~(Outdate /\ at = n)]_vars => <>[](healthy[n])

(* A request is matched even if a node never answers the checker: the lock  *)
(* is not held while the checker waits for that.  It is held while the      *)
(* checker reads the body, so a body that never ends is excluded.           *)
EveryRequestMatched ==
  (\A n \in Node : <>[](world[n] # "stalled")) =>
    \A r \in Reader : r \in waiting ~> r \notin waiting

(* default_config.toml: "If a node has a head_block_time more than          *)
(* `grace_period` seconds older than the current system time, that node     *)
(* will not be considered as a valid node to route requests to", with no    *)
(* condition on the other nodes.                                            *)
LaggardsAlwaysLeave ==
  \A n \in Node : <>[](world[n] = "lagging") => <>[](~healthy[n])
=============================================================================
