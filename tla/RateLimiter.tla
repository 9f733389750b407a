----------------------------- MODULE RateLimiter -----------------------------
(***************************************************************************)
(* One rate limiter of the firewall (src/ratelimiter.rs): two maps of      *)
(* counts, one for the window that is running and one for the window       *)
(* before it, behind a mutex that is held for a whole should_request_pass. *)
(* A request is weighed against each of its buckets in turn, and the clock *)
(* is read again for each of them.  Between the verdict and post_increment *)
(* the request is at an upstream node, for as long as the node likes.      *)
(***************************************************************************)
EXTENDS Integers, FiniteSets

CONSTANTS
  Task,            \* the connections, each serving one request at a time
  Bucket,          \* the strings get_buckets can return
  Limit,           \* what get_ratelimit returns
  WindowDuration,  \* ticks in a window
  Mode,            \* "Before": limit_on = "attempt"; "After": limit_on = "failure"
  CacheMayFail,    \* whether the limiter reads a JsonDataCache, which may be empty
  MaxTime,         \* bound: the clock stops there
  MaxArrivals      \* bound: requests in one behaviour

ASSUME TaskAssumption == IsFiniteSet(Task) /\ Task # {}
ASSUME LimitAssumption == Limit \in Nat
ASSUME WindowAssumption == WindowDuration \in Nat \ {0}
ASSUME ModeAssumption == Mode \in {"Before", "After"} /\ CacheMayFail \in BOOLEAN
ASSUME BoundAssumption == MaxTime \in Nat /\ MaxArrivals \in Nat

VARIABLES
  clock,     \* SystemTime::now(), in ticks since the epoch
  window,    \* current_window_state.0, the window the counts belong to
  last,      \* current_window_state.1, the counts of the window before
  cur,       \* current_window_state.2, the counts of the window itself
  pc,        \* where each task is
  keys,      \* the buckets of a task's request
  todo,      \* the buckets the loop has still to visit
  failed,    \* whether the upstream answered the task with an error
  passed,    \* history: requests let through since the limiter rolled
  arrivals   \* requests that have arrived

counts == <<window, last, cur>>
vars == <<clock, window, last, cur, pc, keys, todo, failed, passed, arrivals>>

\* A task is idle, waits for the mutex in should_request_pass, runs the loop
\* with the mutex held, waits for the upstream, or waits for the mutex in
\* post_increment.
Place == {"idle", "queued", "checking", "forwarded", "answered"}

(* Type correctness of the limiter's state and of the tasks' positions.     *)
TypeOK ==
  /\ clock \in Nat
  /\ window \in Nat
  /\ last \in [Bucket -> Nat]
  /\ cur \in [Bucket -> Nat]
  /\ pc \in [Task -> Place]
  /\ keys \in [Task -> SUBSET Bucket]
  /\ todo \in [Task -> SUBSET Bucket]
  /\ failed \in [Task -> BOOLEAN]
  /\ passed \in [Bucket -> Nat]
  /\ arrivals \in Nat

NoCounts == [b \in Bucket |-> 0]

BadCurrentWindow ==  \* the window is rounded, not cut off
  (2 * clock + WindowDuration) \div (2 * WindowDuration)

CurrentWindow == clock \div WindowDuration

MutexIsFree == \A t \in Task : pc[t] # "checking"

Init ==
  /\ clock = 0
  /\ window = CurrentWindow
  /\ last = NoCounts
  /\ cur = NoCounts
  /\ pc = [t \in Task |-> "idle"]
  /\ keys = [t \in Task |-> {}]
  /\ todo = [t \in Task |-> {}]
  /\ failed = [t \in Task |-> FALSE]
  /\ passed = NoCounts
  /\ arrivals = 0

(***************************************************************************)
(* A definition whose name starts with Bad is a plausible mistake in the   *)
(* definition after it.  No specification uses one; PROJECT.json says      *)
(* which property each of them breaks.                                     *)
(***************************************************************************)
BadRollWindow ==  \* last_buckets is kept across skipped windows
  LET rolls == window # CurrentWindow IN
  /\ window' = CurrentWindow
  /\ cur' = IF rolls THEN NoCounts ELSE cur
  /\ last' = IF rolls THEN cur ELSE last
  /\ passed' = IF rolls THEN NoCounts ELSE passed

(***************************************************************************)
(* update_current_window.  A limiter that skipped a window altogether      *)
(* forgets both counts.                                                    *)
(***************************************************************************)
RollWindow ==
  LET rolls == window # CurrentWindow IN
  /\ window' = CurrentWindow
  /\ cur' = IF rolls THEN NoCounts ELSE cur
  /\ last' = IF ~rolls THEN last
             ELSE IF window + 1 = CurrentWindow THEN cur ELSE NoCounts
  /\ passed' = IF rolls THEN NoCounts ELSE passed

(***************************************************************************)
(* The sliding estimate, cur * r + last * (1 - r) with r the fraction of   *)
(* the window that has gone by, against the limit.  Both sides are scaled  *)
(* by WindowDuration.  r is read from the clock once more, so it exceeds 1 *)
(* when the window ended while the mutex was held.  The code computes in   *)
(* f32: where the two sides are equal rounding decides, unless r is whole. *)
(***************************************************************************)
Elapsed == clock - window * WindowDuration

BadEstimate(b) == cur[b] * Elapsed  \* the window before is left out

Estimate(b) == cur[b] * Elapsed + last[b] * (WindowDuration - Elapsed)

BadOverLimitVerdicts(b) ==  \* the comparison is the wrong way round
  {Estimate(b) < Limit * WindowDuration}

OverLimitVerdicts(b) ==
  LET bar == Limit * WindowDuration
      rounded == Elapsed % WindowDuration # 0
  IN  {over \in BOOLEAN : /\ Estimate(b) > bar => over
                          /\ Estimate(b) < bar => ~over
                          /\ Estimate(b) = bar /\ over => rounded}

Leave(t) ==
  /\ pc' = [pc EXCEPT ![t] = "idle"]
  /\ keys' = [keys EXCEPT ![t] = {}]
  /\ todo' = [todo EXCEPT ![t] = {}]
  /\ failed' = [failed EXCEPT ![t] = FALSE]

----------------------------------------------------------------------------
(* A request reaches the limiter and waits for the mutex.                   *)
Arrive(t) ==
  /\ pc[t] = "idle"
  /\ arrivals < MaxArrivals
  /\ \E K \in SUBSET Bucket :
       /\ keys' = [keys EXCEPT ![t] = K]
       /\ todo' = [todo EXCEPT ![t] = K]
  /\ pc' = [pc EXCEPT ![t] = "queued"]
  /\ arrivals' = arrivals + 1
  /\ UNCHANGED <<clock, counts, failed, passed>>

(* The mutex is taken, the window rolled and the buckets computed.          *)
TakeMutex(t) ==
  /\ pc[t] = "queued"
  /\ MutexIsFree
  /\ RollWindow
  /\ pc' = [pc EXCEPT ![t] = "checking"]
  /\ UNCHANGED <<clock, keys, todo, failed, arrivals>>

(* The cache holds nothing usable, or should_be_limited says no: the window *)
(* rolls and the request is turned away uncounted.                          *)
Refuse(t) ==
  /\ CacheMayFail
  /\ pc[t] = "queued"
  /\ MutexIsFree
  /\ RollWindow
  /\ Leave(t)
  /\ UNCHANGED <<clock, arrivals>>

(* increment, ahead of the verdict on the bucket.                           *)
ChargeAttempt(b) ==
  cur' = IF Mode = "Before" THEN [cur EXCEPT ![b] = @ + 1] ELSE cur

BadPassBucket(t, b) ==  \* the hard ceiling is off by one
  /\ pc[t] = "checking"
  /\ b \in todo[t]
  /\ FALSE \in OverLimitVerdicts(b)
  /\ cur[b] <= 2 * Limit
  /\ ChargeAttempt(b)
  /\ todo' = [todo EXCEPT ![t] = @ \ {b}]
  /\ UNCHANGED <<clock, window, last, pc, keys, failed, passed, arrivals>>

(* One turn of the loop that finds room in the bucket.                      *)
PassBucket(t, b) ==
  /\ pc[t] = "checking"
  /\ b \in todo[t]
  /\ FALSE \in OverLimitVerdicts(b)
  /\ cur[b] < 2 * Limit
  /\ ChargeAttempt(b)
  /\ todo' = [todo EXCEPT ![t] = @ \ {b}]
  /\ UNCHANGED <<clock, window, last, pc, keys, failed, passed, arrivals>>

BadDenyRetries(t, b) ==  \* a denied request queues again
  /\ pc[t] = "checking"
  /\ b \in todo[t]
  /\ TRUE \in OverLimitVerdicts(b) \/ cur[b] >= 2 * Limit
  /\ pc' = [pc EXCEPT ![t] = "queued"]
  /\ todo' = [todo EXCEPT ![t] = keys[t]]
  /\ UNCHANGED <<clock, counts, keys, failed, passed, arrivals>>

(* One turn of the loop that finds none: the request is denied at once, and *)
(* the buckets not visited yet are never charged.                           *)
DenyBucket(t, b) ==
  /\ pc[t] = "checking"
  /\ b \in todo[t]
  /\ TRUE \in OverLimitVerdicts(b) \/ cur[b] >= 2 * Limit
  /\ ChargeAttempt(b)
  /\ Leave(t)
  /\ UNCHANGED <<clock, window, last, passed, arrivals>>

(* The loop is over: the request is let through and the mutex released.     *)
Admit(t) ==
  /\ pc[t] = "checking"
  /\ todo[t] = {}
  /\ pc' = [pc EXCEPT ![t] = "forwarded"]
  /\ passed' = [b \in Bucket |-> passed[b] + IF b \in keys[t] THEN 1 ELSE 0]
  /\ UNCHANGED <<clock, counts, keys, todo, failed, arrivals>>

(* The firewall has read the upstream's answer.  Only a limiter of mode     *)
(* After is told of it.                                                     *)
Answer(t) ==
  /\ pc[t] = "forwarded"
  /\ Mode = "After"
  /\ \E error \in BOOLEAN : failed' = [failed EXCEPT ![t] = error]
  /\ pc' = [pc EXCEPT ![t] = "answered"]
  /\ UNCHANGED <<clock, counts, keys, todo, passed, arrivals>>

(* The request ends with no post_increment: the limiter counts attempts,    *)
(* the upstream was unreachable, its body was not JSON, or the client hung  *)
(* up and hyper dropped the handler where it was waiting.                   *)
EndUncounted(t) ==
  /\ pc[t] \in {"queued", "forwarded", "answered"}
  /\ Leave(t)
  /\ UNCHANGED <<clock, counts, passed, arrivals>>

BadPostIncrement(t) ==  \* success takes one off
  /\ pc[t] = "answered"
  /\ MutexIsFree
  /\ cur' = [b \in Bucket |-> IF b \in keys[t]
                             THEN cur[b] + (IF failed[t] THEN 1 ELSE -1) ELSE cur[b]]
  /\ Leave(t)
  /\ UNCHANGED <<clock, window, last, passed, arrivals>>

(* post_increment: an error costs every bucket of the request one, success  *)
(* costs nothing, and the window is not rolled.                             *)
PostIncrement(t) ==
  /\ pc[t] = "answered"
  /\ MutexIsFree
  /\ cur' = [b \in Bucket |-> cur[b] + IF failed[t] /\ b \in keys[t] THEN 1 ELSE 0]
  /\ Leave(t)
  /\ UNCHANGED <<clock, window, last, passed, arrivals>>

BadSkipIncrement(t) ==  \* with no value to weigh the answer by, ask again
  /\ CacheMayFail
  /\ pc[t] = "answered"
  /\ MutexIsFree
  /\ pc' = [pc EXCEPT ![t] = "forwarded"]
  /\ UNCHANGED <<clock, counts, keys, todo, failed, passed, arrivals>>

(* post_increment, when the cache holds nothing usable.                     *)
SkipIncrement(t) ==
  /\ CacheMayFail
  /\ pc[t] = "answered"
  /\ MutexIsFree
  /\ Leave(t)
  /\ UNCHANGED <<clock, counts, passed, arrivals>>

Tick ==
  /\ clock < MaxTime
  /\ clock' = clock + 1
  /\ UNCHANGED <<counts, pc, keys, todo, failed, passed, arrivals>>

(* The bounds are used up and nobody is waiting for anything.  Any other     *)
(* state without a step is a deadlock.                                      *)
Quiet ==
  /\ clock = MaxTime
  /\ arrivals = MaxArrivals
  /\ \A t \in Task : pc[t] = "idle"
  /\ UNCHANGED vars

Step(t) ==
  \/ Arrive(t)
  \/ TakeMutex(t)
  \/ Refuse(t)
  \/ \E b \in Bucket : PassBucket(t, b) \/ DenyBucket(t, b)
  \/ Admit(t)
  \/ Answer(t)
  \/ EndUncounted(t)
  \/ PostIncrement(t)
  \/ SkipIncrement(t)

Next == Tick \/ Quiet \/ \E t \in Task : Step(t)

Spec == Init /\ [][Next]_vars

(***************************************************************************)
(* A task that holds the mutex runs on, and tokio's mutex hands itself to  *)
(* its waiters in the order they came, so no waiter is passed over for     *)
(* ever: strong fairness of the two places that take it.  Nothing makes an *)
(* upstream answer.                                                        *)
(***************************************************************************)
RunsOn(t) == Admit(t) \/ \E b \in Bucket : PassBucket(t, b) \/ DenyBucket(t, b)
EntersCheck(t) == TakeMutex(t) \/ Refuse(t)
EntersIncrement(t) == PostIncrement(t) \/ SkipIncrement(t)

Fairness ==
  \A t \in Task : /\ WF_vars(RunsOn(t))
                  /\ SF_vars(EntersCheck(t))
                  /\ SF_vars(EntersIncrement(t))

FairSpec == Spec /\ Fairness

(* The promise of the limiter: what a bucket was let through is forgotten   *)
(* only when the window it was counted in is over by the clock.             *)
Promise == INSTANCE Quota WITH Key <- Bucket, Max <- 2 * Limit,
             Window <- WindowDuration, used <- passed,
             since <- [b \in Bucket |-> window * WindowDuration]

----------------------------------------------------------------------------
(* Buckets the limiter has agreed to for a request that is not over yet.    *)
Outstanding(b) ==
  {t \in Task : /\ b \in keys[t]
                /\ \/ pc[t] \in {"forwarded", "answered"}
                   \/ pc[t] = "checking" /\ b \notin todo[t]}

(* The ceiling the configuration documents, for a limiter on attempts: in   *)
(* one window no bucket is let through more than 2 * Limit times, whatever  *)
(* the clock does during a check, and no request gets through unpaid.       *)
AttemptCeiling ==
  Mode = "Before" =>
    \A b \in Bucket : passed[b] <= 2 * Limit /\ passed[b] <= cur[b]

(* A limiter on attempts implements the quota of 2 * Limit a window: no     *)
(* roll of the window, by whichever task and after whatever silence, gives  *)
(* a bucket its room back while the window runs.                            *)
KeepsQuota == Promise!Spec

(* A limiter on failures charges after the answer, so requests that were    *)
(* checked while others were in flight can overshoot; the overshoot is one  *)
(* less than the number of connections, and is kept through window rolls.   *)
FailureOvershoot ==
  Mode = "After" =>
    \A b \in Bucket :
      cur[b] + Cardinality(Outstanding(b)) < 2 * Limit + Cardinality(Task)

(* The mutex: at most one task is inside the loop.                          *)
OneChecker ==
  \A s, t \in Task : pc[s] = "checking" /\ pc[t] = "checking" => s = t

(* A request is denied only when its bucket had reached the limit in one of *)
(* the two windows, or the window ended while the limiter was deciding.     *)
DenialIsEarned ==
  [][\A t \in Task :
       pc[t] = "checking" /\ pc'[t] = "idle" =>
         \/ CurrentWindow # window
         \/ \E b \in todo[t] : cur[b] >= Limit \/ last[b] >= Limit]_vars

(* Every request that waits for the limiter gets its verdict.               *)
EveryRequestDecided ==
  \A t \in Task : pc[t] = "queued" ~> pc[t] \in {"idle", "forwarded"}

(* Every answer that reaches post_increment is dealt with.                  *)
EveryAnswerHandled ==
  \A t \in Task : pc[t] = "answered" ~> pc[t] = "idle"
=============================================================================
