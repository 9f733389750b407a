------------------------------ MODULE PinLimiter ------------------------------
(***************************************************************************)
(* The counter over pinned requests (PinLimiter in firewall_builder.rs): a *)
(* map from a client address and node name to the start of a window and a  *)
(* count, behind a mutex, with a ceiling on its size.  admits reads the    *)
(* clock before it waits for the mutex, so a request may decide with a     *)
(* time older than the one the request before it decided with.             *)
(***************************************************************************)
EXTENDS Integers, FiniteSets

CONSTANTS
  Task,     \* the connections, each serving one request at a time
  Key,      \* pairs of a client address and a node name
  Limit,    \* pinned_requests_per_window
  Window,   \* pinned_window_seconds, in ticks; the configuration refuses zero
  MaxKeys,  \* MAX_PIN_KEYS
  MaxTime   \* bound: the clock stops there

ASSUME TaskAssumption == IsFiniteSet(Task) /\ Task # {}
ASSUME KeyAssumption == IsFiniteSet(Key)
ASSUME LimitAssumption == Limit \in Nat
ASSUME WindowAssumption == Window \in Nat \ {0}
ASSUME CapacityAssumption == MaxKeys \in Nat \ {0}
ASSUME BoundAssumption == MaxTime \in Nat

VARIABLES
  clock,    \* Instant::now(), which never goes back
  state,    \* the map: state[k].started and state[k].count, for the keys it holds
  waiting,  \* the calls of admits that have read the clock and wait for the mutex
  grants,   \* history: how often a key was admitted
  swept     \* history: the keys a sweep has ever dropped

vars == <<clock, state, waiting, grants, swept>>

Slot == [started : Nat, count : Nat]
Call == [task : Task, key : Key, now : Nat]

Held == DOMAIN state

(* Type correctness: the map is a partial function on the keys.             *)
TypeOK ==
  /\ clock \in Nat
  /\ Held \subseteq Key
  /\ state \in [Held -> Slot]
  /\ waiting \subseteq Call
  /\ grants \in [Key -> Nat]
  /\ swept \subseteq Key

Init ==
  /\ clock = 0
  /\ state = [k \in {} |-> [started |-> 0, count |-> 0]]
  /\ waiting = {}
  /\ grants = [k \in Key |-> 0]
  /\ swept = {}

BadEnded(k, n) ==  \* the difference wraps around when n is older
  n < state[k].started \/ n - state[k].started >= Window

\* duration_since saturates at zero, so a reading older than the start of the
\* window never counts as its end.
Ended(k, n) == n - state[k].started >= Window

\* The map with a fresh window for k, of the keys it keeps.
Opened(keep, k, n) ==
  [x \in keep \cup {k} |-> IF x = k THEN [started |-> n, count |-> 1] ELSE state[x]]

Granted(k) == grants' = [grants EXCEPT ![k] = @ + 1]

Done(c) ==
  /\ waiting' = waiting \ {c}
  /\ UNCHANGED clock

----------------------------------------------------------------------------
(* The limit is not zero: read the clock and queue for the mutex.  A limit   *)
(* of zero refuses before either.                                           *)
Ask(t, k) ==
  /\ Limit # 0
  /\ \A c \in waiting : c.task # t
  /\ waiting' = waiting \cup {[task |-> t, key |-> k, now |-> clock]}
  /\ UNCHANGED <<clock, state, grants, swept>>

(* The key's window has ended: it keeps its slot and starts another.        *)
Renew(c) ==
  /\ c.key \in Held
  /\ Ended(c.key, c.now)
  /\ state' = Opened(Held, c.key, c.now)
  /\ Granted(c.key)
  /\ Done(c)
  /\ UNCHANGED swept

(***************************************************************************)
(* As in RateLimiter, a definition whose name starts with Bad is a         *)
(* plausible mistake in the definition after it and is used nowhere.       *)
(***************************************************************************)
BadOpen(c) ==  \* a full map is not swept, and takes the key all the same
  /\ c.key \notin Held
  /\ state' = Opened(Held, c.key, c.now)
  /\ Granted(c.key)
  /\ Done(c)
  /\ UNCHANGED swept

(* The map does not hold the key and has room for it.                       *)
Open(c) ==
  /\ c.key \notin Held
  /\ Cardinality(Held) < MaxKeys
  /\ state' = Opened(Held, c.key, c.now)
  /\ Granted(c.key)
  /\ Done(c)
  /\ UNCHANGED swept

\* The keys a sweep keeps: those whose window is live at the caller's time.
BadKept(n) == {}  \* the sweep clears the map
Kept(n) == {k \in Held : ~Ended(k, n)}

(* make_room sweeps a full map, and the key gets in if that made room.      *)
SweepAndOpen(c) ==
  LET keep == Kept(c.now) IN
  /\ c.key \notin Held
  /\ Cardinality(Held) >= MaxKeys
  /\ Cardinality(keep) < MaxKeys
  /\ state' = Opened(keep, c.key, c.now)
  /\ swept' = swept \cup (Held \ keep)
  /\ Granted(c.key)
  /\ Done(c)

(* The sweep left the map full: the pin is refused.                         *)
RefuseFull(c) ==
  LET keep == Kept(c.now) IN
  /\ c.key \notin Held
  /\ Cardinality(Held) >= MaxKeys
  /\ Cardinality(keep) >= MaxKeys
  /\ state' = [k \in keep |-> state[k]]
  /\ swept' = swept \cup (Held \ keep)
  /\ Done(c)
  /\ UNCHANGED grants

BadCountOne(c) ==  \* the limit is off by one
  /\ c.key \in Held
  /\ ~Ended(c.key, c.now)
  /\ state[c.key].count <= Limit
  /\ state' = [state EXCEPT ![c.key].count = @ + 1]
  /\ Granted(c.key)
  /\ Done(c)
  /\ UNCHANGED swept

(* One more in the window that is running.                                  *)
CountOne(c) ==
  /\ c.key \in Held
  /\ ~Ended(c.key, c.now)
  /\ state[c.key].count < Limit
  /\ state' = [state EXCEPT ![c.key].count = @ + 1]
  /\ Granted(c.key)
  /\ Done(c)
  /\ UNCHANGED swept

(* The window is spent.                                                     *)
RefuseSpent(c) ==
  /\ c.key \in Held
  /\ ~Ended(c.key, c.now)
  /\ state[c.key].count >= Limit
  /\ Done(c)
  /\ UNCHANGED <<state, grants, swept>>

(* The client hangs up and hyper drops the handler that waits.               *)
HangUp(c) ==
  /\ Done(c)
  /\ UNCHANGED <<state, grants, swept>>

Tick ==
  /\ clock < MaxTime
  /\ clock' = clock + 1
  /\ UNCHANGED <<state, waiting, grants, swept>>

Admits(c) ==
  \/ Renew(c)
  \/ Open(c)
  \/ SweepAndOpen(c)
  \/ RefuseFull(c)
  \/ CountOne(c)
  \/ RefuseSpent(c)
  \/ HangUp(c)

Next ==
  \/ Tick
  \/ \E t \in Task, k \in Key : Ask(t, k)
  \/ \E c \in waiting : Admits(c)

Spec == Init /\ [][Next]_vars

(* What the counter promises: a key the map does not hold has used nothing. *)
Promise == INSTANCE Quota WITH Max <- Limit,
             used <- [k \in Key |-> IF k \in Held THEN state[k].count ELSE 0],
             since <- [k \in Key |-> IF k \in Held THEN state[k].started ELSE 0]

----------------------------------------------------------------------------
(* "a full map of live counters refuses the pin rather than evicting a      *)
(* counter that still bounds a client": a window is dropped or restarted    *)
(* only when it is over by the clock, however stale the time that decides.  *)
LiveWindowKept ==
  [][\A k \in Held :
       \/ clock - state[k].started >= Window
       \/ k \in DOMAIN state' /\ state'[k].started = state[k].started
                              /\ state'[k].count >= state[k].count]_vars

(* The map never holds more keys than MAX_PIN_KEYS.                         *)
Capacity == Cardinality(Held) <= MaxKeys

Allowance == Limit * (clock \div Window + 1)

(* The counter implements the quota of Limit pins a window: neither a sweep *)
(* nor a decision taken with a time read before another gives a key room    *)
(* that its running window has spent.                                       *)
KeepsQuota == Promise!Spec

(* The long run rate of a key the map has held on to: its windows never     *)
(* overlap, so it gets one limit for each window that fits in the time gone *)
(* by, and no more, whatever order the requests were decided in.            *)
HeldKeyRate == \A k \in Key \ swept : grants[k] <= Allowance

(* What is left of that rate when sweeps drop keys: a call that waited for  *)
(* the mutex while its window ended can reopen it after a sweep by a later  *)
(* reading has closed it, so each window gone by may have given a key one   *)
(* limit more for every connection but the one whose call swept.            *)
OvertakenRate ==
  \A k \in Key :
    grants[k] <= Allowance + Limit * (Cardinality(Task) - 1) * (clock \div Window)

(* README: "The count is exact, so the ceiling is the number of pinned      *)
(* requests one client can send for one name inside a window."  The same    *)
(* rate, of every key.                                                      *)
EveryKeyRate == \A k \in Key : grants[k] <= Allowance
=============================================================================
