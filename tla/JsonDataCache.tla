---------------------------- MODULE JsonDataCache ----------------------------
(***************************************************************************)
(* A cache of JSON data (src/json_data_cache.rs) and the filters that read *)
(* it (src/filter.rs).  A task fetches the source over and over, each time *)
(* with a timeout over head and body together, and writes what came under  *)
(* a lock.  A success replaces the value; a failure leaves the value where *)
(* it is and hides it behind a status.  A filter takes the value once and  *)
(* judges its request with it, for as long as its function likes.          *)
(***************************************************************************)
EXTENDS Integers

CONSTANTS
  Value,    \* the documents the source may hold
  Task,     \* the requests that pass through a filter
  Timeout,  \* the client's timeout, in ticks
  Null      \* what the cache holds before any fetch

ASSUME TimeoutAssumption == Timeout \in Nat \ {0}

Trouble == {"refusing", "garbled", "silent", "stalling"}
ASSUME ValueAssumption == Null \notin Value /\ Value \cap Trouble = {}

VARIABLES
  source,     \* how the source would answer now: a document, or some trouble
  calm,       \* history: ticks since the source last changed
  phase,      \* where the fetching task is
  coming,     \* the body under way
  comingAge,  \* ticks since the source sent it
  spent,      \* ticks since the fetch began
  data,       \* data.0, the value
  status,     \* data.1, the JsonDataCacheStatus
  age,        \* ticks since the source sent the value
  hand,       \* the value a request is judged with; Null: none is
  handAge     \* history: how old the value was when the filter took it

origin == <<source, calm>>
fetch == <<phase, coming, comingAge, spent>>
cached == <<data, status, age>>
judged == <<hand, handAge>>
vars == <<origin, fetch, cached, judged>>

\* Ages are counted up to the first one that is too old.
Older(n) == IF n < 2 * Timeout THEN n + 1 ELSE n

(* Type correctness of the cache, of the fetch under way and of the filters.*)
TypeOK ==
  /\ source \in Value \cup Trouble
  /\ phase \in {"waiting", "asking", "reading"}
  /\ coming \in Value \cup {"garbled", "stalling"}
  /\ calm \in Nat /\ comingAge \in Nat /\ spent \in Nat /\ age \in Nat
  /\ data \in Value \cup {Null}
  /\ status \in {"Ok", "Uninitialized", "UnableToFetch", "InvalidResponse"}
  /\ hand \in [Task -> Value \cup {Null}]
  /\ handAge \in [Task -> Nat]

Init ==
  /\ source \in Value \cup Trouble /\ calm = 0
  /\ phase = "waiting" /\ coming = "garbled" /\ comingAge = 0 /\ spent = 0
  /\ data = Null /\ status = "Uninitialized" /\ age = 0
  /\ hand = [t \in Task |-> Null]
  /\ handAge = [t \in Task |-> 0]

----------------------------------------------------------------------------
(* The loop comes round: the next fetch begins as soon as the last is over. *)
NextFetch ==
  /\ phase' = "asking"
  /\ coming' = "garbled" /\ comingAge' = 0
  /\ spent' = 0

(* interval.tick(), awaited once and ahead of the loop: "every interval,    *)
(* fetch the data", a comment says of the loop, which does not wait.        *)
FirstTick ==
  /\ phase = "waiting"
  /\ NextFetch
  /\ UNCHANGED <<origin, cached, judged>>

(***************************************************************************)
(* As in RateLimiter, a definition whose name starts with Bad is a         *)
(* plausible mistake in the definition after it and is used nowhere.       *)
(***************************************************************************)
BadFail(why) ==  \* a cache that has a value keeps it in use
  /\ status' = IF status = "Ok" THEN "Ok" ELSE why
  /\ NextFetch
  /\ UNCHANGED <<origin, data, age, judged>>

\* A fetch that came to nothing changes the status alone.
Fail(why) ==
  /\ status' = why
  /\ NextFetch
  /\ UNCHANGED <<origin, data, age, judged>>

(* No connection, or a status that is no success.                           *)
Refused ==
  /\ phase = "asking"
  /\ source = "refusing"
  /\ Fail("UnableToFetch")

BadHead ==  \* the status of the head is not looked at
  /\ phase = "asking"
  /\ source # "silent"
  /\ phase' = "reading"
  /\ coming' = source /\ comingAge' = 0
  /\ UNCHANGED <<origin, spent, cached, judged>>

(* The head of a success arrives, and the body starts on its way: what it   *)
(* will say is settled now.                                                 *)
Head ==
  /\ phase = "asking"
  /\ source \in Value \cup {"garbled", "stalling"}
  /\ phase' = "reading"
  /\ coming' = source /\ comingAge' = 0
  /\ UNCHANGED <<origin, spent, cached, judged>>

BadStore ==  \* the status is written when there was none, and not again
  /\ data' = coming /\ age' = comingAge
  /\ status' = IF status = "Uninitialized" THEN "Ok" ELSE status

Store == data' = coming /\ age' = comingAge /\ status' = "Ok"

(* The body arrives and is JSON.                                            *)
Body ==
  /\ phase = "reading"
  /\ coming \in Value
  /\ Store
  /\ NextFetch
  /\ UNCHANGED <<origin, judged>>

(* The body arrives and is not.                                             *)
Garbled ==
  /\ phase = "reading"
  /\ coming = "garbled"
  /\ Fail("InvalidResponse")

(* The timeout ends the fetch, with the error of the step it is in.         *)
Expire ==
  /\ phase # "waiting"
  /\ spent = Timeout
  /\ Fail(IF phase = "asking" THEN "UnableToFetch" ELSE "InvalidResponse")

Usable == status = "Ok"

BadTake(t) ==  \* a filter makes do with whatever the cache holds
  /\ hand[t] = Null
  /\ status # "Uninitialized"
  /\ hand' = [hand EXCEPT ![t] = data]
  /\ handAge' = [handAge EXCEPT ![t] = age]
  /\ UNCHANGED <<origin, fetch, cached>>

(* should_request_pass takes the value if the cache is usable.  If it is    *)
(* not the request is turned away there, which changes nothing here.        *)
Take(t) ==
  /\ hand[t] = Null
  /\ Usable
  /\ hand' = [hand EXCEPT ![t] = data]
  /\ handAge' = [handAge EXCEPT ![t] = age]
  /\ UNCHANGED <<origin, fetch, cached>>

(* The filter's function has its verdict, or the client hung up.            *)
Judge(t) ==
  /\ hand[t] # Null
  /\ hand' = [hand EXCEPT ![t] = Null]
  /\ handAge' = [handAge EXCEPT ![t] = 0]
  /\ UNCHANGED <<origin, fetch, cached>>

(* The source is updated, breaks or recovers.                               *)
Change ==
  /\ source' \in (Value \cup Trouble) \ {source}
  /\ calm' = 0
  /\ UNCHANGED <<fetch, cached, judged>>

\* A source that answers does so before the timeout; one that does not is
\* silent, or stalls in the body.
Answering ==
  \/ phase = "asking" /\ source # "silent"
  \/ phase = "reading" /\ coming # "stalling"

Tick ==
  /\ phase # "waiting"
  /\ spent < Timeout
  /\ spent + 1 = Timeout => ~Answering
  /\ spent' = spent + 1
  /\ comingAge' = Older(comingAge)
  /\ age' = Older(age)
  /\ calm' = Older(calm)
  /\ UNCHANGED <<source, phase, coming, data, status, judged>>

Fetching == FirstTick \/ Refused \/ Head \/ Body \/ Garbled \/ Expire

Next ==
  \/ FirstTick \/ Refused \/ Head \/ Body \/ Garbled \/ Expire
  \/ \E t \in Task : Take(t) \/ Judge(t)
  \/ Change
  \/ Tick

Spec == Init /\ [][Next]_vars

(***************************************************************************)
(* The fetching task is never blocked for long: the lock is held for one   *)
(* assignment or one clone.  Time goes by.  A source need not recover, and *)
(* nobody need ask for the value.                                          *)
(***************************************************************************)
FairSpec == Spec /\ WF_vars(Fetching) /\ WF_vars(Tick)

----------------------------------------------------------------------------
(* No request is judged with Null, with a value a failed fetch left behind, *)
(* or with one the source sent two timeouts or more before it was taken:    *)
(* one timeout bounds the way into the cache, the next one the time until   *)
(* the value is replaced or hidden.  That the next fetch begins at once is  *)
(* what the bound rests on: with a fetch every interval, as the comments    *)
(* describe it, a value would be used for that much longer.                 *)
JudgedOnFresh ==
  \A t \in Task : hand[t] # Null => hand[t] \in Value /\ handAge[t] < 2 * Timeout

(* How far the cache may lag behind its source: one that has not changed    *)
(* for two timeouts is the cache's value if it holds a document, and no     *)
(* value is in use if it is in trouble.  The fetch that was under way may   *)
(* have read what was there before, and the one after it takes a timeout;   *)
(* an interval between the two, as the comments describe it, would add to   *)
(* the lag.                                                                 *)
CacheSettles ==
  calm >= 2 * Timeout =>
    IF source \in Value THEN Usable /\ data = source ELSE ~Usable

(* A source that holds a document for good is the cache's value for good    *)
(* from some time on, whatever failures came before.                        *)
Recovers ==
  \A v \in Value : <>[](source = v) => <>[](Usable /\ data = v)

(* A source that falls silent for good is noticed: no request is judged     *)
(* with what it once said for ever.                                         *)
SilenceNoticed == <>[](source = "silent") => <>[]~Usable
=============================================================================
