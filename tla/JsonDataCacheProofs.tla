------------------------- MODULE JsonDataCacheProofs -------------------------
(***************************************************************************)
(* What TLAPS proves of a cache, for any set of documents, any number of   *)
(* requests and any timeout.                                               *)
(***************************************************************************)
EXTENDS JsonDataCache, TLAPS

LEMMA OlderType ==
  ASSUME NEW n \in Nat
  PROVE  Older(n) \in Nat /\ Older(n) <= n + 1
  BY TimeoutAssumption DEF Older

LEMMA TypeInit == Init => TypeOK
  BY DEF Init, TypeOK

LEMMA TypeNext == TypeOK /\ [Next]_vars => TypeOK'
<1> SUFFICES ASSUME TypeOK, [Next]_vars PROVE TypeOK'
  OBVIOUS
<1> USE DEF TypeOK, NextFetch, cached, judged, fetch, origin
<1>1. CASE FirstTick
  BY <1>1 DEF FirstTick
<1>2. CASE Refused \/ Garbled \/ Expire
  BY <1>2 DEF Refused, Garbled, Expire, Fail
<1>3. CASE Head
  BY <1>3 DEF Head
<1>4. CASE Body
  BY <1>4 DEF Body, Store
<1>5. ASSUME NEW t \in Task, Take(t) \/ Judge(t) PROVE TypeOK'
  BY <1>5 DEF Take, Judge
<1>6. CASE Change
  BY <1>6 DEF Change
<1>7. CASE Tick
  BY <1>7, OlderType DEF Tick
<1>8. CASE UNCHANGED vars
  BY <1>8 DEF vars
<1>9. QED
  BY <1>1, <1>2, <1>3, <1>4, <1>5, <1>6, <1>7, <1>8 DEF Next

(* The cache, the fetch and the filters keep their types.                   *)
THEOREM TypeCorrect == Spec => []TypeOK
<1>1. QED
  BY TypeInit, TypeNext, PTL DEF Spec

----------------------------------------------------------------------------
(***************************************************************************)
(* Freshness.  A fetch lasts one timeout at most; a document that is under *)
(* way is younger than one timeout, for it does not wait for the timeout;  *)
(* the value in use is no older than that and the fetch that is to replace *)
(* or to hide it, together.                                                *)
(***************************************************************************)
FetchInv ==
  /\ spent <= Timeout
  /\ phase = "reading" /\ coming \in Value =>
       comingAge = 0 \/ (comingAge <= spent /\ spent < Timeout)

CacheInv ==
  Usable => data \in Value /\ phase # "waiting" /\ age < Timeout + spent

FreshInv == TypeOK /\ FetchInv /\ CacheInv /\ JudgedOnFresh

LEMMA FreshInit == Init => FreshInv
  BY TypeInit, TimeoutAssumption
    DEF Init, FreshInv, FetchInv, CacheInv, JudgedOnFresh, Usable

\* A fetch that fails makes the value unusable, whatever its age.
LEMMA FreshFail ==
  ASSUME FreshInv, TypeOK', NEW why \in {"UnableToFetch", "InvalidResponse"}, Fail(why)
  PROVE  FreshInv'
  BY TimeoutAssumption
    DEF FreshInv, FetchInv, CacheInv, JudgedOnFresh, Usable, Fail, NextFetch, judged

LEMMA FreshNext == FreshInv /\ [Next]_vars => FreshInv'
<1> SUFFICES ASSUME FreshInv, [Next]_vars PROVE FreshInv'
  OBVIOUS
<1>1. TypeOK'
  BY TypeNext DEF FreshInv
<1>2. CASE Refused \/ Garbled \/ Expire
  <2>1. PICK why \in {"UnableToFetch", "InvalidResponse"} : Fail(why)
    BY <1>2, Zenon DEF Refused, Garbled, Expire
  <2>2. QED
    BY <1>1, <2>1, FreshFail
<1> USE DEF FreshInv, TypeOK, FetchInv, CacheInv, JudgedOnFresh, Usable
<1>3. CASE FirstTick
  BY <1>1, <1>3, TimeoutAssumption DEF FirstTick, NextFetch, cached, judged
<1>4. CASE Head
  BY <1>1, <1>4 DEF Head, cached, judged
<1>5. CASE Body
  <2>1. comingAge < Timeout
    BY <1>5, TimeoutAssumption DEF Body
  <2>2. FetchInv' /\ CacheInv'
    BY <1>1, <1>5, <2>1, TimeoutAssumption DEF Body, Store, NextFetch
  <2>3. JudgedOnFresh'
    BY <1>5 DEF Body, judged
  <2>4. QED
    BY <1>1, <2>2, <2>3
<1>6. ASSUME NEW t \in Task, Take(t) PROVE FreshInv'
  <2>1. age < 2 * Timeout /\ data \in Value
    BY <1>6, TimeoutAssumption DEF Take
  <2>2. QED
    BY <1>1, <1>6, <2>1 DEF Take, fetch, cached
<1>7. ASSUME NEW t \in Task, Judge(t) PROVE FreshInv'
  BY <1>1, <1>7, TimeoutAssumption DEF Judge, fetch, cached
<1>8. CASE Change
  BY <1>1, <1>8 DEF Change, fetch, cached, judged
<1>9. CASE Tick
  <2>1. FetchInv'
    <3>1. spent' = spent + 1 /\ spent < Timeout /\ comingAge' <= comingAge + 1
      BY <1>9, OlderType DEF Tick
    <3>2. phase = "reading" /\ coming \in Value => Answering
      BY ValueAssumption DEF Answering, Trouble
    <3>3. QED
      BY <1>1, <1>9, <3>1, <3>2, TimeoutAssumption DEF Tick
  <2>2. CacheInv' /\ JudgedOnFresh'
    BY <1>1, <1>9, OlderType, TimeoutAssumption DEF Tick, judged
  <2>3. QED
    BY <1>1, <2>1, <2>2
<1>10. CASE UNCHANGED vars
  BY <1>1, <1>10 DEF vars, fetch, cached, judged
<1>11. QED
  BY <1>2, <1>3, <1>4, <1>5, <1>6, <1>7, <1>8, <1>9, <1>10 DEF Next

(* For every timeout, no request is judged with a value that a failed fetch *)
(* left behind or that is two timeouts old: the status and the client's     *)
(* timeout together keep a filter from working on stale data.               *)
THEOREM JudgedOnFreshHolds == Spec => []JudgedOnFresh
<1>1. FreshInv => JudgedOnFresh
  BY DEF FreshInv
<1>2. QED
  BY <1>1, FreshInit, FreshNext, PTL DEF Spec
----------------------------------------------------------------------------
(***************************************************************************)
(* Lag.  The source changed calm ticks ago.  A head that came after that   *)
(* announces what the source holds now, a fetch that began after it can    *)
(* only end as the source would have it, and the cache shows the outcome   *)
(* of the fetch before this one, which began at most spent + Timeout ago,  *)
(* and less than that if it brought a value.                               *)
(***************************************************************************)
HeadInv ==
  /\ comingAge <= spent
  /\ phase = "reading" /\ comingAge < calm => coming = source

ExpiryInv ==
  spent = Timeout /\ calm > Timeout => source \in {"silent", "stalling"}

OutcomeInv ==
  /\ calm >= spent + Timeout /\ Usable => data = source /\ data \in Value
  /\ calm > spent + Timeout /\ source \in Value => Usable

StartInv == phase = "waiting" => calm = 0 /\ spent = 0

LagInv == FreshInv /\ HeadInv /\ ExpiryInv /\ OutcomeInv /\ StartInv

LEMMA LagInit == Init => LagInv
  BY FreshInit, TimeoutAssumption
    DEF Init, LagInv, HeadInv, ExpiryInv, OutcomeInv, StartInv, Usable

\* A fetch that began after the last change fails only if the source does.
LEMMA LagFail ==
  ASSUME LagInv, FreshInv', NEW why \in {"UnableToFetch", "InvalidResponse"}, Fail(why),
         calm > Timeout => source \notin Value
  PROVE  LagInv'
  BY TimeoutAssumption
    DEF LagInv, FreshInv, TypeOK, HeadInv, ExpiryInv, OutcomeInv, StartInv, Fail, NextFetch,
        Usable, origin

LEMMA LagNext == LagInv /\ [Next]_vars => LagInv'
<1> SUFFICES ASSUME LagInv, [Next]_vars PROVE LagInv'
  OBVIOUS
<1>1. FreshInv'
  BY FreshNext DEF LagInv
<1>2. /\ calm \in Nat /\ spent \in Nat /\ comingAge \in Nat /\ spent <= Timeout
      /\ Timeout \in Nat /\ Timeout > 0
  BY TimeoutAssumption DEF LagInv, FreshInv, TypeOK, FetchInv
<1>3. CASE Refused
  <2>1. source \notin Value
    BY <1>3, ValueAssumption DEF Refused, Trouble
  <2>2. QED
    BY <1>1, <1>3, <2>1, LagFail DEF Refused
<1>4. CASE Garbled
  <2>1. calm > Timeout => source \notin Value
    BY <1>2, <1>4, ValueAssumption DEF Garbled, LagInv, HeadInv, Trouble
  <2>2. QED
    BY <1>1, <1>4, <2>1, LagFail DEF Garbled
<1>5. CASE Expire
  <2>1. calm > Timeout => source \notin Value
    BY <1>5, ValueAssumption DEF Expire, LagInv, ExpiryInv, Trouble
  <2>2. PICK why \in {"UnableToFetch", "InvalidResponse"} : Fail(why)
    BY <1>5, Zenon DEF Expire
  <2>3. QED
    BY <1>1, <2>1, <2>2, LagFail
<1> USE DEF LagInv, HeadInv, ExpiryInv, OutcomeInv, StartInv, Usable, origin
<1>6. CASE FirstTick
  <2>1. calm' = 0 /\ spent' = 0 /\ comingAge' = 0 /\ phase' = "asking"
    BY <1>6 DEF FirstTick, NextFetch
  <2>2. QED
    BY <1>1, <1>2, <2>1
<1>7. CASE Head
  BY <1>1, <1>2, <1>7 DEF Head, cached
<1>8. CASE Body
  <2>1. calm >= Timeout => coming = source
    BY <1>2, <1>8 DEF Body, FreshInv, FetchInv
  <2>2. QED
    BY <1>1, <1>2, <1>8, <2>1 DEF Body, Store, NextFetch
<1>9. ASSUME NEW t \in Task, Take(t) \/ Judge(t) PROVE LagInv'
  BY <1>1, <1>9 DEF Take, Judge, fetch, cached
<1>10. CASE Change
  BY <1>1, <1>2, <1>10 DEF Change, fetch, cached
<1>11. CASE Tick
  <2>1. /\ spent' = spent + 1 /\ spent < Timeout /\ comingAge' <= comingAge + 1
        /\ calm' <= calm + 1 /\ comingAge' \in Nat /\ calm' \in Nat
        /\ comingAge' = comingAge + 1
    BY <1>2, <1>11, OlderType DEF Tick, Older
  <2>2. HeadInv' /\ OutcomeInv' /\ StartInv'
    BY <1>2, <1>11, <2>1 DEF Tick
  <2>3. ExpiryInv'
    <3>1. SUFFICES ASSUME spent + 1 = Timeout, calm + 1 > Timeout
                   PROVE  source \in {"silent", "stalling"}
      BY <1>2, <1>11, <2>1 DEF Tick
    <3>2. ~Answering /\ phase \in {"asking", "reading"}
      BY <1>11, <3>1 DEF Tick, FreshInv, TypeOK
    <3>3. phase = "reading" => coming = source
      BY <1>2, <3>1
    <3>4. QED
      BY <3>2, <3>3 DEF Answering
  <2>4. QED
    BY <1>1, <2>2, <2>3
<1>12. CASE UNCHANGED vars
  BY <1>1, <1>12 DEF vars, fetch, cached
<1>13. QED
  BY <1>3, <1>4, <1>5, <1>6, <1>7, <1>8, <1>9, <1>10, <1>11, <1>12 DEF Next

(* For every timeout, a source that has not changed for two of them is      *)
(* shown by the cache as it is: with its document, or with no value when it *)
(* is in trouble.  It is the bound within which the cache recovers and      *)
(* notices silence.                                                         *)
THEOREM CacheSettlesHolds == Spec => []CacheSettles
<1>1. LagInv => CacheSettles
  <2> SUFFICES ASSUME LagInv, calm >= 2 * Timeout
               PROVE  IF source \in Value THEN Usable /\ data = source ELSE ~Usable
    BY DEF CacheSettles
  <2>1. /\ spent \in Nat /\ calm \in Nat /\ Timeout \in Nat /\ Timeout > 0
        /\ spent <= Timeout
    BY TimeoutAssumption DEF LagInv, FreshInv, TypeOK, FetchInv
  <2>2. Usable => data = source /\ data \in Value
    BY <2>1 DEF LagInv, OutcomeInv
  <2>3. source \in Value => spent # Timeout
    BY <2>1, ValueAssumption DEF LagInv, ExpiryInv, Trouble
  <2>4. source \in Value => Usable
    BY <2>1, <2>3 DEF LagInv, OutcomeInv
  <2>5. QED
    BY <2>2, <2>4
<1>2. QED
  BY <1>1, LagInit, LagNext, PTL DEF Spec
=============================================================================
