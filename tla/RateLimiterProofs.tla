-------------------------- MODULE RateLimiterProofs --------------------------
(***************************************************************************)
(* What TLAPS proves of one rate limiter, for any number of connections    *)
(* and buckets, any limit, any window and any bounds.                      *)
(***************************************************************************)
EXTENDS RateLimiter, FiniteSetTheorems, TLAPS

\* The window arithmetic stays within the naturals.
LEMMA CurrentWindowType ==
  ASSUME NEW n \in Nat
  PROVE  n \div WindowDuration \in Nat
  BY WindowAssumption, SMT

LEMMA TypeInit == Init => TypeOK
  BY CurrentWindowType DEF Init, TypeOK, NoCounts, Place, CurrentWindow

LEMMA RollType ==
  ASSUME TypeOK, RollWindow
  PROVE  /\ window' \in Nat
         /\ last' \in [Bucket -> Nat]
         /\ cur' \in [Bucket -> Nat]
         /\ passed' \in [Bucket -> Nat]
  BY CurrentWindowType DEF TypeOK, RollWindow, NoCounts, CurrentWindow

LEMMA TypeNext == TypeOK /\ [Next]_vars => TypeOK'
<1> SUFFICES ASSUME TypeOK, [Next]_vars PROVE TypeOK'
  OBVIOUS
<1> USE DEF TypeOK, Place
<1>1. CASE Tick
  BY <1>1 DEF Tick, counts
<1>2. CASE Quiet \/ UNCHANGED vars
  BY <1>2 DEF Quiet, vars
<1>3. ASSUME NEW t \in Task, Step(t) PROVE TypeOK'
  <2>1. CASE Arrive(t)
    BY <2>1 DEF Arrive, counts
  <2>2. CASE TakeMutex(t)
    BY <2>2, RollType DEF TakeMutex
  <2>3. CASE Refuse(t)
    BY <2>3, RollType DEF Refuse, Leave
  <2>4. ASSUME NEW b \in Bucket, PassBucket(t, b) PROVE TypeOK'
    BY <2>4 DEF PassBucket, ChargeAttempt
  <2>5. ASSUME NEW b \in Bucket, DenyBucket(t, b) PROVE TypeOK'
    BY <2>5 DEF DenyBucket, ChargeAttempt, Leave
  <2>6. CASE Admit(t)
    BY <2>6 DEF Admit, counts
  <2>7. CASE Answer(t)
    BY <2>7 DEF Answer, counts
  <2>8. CASE EndUncounted(t) \/ SkipIncrement(t)
    BY <2>8 DEF EndUncounted, SkipIncrement, Leave, counts
  <2>9. CASE PostIncrement(t)
    BY <2>9 DEF PostIncrement, Leave
  <2>10. QED
    BY <1>3, <2>1, <2>2, <2>3, <2>4, <2>5, <2>6, <2>7, <2>8, <2>9 DEF Step
<1>4. QED
  BY <1>1, <1>2, <1>3 DEF Next

(* The limiter's counts and the tasks' positions keep their types.          *)
THEOREM TypeCorrect == Spec => []TypeOK
<1>1. QED
  BY TypeInit, TypeNext, PTL DEF Spec

----------------------------------------------------------------------------
(***************************************************************************)
(* The ceiling of a limiter on attempts.  AttemptCeiling is not inductive: *)
(* Admit raises passed in several buckets at once, long after the loop     *)
(* found room in them.  What carries it there is that a bucket the holder  *)
(* of the mutex has been through keeps room for that holder, and that      *)
(* nobody else is past the mutex meanwhile.                                *)
(***************************************************************************)
LoopInv ==
  \A t \in Task : /\ todo[t] \subseteq keys[t]
                  /\ pc[t] = "queued" => todo[t] = keys[t]

HoldersRoom ==
  Mode = "Before" =>
    \A t \in Task : pc[t] = "checking" =>
      \A b \in keys[t] \ todo[t] : passed[b] < 2 * Limit /\ passed[b] < cur[b]

AttemptInv == TypeOK /\ OneChecker /\ LoopInv /\ AttemptCeiling /\ HoldersRoom

LEMMA AttemptInit == Init => AttemptInv
<1> SUFFICES ASSUME Init PROVE AttemptInv
  OBVIOUS
<1>1. TypeOK
  BY TypeInit
<1>2. OneChecker /\ LoopInv /\ HoldersRoom
  BY DEF Init, OneChecker, LoopInv, HoldersRoom
<1>3. AttemptCeiling
  BY LimitAssumption DEF Init, NoCounts, AttemptCeiling
<1>4. QED
  BY <1>1, <1>2, <1>3 DEF AttemptInv

\* A step that changes nothing but the clock or the bounds keeps the invariant.
LEMMA AttemptStutter ==
  ASSUME AttemptInv, TypeOK', UNCHANGED <<counts, pc, keys, todo, passed>>
  PROVE  AttemptInv'
  BY DEF AttemptInv, OneChecker, LoopInv, AttemptCeiling, HoldersRoom, counts

\* A roll empties passed, or leaves it and cur alone.
LEMMA AttemptRoll ==
  ASSUME AttemptInv, RollWindow
  PROVE  AttemptCeiling'
  BY LimitAssumption DEF AttemptInv, TypeOK, AttemptCeiling, RollWindow, NoCounts

LEMMA AttemptStep ==
  ASSUME AttemptInv, TypeOK', NEW t \in Task, Step(t)
  PROVE  AttemptInv'
<1> USE DEF TypeOK, Place
<1>1. CASE Arrive(t)
  <2>1. OneChecker' /\ LoopInv' /\ HoldersRoom'
    BY <1>1 DEF AttemptInv, OneChecker, LoopInv, HoldersRoom, Arrive, counts
  <2>2. AttemptCeiling'
    BY <1>1 DEF AttemptInv, AttemptCeiling, Arrive, counts
  <2>3. QED
    BY <2>1, <2>2 DEF AttemptInv
<1>2. CASE TakeMutex(t)
  <2>1. OneChecker' /\ LoopInv'
    BY <1>2 DEF AttemptInv, OneChecker, LoopInv, TakeMutex, MutexIsFree
  <2>2. HoldersRoom'
    BY <1>2 DEF AttemptInv, LoopInv, HoldersRoom, TakeMutex, MutexIsFree
  <2>3. QED
    BY <1>2, <2>1, <2>2, AttemptRoll DEF AttemptInv, TakeMutex
<1>3. CASE Refuse(t)
  <2>1. OneChecker' /\ LoopInv' /\ HoldersRoom'
    BY <1>3 DEF AttemptInv, OneChecker, LoopInv, HoldersRoom, Refuse, Leave, MutexIsFree
  <2>2. QED
    BY <1>3, <2>1, AttemptRoll DEF AttemptInv, Refuse
<1>4. ASSUME NEW b \in Bucket, PassBucket(t, b)
      PROVE  AttemptInv'
  <2>1. OneChecker' /\ LoopInv'
    BY <1>4 DEF AttemptInv, OneChecker, LoopInv, PassBucket
  <2>2. AttemptCeiling'
    BY <1>4 DEF AttemptInv, AttemptCeiling, PassBucket, ChargeAttempt
  <2>3. HoldersRoom'
    <3> SUFFICES ASSUME Mode = "Before", NEW s \in Task, pc[s] = "checking",
                        NEW c \in keys[s] \ todo'[s]
                 PROVE  passed[c] < 2 * Limit /\ passed[c] < cur'[c]
      BY <1>4 DEF HoldersRoom, PassBucket
    <3>1. s = t /\ c \in Bucket
      BY <1>4 DEF AttemptInv, OneChecker, PassBucket
    <3>2. CASE c = b
      BY <1>4, <3>1, <3>2, LimitAssumption
        DEF AttemptInv, AttemptCeiling, PassBucket, ChargeAttempt
    <3>3. CASE c # b
      BY <1>4, <3>1, <3>3 DEF AttemptInv, HoldersRoom, PassBucket, ChargeAttempt
    <3>4. QED
      BY <3>2, <3>3
  <2>4. QED
    BY <2>1, <2>2, <2>3 DEF AttemptInv
<1>5. ASSUME NEW b \in Bucket, DenyBucket(t, b)
      PROVE  AttemptInv'
  <2>1. OneChecker' /\ LoopInv' /\ HoldersRoom'
    BY <1>5 DEF AttemptInv, OneChecker, LoopInv, HoldersRoom, DenyBucket, Leave
  <2>2. AttemptCeiling'
    BY <1>5 DEF AttemptInv, AttemptCeiling, DenyBucket, ChargeAttempt
  <2>3. QED
    BY <2>1, <2>2 DEF AttemptInv
<1>6. CASE Admit(t)
  <2>1. OneChecker' /\ LoopInv' /\ HoldersRoom'
    BY <1>6 DEF AttemptInv, OneChecker, LoopInv, HoldersRoom, Admit
  <2>2. AttemptCeiling'
    BY <1>6, LimitAssumption
      DEF AttemptInv, HoldersRoom, AttemptCeiling, Admit, counts
  <2>3. QED
    BY <2>1, <2>2 DEF AttemptInv
<1>7. CASE Answer(t) \/ EndUncounted(t) \/ SkipIncrement(t)
  <2>1. OneChecker' /\ LoopInv' /\ HoldersRoom'
    BY <1>7 DEF AttemptInv, OneChecker, LoopInv, HoldersRoom,
                Answer, EndUncounted, SkipIncrement, Leave, counts
  <2>2. AttemptCeiling'
    BY <1>7 DEF AttemptInv, AttemptCeiling, Answer, EndUncounted, SkipIncrement, counts
  <2>3. QED
    BY <2>1, <2>2 DEF AttemptInv
<1>8. CASE PostIncrement(t)
  <2>1. OneChecker' /\ LoopInv' /\ HoldersRoom'
    BY <1>8 DEF AttemptInv, OneChecker, LoopInv, HoldersRoom, PostIncrement, Leave, MutexIsFree
  <2>2. AttemptCeiling'
    BY <1>8 DEF AttemptInv, AttemptCeiling, PostIncrement
  <2>3. QED
    BY <2>1, <2>2 DEF AttemptInv
<1>9. QED
  BY <1>1, <1>2, <1>3, <1>4, <1>5, <1>6, <1>7, <1>8 DEF Step

LEMMA AttemptNext == AttemptInv /\ [Next]_vars => AttemptInv'
<1> SUFFICES ASSUME AttemptInv, [Next]_vars PROVE AttemptInv'
  OBVIOUS
<1>1. TypeOK'
  BY TypeNext DEF AttemptInv
<1>2. CASE Tick \/ Quiet \/ UNCHANGED vars
  BY <1>1, <1>2, AttemptStutter DEF Tick, Quiet, vars, counts
<1>3. CASE \E t \in Task : Step(t)
  BY <1>1, <1>3, AttemptStep
<1>4. QED
  BY <1>2, <1>3 DEF Next

(* In no window does a limiter on attempts let a bucket through more than   *)
(* twice its limit, nor once more than it has charged it: the ceiling that  *)
(* default_config.toml documents, for every number of concurrent requests.  *)
THEOREM AttemptCeilingHolds == Spec => []AttemptCeiling
<1>1. AttemptInv => AttemptCeiling
  BY DEF AttemptInv
<1>2. QED
  BY <1>1, AttemptInit, AttemptNext, PTL DEF Spec

----------------------------------------------------------------------------
(***************************************************************************)
(* The overshoot of a limiter on failures.  Weight a bucket by its count   *)
(* plus the requests that may still be charged to it.  A pass is only      *)
(* given below the ceiling, so it leaves at most 2 * Limit - 1 plus every  *)
(* connection; a charge moves one unit from the second term to the first;  *)
(* a roll empties the first while the task that rolls is not in the second *)
(***************************************************************************)
OvershootInv == AttemptInv /\ FailureOvershoot

LEMMA OutstandingBound ==
  ASSUME NEW b \in Bucket
  PROVE  /\ IsFiniteSet(Outstanding(b))
         /\ Cardinality(Outstanding(b)) \in Nat
         /\ Cardinality(Outstanding(b)) <= Cardinality(Task)
         /\ Cardinality(Task) \in Nat
<1>1. Outstanding(b) \in SUBSET Task
  BY DEF Outstanding
<1>2. QED
  BY <1>1, TaskAssumption, FS_Subset, FS_CardinalityType

LEMMA OutstandingShrinks ==
  ASSUME NEW b \in Bucket, Outstanding(b)' \subseteq Outstanding(b)
  PROVE  /\ Cardinality(Outstanding(b)') \in Nat
         /\ Cardinality(Outstanding(b)') <= Cardinality(Outstanding(b))
<1>1. IsFiniteSet(Outstanding(b))
  BY OutstandingBound
<1>2. QED
  BY <1>1, FS_Subset, FS_CardinalityType

\* One task that is not outstanding leaves room for one more.
LEMMA OutstandingMisses ==
  ASSUME NEW b \in Bucket, NEW t \in Task, t \notin Outstanding(b)'
  PROVE  /\ Cardinality(Outstanding(b)') \in Nat
         /\ Cardinality(Outstanding(b)') < Cardinality(Task)
         /\ Cardinality(Task) \in Nat
<1>1. Outstanding(b)' \in SUBSET (Task \ {t})
  BY DEF Outstanding
<1>2. IsFiniteSet(Task \ {t}) /\ Cardinality(Task \ {t}) = Cardinality(Task) - 1
  BY TaskAssumption, FS_RemoveElement
<1>3. /\ Cardinality(Outstanding(b)') \in Nat
      /\ Cardinality(Outstanding(b)') <= Cardinality(Task \ {t})
  BY <1>1, <1>2, FS_Subset, FS_CardinalityType
<1>4. Cardinality(Task) \in Nat
  BY TaskAssumption, FS_CardinalityType
<1>5. QED
  BY <1>2, <1>3, <1>4

LEMMA OvershootInit == Init => OvershootInv
<1> SUFFICES ASSUME Init PROVE OvershootInv
  OBVIOUS
<1>1. AttemptInv
  BY AttemptInit
<1>2. ASSUME NEW b \in Bucket, Mode = "After"
      PROVE  cur[b] + Cardinality(Outstanding(b)) < 2 * Limit + Cardinality(Task)
  <2>1. Outstanding(b) = {} /\ cur[b] = 0
    BY DEF Init, Outstanding, NoCounts
  <2>2. Cardinality(Outstanding(b)) = 0
    BY <2>1, FS_EmptySet
  <2>3. Cardinality(Task) \in Nat /\ Cardinality(Task) # 0
    BY TaskAssumption, FS_CardinalityType, FS_EmptySet
  <2>4. QED
    BY <2>1, <2>2, <2>3, LimitAssumption
<1>3. QED
  BY <1>1, <1>2 DEF OvershootInv, AttemptInv, FailureOvershoot

\* A step that charges nothing and makes nobody outstanding.
LEMMA OvershootShrinks ==
  ASSUME OvershootInv, TypeOK', NEW b \in Bucket, Mode = "After",
         cur'[b] = cur[b], Outstanding(b)' \subseteq Outstanding(b)
  PROVE  cur'[b] + Cardinality(Outstanding(b)') < 2 * Limit + Cardinality(Task)
<1>1. cur[b] + Cardinality(Outstanding(b)) < 2 * Limit + Cardinality(Task)
  BY DEF OvershootInv, AttemptInv, FailureOvershoot
<1>2. cur[b] \in Nat /\ Limit \in Nat
  BY LimitAssumption DEF OvershootInv, AttemptInv, TypeOK
<1>3. QED
  BY <1>1, <1>2, OutstandingBound, OutstandingShrinks

\* A task enters the loop, or is turned away there, after a roll.
LEMMA OvershootRoll ==
  ASSUME OvershootInv, TypeOK', RollWindow, NEW b \in Bucket, Mode = "After",
         NEW t \in Task, t \notin Outstanding(b)', Outstanding(b)' \subseteq Outstanding(b)
  PROVE  cur'[b] + Cardinality(Outstanding(b)') < 2 * Limit + Cardinality(Task)
<1>1. CASE cur'[b] = cur[b]
  BY <1>1, OvershootShrinks
<1>2. CASE cur'[b] = 0
  BY <1>2, OutstandingMisses, LimitAssumption
<1>3. QED
  BY <1>1, <1>2 DEF RollWindow, NoCounts

LEMMA OvershootStep ==
  ASSUME OvershootInv, TypeOK', NEW t \in Task, Step(t), Mode = "After", NEW b \in Bucket
  PROVE  cur'[b] + Cardinality(Outstanding(b)') < 2 * Limit + Cardinality(Task)
<1> USE DEF TypeOK, Place
<1>1. CASE Arrive(t)
  <2>1. Outstanding(b)' \subseteq Outstanding(b) /\ cur'[b] = cur[b]
    BY <1>1 DEF OvershootInv, AttemptInv, Outstanding, Arrive, counts
  <2>2. QED
    BY <2>1, OvershootShrinks
<1>2. CASE TakeMutex(t)
  <2>1. t \notin Outstanding(b)' /\ Outstanding(b)' \subseteq Outstanding(b)
    BY <1>2 DEF OvershootInv, AttemptInv, LoopInv, Outstanding, TakeMutex
  <2>2. QED
    BY <1>2, <2>1, OvershootRoll DEF TakeMutex
<1>3. CASE Refuse(t)
  <2>1. t \notin Outstanding(b)' /\ Outstanding(b)' \subseteq Outstanding(b)
    BY <1>3 DEF OvershootInv, AttemptInv, Outstanding, Refuse, Leave
  <2>2. QED
    BY <1>3, <2>1, OvershootRoll DEF Refuse
<1>4. ASSUME NEW c \in Bucket, PassBucket(t, c)
      PROVE  cur'[b] + Cardinality(Outstanding(b)') < 2 * Limit + Cardinality(Task)
  <2>1. CASE b = c
    <3>1. cur'[b] = cur[b] /\ cur[b] < 2 * Limit /\ cur[b] \in Nat
      BY <1>4, <2>1 DEF OvershootInv, AttemptInv, PassBucket, ChargeAttempt
    <3>2. /\ Cardinality(Outstanding(b)') <= Cardinality(Task)
          /\ Cardinality(Outstanding(b)') \in Nat
          /\ Cardinality(Task) \in Nat
      <4>1. Outstanding(b)' \in SUBSET Task
        BY DEF Outstanding
      <4>2. QED
        BY <4>1, TaskAssumption, FS_Subset, FS_CardinalityType
    <3>3. QED
      BY <3>1, <3>2, LimitAssumption
  <2>2. CASE b # c
    <3>1. Outstanding(b)' \subseteq Outstanding(b) /\ cur'[b] = cur[b]
      BY <1>4, <2>2 DEF OvershootInv, AttemptInv, Outstanding, PassBucket, ChargeAttempt
    <3>2. QED
      BY <3>1, OvershootShrinks
  <2>3. QED
    BY <2>1, <2>2
<1>5. ASSUME NEW c \in Bucket, DenyBucket(t, c)
      PROVE  cur'[b] + Cardinality(Outstanding(b)') < 2 * Limit + Cardinality(Task)
  <2>1. Outstanding(b)' \subseteq Outstanding(b) /\ cur'[b] = cur[b]
    BY <1>5 DEF OvershootInv, AttemptInv, Outstanding, DenyBucket, ChargeAttempt, Leave
  <2>2. QED
    BY <2>1, OvershootShrinks
<1>6. CASE Admit(t)
  <2>1. Outstanding(b)' \subseteq Outstanding(b) /\ cur'[b] = cur[b]
    BY <1>6 DEF OvershootInv, AttemptInv, Outstanding, Admit, counts
  <2>2. QED
    BY <2>1, OvershootShrinks
<1>7. CASE Answer(t)
  <2>1. Outstanding(b)' \subseteq Outstanding(b) /\ cur'[b] = cur[b]
    BY <1>7 DEF OvershootInv, AttemptInv, Outstanding, Answer, counts
  <2>2. QED
    BY <2>1, OvershootShrinks
<1>8. CASE EndUncounted(t) \/ SkipIncrement(t)
  <2>1. Outstanding(b)' \subseteq Outstanding(b) /\ cur'[b] = cur[b]
    BY <1>8 DEF OvershootInv, AttemptInv, Outstanding, EndUncounted, SkipIncrement, Leave, counts
  <2>2. QED
    BY <2>1, OvershootShrinks
<1>9. CASE PostIncrement(t)
  <2>1. CASE b \in keys[t]
    <3>1. Outstanding(b)' = Outstanding(b) \ {t} /\ t \in Outstanding(b)
      BY <1>9, <2>1 DEF OvershootInv, AttemptInv, Outstanding, PostIncrement, Leave
    <3>2. Cardinality(Outstanding(b)') = Cardinality(Outstanding(b)) - 1
      BY <3>1, OutstandingBound, FS_RemoveElement
    <3>3. cur'[b] <= cur[b] + 1 /\ cur'[b] \in Nat /\ cur[b] \in Nat
      BY <1>9, <2>1 DEF OvershootInv, AttemptInv, PostIncrement
    <3>4. cur[b] + Cardinality(Outstanding(b)) < 2 * Limit + Cardinality(Task)
      BY DEF OvershootInv, AttemptInv, FailureOvershoot
    <3>5. QED
      BY <3>2, <3>3, <3>4, OutstandingBound, LimitAssumption
  <2>2. CASE b \notin keys[t]
    <3>1. Outstanding(b)' \subseteq Outstanding(b) /\ cur'[b] = cur[b]
      BY <1>9, <2>2 DEF OvershootInv, AttemptInv, Outstanding, PostIncrement, Leave
    <3>2. QED
      BY <3>1, OvershootShrinks
  <2>3. QED
    BY <2>1, <2>2
<1>10. QED
  BY <1>1, <1>2, <1>3, <1>4, <1>5, <1>6, <1>7, <1>8, <1>9 DEF Step

LEMMA OvershootNext == OvershootInv /\ [Next]_vars => OvershootInv'
<1> SUFFICES ASSUME OvershootInv, [Next]_vars PROVE OvershootInv'
  OBVIOUS
<1>1. AttemptInv' /\ TypeOK'
  BY AttemptNext DEF OvershootInv, AttemptInv
<1> SUFFICES ASSUME Mode = "After", NEW b \in Bucket
             PROVE  cur'[b] + Cardinality(Outstanding(b)') < 2 * Limit + Cardinality(Task)
  BY <1>1 DEF OvershootInv, FailureOvershoot
<1>2. CASE Tick \/ Quiet \/ UNCHANGED vars
  <2>1. Outstanding(b)' \subseteq Outstanding(b) /\ cur'[b] = cur[b]
    BY <1>2 DEF Tick, Quiet, vars, counts, Outstanding
  <2>2. QED
    BY <1>1, <2>1, OvershootShrinks
<1>3. CASE \E t \in Task : Step(t)
  BY <1>1, <1>3, OvershootStep
<1>4. QED
  BY <1>2, <1>3 DEF Next

(* A limiter on failures never counts 2 * Limit plus the number of          *)
(* connections in one window, even with every request still in flight       *)
(* charged to it: the true ceiling, where the documented one fails.         *)
THEOREM FailureOvershootHolds == Spec => []FailureOvershoot
<1>1. OvershootInv => FailureOvershoot
  BY DEF OvershootInv
<1>2. QED
  BY <1>1, OvershootInit, OvershootNext, PTL DEF Spec

----------------------------------------------------------------------------
(***************************************************************************)
(* Denials.  The estimate is a mean of the two counts, weighted by the     *)
(* time elapsed and the time left, as long as the clock is in the window.  *)
(***************************************************************************)
LEMMA ElapsedWithin ==
  ASSUME TypeOK, CurrentWindow = window
  PROVE  Elapsed \in Nat /\ Elapsed < WindowDuration
<1>1. clock \in Nat /\ WindowDuration \in Nat /\ WindowDuration > 0
  BY WindowAssumption DEF TypeOK
<1>2. clock = WindowDuration * (clock \div WindowDuration) + (clock % WindowDuration)
  BY <1>1, SMT
<1>3. clock % WindowDuration \in 0 .. WindowDuration - 1
  BY <1>1, SMT
<1>4. Elapsed = clock % WindowDuration
  BY <1>1, <1>2, <1>3, SMT DEF Elapsed, CurrentWindow
<1>5. QED
  BY <1>3, <1>4, <1>1

\* A weighted mean of two numbers below m + 1 does not exceed m.
LEMMA MeanBelow ==
  ASSUME NEW m \in Nat, NEW c \in 0 .. m, NEW l \in 0 .. m,
         NEW w \in Nat, NEW e \in 0 .. w
  PROVE  c * e + l * (w - e) <= m * w
<1>1. c * e <= m * e
  BY SMT
<1>2. l * (w - e) <= m * (w - e)
  <2>1. w - e \in Nat
    BY SMT
  <2> DEFINE d == w - e
  <2>2. l * d <= m * d
    <3> HIDE DEF d
    <3>1. d \in Nat
      BY <2>1 DEF d
    <3>2. QED
      BY <3>1, SMT
  <2>3. QED
    BY <2>2
<1>3. m * e + m * (w - e) = m * w
  BY SMT
<1>4. c * e \in Int /\ l * (w - e) \in Int /\ m * e \in Int /\ m * (w - e) \in Int
  BY SMT
<1>5. QED
  BY <1>1, <1>2, <1>3, <1>4, SMT

LEMMA DenialNext ==
  ASSUME AttemptInv, [Next]_vars, NEW t \in Task, pc[t] = "checking", pc'[t] = "idle"
  PROVE  \/ CurrentWindow # window
         \/ \E b \in todo[t] : cur[b] >= Limit \/ last[b] >= Limit
<1> USE DEF AttemptInv, TypeOK, Place
<1>1. PICK b \in Bucket : DenyBucket(t, b)
  <2>1. CASE Tick \/ Quiet \/ UNCHANGED vars
    BY <2>1 DEF Tick, Quiet, vars, counts
  <2>2. CASE \E s \in Task : Step(s)
    <3>1. PICK s \in Task : Step(s)
      BY <2>2
    <3>2. s = t
      BY <3>1 DEF Step, Arrive, TakeMutex, Refuse, PassBucket, DenyBucket, Admit, Answer,
                  EndUncounted, PostIncrement, SkipIncrement, Leave, counts
    <3>3. QED
      BY <3>1, <3>2 DEF Step, Arrive, TakeMutex, Refuse, PassBucket, Admit, Answer,
                  EndUncounted, PostIncrement, SkipIncrement
  <2>3. QED
    BY <2>1, <2>2 DEF Next
<1> SUFFICES ASSUME CurrentWindow = window, cur[b] < Limit, last[b] < Limit PROVE FALSE
  BY <1>1, LimitAssumption DEF DenyBucket
<1>2. Elapsed \in 0 .. WindowDuration /\ WindowDuration \in Nat \ {0}
  BY ElapsedWithin, WindowAssumption
<1>3. Limit - 1 \in Nat /\ cur[b] \in 0 .. Limit - 1 /\ last[b] \in 0 .. Limit - 1
  BY LimitAssumption
<1>4. Estimate(b) <= (Limit - 1) * WindowDuration
  BY <1>2, <1>3, MeanBelow DEF Estimate
<1>5. (Limit - 1) * WindowDuration < Limit * WindowDuration
  BY <1>2, LimitAssumption, SMT
<1>6. Estimate(b) \in Int /\ Limit * WindowDuration \in Int
  BY <1>2, <1>3, LimitAssumption DEF Estimate
<1>7. Estimate(b) < Limit * WindowDuration
  BY <1>2, <1>3, <1>4, <1>5, <1>6, LimitAssumption
<1>8. TRUE \notin OverLimitVerdicts(b)
  BY <1>7 DEF OverLimitVerdicts
<1>9. ~(cur[b] >= 2 * Limit)
  BY <1>3, LimitAssumption
<1>10. QED
  BY <1>1, <1>8, <1>9, Zenon DEF DenyBucket

(* No request is turned away by a bucket that is below the limit in both    *)
(* windows, as long as the clock stays in the window while the limiter      *)
(* decides: the two other ways out of the loop do not exist.                *)
THEOREM DenialIsEarnedHolds == Spec => DenialIsEarned
<1>1. AttemptInv /\ [Next]_vars =>
        [\A t \in Task :
           pc[t] = "checking" /\ pc'[t] = "idle" =>
             \/ CurrentWindow # window
             \/ \E b \in todo[t] : cur[b] >= Limit \/ last[b] >= Limit]_vars
  BY DenialNext
<1>2. QED
  BY <1>1, AttemptInit, AttemptNext, PTL DEF Spec, DenialIsEarned

----------------------------------------------------------------------------
(***************************************************************************)
(* The quota.  A roll forgets every bucket at once; it is allowed to       *)
(* because the limiter's window is never ahead of the clock's, so that a   *)
(* window which is not the clock's is one whole window behind it.          *)
(***************************************************************************)
WindowPast == window <= CurrentWindow

LEMMA DivBounds ==
  ASSUME NEW n \in Nat
  PROVE  /\ n \div WindowDuration \in Nat
         /\ (n \div WindowDuration) * WindowDuration <= n
         /\ n \div WindowDuration <= (n + 1) \div WindowDuration
<1>1. WindowDuration \in Nat /\ WindowDuration > 0
  BY WindowAssumption
<1>2. n = WindowDuration * (n \div WindowDuration) + (n % WindowDuration)
  BY <1>1, SMT
<1>3. n % WindowDuration \in 0 .. WindowDuration - 1
  BY <1>1, SMT
<1>4. n \div WindowDuration <= (n + 1) \div WindowDuration
  BY <1>1, SMT
<1>5. QED
  BY <1>1, <1>2, <1>3, <1>4, CurrentWindowType, SMT

LEMMA WindowPastInit == Init => WindowPast
  BY CurrentWindowType DEF Init, WindowPast, CurrentWindow

LEMMA WindowPastNext == TypeOK /\ WindowPast /\ [Next]_vars => WindowPast'
<1> SUFFICES ASSUME TypeOK, WindowPast, [Next]_vars PROVE WindowPast'
  OBVIOUS
<1>1. CurrentWindow \in Nat /\ CurrentWindow <= (clock + 1) \div WindowDuration
  BY DivBounds DEF TypeOK, CurrentWindow
<1>2. (clock + 1) \div WindowDuration \in Nat
  BY CurrentWindowType DEF TypeOK
<1>3. CASE Tick
  BY <1>1, <1>2, <1>3 DEF Tick, counts, WindowPast, CurrentWindow, TypeOK
<1>4. CASE clock' = clock /\ window' \in {window, CurrentWindow}
  BY <1>1, <1>4 DEF WindowPast, CurrentWindow
<1>5. QED
  BY <1>3, <1>4 DEF Next, Step, Quiet, vars, counts, RollWindow, Arrive, TakeMutex, Refuse,
    PassBucket, DenyBucket, Admit, Answer, EndUncounted, PostIncrement, SkipIncrement

QuotaInv == AttemptInv /\ WindowPast

\* A window the limiter leaves is over by the clock.
LEMMA LeftWindowOver ==
  ASSUME TypeOK, WindowPast, window # CurrentWindow
  PROVE  clock - window * WindowDuration >= WindowDuration
<1>1. /\ CurrentWindow \in Nat /\ CurrentWindow * WindowDuration <= clock
      /\ window + 1 <= CurrentWindow /\ window \in Nat /\ clock \in Nat
      /\ WindowDuration \in Nat
  BY DivBounds, WindowAssumption DEF TypeOK, CurrentWindow, WindowPast
<1>2. (window + 1) * WindowDuration <= CurrentWindow * WindowDuration
  BY <1>1, SMT
<1>3. (window + 1) * WindowDuration = window * WindowDuration + WindowDuration
  BY <1>1, SMT
<1>4. /\ window * WindowDuration \in Nat
      /\ CurrentWindow * WindowDuration \in Nat
      /\ (window + 1) * WindowDuration \in Nat
  BY <1>1, SMT
<1>5. QED
  BY <1>1, <1>2, <1>3, <1>4

\* A roll forgets all buckets or, when the window goes on, none of them.
LEMMA RollIsForgetting ==
  ASSUME QuotaInv, RollWindow, UNCHANGED clock
  PROVE  Promise!Decide(IF window # CurrentWindow THEN Bucket ELSE {}, {})
<1> USE DEF QuotaInv, AttemptInv, TypeOK
<1>1. CASE window = CurrentWindow
  BY <1>1 DEF RollWindow, Promise!Decide
<1>2. CASE window # CurrentWindow
  <2>1. clock - window * WindowDuration >= WindowDuration
    BY <1>2, LeftWindowOver
  <2>2. \A b \in Bucket : Promise!MayForget(b)
    BY <2>1 DEF Promise!MayForget
  <2>3. window' * WindowDuration <= clock
    BY DivBounds DEF RollWindow, CurrentWindow
  <2>4. passed' = [b \in Bucket |-> 0]
    BY <1>2 DEF RollWindow, NoCounts
  <2>5. QED
    BY <1>2, <2>2, <2>3, <2>4 DEF Promise!Decide
<1>3. QED
  BY <1>1, <1>2

\* Letting a request through grants its buckets, which the loop kept room in.
LEMMA AdmitIsGranting ==
  ASSUME QuotaInv, Mode = "Before", NEW t \in Task, Admit(t)
  PROVE  Promise!Decide({}, keys[t])
<1> USE DEF QuotaInv, AttemptInv, TypeOK
<1>1. keys[t] \subseteq Bucket /\ \A b \in keys[t] : passed[b] < 2 * Limit
  BY DEF Admit, HoldersRoom
<1>2. passed' = [b \in Bucket |-> passed[b] + IF b \in keys[t] THEN 1 ELSE 0]
  BY DEF Admit
<1>3. QED
  BY <1>1, <1>2 DEF Admit, counts, Promise!Decide

LEMMA QuotaStep ==
  QuotaInv /\ Mode = "Before" /\ [Next]_vars => [Promise!Next]_(Promise!vars)
<1> SUFFICES ASSUME QuotaInv, Mode = "Before", [Next]_vars
             PROVE  Promise!Next \/ UNCHANGED Promise!vars
  OBVIOUS
<1>1. CASE Tick
  BY <1>1 DEF Tick, counts, Promise!Next, Promise!Tick
<1>2. CASE UNCHANGED <<clock, window, passed>>
  BY <1>2 DEF Promise!vars
<1>3. CASE RollWindow /\ UNCHANGED clock
  BY <1>3, RollIsForgetting DEF Promise!Next
<1>4. ASSUME NEW t \in Task, Admit(t) PROVE Promise!Next
  <2>1. {} \in SUBSET Bucket /\ keys[t] \in SUBSET Bucket
    BY DEF QuotaInv, AttemptInv, TypeOK
  <2>2. QED
    BY <1>4, <2>1, AdmitIsGranting DEF Promise!Next
<1>5. QED
  BY <1>1, <1>2, <1>3, <1>4 DEF Next, Step, Quiet, vars, counts, Arrive, TakeMutex, Refuse,
    PassBucket, DenyBucket, Answer, EndUncounted, PostIncrement, SkipIncrement

LEMMA QuotaInit == Init => Promise!Init
  BY CurrentWindowType, WindowAssumption DEF Init, Promise!Init, NoCounts, CurrentWindow

(* Refinement: a limiter on attempts implements the quota of 2 * Limit a    *)
(* window for any number of connections and buckets; rolls are its only     *)
(* forgetting, and they come when the window is over and not before.        *)
THEOREM KeepsQuotaHolds == ASSUME Mode = "Before" PROVE Spec => KeepsQuota
<1>1. QuotaInv /\ [Next]_vars => QuotaInv'
  BY AttemptNext, WindowPastNext DEF QuotaInv, AttemptInv
<1>2. Init => QuotaInv
  BY AttemptInit, WindowPastInit DEF QuotaInv
<1>3. QuotaInv /\ [Next]_vars => [Promise!Next]_(Promise!vars)
  BY QuotaStep
<1>4. QED
  BY <1>1, <1>2, <1>3, QuotaInit, PTL DEF Spec, KeepsQuota, Promise!Spec

=============================================================================
