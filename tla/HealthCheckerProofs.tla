------------------------- MODULE HealthCheckerProofs -------------------------
(***************************************************************************)
(* What holds of the health checker for every number of nodes and every    *)
(* behaviour of theirs.                                                    *)
(***************************************************************************)
EXTENDS HealthChecker, TLAPS

(***************************************************************************)
(* How long ago a node was judged follows from where the loop is: the ones *)
(* behind it were judged in this sweep, the others in the sweep before.    *)
(* SweepFresh alone is not inductive: it does not say that the node that   *)
(* has waited longest is the one whose turn it is.                         *)
(***************************************************************************)
SweepInv ==
  \A n \in Node : since[n] = IF n < at THEN at - 1 - n ELSE at - 1 - n + NodeCount

(* The loop's position in the list stays inside it.                         *)
LEMMA AdvanceType ==
  ASSUME at \in Node, Advance
  PROVE  at' \in Node /\ phase' \in Phase
  BY NodeAssumption DEF Advance, Node, Phase

(* Every state of the health checker is well typed.                         *)
THEOREM TypeCorrect == Spec => []TypeOK
<1>1. Init => TypeOK
  BY NodeAssumption, SMT DEF Init, TypeOK, Node, Phase, Report
<1>2. TypeOK /\ [Next]_vars => TypeOK'
  <2> SUFFICES ASSUME TypeOK, [Next]_vars
               PROVE  TypeOK'
    OBVIOUS
  <2> USE DEF TypeOK
  <2>1. CASE Answer
    <3>1. answer' \in Report
      BY <2>1 DEF Answer, Report, Condition
    <3> QED
      BY <2>1, <3>1 DEF Answer, Phase
  <2>2. CASE TakeWriteLock
    BY <2>2 DEF TakeWriteLock, Phase
  <2>3. CASE Outdate
    BY <2>3 DEF Outdate, Report
  <2>4. CASE Judge
    <3>1. at' \in Node /\ phase' \in Phase
      BY <2>4, AdvanceType DEF Judge
    <3>2. healthy' \in [Node -> BOOLEAN]
      BY <2>4 DEF Judge
    <3>3. since' \in [Node -> Nat]
      BY <2>4 DEF Judge, Recorded
    <3>4. steady' \in [Node -> 0 .. 2]
      BY <2>4 DEF Judge, Recorded
    <3> QED
      BY <2>4, <3>1, <3>2, <3>3, <3>4 DEF Judge
  <2>5. CASE Wake
    BY <2>5 DEF Wake, Phase
  <2>6. ASSUME NEW r \in Reader, Ask(r) \/ Read(r) \/ HangUp(r)
        PROVE  TypeOK'
    BY <2>6 DEF Ask, Read, HangUp, probe
  <2>7. ASSUME NEW n \in Node, Change(n)
        PROVE  TypeOK'
    BY <2>7 DEF Change, probe
  <2>8. CASE UNCHANGED vars
    BY <2>8 DEF vars, probe
  <2> QED
    BY <2>1, <2>2, <2>3, <2>4, <2>5, <2>6, <2>7, <2>8 DEF Next
<1> QED
  BY <1>1, <1>2, PTL DEF Spec

(* In every state the verdicts are at most one sweep old, whatever the      *)
(* nodes did.                                                               *)
THEOREM SweepFreshHolds == Spec => []SweepFresh
<1>1. Init => SweepInv
  BY NodeAssumption DEF Init, SweepInv, Node
<1>2. TypeOK /\ SweepInv /\ [Next]_vars => SweepInv'
  <2> SUFFICES ASSUME TypeOK, SweepInv, [Next]_vars
               PROVE  SweepInv'
    OBVIOUS
  <2>1. CASE Judge
    <3> SUFFICES ASSUME NEW n \in Node
                 PROVE  since'[n] = IF n < at' THEN at' - 1 - n
                                    ELSE at' - 1 - n + NodeCount
      BY DEF SweepInv
    <3>1. since'[n] = IF n = at THEN 0 ELSE since[n] + 1
      BY <2>1 DEF Judge, Recorded
    <3>2. since[n] = IF n < at THEN at - 1 - n ELSE at - 1 - n + NodeCount
      BY DEF SweepInv
    <3>3. at \in 1 .. NodeCount /\ n \in 1 .. NodeCount /\ NodeCount \in Nat \ {0}
      BY NodeAssumption DEF TypeOK, Node
    <3>4. at' = IF at < NodeCount THEN at + 1 ELSE 1
      BY <2>1 DEF Judge, Advance
    <3> QED
      BY <3>1, <3>2, <3>3, <3>4
  <2>2. CASE UNCHANGED <<at, since>>
    BY <2>2 DEF SweepInv
  <2>3. [Next]_vars => Judge \/ UNCHANGED <<at, since>>
    BY DEF Next, vars, probe, Answer, TakeWriteLock, Outdate, Wake, Ask, Read, HangUp,
           Change
  <2> QED
    BY <2>1, <2>2, <2>3
<1>3. TypeOK /\ SweepInv => SweepFresh
  BY NodeAssumption DEF TypeOK, SweepInv, SweepFresh, Node
<1> QED
  BY <1>1, <1>2, <1>3, TypeCorrect, PTL DEF Spec

----------------------------------------------------------------------------
(***************************************************************************)
(* How far the verdicts lag.  A node with a sweep's end behind it since it *)
(* last changed was asked afresh after that: the answer under way is what  *)
(* it does now, and so is the verdict on a node the loop has passed.       *)
(***************************************************************************)
Right(n) == healthy[n] = (world[n] = "synced")

LagInv ==
  /\ \A n \in Node : steady[n] > 0 => world[n] \in Report
  /\ phase \in {"locking", "judging"} /\ steady[at] > 0 => answer = world[at]
  /\ \A n \in Node : steady[n] > 0 /\ n < at => Right(n)
  /\ VerdictsSettle

LEMMA LagInit == Init => LagInv
  BY DEF Init, LagInv, VerdictsSettle

\* A verdict rests on the answer at hand; the last of a sweep ends it.
LEMMA LagJudge ==
  ASSUME TypeOK, LagInv, Judge
  PROVE  LagInv'
<1>1. /\ at \in 1 .. NodeCount /\ NodeCount \in Nat \ {0} /\ world' = world
      /\ at' = (IF at < NodeCount THEN at + 1 ELSE 1)
      /\ phase' \in {"sending", "sleeping"}
  BY NodeAssumption DEF TypeOK, Node, Judge, Advance
<1>2. \A n \in Node : n \in 1 .. NodeCount /\ steady[n] \in 0 .. 2
  BY DEF TypeOK, Node
<1>3. \A n \in Node : healthy'[n] = IF n = at THEN answer = "synced" ELSE healthy[n]
  BY DEF Judge, TypeOK
<1>4. \A n \in Node :
        steady'[n] = IF at' = 1 /\ world[n] \in Report /\ steady[n] < 2
                     THEN steady[n] + 1 ELSE steady[n]
  BY DEF Judge, Recorded
<1>5. \A n \in Node : steady[n] > 0 /\ n <= at => Right(n)'
  <2>1. steady[at] > 0 => answer = world[at]
    BY DEF LagInv, Judge
  <2>2. QED
    BY <1>1, <1>2, <1>3, <2>1 DEF LagInv, Right
<1>6. \A n \in Node : n # at /\ Right(n) => Right(n)'
  BY <1>1, <1>3 DEF Right
<1>7. \A n \in Node : steady'[n] > 0 => world'[n] \in Report
  BY <1>1, <1>2, <1>4 DEF LagInv
<1>8. ASSUME NEW n \in Node, steady'[n] > 0, n < at' PROVE Right(n)'
  <2>1. at' = at + 1 /\ n <= at
    BY <1>1, <1>2, <1>8
  <2>2. steady'[n] = steady[n]
    BY <1>1, <1>4, <2>1
  <2>3. QED
    BY <1>5, <1>8, <2>1, <2>2
<1>9. ASSUME NEW n \in Node, steady'[n] = 2 PROVE Right(n)'
  <2>1. CASE steady[n] = 2
    <3>1. CASE n = at
      BY <1>1, <1>2, <1>5, <2>1, <3>1
    <3>2. CASE n # at
      BY <1>6, <2>1, <3>2 DEF LagInv, VerdictsSettle, Right
    <3>3. QED
      BY <3>1, <3>2
  <2>2. CASE steady[n] # 2
    <3>1. steady[n] = 1 /\ at' = 1
      BY <1>2, <1>4, <1>9, <2>2
    <3>2. n <= at
      BY <1>1, <1>2, <3>1
    <3>3. QED
      BY <1>5, <3>1, <3>2
  <2>3. QED
    BY <2>1, <2>2
<1>10. QED
  BY <1>1, <1>7, <1>8, <1>9 DEF LagInv, VerdictsSettle, Right

LEMMA LagNext == TypeOK /\ LagInv /\ [Next]_vars => LagInv'
<1> SUFFICES ASSUME TypeOK, LagInv, [Next]_vars PROVE LagInv'
  OBVIOUS
<1>1. CASE Judge
  BY <1>1, LagJudge
<1> USE DEF LagInv, VerdictsSettle, Right
<1>2. CASE Answer
  <2>1. steady[at] > 0 => answer' = world[at]
    BY <1>2 DEF Answer, Report, TypeOK
  <2>2. QED
    BY <1>2, <2>1 DEF Answer
<1>3. CASE TakeWriteLock \/ Wake
  BY <1>3 DEF TakeWriteLock, Wake
<1>4. CASE Outdate
  BY <1>4 DEF Outdate, TypeOK, Node
<1>5. ASSUME NEW r \in Reader, Ask(r) \/ Read(r) \/ HangUp(r) PROVE LagInv'
  BY <1>5 DEF Ask, Read, HangUp, probe
<1>6. ASSUME NEW m \in Node, Change(m) PROVE LagInv'
  <2>1. /\ steady'[m] = 0
        /\ \A n \in Node \ {m} : steady'[n] = steady[n] /\ world'[n] = world[n]
        /\ UNCHANGED <<healthy, at, phase, answer>>
    BY <1>6 DEF Change, probe, TypeOK
  <2>2. at \in Node
    BY DEF TypeOK
  <2>3. QED
    BY <2>1, <2>2
<1>7. CASE UNCHANGED vars
  BY <1>7 DEF vars, probe
<1>8. QED
  BY <1>1, <1>2, <1>3, <1>4, <1>5, <1>6, <1>7 DEF Next

(* For every number of nodes: two ends of a sweep after a node that answers *)
(* last changed, requests see it as it is.  It is the bound within which a  *)
(* laggard leaves the pools and a node back in sync returns to them.        *)
THEOREM VerdictsSettleHolds == Spec => []VerdictsSettle
<1>1. LagInv => VerdictsSettle
  BY DEF LagInv
<1>2. QED
  BY <1>1, LagInit, LagNext, TypeCorrect, PTL DEF Spec
=============================================================================
