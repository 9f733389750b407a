----------------------- MODULE RateLimiterAuditProofs -----------------------
(***************************************************************************)
(* What the two maps of a rate limiter are worth, for any number of        *)
(* connections and buckets, any limit, any window and any bounds.          *)
(***************************************************************************)
EXTENDS RateLimiterAudit, RateLimiterProofs

----------------------------------------------------------------------------
(* The limiter beside its record is the limiter: what is proved of the one  *)
(* holds beside the other.                                                  *)
LEMMA AuditStepIsStep == [AuditNext]_<<vars, audit>> => [Next]_vars
  BY DEF AuditNext, Next, Step, EntersCheck

LEMMA AuditInitIsInit == AuditInit => Init
  BY DEF AuditInit

(***************************************************************************)
(* The tick at which a window begins, and what a bucket was let through    *)
(* from a tick on.                                                         *)
(***************************************************************************)
StartOf(w) == w * WindowDuration
Total(b) == admitted[b][clock + 1]
Since(b, n) == Total(b) - admitted[b][n]

RecordType ==
  /\ clock \in 0 .. MaxTime
  /\ ledger \in [Bucket -> [Windows -> Nat]]
  /\ admitted \in [Bucket -> [Ticks -> Nat]]

AuditBase == QuotaInv /\ RecordType

(* Windows follow each other without a gap.                                 *)
LEMMA StartOrder ==
  ASSUME NEW v \in Nat, NEW w \in Nat
  PROVE  /\ StartOf(v) \in Nat
         /\ StartOf(v + 1) = StartOf(v) + WindowDuration
         /\ v <= w => StartOf(v) <= StartOf(w)
<1>1. WindowDuration \in Nat
  BY WindowAssumption
<1>2. v * WindowDuration \in Nat /\ w * WindowDuration \in Nat
  BY <1>1, SMT
<1>3. (v + 1) * WindowDuration = v * WindowDuration + WindowDuration
  BY <1>1, SMT
<1>4. v <= w => v * WindowDuration <= w * WindowDuration
  BY <1>1, SMT
<1> QED
  BY <1>2, <1>3, <1>4 DEF StartOf

(* The clock is in its window.                                              *)
LEMMA ClockInWindow ==
  ASSUME clock \in Nat
  PROVE  /\ CurrentWindow \in Nat
         /\ StartOf(CurrentWindow) <= clock /\ clock < StartOf(CurrentWindow + 1)
<1>1. WindowDuration \in Nat /\ WindowDuration > 0
  BY WindowAssumption
<1>2. clock = WindowDuration * (clock \div WindowDuration) + (clock % WindowDuration)
  BY <1>1, SMT
<1>3. clock % WindowDuration \in 0 .. WindowDuration - 1
  BY <1>1, SMT
<1>4. CurrentWindow \in Nat
  BY CurrentWindowType DEF CurrentWindow
<1>5. StartOf(CurrentWindow) = WindowDuration * CurrentWindow
  BY <1>1, <1>4, SMT DEF StartOf
<1>6. StartOf(CurrentWindow + 1) = StartOf(CurrentWindow) + WindowDuration
  BY <1>4, StartOrder
<1>7. StartOf(CurrentWindow) \in Nat
  BY <1>4, StartOrder
<1> QED
  BY <1>1, <1>2, <1>3, <1>4, <1>5, <1>6, <1>7 DEF CurrentWindow

LEMMA WindowBefore ==
  ASSUME NEW w \in Windows
  PROVE  /\ w \in Nat
         /\ \A v \in Nat : v <= w => v \in Windows
         /\ w # 0 => w - 1 \in Nat /\ w - 1 \in Windows
<1>1. MaxTime \div WindowDuration \in Nat
  BY CurrentWindowType, BoundAssumption
<1> QED
  BY <1>1 DEF Windows

LEMMA TicksAreNat == Ticks \subseteq Nat
  BY BoundAssumption, WindowAssumption DEF Ticks

(* The windows and the ticks the properties speak of are on record.         *)
LEMMA WindowOnRecord ==
  ASSUME clock \in 0 .. MaxTime, NEW w \in Nat, w <= CurrentWindow
  PROVE  /\ w \in Windows
         /\ StartOf(w) \in Ticks /\ StartOf(w + 1) \in Ticks /\ StartOf(w) <= clock
         /\ w > 0 => w - 1 \in Nat /\ StartOf(w - 1) \in Ticks
<1>1. clock \in Nat /\ clock <= MaxTime /\ WindowDuration \in Nat \ {0} /\ MaxTime \in Nat
  BY WindowAssumption, BoundAssumption
<1>2. clock \div WindowDuration <= MaxTime \div WindowDuration
  BY <1>1, SMT
<1>3. CurrentWindow \in Nat /\ StartOf(CurrentWindow) <= clock
  BY <1>1, ClockInWindow
<1>4. MaxTime \div WindowDuration \in Nat
  BY CurrentWindowType, BoundAssumption
<1>5. w \in Windows
  BY <1>1, <1>2, <1>3, <1>4 DEF Windows, CurrentWindow
<1>6. /\ StartOf(w) \in Nat /\ StartOf(w) <= StartOf(CurrentWindow)
      /\ StartOf(CurrentWindow) \in Nat
      /\ StartOf(w + 1) = StartOf(w) + WindowDuration
  BY <1>3, StartOrder
<1>7. StartOf(w) \in Ticks /\ StartOf(w + 1) \in Ticks /\ StartOf(w) <= clock
  BY <1>1, <1>3, <1>6 DEF Ticks
<1>8. ASSUME w > 0
      PROVE  w - 1 \in Nat /\ StartOf(w - 1) \in Ticks
  <2>1. w - 1 \in Nat /\ w - 1 <= w
    BY <1>8
  <2>2. StartOf(w - 1) \in Nat /\ StartOf(w - 1) <= StartOf(w)
    BY <2>1, StartOrder
  <2> QED
    BY <1>1, <1>3, <1>6, <2>1, <2>2 DEF Ticks
<1> QED
  BY <1>5, <1>7, <1>8

LEMMA OnRecord ==
  ASSUME AuditBase
  PROVE  /\ window \in Windows /\ CurrentWindow \in Windows
         /\ clock + 1 \in Ticks
         /\ StartOf(window) \in Ticks /\ StartOf(window + 1) \in Ticks
         /\ StartOf(window) <= clock
         /\ window > 0 => window - 1 \in Nat /\ StartOf(window - 1) \in Ticks
<1>1. /\ clock \in 0 .. MaxTime /\ window \in Nat /\ window <= CurrentWindow
      /\ clock \in Nat
  BY DEF AuditBase, QuotaInv, AttemptInv, TypeOK, RecordType, WindowPast
<1>2. CurrentWindow \in Nat /\ CurrentWindow <= CurrentWindow
  BY <1>1, ClockInWindow
<1>3. clock + 1 \in Ticks
  BY <1>1, WindowAssumption, BoundAssumption DEF Ticks
<1> QED
  BY <1>1, <1>2, <1>3, WindowOnRecord

----------------------------------------------------------------------------
LEMMA RecordInit == AuditInit => AuditBase
<1> SUFFICES ASSUME AuditInit PROVE AuditBase
  OBVIOUS
<1>1. QuotaInv
  BY AttemptInit, WindowPastInit DEF AuditInit, QuotaInv
<1>2. RecordType
  BY BoundAssumption DEF AuditInit, Init, RecordType
<1> QED
  BY <1>1, <1>2 DEF AuditBase

LEMMA AddAllType ==
  ASSUME NEW I, NEW record \in [Bucket -> [I -> Nat]], NEW B, NEW i \in I
  PROVE  AddAll(record, B, i) \in [Bucket -> [I -> Nat]]
  BY DEF AddAll

LEMMA RecordNext ==
  ASSUME AuditBase, [AuditNext]_<<vars, audit>>
  PROVE  AuditBase'
<1>1. QuotaInv'
  BY AuditStepIsStep, AttemptNext, WindowPastNext DEF AuditBase, QuotaInv, AttemptInv
<1>2. window \in Windows
  BY OnRecord
<1> USE DEF AuditBase, RecordType, audit
<1>3. CASE Tick /\ UNCHANGED audit
  <2>1. clock' \in 0 .. MaxTime
    BY <1>3, BoundAssumption DEF Tick
  <2>2. RecordType'
    BY <1>3, <2>1
  <2> QED
    BY <1>1, <2>2
<1>4. CASE UNCHANGED <<clock, audit>>
  BY <1>1, <1>4
<1>5. ASSUME NEW b \in Bucket, AuditAttempt(b), UNCHANGED clock
      PROVE  RecordType'
  BY <1>2, <1>5 DEF AuditAttempt, Add
<1>6. ASSUME NEW t \in Task, Admit(t), AuditAdmit(t)
      PROVE  RecordType'
  BY <1>6 DEF Admit, AuditAdmit, AddOnwards
<1>7. ASSUME NEW t \in Task, PostIncrement(t), AuditIncrement(t)
      PROVE  RecordType'
  BY <1>2, <1>7, AddAllType DEF PostIncrement, AuditIncrement
<1> QED
  BY <1>1, <1>3, <1>4, <1>5, <1>6, <1>7
  DEF AuditNext, EntersCheck, Quiet, vars, Arrive, TakeMutex, Refuse, PassBucket,
      DenyBucket, Answer, EndUncounted, SkipIncrement

----------------------------------------------------------------------------
(* No charge has been filed under a window to come.                         *)
LedgerInv ==
  /\ CountsMatchLedger
  /\ \A b \in Bucket, w \in Windows : w > window => ledger[b][w] = 0

(* A roll takes the maps to the records of the two windows that now count,  *)
(* however many windows have gone by.                                       *)
LEMMA LedgerRoll ==
  ASSUME AuditBase, LedgerInv, RollWindow, UNCHANGED ledger, UNCHANGED clock
  PROVE  LedgerInv'
<1> USE DEF AuditBase, QuotaInv, AttemptInv, TypeOK
<1>1. CASE window = CurrentWindow
  BY <1>1 DEF RollWindow, LedgerInv, CountsMatchLedger
<1>2. CASE window # CurrentWindow
  <2>1. /\ window' = CurrentWindow /\ CurrentWindow > window /\ window \in Nat
        /\ CurrentWindow \in Windows /\ CurrentWindow \in Nat
        /\ cur' = [b \in Bucket |-> 0]
        /\ last' = IF window + 1 = CurrentWindow THEN cur ELSE [b \in Bucket |-> 0]
    BY <1>2, OnRecord, CurrentWindowType
    DEF RollWindow, WindowPast, NoCounts, CurrentWindow
  <2>2. ASSUME NEW b \in Bucket, NEW w \in Windows, w > window
        PROVE  ledger[b][w] = 0
    BY <2>2 DEF LedgerInv
  <2>3. \A b \in Bucket : ledger[b][CurrentWindow] = 0
    BY <2>1, <2>2
  <2>4. ASSUME NEW b \in Bucket
        PROVE  last'[b] = ledger[b][CurrentWindow - 1]
    <3>1. CASE window + 1 = CurrentWindow
      BY <2>1, <3>1 DEF LedgerInv, CountsMatchLedger
    <3>2. CASE window + 1 # CurrentWindow
      <4>1. CurrentWindow - 1 \in Windows /\ CurrentWindow - 1 > window
        BY <2>1, <3>2, WindowBefore
      <4> QED
        BY <2>1, <2>2, <3>2, <4>1
    <3> QED
      BY <3>1, <3>2
  <2>5. CountsMatchLedger'
    BY <2>1, <2>3, <2>4 DEF CountsMatchLedger
  <2>6. \A b \in Bucket, w \in Windows : w > CurrentWindow => ledger[b][w] = 0
    BY <2>1, <2>2 DEF Windows
  <2> QED
    BY <2>1, <2>5, <2>6 DEF LedgerInv
<1> QED
  BY <1>1, <1>2

(* Charging buckets in the map of the window and in its record.             *)
LEMMA LedgerCharge ==
  ASSUME AuditBase, LedgerInv, UNCHANGED <<window, last>>, NEW B,
         \A b \in Bucket : b \in B => cur'[b] = cur[b] + 1,
         \A b \in Bucket : b \notin B => cur'[b] = cur[b],
         \A b \in Bucket : b \in B =>
           ledger'[b] = [ledger[b] EXCEPT ![window] = @ + 1],
         \A b \in Bucket : b \notin B => ledger'[b] = ledger[b]
  PROVE  LedgerInv'
<1>1. window \in Windows /\ window \in Nat
  BY OnRecord DEF AuditBase, QuotaInv, AttemptInv, TypeOK
<1>2. ASSUME NEW b \in Bucket
      PROVE  /\ cur'[b] = ledger'[b][window]
             /\ \A w \in Windows : w # window => ledger'[b][w] = ledger[b][w]
  <2>1. ledger[b] \in [Windows -> Nat] /\ cur[b] = ledger[b][window]
    BY DEF AuditBase, RecordType, LedgerInv, CountsMatchLedger
  <2>2. CASE b \in B
    <3>1. ledger'[b] = [ledger[b] EXCEPT ![window] = @ + 1] /\ cur'[b] = cur[b] + 1
      BY <2>2
    <3> QED
      BY <1>1, <2>1, <3>1, Zenon
  <2>3. CASE b \notin B
    BY <2>1, <2>3
  <2> QED
    BY <2>2, <2>3
<1>3. ASSUME NEW b \in Bucket, window # 0
      PROVE  last[b] = ledger'[b][window - 1]
  <2>1. window - 1 \in Windows /\ window - 1 # window
    BY <1>1, <1>3, WindowBefore
  <2> QED
    BY <1>2, <1>3, <2>1 DEF LedgerInv, CountsMatchLedger
<1>4. CountsMatchLedger'
  BY <1>2, <1>3 DEF LedgerInv, CountsMatchLedger
<1>5. ASSUME NEW b \in Bucket, NEW w \in Windows, w > window
      PROVE  ledger'[b][w] = 0
  <2>1. w # window
    BY <1>1, <1>5, WindowBefore
  <2> QED
    BY <1>2, <1>5, <2>1 DEF LedgerInv
<1> QED
  BY <1>4, <1>5 DEF LedgerInv

LEMMA LedgerNext ==
  ASSUME AuditBase, LedgerInv, [AuditNext]_<<vars, audit>>
  PROVE  LedgerInv'
<1> USE DEF audit, counts
<1>1. CASE UNCHANGED <<window, last, cur, ledger>>
  BY <1>1 DEF LedgerInv, CountsMatchLedger
<1>2. CASE RollWindow /\ UNCHANGED <<clock, ledger>>
  BY <1>2, LedgerRoll
<1>3. ASSUME NEW t \in Task, NEW b \in Bucket, AuditAttempt(b),
             PassBucket(t, b) \/ DenyBucket(t, b)
      PROVE  LedgerInv'
  <2>1. /\ UNCHANGED <<window, last>>
        /\ cur' = IF Mode = "Before" THEN [cur EXCEPT ![b] = @ + 1] ELSE cur
        /\ ledger' = [ledger EXCEPT ![b][window] = @ + IF Mode = "Before" THEN 1 ELSE 0]
    BY <1>3 DEF PassBucket, DenyBucket, ChargeAttempt, AuditAttempt, Add
  <2>2. /\ window \in Windows /\ cur \in [Bucket -> Nat]
        /\ ledger \in [Bucket -> [Windows -> Nat]]
    BY OnRecord DEF AuditBase, QuotaInv, AttemptInv, TypeOK, RecordType
  <2>3. CASE Mode = "Before"
    <3>1. \A c \in Bucket : c \in {b} => cur'[c] = cur[c] + 1
      BY <2>1, <2>2, <2>3
    <3>2. \A c \in Bucket : c \notin {b} => cur'[c] = cur[c]
      BY <2>1, <2>2, <2>3
    <3>3. \A c \in Bucket : c \in {b} =>
            ledger'[c] = [ledger[c] EXCEPT ![window] = @ + 1]
      BY <2>1, <2>2, <2>3
    <3>4. \A c \in Bucket : c \notin {b} => ledger'[c] = ledger[c]
      BY <2>1, <2>2, <2>3
    <3> QED
      BY <2>1, <3>1, <3>2, <3>3, <3>4, LedgerCharge
  <2>4. CASE Mode # "Before"
    <3>1. ledger[b] \in [Windows -> Nat] /\ ledger[b][window] + 0 = ledger[b][window]
      BY <2>2
    <3>2. ledger' = ledger
      BY <2>1, <2>2, <2>4, <3>1
    <3> QED
      BY <1>1, <2>1, <2>4, <3>2
  <2> QED
    BY <2>3, <2>4
<1>4. ASSUME NEW t \in Task, PostIncrement(t), AuditIncrement(t)
      PROVE  LedgerInv'
  <2> DEFINE B == IF failed[t] THEN keys[t] ELSE {}
  <2>1. UNCHANGED <<window, last>> /\ cur \in [Bucket -> Nat]
    BY <1>4 DEF PostIncrement, AuditBase, QuotaInv, AttemptInv, TypeOK
  <2>2. \A c \in Bucket : c \in B => cur'[c] = cur[c] + 1
    BY <1>4 DEF PostIncrement
  <2>3. \A c \in Bucket : c \notin B => cur'[c] = cur[c]
    BY <1>4, <2>1 DEF PostIncrement
  <2>4. ledger' = AddAll(ledger, B, window)
    BY <1>4 DEF AuditIncrement
  <2>5. \A c \in Bucket : c \in B => ledger'[c] = [ledger[c] EXCEPT ![window] = @ + 1]
    BY <2>4 DEF AddAll
  <2>6. \A c \in Bucket : c \notin B => ledger'[c] = ledger[c]
    BY <2>4 DEF AddAll
  <2> HIDE DEF B
  <2> QED
    BY <2>1, <2>2, <2>3, <2>5, <2>6, LedgerCharge
<1> QED
  BY <1>1, <1>2, <1>3, <1>4
  DEF AuditNext, EntersCheck, Tick, Quiet, vars, Arrive, TakeMutex, Refuse, Answer,
      EndUncounted, SkipIncrement, Admit, AuditAdmit

LEMMA AuditBaseHolds == AuditSpec => []AuditBase
  BY RecordInit, RecordNext, PTL DEF AuditSpec

(* The two maps are the charges of the limiter's window and of the one      *)
(* before, through every sequence of rolls and skipped windows, whether it  *)
(* counts attempts or failures.                                             *)
THEOREM CountsMatchLedgerHolds == AuditSpec => []CountsMatchLedger
<1>1. AuditInit => LedgerInv
  <2> SUFFICES ASSUME AuditInit PROVE LedgerInv
    OBVIOUS
  <2>1. AuditBase
    BY RecordInit
  <2>2. window \in Windows /\ window \in Nat
    BY <2>1, OnRecord DEF AuditBase, QuotaInv, AttemptInv, TypeOK
  <2>3. window # 0 => window - 1 \in Windows
    BY <2>2, WindowBefore
  <2>4. \A b \in Bucket : /\ ledger[b] = [w \in Windows |-> 0]
                          /\ cur[b] = 0 /\ last[b] = 0
    BY DEF AuditInit, Init, NoCounts
  <2> QED
    BY <2>2, <2>3, <2>4 DEF LedgerInv, CountsMatchLedger
<1>2. AuditBase /\ LedgerInv /\ [AuditNext]_<<vars, audit>> => LedgerInv'
  BY LedgerNext
<1>3. LedgerInv => CountsMatchLedger
  BY DEF LedgerInv
<1> QED
  BY <1>1, <1>2, <1>3, AuditBaseHolds, PTL DEF AuditSpec

----------------------------------------------------------------------------
(***************************************************************************)
(* What was let through, by the limiter's window k.  A request that was    *)
(* weighed while the clock left the window is let through after the end of *)
(* k; there is one such at most, and none while another is being weighed.  *)
(* From the start of k on, a bucket is let through what passed counts, and *)
(* such a request of the window before; from the start of k - 1 on, also   *)
(* what was let through in k - 1, which last bounds, and the ceiling.      *)
(***************************************************************************)
OneLate ==
  \A b \in Bucket : Since(b, StartOf(window + 1)) <= IF MutexIsFree THEN 1 ELSE 0

InWindow == \A b \in Bucket : Since(b, StartOf(window)) <= passed[b] + 1

InTwoWindows ==
  \A b \in Bucket :
    window > 0 => /\ Since(b, StartOf(window - 1)) <= passed[b] + 1 + last[b]
                  /\ Since(b, StartOf(window - 1)) <= passed[b] + 1 + 2 * Limit

(* A bucket that was found to have room, in time, has had little traffic in *)
(* one of the two windows: the estimate is a mean of the two counts.        *)
MeanKept ==
  \A t \in Task : pc[t] = "checking" /\ clock < StartOf(window + 1) =>
    \A b \in keys[t] \ todo[t] : last[b] <= Limit \/ cur[b] <= Limit

(* The record only grows, tick by tick, and has not begun on the future.    *)
Ordered ==
  /\ \A b \in Bucket : \A m, n \in Ticks : m <= n => admitted[b][m] <= admitted[b][n]
  /\ \A b \in Bucket : \A n \in Ticks : n > clock => admitted[b][n] = Total(b)

(* The inductive invariant, of a limiter on attempts.                       *)
SpanBase == AuditBase /\ Mode = "Before"
SpanCore == SpanBase /\ Ordered /\ OneLate /\ InWindow /\ InTwoWindows
SpanInv == SpanCore /\ MeanKept /\ SpanCeiling

----------------------------------------------------------------------------
(* A step of the limiter is a tick, a roll, a turn of the loop that finds   *)
(* room, an admission, or one that leaves what is kept of the holder of the *)
(* mutex as it was.                                                         *)
Aside ==
  /\ UNCHANGED <<clock, window, last, passed, admitted>>
  /\ \A t \in Task : pc'[t] = "checking" =>
       pc[t] = "checking" /\ keys'[t] = keys[t] /\ todo'[t] = todo[t] /\ cur' = cur

LEMMA StepKinds ==
  ASSUME SpanBase, [AuditNext]_<<vars, audit>>
  PROVE  \/ Tick /\ UNCHANGED audit
         \/ \E t \in Task : EntersCheck(t) /\ UNCHANGED audit
         \/ \E t \in Task, b \in Bucket : PassBucket(t, b) /\ UNCHANGED admitted
         \/ \E t \in Task : Admit(t) /\ AuditAdmit(t)
         \/ Aside
<1> USE DEF SpanBase, AuditBase, QuotaInv, AttemptInv, TypeOK
<1>1. CASE (Quiet /\ UNCHANGED audit) \/ UNCHANGED <<vars, audit>>
  BY <1>1 DEF Quiet, vars, counts, audit, Aside
<1>2. ASSUME NEW t \in Task, Arrive(t) \/ Answer(t) \/ EndUncounted(t) \/ SkipIncrement(t),
             UNCHANGED audit
      PROVE  Aside
  BY <1>2 DEF Arrive, Answer, EndUncounted, SkipIncrement, Leave, counts, audit, Aside
<1>3. ASSUME NEW t \in Task, NEW b \in Bucket, DenyBucket(t, b), AuditAttempt(b)
      PROVE  Aside
  BY <1>3 DEF DenyBucket, Leave, AuditAttempt, OneChecker, Aside
<1>4. ASSUME NEW t \in Task, PostIncrement(t), AuditIncrement(t)
      PROVE  Aside
  BY <1>4 DEF PostIncrement, MutexIsFree, Leave, AuditIncrement, Aside
<1> QED
  BY <1>1, <1>2, <1>3, <1>4 DEF AuditNext, AuditAttempt

LEMMA SinceType ==
  ASSUME AuditBase, NEW b \in Bucket, NEW n \in Ticks
  PROVE  /\ admitted[b][n] \in Nat /\ Total(b) \in Nat
         /\ Since(b, n) = Total(b) - admitted[b][n]
         /\ Since(b, n) \in Int
  BY OnRecord DEF AuditBase, RecordType, Total, Since

(* The later a stretch begins, the less was let through in it.              *)
LEMMA SinceFalls ==
  ASSUME AuditBase, Ordered, NEW b \in Bucket, NEW m \in Ticks, NEW n \in Ticks, m <= n
  PROVE  Since(b, n) <= Since(b, m)
<1>1. admitted[b][m] <= admitted[b][n]
  BY DEF Ordered
<1> QED
  BY <1>1, SinceType

(* Time passes over the record without a trace.                             *)
LEMMA RecordWaits ==
  ASSUME AuditBase, AuditBase', Ordered, UNCHANGED admitted, clock' = clock \/ clock' = clock + 1
  PROVE  Ordered' /\ \A b \in Bucket : Total(b)' = Total(b)
<1>1. PICK now \in 0 .. MaxTime : clock' = now
  BY DEF AuditBase, RecordType
<1>2. clock \in Nat /\ (now = clock \/ now = clock + 1)
  BY <1>1 DEF AuditBase, RecordType
<1>3. \A b \in Bucket : admitted[b][clock' + 1] = Total(b)
  <2>1. now + 1 \in Ticks
    BY BoundAssumption, WindowAssumption DEF Ticks
  <2>2. now + 1 > clock
    BY <1>2
  <2> QED
    BY <1>1, <2>1, <2>2 DEF Ordered
<1>4. \A b \in Bucket : Total(b)' = Total(b)
  BY <1>3 DEF Total
<1>5. \A n \in Ticks : n > clock' => n > clock
  BY <1>1, <1>2, TicksAreNat
<1> QED
  BY <1>4, <1>5 DEF Ordered

(* An admission adds one to the buckets of its request, from now on.        *)
LEMMA RecordAdmits ==
  ASSUME SpanBase, Ordered, NEW t \in Task, Admit(t), AuditAdmit(t)
  PROVE  /\ Ordered'
         /\ \A b \in Bucket : Total(b)' = Total(b) + IF b \in keys[t] THEN 1 ELSE 0
         /\ \A b \in Bucket : \A n \in Ticks :
              admitted'[b][n] = admitted[b][n] + IF b \in keys[t] /\ n > clock THEN 1 ELSE 0
<1>1. clock \in Nat /\ clock' = clock /\ clock + 1 \in Ticks
  BY OnRecord DEF Admit, SpanBase, AuditBase, QuotaInv, AttemptInv, TypeOK
<1>2. admitted \in [Bucket -> [Ticks -> Nat]] /\ Ticks \subseteq Nat
  BY BoundAssumption, WindowAssumption DEF SpanBase, AuditBase, RecordType, Ticks
<1>3. \A b \in Bucket : \A n \in Ticks :
        admitted'[b][n] = admitted[b][n] + IF b \in keys[t] /\ n > clock THEN 1 ELSE 0
  BY DEF AuditAdmit, AddOnwards, SpanBase
<1>4. \A b \in Bucket : Total(b)' = Total(b) + IF b \in keys[t] THEN 1 ELSE 0
  BY <1>1, <1>3 DEF Total
<1>5. ASSUME NEW b \in Bucket, NEW m \in Ticks, NEW n \in Ticks, m <= n
      PROVE  admitted'[b][m] <= admitted'[b][n]
  <2>1. /\ admitted[b][m] <= admitted[b][n] /\ m \in Nat /\ n \in Nat
        /\ admitted[b][m] \in Nat /\ admitted[b][n] \in Nat
    BY <1>2, <1>5 DEF Ordered
  <2> QED
    BY <1>1, <1>3, <1>5, <2>1
<1>6. ASSUME NEW b \in Bucket, NEW n \in Ticks, n > clock
      PROVE  admitted'[b][n] = Total(b)'
  BY <1>3, <1>4, <1>6 DEF Ordered
<1> QED
  BY <1>1, <1>3, <1>4, <1>5, <1>6 DEF Ordered

----------------------------------------------------------------------------
(* A step that lets nothing through and does not roll.  Once the window is  *)
(* over, nobody begins to be weighed in it.                                 *)
LEMMA CoreWaits ==
  ASSUME SpanCore, AuditBase', UNCHANGED <<admitted, window, last, passed>>,
         clock' = clock \/ clock' = clock + 1,
         (MutexIsFree => MutexIsFree') \/ clock < StartOf(window + 1)
  PROVE  SpanCore'
<1>1. Ordered' /\ \A b \in Bucket : Total(b)' = Total(b)
  BY RecordWaits DEF SpanCore, SpanBase
<1>2. ASSUME NEW b \in Bucket
      PROVE  /\ Since(b, StartOf(window))' = Since(b, StartOf(window))
             /\ Since(b, StartOf(window + 1))' = Since(b, StartOf(window + 1))
             /\ window > 0 =>
                  Since(b, StartOf(window - 1))' = Since(b, StartOf(window - 1))
  BY <1>1 DEF Since, StartOf
<1>3. OneLate'
  <2> SUFFICES ASSUME NEW b \in Bucket
               PROVE  Since(b, StartOf(window + 1))' <= IF MutexIsFree' THEN 1 ELSE 0
    BY DEF OneLate
  <2>1. StartOf(window + 1) \in Ticks
    BY OnRecord DEF SpanCore, SpanBase
  <2>2. /\ Since(b, StartOf(window + 1)) \in Int
        /\ Since(b, StartOf(window + 1)) = Total(b) - admitted[b][StartOf(window + 1)]
        /\ Total(b) \in Nat
    BY <2>1, SinceType DEF SpanCore, SpanBase
  <2>3. CASE MutexIsFree => MutexIsFree'
    BY <1>2, <2>2, <2>3 DEF SpanCore, OneLate
  <2>4. CASE clock < StartOf(window + 1)
    <3>1. admitted[b][StartOf(window + 1)] = Total(b)
      BY <2>1, <2>4 DEF SpanCore, Ordered
    <3> QED
      BY <1>2, <2>2, <3>1
  <2> QED
    BY <2>3, <2>4
<1>4. InWindow'
  BY <1>2 DEF SpanCore, InWindow
<1>5. InTwoWindows'
  BY <1>2 DEF SpanCore, InTwoWindows
<1> QED
  BY <1>1, <1>3, <1>4, <1>5 DEF SpanCore, SpanBase

(* A roll: the window that is left is the one before, or its counts, which  *)
(* are older than the window before, are not missed.                        *)
LEMMA CoreRolls ==
  ASSUME SpanCore, AuditBase', RollWindow, MutexIsFree, UNCHANGED <<clock, admitted>>,
         window # CurrentWindow
  PROVE  SpanCore'
<1>1. /\ window \in Nat /\ CurrentWindow \in Nat /\ window < CurrentWindow
      /\ clock \in 0 .. MaxTime /\ clock \in Nat
      /\ cur \in [Bucket -> Nat] /\ passed \in [Bucket -> Nat]
      /\ \A b \in Bucket : passed[b] <= 2 * Limit /\ passed[b] <= cur[b]
  <2>1. TypeOK /\ WindowPast /\ AttemptCeiling /\ clock \in 0 .. MaxTime /\ Mode = "Before"
    BY DEF SpanCore, SpanBase, AuditBase, RecordType, QuotaInv, AttemptInv
  <2>2. clock \in Nat /\ CurrentWindow \in Nat
    BY <2>1, ClockInWindow DEF TypeOK
  <2> QED
    BY <2>1, <2>2 DEF TypeOK, WindowPast, AttemptCeiling
<1>2. /\ window' = CurrentWindow
      /\ last' = IF window + 1 = CurrentWindow THEN cur ELSE [b \in Bucket |-> 0]
      /\ passed' = [b \in Bucket |-> 0]
  BY DEF RollWindow, NoCounts
<1>3. Ordered' /\ \A b \in Bucket : Total(b)' = Total(b)
  BY RecordWaits DEF SpanCore, SpanBase
<1> DEFINE W == CurrentWindow
<1>4. /\ StartOf(window) \in Ticks /\ StartOf(window + 1) \in Ticks
      /\ StartOf(W) \in Ticks /\ StartOf(W + 1) \in Ticks
      /\ W - 1 \in Nat /\ StartOf(W - 1) \in Ticks
      /\ clock < StartOf(W + 1)
  BY <1>1, WindowOnRecord, ClockInWindow
<1>5. \A b \in Bucket :
        /\ Since(b, StartOf(window))' = Since(b, StartOf(W))
        /\ Since(b, StartOf(window + 1))' = Since(b, StartOf(W + 1))
        /\ Since(b, StartOf(window - 1))' = Since(b, StartOf(W - 1))
  BY <1>2, <1>3 DEF Since, StartOf
<1> HIDE DEF W
<1>6. ASSUME NEW b \in Bucket, NEW n \in Ticks, StartOf(window + 1) <= n
      PROVE  Since(b, n) <= 1 /\ Since(b, n) \in Int
  <2>1. Since(b, n) <= Since(b, StartOf(window + 1)) /\ Since(b, StartOf(window + 1)) <= 1
    BY <1>4, <1>6, SinceFalls DEF SpanCore, SpanBase, OneLate
  <2>2. Since(b, StartOf(window + 1)) \in Int /\ Since(b, n) \in Int
    BY <1>4, SinceType DEF SpanCore, SpanBase
  <2> QED
    BY <2>1, <2>2
<1>7. OneLate'
  <2>1. ASSUME NEW b \in Bucket
        PROVE  Since(b, StartOf(W + 1)) = 0
    <3>1. admitted[b][StartOf(W + 1)] = Total(b)
      BY <1>4 DEF SpanCore, Ordered
    <3> QED
      BY <1>4, <3>1, SinceType DEF SpanCore, SpanBase
  <2> QED
    BY <1>5, <2>1 DEF OneLate
<1>8. InWindow'
  <2>1. StartOf(window + 1) <= StartOf(W)
    BY <1>1, StartOrder DEF W
  <2> QED
    BY <1>2, <1>4, <1>5, <1>6, <2>1 DEF InWindow
<1>9. InTwoWindows'
  <2> SUFFICES ASSUME NEW b \in Bucket
               PROVE  /\ Since(b, StartOf(W - 1)) <= 0 + 1 + last'[b]
                      /\ Since(b, StartOf(W - 1)) <= 0 + 1 + 2 * Limit
    BY <1>2, <1>5 DEF InTwoWindows
  <2>1. CASE window + 1 = CurrentWindow
    <3>1. last'[b] = cur[b] /\ W - 1 = window
      BY <1>1, <1>2, <2>1 DEF W
    <3>2. Since(b, StartOf(window)) <= passed[b] + 1 /\ Since(b, StartOf(window)) \in Int
      BY <1>4, SinceType DEF SpanCore, SpanBase, InWindow
    <3>3. cur[b] \in Nat /\ passed[b] \in Nat /\ passed[b] <= 2 * Limit /\ passed[b] <= cur[b]
      BY <1>1
    <3> QED
      BY <3>1, <3>2, <3>3, LimitAssumption
  <2>2. CASE window + 1 # CurrentWindow
    <3>1. last'[b] = 0 /\ window + 1 \in Nat /\ window + 1 <= W - 1
      BY <1>1, <1>2, <2>2 DEF W
    <3>2. StartOf(window + 1) <= StartOf(W - 1)
      BY <1>4, <3>1, StartOrder
    <3> QED
      BY <1>4, <1>6, <3>1, <3>2, LimitAssumption
  <2> QED
    BY <2>1, <2>2
<1> QED
  BY <1>3, <1>7, <1>8, <1>9 DEF SpanCore, SpanBase

(* An admission: in the window what passed counts grows with what was let   *)
(* through, and the request that may be late gives the mutex back.          *)
LEMMA CoreAdmits ==
  ASSUME SpanCore, AuditBase', NEW t \in Task, Admit(t), AuditAdmit(t)
  PROVE  SpanCore'
<1>1. /\ pc[t] = "checking" /\ UNCHANGED <<clock, window, last>>
      /\ pc' = [pc EXCEPT ![t] = "forwarded"]
      /\ passed' = [b \in Bucket |-> passed[b] + IF b \in keys[t] THEN 1 ELSE 0]
  BY DEF Admit, counts
<1>2. ~MutexIsFree /\ MutexIsFree'
  BY <1>1 DEF MutexIsFree, SpanCore, SpanBase, AuditBase, QuotaInv, AttemptInv, TypeOK,
              OneChecker
<1>3. /\ Ordered'
      /\ \A b \in Bucket : Total(b)' = Total(b) + IF b \in keys[t] THEN 1 ELSE 0
      /\ \A b \in Bucket : \A n \in Ticks :
           admitted'[b][n] = admitted[b][n] + IF b \in keys[t] /\ n > clock THEN 1 ELSE 0
  BY RecordAdmits DEF SpanCore
<1> DEFINE added(b, n) == IF b \in keys[t] /\ ~(n > clock) THEN 1 ELSE 0
<1>4. ASSUME NEW b \in Bucket, NEW n \in Ticks
      PROVE  Total(b)' - admitted'[b][n] = Since(b, n) + added(b, n)
  BY <1>3, <1>4, SinceType DEF SpanCore, SpanBase
<1>5. /\ StartOf(window) \in Ticks /\ StartOf(window + 1) \in Ticks
      /\ window > 0 => StartOf(window - 1) \in Ticks
  BY OnRecord DEF SpanCore, SpanBase
<1>6. ASSUME NEW b \in Bucket
      PROVE  /\ Since(b, StartOf(window))'
                  = Since(b, StartOf(window)) + added(b, StartOf(window))
             /\ Since(b, StartOf(window + 1))'
                  = Since(b, StartOf(window + 1)) + added(b, StartOf(window + 1))
             /\ window > 0 =>
                  Since(b, StartOf(window - 1))'
                    = Since(b, StartOf(window - 1)) + added(b, StartOf(window - 1))
  BY <1>1, <1>4, <1>5 DEF Since, StartOf
<1>7. \A b \in Bucket : passed[b] \in Nat /\ last[b] \in Nat
  BY DEF SpanCore, SpanBase, AuditBase, QuotaInv, AttemptInv, TypeOK
<1>8. \A b \in Bucket, n \in Ticks :
        /\ Since(b, n) \in Int /\ added(b, n) \in {0, 1}
        /\ added(b, n) <= IF b \in keys[t] THEN 1 ELSE 0
  BY SinceType DEF SpanCore, SpanBase
<1> HIDE DEF added
<1>9. OneLate'
  <2> SUFFICES ASSUME NEW b \in Bucket
               PROVE  Since(b, StartOf(window + 1))' <= 1
    BY <1>2 DEF OneLate
  <2>1. Since(b, StartOf(window + 1)) <= 0
    BY <1>2 DEF SpanCore, OneLate
  <2> QED
    BY <1>5, <1>6, <1>8, <2>1
<1>10. InWindow'
  <2> SUFFICES ASSUME NEW b \in Bucket
               PROVE  Since(b, StartOf(window))' <= passed'[b] + 1
    BY DEF InWindow
  <2>1. Since(b, StartOf(window)) <= passed[b] + 1
    BY DEF SpanCore, InWindow
  <2> QED
    BY <1>1, <1>5, <1>6, <1>7, <1>8, <2>1
<1>11. InTwoWindows'
  <2> SUFFICES ASSUME NEW b \in Bucket, window > 0
               PROVE  /\ Since(b, StartOf(window - 1))' <= passed'[b] + 1 + last[b]
                      /\ Since(b, StartOf(window - 1))' <= passed'[b] + 1 + 2 * Limit
    BY <1>1 DEF InTwoWindows
  <2> DEFINE n == StartOf(window - 1)
  <2>1. Since(b, n) <= passed[b] + 1 + last[b] /\ Since(b, n) <= passed[b] + 1 + 2 * Limit
    BY DEF SpanCore, InTwoWindows
  <2>2. Since(b, n)' = Since(b, n) + added(b, n) /\ n \in Ticks
    BY <1>5, <1>6
  <2>3. /\ Since(b, n) \in Int /\ added(b, n) \in {0, 1}
        /\ added(b, n) <= IF b \in keys[t] THEN 1 ELSE 0
    BY <1>8, <2>2
  <2>4. passed'[b] = passed[b] + IF b \in keys[t] THEN 1 ELSE 0
    BY <1>1
  <2> QED
    BY <1>7, <2>1, <2>2, <2>3, <2>4, LimitAssumption
<1> QED
  BY <1>3, <1>9, <1>10, <1>11 DEF SpanCore, SpanBase

LEMMA CoreNext ==
  ASSUME SpanCore, [AuditNext]_<<vars, audit>>
  PROVE  SpanCore'
<1>1. AuditBase'
  BY RecordNext DEF SpanCore, SpanBase
<1>2. CASE Tick /\ UNCHANGED audit
  BY <1>1, <1>2, CoreWaits DEF Tick, counts, audit, MutexIsFree
<1>3. ASSUME NEW t \in Task, EntersCheck(t), UNCHANGED audit
      PROVE  SpanCore'
  <2>1. RollWindow /\ MutexIsFree /\ UNCHANGED <<clock, admitted>>
    BY <1>3 DEF EntersCheck, TakeMutex, Refuse, audit
  <2>2. CASE window # CurrentWindow
    BY <1>1, <2>1, <2>2, CoreRolls
  <2>3. CASE window = CurrentWindow
    <3>1. UNCHANGED <<admitted, clock, window, last, passed>>
      BY <2>1, <2>3 DEF RollWindow
    <3>2. clock < StartOf(window + 1)
      BY <2>3, ClockInWindow DEF SpanCore, SpanBase, AuditBase, QuotaInv, AttemptInv, TypeOK
    <3> QED
      BY <1>1, <3>1, <3>2, CoreWaits
  <2> QED
    BY <2>2, <2>3
<1>4. ASSUME NEW t \in Task, NEW b \in Bucket, PassBucket(t, b), UNCHANGED admitted
      PROVE  SpanCore'
  BY <1>1, <1>4, CoreWaits DEF PassBucket, MutexIsFree
<1>5. ASSUME NEW t \in Task, Admit(t), AuditAdmit(t)
      PROVE  SpanCore'
  BY <1>1, <1>5, CoreAdmits
<1>6. CASE Aside
  BY <1>1, <1>6, CoreWaits DEF Aside, MutexIsFree
<1> QED
  BY <1>2, <1>3, <1>4, <1>5, <1>6, StepKinds DEF SpanCore

(* A bucket found to have room while the window runs: were the one count    *)
(* at the limit and the other above it, their mean would be above it.       *)
LEMMA RoomIsEarned ==
  ASSUME AuditBase, clock < StartOf(window + 1), NEW b \in Bucket,
         FALSE \in OverLimitVerdicts(b)
  PROVE  last[b] <= Limit \/ cur[b] + 1 <= Limit
<1> SUFFICES ASSUME last[b] > Limit, cur[b] >= Limit PROVE FALSE
  BY LimitAssumption DEF AuditBase, QuotaInv, AttemptInv, TypeOK
<1>1. /\ TypeOK /\ window \in Nat /\ CurrentWindow \in Nat /\ window <= CurrentWindow
      /\ clock \in Nat /\ StartOf(CurrentWindow) <= clock
  BY ClockInWindow DEF AuditBase, QuotaInv, AttemptInv, TypeOK, WindowPast
<1>2. CurrentWindow = window
  <2>1. CASE window + 1 <= CurrentWindow
    <3>1. StartOf(window + 1) <= StartOf(CurrentWindow) /\ StartOf(window + 1) \in Nat
      BY <1>1, <2>1, StartOrder
    <3> QED
      BY <1>1, <3>1, StartOrder
  <2> QED
    BY <1>1, <2>1
<1> DEFINE e == Elapsed
           left == WindowDuration - Elapsed
<1>3. e \in Nat /\ left \in Nat /\ left > 0 /\ e + left = WindowDuration
  BY <1>1, <1>2, ElapsedWithin, WindowAssumption
<1>4. Estimate(b) = cur[b] * e + last[b] * left
  BY DEF Estimate
<1> HIDE DEF e, left
<1>5. cur[b] \in Nat /\ last[b] \in Nat /\ Limit \in Nat /\ Limit + 1 <= last[b]
  BY <1>1, LimitAssumption DEF TypeOK
<1>6. Limit * e <= cur[b] * e
  BY <1>3, <1>5, SMT
<1>7. (Limit + 1) * left <= last[b] * left
  BY <1>3, <1>5, SMT
<1>8. /\ (Limit + 1) * left = Limit * left + left
      /\ Limit * WindowDuration = Limit * e + Limit * left
  BY <1>3, <1>5, SMT
<1>9. /\ Limit * e \in Nat /\ Limit * left \in Nat
      /\ cur[b] * e \in Nat /\ last[b] * left \in Nat
  BY <1>3, <1>5, SMT
<1>10. Estimate(b) > Limit * WindowDuration
  BY <1>3, <1>4, <1>6, <1>7, <1>8, <1>9
<1> QED
  BY <1>10, Zenon DEF OverLimitVerdicts

LEMMA MeanNext ==
  ASSUME SpanCore, MeanKept, [AuditNext]_<<vars, audit>>
  PROVE  MeanKept'
<1>1. SpanBase /\ AuditBase /\ OneChecker /\ LoopInv /\ TypeOK /\ Mode = "Before"
  BY DEF SpanCore, SpanBase, AuditBase, QuotaInv, AttemptInv
<1>2. CASE Tick /\ UNCHANGED audit
  <2>1. clock \in Nat /\ StartOf(window + 1) \in Nat
    BY <1>1, OnRecord, TicksAreNat DEF TypeOK
  <2>2. clock' < StartOf(window + 1) => clock < StartOf(window + 1)
    BY <1>2, <2>1 DEF Tick
  <2> QED
    BY <1>2, <2>2 DEF Tick, counts, MeanKept
<1>3. ASSUME NEW t \in Task, EntersCheck(t)
      PROVE  MeanKept'
  BY <1>1, <1>3 DEF EntersCheck, TakeMutex, Refuse, Leave, MutexIsFree, LoopInv, TypeOK,
                    MeanKept
<1>4. ASSUME NEW t \in Task, NEW b \in Bucket, PassBucket(t, b)
      PROVE  MeanKept'
  <2> SUFFICES ASSUME NEW s \in Task, pc[s] = "checking", clock < StartOf(window + 1),
                      NEW c \in keys[s] \ todo'[s]
               PROVE  last[c] <= Limit \/ cur'[c] <= Limit
    BY <1>4 DEF PassBucket, MeanKept
  <2>1. s = t /\ c \in Bucket
    BY <1>1, <1>4 DEF OneChecker, PassBucket, TypeOK
  <2>2. CASE c = b
    <3>1. cur'[b] = cur[b] + 1
      BY <1>1, <1>4 DEF PassBucket, ChargeAttempt, TypeOK
    <3> QED
      BY <1>1, <1>4, <2>2, <3>1, RoomIsEarned DEF PassBucket
  <2>3. CASE c # b
    <3>1. cur'[c] = cur[c] /\ c \in keys[t] \ todo[t]
      BY <1>1, <1>4, <2>1, <2>3 DEF PassBucket, ChargeAttempt, TypeOK
    <3> QED
      BY <2>1, <3>1 DEF MeanKept
  <2> QED
    BY <2>2, <2>3
<1>5. ASSUME NEW t \in Task, Admit(t)
      PROVE  MeanKept'
  BY <1>1, <1>5 DEF Admit, counts, OneChecker, TypeOK, MeanKept
<1>6. CASE Aside
  BY <1>6 DEF Aside, MeanKept
<1> QED
  BY <1>1, <1>2, <1>3, <1>4, <1>5, <1>6, StepKinds

(* The stretch of ticks an admission falls in begins in the limiter's       *)
(* window or in the one before, unless the window is over.                  *)
LEMMA StretchHasRoom ==
  ASSUME SpanCore, MeanKept, NEW t \in Task, Admit(t), NEW b \in keys[t],
         NEW first \in 0 .. MaxTime, first <= clock, clock < first + WindowDuration
  PROVE  Since(b, first) <= 3 * Limit
<1>1. /\ AuditBase /\ TypeOK /\ Mode = "Before" /\ HoldersRoom /\ Ordered
      /\ clock \in Nat /\ window \in Nat /\ b \in Bucket
  BY DEF SpanCore, SpanBase, AuditBase, QuotaInv, AttemptInv, TypeOK
<1>2. first \in Nat /\ first \in Ticks /\ WindowDuration \in Nat /\ Limit \in Nat
  BY BoundAssumption, WindowAssumption, LimitAssumption DEF Ticks
<1>3. /\ passed[b] < 2 * Limit /\ passed[b] < cur[b]
      /\ passed[b] \in Nat /\ cur[b] \in Nat /\ last[b] \in Nat
  BY <1>1 DEF Admit, HoldersRoom, TypeOK
<1>4. /\ StartOf(window) \in Ticks /\ StartOf(window) \in Nat /\ StartOf(window) <= clock
      /\ window > 0 => window - 1 \in Nat /\ StartOf(window - 1) \in Ticks
  BY <1>1, OnRecord, TicksAreNat
<1>5. CASE StartOf(window) <= first
  <2>1. /\ Since(b, first) <= Since(b, StartOf(window))
        /\ Since(b, StartOf(window)) <= passed[b] + 1
    BY <1>1, <1>2, <1>4, <1>5, SinceFalls DEF SpanCore, InWindow
  <2>2. Since(b, first) \in Int /\ Since(b, StartOf(window)) \in Int
    BY <1>1, <1>2, <1>4, SinceType
  <2> QED
    BY <1>2, <1>3, <2>1, <2>2
<1>6. CASE first < StartOf(window)
  <2>1. window > 0
    BY <1>1, <1>2, <1>6 DEF StartOf
  <2>2. /\ StartOf(window + 1) = StartOf(window) + WindowDuration
        /\ StartOf(window) = StartOf(window - 1) + WindowDuration
        /\ StartOf(window - 1) \in Nat
    <3>1. window - 1 \in Nat /\ (window - 1) + 1 = window
      BY <1>1, <2>1
    <3> QED
      BY <1>1, <3>1, StartOrder
  <2>3. clock < StartOf(window + 1) /\ StartOf(window - 1) <= first
    BY <1>1, <1>2, <1>4, <1>6, <2>2
  <2> DEFINE before == Since(b, StartOf(window - 1))
  <2>4. /\ Since(b, first) <= before
        /\ before <= passed[b] + 1 + last[b] /\ before <= passed[b] + 1 + 2 * Limit
    BY <1>1, <1>2, <1>4, <2>1, <2>3, SinceFalls DEF SpanCore, InTwoWindows
  <2>5. Since(b, first) \in Int /\ before \in Int
    BY <1>1, <1>2, <1>4, <2>1, SinceType
  <2>6. last[b] <= Limit \/ cur[b] <= Limit
    BY <1>1, <2>3 DEF Admit, MeanKept
  <2> HIDE DEF before
  <2> QED
    BY <1>2, <1>3, <2>4, <2>5, <2>6
<1> QED
  BY <1>2, <1>4, <1>5, <1>6

LEMMA CeilingNext ==
  ASSUME SpanCore, MeanKept, SpanCeiling, [AuditNext]_<<vars, audit>>
  PROVE  SpanCeiling'
<1>1. CASE UNCHANGED admitted
  BY <1>1 DEF SpanCeiling
<1>2. ASSUME NEW t \in Task, Admit(t), AuditAdmit(t)
      PROVE  SpanCeiling'
  <2> SUFFICES ASSUME NEW b \in Bucket, NEW first \in 0 .. MaxTime
               PROVE  admitted'[b][first + WindowDuration] - admitted'[b][first]
                        <= 3 * Limit + 1
    BY DEF SpanCeiling
  <2> DEFINE end == first + WindowDuration
  <2>1. /\ first \in Nat /\ first \in Ticks /\ end \in Ticks /\ end \in Nat
        /\ Limit \in Nat /\ clock \in Nat /\ first <= end
    BY BoundAssumption, WindowAssumption, LimitAssumption
    DEF Ticks, SpanCore, SpanBase, AuditBase, QuotaInv, AttemptInv, TypeOK
  <2>2. admitted[b][first] \in Nat /\ admitted[b][end] \in Nat
    BY <2>1, SinceType DEF SpanCore, SpanBase
  <2>3. admitted[b][end] - admitted[b][first] <= 3 * Limit + 1
    BY DEF SpanCore, SpanBase, SpanCeiling
  <2>4. \A n \in Ticks :
          admitted'[b][n] = admitted[b][n] + IF b \in keys[t] /\ n > clock THEN 1 ELSE 0
    BY <1>2, RecordAdmits DEF SpanCore
  <2>5. CASE b \in keys[t] /\ first <= clock /\ clock < end
    <3>1. Since(b, first) <= 3 * Limit
      BY <1>2, <2>1, <2>5, StretchHasRoom
    <3>2. admitted[b][end] = Total(b) /\ Since(b, first) = Total(b) - admitted[b][first]
      BY <2>1, <2>5, SinceType DEF SpanCore, SpanBase, Ordered
    <3>3. /\ admitted'[b][end] = admitted[b][end] + 1
          /\ admitted'[b][first] = admitted[b][first]
      <4>1. ~(first > clock) /\ end > clock
        BY <2>1, <2>5
      <4>2. admitted'[b][end] = admitted[b][end] + 1
        BY <2>1, <2>4, <2>5, <4>1
      <4>3. admitted'[b][first] = admitted[b][first] + 0
        BY <2>1, <2>4, <4>1
      <4> QED
        BY <2>2, <4>2, <4>3
    <3>4. admitted'[b][end] - admitted'[b][first] <= 3 * Limit + 1
      BY <2>1, <2>2, <3>1, <3>2, <3>3
    <3> QED
      BY <3>4
  <2>6. CASE ~(b \in keys[t] /\ first <= clock /\ clock < end)
    <3>1. admitted'[b][end] - admitted'[b][first] = admitted[b][end] - admitted[b][first]
      BY <2>1, <2>2, <2>4, <2>6
    <3> QED
      BY <2>3, <3>1
  <2> QED
    BY <2>5, <2>6
<1> QED
  BY <1>1, <1>2, StepKinds DEF SpanCore, audit, Aside

LEMMA SpanInit == AuditInit /\ Mode = "Before" => SpanInv
<1> SUFFICES ASSUME AuditInit, Mode = "Before" PROVE SpanInv
  OBVIOUS
<1>1. AuditBase
  BY RecordInit
<1>2. \A b \in Bucket : \A n \in Ticks : admitted[b][n] = 0
  BY DEF AuditInit
<1>3. \A b \in Bucket : Total(b) = 0 /\ \A n \in Ticks : Since(b, n) = 0
  BY <1>1, <1>2, OnRecord DEF Total, Since
<1>4. /\ StartOf(window) \in Ticks /\ StartOf(window + 1) \in Ticks
      /\ window > 0 => StartOf(window - 1) \in Ticks
  BY <1>1, OnRecord
<1>5. \A b \in Bucket : passed[b] = 0 /\ last[b] = 0
  BY DEF AuditInit, Init, NoCounts
<1>6. Ordered
  BY <1>2, <1>3 DEF Ordered
<1>7. OneLate /\ InWindow /\ InTwoWindows
  BY <1>3, <1>4, <1>5, LimitAssumption DEF OneLate, InWindow, InTwoWindows
<1>8. MeanKept
  BY DEF AuditInit, Init, MeanKept
<1>9. SpanCeiling
  <2>1. \A n \in 0 .. MaxTime : n \in Ticks /\ n + WindowDuration \in Ticks
    BY BoundAssumption, WindowAssumption DEF Ticks
  <2> QED
    BY <1>2, <2>1, LimitAssumption DEF SpanCeiling
<1> QED
  BY <1>1, <1>6, <1>7, <1>8, <1>9 DEF SpanInv, SpanCore, SpanBase

(* No bucket is let through more than three times its limit, and once, in   *)
(* any WindowDuration ticks in a row, however those lie to the limiter's    *)
(* windows, however the requests interleave and wherever the clock goes on  *)
(* while one is weighed.  The configuration file promises two for "any      *)
(* given window"; three, and one request, is what it gets.                  *)
THEOREM SpanCeilingHolds == AuditSpec => []SpanCeiling
<1>1. CASE Mode = "Before"
  <2>1. AuditInit => SpanInv
    BY <1>1, SpanInit
  <2>2. SpanInv /\ [AuditNext]_<<vars, audit>> => SpanInv'
    BY CoreNext, MeanNext, CeilingNext DEF SpanInv
  <2>3. SpanInv => SpanCeiling
    BY DEF SpanInv
  <2> QED
    BY <2>1, <2>2, <2>3, PTL DEF AuditSpec
<1>2. CASE Mode # "Before"
  <2>1. SpanCeiling
    BY <1>2 DEF SpanCeiling
  <2> QED
    BY <2>1, PTL
<1> QED
  BY <1>1, <1>2
=============================================================================
