--------------------------- MODULE PinLimiterProofs ---------------------------
(***************************************************************************)
(* What TLAPS proves of the pin limiter, for any number of connections and *)
(* keys, any limit, window and capacity.                                   *)
(***************************************************************************)
EXTENDS PinLimiter, FiniteSetTheorems, TLAPS

LEMMA OpenedType ==
  ASSUME TypeOK, NEW keep \in SUBSET Held, NEW k \in Key, NEW n \in Nat
  PROVE  /\ DOMAIN Opened(keep, k, n) = keep \cup {k}
         /\ Opened(keep, k, n) \in [keep \cup {k} -> Slot]
         /\ Opened(keep, k, n)[k] = [started |-> n, count |-> 1]
  BY DEF TypeOK, Opened, Slot, Held

LEMMA OpenedStep ==
  ASSUME TypeOK, NEW keep \in SUBSET Held, NEW k \in Key, NEW n \in Nat,
         state' = Opened(keep, k, n)
  PROVE  /\ Held' = keep \cup {k}
         /\ Held' \subseteq Key
         /\ state' \in [Held' -> Slot]
         /\ state'[k].started = n /\ state'[k].count = 1
         /\ \A x \in keep \ {k} : state'[x] = state[x]
<1>1. Held' = keep \cup {k}
  BY OpenedType DEF Held
<1>2. state' \in [Held' -> Slot]
  BY <1>1, OpenedType
<1>3. state'[k] = [started |-> n, count |-> 1]
  BY OpenedType
<1>4. \A x \in keep \ {k} : state'[x] = state[x]
  BY DEF Opened
<1>5. Held' \subseteq Key
  BY <1>1 DEF TypeOK
<1>6. QED
  BY <1>1, <1>2, <1>3, <1>4, <1>5

LEMMA KeptType == \A n : Kept(n) \in SUBSET Held
  BY DEF Kept

LEMMA TypeInit == Init => TypeOK
  BY DEF Init, TypeOK, Held, Call

LEMMA TypeNext == TypeOK /\ [Next]_vars => TypeOK'
<1> SUFFICES ASSUME TypeOK, [Next]_vars PROVE TypeOK'
  OBVIOUS
<1>1. CASE Tick
  BY <1>1 DEF Tick, TypeOK, Held
<1>2. CASE UNCHANGED vars
  BY <1>2 DEF vars, TypeOK, Held
<1>3. ASSUME NEW t \in Task, NEW k \in Key, Ask(t, k) PROVE TypeOK'
  BY <1>3 DEF Ask, TypeOK, Held, Call
<1>4. ASSUME NEW c \in waiting, Admits(c) PROVE TypeOK'
  <2>1. c.key \in Key /\ c.now \in Nat
    BY DEF TypeOK, Call
  <2>2. CASE Renew(c)
    <3>1. Held' \subseteq Key /\ state' \in [Held' -> Slot]
      BY <2>1, <2>2, OpenedStep DEF Renew
    <3>2. QED
      BY <2>1, <2>2, <3>1 DEF Renew, Granted, Done, TypeOK
  <2>3. CASE Open(c)
    <3>1. Held' \subseteq Key /\ state' \in [Held' -> Slot]
      BY <2>1, <2>3, OpenedStep DEF Open
    <3>2. QED
      BY <2>1, <2>3, <3>1 DEF Open, Granted, Done, TypeOK
  <2>4. CASE SweepAndOpen(c)
    <3>1. Held' \subseteq Key /\ state' \in [Held' -> Slot]
      BY <2>1, <2>4, OpenedStep, KeptType DEF SweepAndOpen
    <3>2. QED
      BY <2>1, <2>4, <3>1 DEF SweepAndOpen, Granted, Done, TypeOK
  <2>5. CASE RefuseFull(c)
    BY <2>5, KeptType DEF RefuseFull, Done, TypeOK, Held
  <2>6. CASE CountOne(c)
    BY <2>1, <2>6 DEF CountOne, Granted, Done, TypeOK, Held, Slot
  <2>7. CASE RefuseSpent(c) \/ HangUp(c)
    BY <2>7 DEF RefuseSpent, HangUp, Done, TypeOK, Held
  <2>8. QED
    BY <1>4, <2>2, <2>3, <2>4, <2>5, <2>6, <2>7 DEF Admits
<1>5. QED
  BY <1>1, <1>2, <1>3, <1>4 DEF Next

(* The map stays a partial function from keys to windows.                   *)
THEOREM TypeCorrect == Spec => []TypeOK
<1>1. QED
  BY TypeInit, TypeNext, PTL DEF Spec

----------------------------------------------------------------------------
(* Readings of the clock are never ahead of it, nor are the windows.        *)
ClockInv ==
  /\ \A c \in waiting : c.now <= clock
  /\ \A k \in Held : state[k].started <= clock

\* Only a call that passed the check of a zero limit waits.
LimitInv ==
  /\ waiting # {} => Limit > 0
  /\ \A k \in Held : state[k].count <= Limit

PinInv == TypeOK /\ ClockInv /\ LimitInv

LEMMA PinInit == Init => PinInv
  BY TypeInit DEF Init, PinInv, ClockInv, LimitInv, Held

LEMMA PinNext == PinInv /\ [Next]_vars => PinInv'
<1> SUFFICES ASSUME PinInv, [Next]_vars PROVE PinInv'
  OBVIOUS
<1> USE DEF PinInv
<1>1. TypeOK'
  BY TypeNext
<1>2. CASE Tick \/ UNCHANGED vars
  BY <1>1, <1>2 DEF Tick, vars, TypeOK, ClockInv, LimitInv, Held, Call, Slot
<1>3. ASSUME NEW t \in Task, NEW k \in Key, Ask(t, k) PROVE PinInv'
  BY <1>1, <1>3, LimitAssumption DEF Ask, TypeOK, ClockInv, LimitInv, Held, Call, Slot
<1>4. ASSUME NEW c \in waiting, Admits(c) PROVE PinInv'
  <2>1. c.key \in Key /\ c.now \in Nat /\ c.now <= clock /\ Limit >= 1
    BY LimitAssumption DEF TypeOK, Call, ClockInv, LimitInv
  <2>2. waiting' \subseteq waiting /\ clock' = clock
    BY <1>4 DEF Admits, Renew, Open, SweepAndOpen, RefuseFull, CountOne, RefuseSpent, HangUp, Done
  <2>3. ASSUME NEW keep \in SUBSET Held, state' = Opened(keep, c.key, c.now) PROVE PinInv'
    <3>1. /\ Held' = keep \cup {c.key}
          /\ state'[c.key].started = c.now /\ state'[c.key].count = 1
          /\ \A x \in keep \ {c.key} : state'[x] = state[x]
      BY <2>1, <2>3, OpenedStep
    <3>2. QED
      BY <1>1, <2>1, <2>2, <3>1 DEF ClockInv, LimitInv
  <2>4. CASE CountOne(c)
    BY <1>1, <2>1, <2>2, <2>4, LimitAssumption
      DEF CountOne, TypeOK, ClockInv, LimitInv, Held, Slot
  <2>5. CASE RefuseFull(c)
    BY <1>1, <2>2, <2>5, KeptType DEF RefuseFull, ClockInv, LimitInv, Held
  <2>6. CASE RefuseSpent(c) \/ HangUp(c)
    BY <1>1, <2>2, <2>6 DEF RefuseSpent, HangUp, ClockInv, LimitInv, Held
  <2>7. QED
    BY <1>4, <2>3, <2>4, <2>5, <2>6, KeptType DEF Admits, Renew, Open, SweepAndOpen
<1>5. QED
  BY <1>2, <1>3, <1>4 DEF Next

\* A window that ended by an older reading has ended by the clock.
LEMMA EndedByTheClock ==
  ASSUME PinInv, NEW c \in waiting, NEW k \in Held, Ended(k, c.now)
  PROVE  clock - state[k].started >= Window
  BY WindowAssumption DEF PinInv, TypeOK, ClockInv, Ended, Call, Slot

LEMMA LiveNext ==
  ASSUME PinInv, [Next]_vars, NEW k \in Held
  PROVE  \/ clock - state[k].started >= Window
         \/ k \in DOMAIN state' /\ state'[k].started = state[k].started
                                /\ state'[k].count >= state[k].count
<1>0. state[k].count \in Nat /\ k \in Key
  BY DEF PinInv, TypeOK, Slot
<1>1. CASE UNCHANGED state
  BY <1>0, <1>1 DEF Held
<1>2. ASSUME NEW c \in waiting, Admits(c) 
      PROVE  \/ clock - state[k].started >= Window
             \/ k \in DOMAIN state' /\ state'[k].started = state[k].started
                                    /\ state'[k].count >= state[k].count
  <2>1. c.key \in Key /\ c.now \in Nat
    BY DEF PinInv, TypeOK, Call
  <2>2. CASE Renew(c)
    <3>1. CASE k = c.key
      BY <2>2, <3>1, EndedByTheClock DEF Renew
    <3>2. CASE k # c.key
      <4>1. TypeOK /\ state' = Opened(Held, c.key, c.now)
        BY <2>2 DEF Renew, PinInv
      <4>2. Held' = Held \cup {c.key} /\ state'[k] = state[k]
        BY <2>1, <3>2, <4>1, OpenedStep
      <4>3. QED
        BY <1>0, <4>2 DEF Held
    <3>3. QED
      BY <3>1, <3>2
  <2>3. CASE Open(c)
    <3>1. TypeOK /\ state' = Opened(Held, c.key, c.now) /\ k # c.key
      BY <2>3 DEF Open, PinInv
    <3>2. Held' = Held \cup {c.key} /\ state'[k] = state[k]
      BY <2>1, <3>1, OpenedStep
    <3>3. QED
      BY <1>0, <3>2 DEF Held
  <2>4. CASE SweepAndOpen(c)
    <3>1. CASE k \in Kept(c.now)
      <4>1. TypeOK /\ k # c.key /\ state' = Opened(Kept(c.now), c.key, c.now)
        BY <2>4 DEF SweepAndOpen, PinInv
      <4>2. Held' = Kept(c.now) \cup {c.key} /\ state'[k] = state[k]
        BY <2>1, <3>1, <4>1, OpenedStep, KeptType
      <4>3. QED
        BY <1>0, <3>1, <4>2 DEF Held
    <3>2. CASE k \notin Kept(c.now)
      BY <3>2, EndedByTheClock DEF Kept
    <3>3. QED
      BY <3>1, <3>2
  <2>5. CASE RefuseFull(c)
    <3>1. CASE k \in Kept(c.now)
      BY <1>0, <2>5, <3>1 DEF RefuseFull
    <3>2. CASE k \notin Kept(c.now)
      BY <3>2, EndedByTheClock DEF Kept
    <3>3. QED
      BY <3>1, <3>2
  <2>6. CASE CountOne(c)
    BY <1>0, <2>6 DEF CountOne, PinInv, TypeOK, Held, Slot
  <2>7. CASE RefuseSpent(c) \/ HangUp(c)
    BY <1>1, <2>7 DEF RefuseSpent, HangUp
  <2>8. QED
    BY <1>2, <2>2, <2>3, <2>4, <2>5, <2>6, <2>7 DEF Admits
<1>3. QED
  BY <1>1, <1>2 DEF Next, Tick, Ask, vars

(* No counter that still bounds a client is evicted, restarted or lowered,  *)
(* by a sweep or a renewal that decides with an old reading of the clock.   *)
THEOREM LiveWindowKeptHolds == Spec => LiveWindowKept
<1>1. PinInv /\ [Next]_vars =>
        [\A k \in Held :
           \/ clock - state[k].started >= Window
           \/ k \in DOMAIN state' /\ state'[k].started = state[k].started
                                  /\ state'[k].count >= state[k].count]_vars
  BY LiveNext
<1>2. QED
  BY <1>1, PinInit, PinNext, PTL DEF Spec, LiveWindowKept

----------------------------------------------------------------------------
LEMMA CapacityInit == Init => Capacity
<1> SUFFICES ASSUME Init PROVE Capacity
  OBVIOUS
<1>1. Held = {}
  BY DEF Init, Held
<1>2. QED
  BY <1>1, FS_EmptySet, CapacityAssumption DEF Capacity

LEMMA HeldIsFinite ==
  ASSUME TypeOK, NEW keep \in SUBSET Held
  PROVE  /\ IsFiniteSet(keep)
         /\ Cardinality(keep) \in Nat
         /\ Cardinality(keep) <= Cardinality(Held)
         /\ Cardinality(Held) \in Nat
<1>1. IsFiniteSet(Held)
  BY KeyAssumption, FS_Subset DEF TypeOK
<1>2. QED
  BY <1>1, FS_Subset, FS_CardinalityType

LEMMA CapacityNext == TypeOK /\ Capacity /\ [Next]_vars => Capacity'
<1> SUFFICES ASSUME TypeOK, Capacity, [Next]_vars PROVE Capacity'
  OBVIOUS
<1>1. CASE UNCHANGED state
  BY <1>1 DEF Capacity, Held
<1>2. ASSUME NEW c \in waiting, Admits(c) PROVE Capacity'
  <2>1. c.key \in Key /\ c.now \in Nat
    BY DEF TypeOK, Call
  <2>2. ASSUME NEW keep \in SUBSET Held, Cardinality(keep) < MaxKeys,
               state' = Opened(keep, c.key, c.now)
        PROVE  Capacity'
    <3>1. Held' = keep \cup {c.key}
      BY <2>1, <2>2, OpenedStep
    <3>2. IsFiniteSet(keep) /\ Cardinality(keep) \in Nat
      BY <2>2, HeldIsFinite
    <3>3. Cardinality(Held') = IF c.key \in keep THEN Cardinality(keep) ELSE Cardinality(keep) + 1
      BY <3>1, <3>2, FS_AddElement
    <3>4. QED
      BY <2>2, <3>2, <3>3, CapacityAssumption DEF Capacity
  <2>3. CASE Renew(c)
    <3>1. Held' = Held
      BY <2>1, <2>3, OpenedStep DEF Renew
    <3>2. QED
      BY <3>1 DEF Capacity
  <2>4. CASE RefuseFull(c)
    <3>1. Held' = Kept(c.now)
      BY <2>4 DEF RefuseFull, Held
    <3>2. QED
      BY <3>1, HeldIsFinite, KeptType, CapacityAssumption DEF Capacity
  <2>5. CASE CountOne(c)
    <3>1. Held' = Held
      BY <2>5 DEF CountOne, Held, TypeOK
    <3>2. QED
      BY <3>1 DEF Capacity
  <2>6. CASE RefuseSpent(c) \/ HangUp(c)
    BY <1>1, <2>6 DEF RefuseSpent, HangUp
  <2>7. QED
    BY <1>2, <2>2, <2>3, <2>4, <2>5, <2>6, KeptType DEF Admits, Open, SweepAndOpen
<1>3. QED
  BY <1>1, <1>2 DEF Next, Tick, Ask, vars

(* The map never outgrows MAX_PIN_KEYS, although a renewal and a first      *)
(* admission both insert without a check of their own.                      *)
THEOREM CapacityHolds == Spec => []Capacity
<1>1. QED
  BY CapacityInit, CapacityNext, TypeInit, TypeNext, PTL DEF Spec

----------------------------------------------------------------------------
(***************************************************************************)
(* The long run rate.  A window that starts a whole Window after another   *)
(* starts in a later slice of time, so what was granted up to the start of *)
(* the current window is at most one limit for every slice before it.      *)
(***************************************************************************)
LEMMA SliceOf ==
  ASSUME NEW n \in Nat
  PROVE  /\ n \div Window \in Nat
         /\ Window * (n \div Window) <= n
         /\ n < Window * (n \div Window) + Window
<1>1. Window \in Nat /\ Window > 0
  BY WindowAssumption
<1>2. n \div Window \in Nat
  BY <1>1, SMT
<1>3. n = Window * (n \div Window) + (n % Window) /\ n % Window \in 0 .. Window - 1
  BY <1>1, SMT
<1>4. Window * (n \div Window) \in Nat
  BY <1>1, <1>2, SMT
<1>5. QED
  BY <1>1, <1>2, <1>3, <1>4

LEMMA NextSlice ==
  ASSUME NEW n \in Nat, NEW m \in Nat, m >= n + Window
  PROVE  m \div Window >= n \div Window + 1
<1>1. Window \in Nat /\ Window > 0
  BY WindowAssumption
<1> DEFINE p == n \div Window
           q == m \div Window
<1>2. p \in Nat /\ q \in Nat /\ Window * p <= n /\ m < Window * q + Window
  BY SliceOf
<1> HIDE DEF p, q
<1>3. Window * p + Window < Window * q + Window
  BY <1>1, <1>2, SMT
<1>4. ~(q <= p)
  BY <1>1, <1>2, <1>3, SMT
<1>5. q >= p + 1
  BY <1>2, <1>4
<1>6. QED
  BY <1>5 DEF p, q

LEMMA SliceMonotone ==
  ASSUME NEW n \in Nat, NEW m \in Nat, m >= n
  PROVE  m \div Window >= n \div Window
<1>1. Window \in Nat /\ Window > 0
  BY WindowAssumption
<1> DEFINE p == n \div Window
           q == m \div Window
<1>2. p \in Nat /\ q \in Nat /\ Window * p <= n /\ m < Window * q + Window
  BY SliceOf
<1> HIDE DEF p, q
<1>3. Window * p < Window * q + Window
  BY <1>1, <1>2, SMT
<1>4. ~(q + 1 <= p)
  BY <1>1, <1>2, <1>3, SMT
<1>5. QED
  BY <1>2, <1>4 DEF p, q

\* What a key was granted: all slices before its window in full, and its count.
Accounted(k) ==
  IF k \in Held THEN grants[k] <= Limit * (state[k].started \div Window) + state[k].count
                ELSE grants[k] = 0

RateInv == PinInv /\ \A k \in Key \ swept : Accounted(k)

LEMMA RateInit == Init => RateInv
  BY PinInit DEF Init, RateInv, Accounted, Held

\* A window that starts within the time a limit was granted for.
LEMMA FreshWindow ==
  ASSUME PinInv, NEW c \in waiting, NEW k \in Key, NEW keep \in SUBSET Held, k = c.key,
         state' = Opened(keep, c.key, c.now), Granted(c.key),
         Accounted(k), k \in Held => Ended(k, c.now)
  PROVE  Accounted(k)'
<1>1. /\ c.key \in Key /\ c.now \in Nat /\ Limit \in Nat
      /\ grants[k] \in Nat /\ grants'[k] = grants[k] + 1
  BY LimitAssumption DEF PinInv, TypeOK, Call, Granted
<1>2. k \in Held' /\ state'[k].started = c.now /\ state'[k].count = 1
  <2>1. TypeOK
    BY DEF PinInv
  <2>2. Held' = keep \cup {c.key} /\ state'[c.key].started = c.now /\ state'[c.key].count = 1
    BY <1>1, <2>1, OpenedStep
  <2>3. QED
    BY <2>2
<1> DEFINE fresh == c.now \div Window
<1>3. fresh \in Nat
  BY <1>1, SliceOf
<1>4. grants[k] <= Limit * fresh
  <2>1. CASE k \notin Held
    <3>1. Limit * fresh \in Nat
      BY <1>1, <1>3, SMT
    <3>2. QED
      BY <2>1, <3>1 DEF Accounted
  <2>2. CASE k \in Held
    <3> DEFINE s == state[k].started
               n == state[k].count
               old == s \div Window
    <3>1. s \in Nat /\ n \in Nat /\ n <= Limit
      BY <2>2 DEF PinInv, TypeOK, LimitInv, Slot
    <3>2. old \in Nat
      BY <3>1, SliceOf
    <3>3. c.now >= s + Window
      BY <1>1, <2>2, <3>1, WindowAssumption DEF Ended
    <3>4. fresh >= old + 1
      BY <1>1, <3>1, <3>3, NextSlice
    <3>5. grants[k] <= Limit * old + n
      BY <2>2 DEF Accounted
    <3> HIDE DEF fresh, old, n, s
    <3>6. Limit * (old + 1) <= Limit * fresh
      BY <1>1, <1>3, <3>2, <3>4, SMT
    <3>7. Limit * (old + 1) = Limit * old + Limit
      BY <1>1, <3>2, SMT
    <3>8. Limit * old \in Nat /\ Limit * fresh \in Nat
      BY <1>1, <1>3, <3>2, SMT
    <3>9. QED
      BY <1>1, <3>1, <3>5, <3>6, <3>7, <3>8
  <2>3. QED
    BY <2>1, <2>2
<1>5. Limit * fresh \in Nat
  BY <1>1, <1>3, SMT
<1>6. grants'[k] <= Limit * fresh + 1
  BY <1>1, <1>4, <1>5
<1>7. QED
  BY <1>2, <1>6 DEF Accounted

LEMMA AccountedUnchanged ==
  ASSUME NEW k \in Key, Accounted(k), grants'[k] = grants[k],
         k \in Held <=> k \in Held', k \in Held => state'[k] = state[k]
  PROVE  Accounted(k)'
  BY DEF Accounted

LEMMA RateStep ==
  ASSUME PinInv, NEW c \in waiting, Admits(c), NEW k \in Key \ swept', k \notin swept, Accounted(k)
  PROVE  Accounted(k)'
<1>1. c.key \in Key /\ c.now \in Nat
  BY DEF PinInv, TypeOK, Call
<1>2. ASSUME NEW keep \in SUBSET Held, k # c.key, k \in Held => k \in keep,
             state' = Opened(keep, c.key, c.now), Granted(c.key)
      PROVE  Accounted(k)'
  <2>1. Held' = keep \cup {c.key} /\ (k \in keep => state'[k] = state[k])
    BY <1>1, <1>2, OpenedStep DEF PinInv
  <2>2. grants'[k] = grants[k]
    BY <1>2 DEF Granted, PinInv, TypeOK
  <2>3. QED
    BY <1>2, <2>1, <2>2, AccountedUnchanged
<1>3. CASE Renew(c)
  BY <1>2, <1>3, FreshWindow DEF Renew
<1>4. CASE Open(c)
  BY <1>2, <1>4, FreshWindow DEF Open
<1>5. CASE SweepAndOpen(c)
  <2>1. k \in Held => k \in Kept(c.now)
    BY <1>5 DEF SweepAndOpen
  <2>2. QED
    BY <1>2, <1>5, <2>1, FreshWindow, KeptType DEF SweepAndOpen
<1>6. CASE RefuseFull(c)
  <2>1. k \in Held => k \in Kept(c.now)
    BY <1>6 DEF RefuseFull
  <2>2. Held' = Kept(c.now) /\ grants' = grants /\ (k \in Kept(c.now) => state'[k] = state[k])
    BY <1>6 DEF RefuseFull, Held
  <2>3. QED
    BY <2>1, <2>2, KeptType, AccountedUnchanged
<1>7. CASE CountOne(c)
  <2>1. Held' = Held /\ c.key \in Held
    BY <1>7 DEF CountOne, Held, PinInv, TypeOK
  <2>2. CASE k # c.key
    <3>1. state'[k] = state[k] /\ grants'[k] = grants[k]
      BY <1>7, <2>2 DEF CountOne, Granted, PinInv, TypeOK, Held
    <3>2. QED
      BY <2>1, <3>1, AccountedUnchanged
  <2>3. CASE k = c.key
    <3> DEFINE slices == Limit * (state[k].started \div Window)
    <3>1. /\ state'[k].started = state[k].started /\ state'[k].count = state[k].count + 1
          /\ grants'[k] = grants[k] + 1 /\ grants[k] \in Nat
          /\ state[k].count \in Nat /\ state[k].started \in Nat
      BY <1>7, <2>1, <2>3 DEF CountOne, Granted, PinInv, TypeOK, Held, Slot
    <3>2. slices \in Nat
      BY <3>1, SliceOf, LimitAssumption, SMT
    <3>3. grants[k] <= slices + state[k].count
      BY <2>1, <2>3 DEF Accounted
    <3> HIDE DEF slices
    <3>4. grants'[k] <= slices + state'[k].count
      BY <3>1, <3>2, <3>3
    <3>5. QED
      BY <2>1, <2>3, <3>1, <3>4 DEF Accounted, slices
  <2>4. QED
    BY <2>2, <2>3
<1>8. CASE RefuseSpent(c) \/ HangUp(c)
  BY <1>8, AccountedUnchanged DEF RefuseSpent, HangUp, Held
<1>9. QED
  BY <1>3, <1>4, <1>5, <1>6, <1>7, <1>8 DEF Admits

LEMMA RateNext == RateInv /\ [Next]_vars => RateInv'
<1> SUFFICES ASSUME RateInv, [Next]_vars PROVE RateInv'
  OBVIOUS
<1>1. PinInv'
  BY PinNext DEF RateInv
<1>2. CASE UNCHANGED <<state, grants, swept>>
  BY <1>1, <1>2 DEF RateInv, Accounted, Held
<1>3. ASSUME NEW c \in waiting, Admits(c) PROVE RateInv'
  <2>1. swept \subseteq swept'
    BY <1>3 DEF Admits, Renew, Open, SweepAndOpen, RefuseFull, CountOne, RefuseSpent, HangUp
  <2>2. QED
    BY <1>1, <1>3, <2>1, RateStep DEF RateInv
<1>4. QED
  BY <1>2, <1>3 DEF Next, Tick, Ask, vars

LEMMA RateImplies == RateInv => HeldKeyRate
<1> SUFFICES ASSUME RateInv, NEW k \in Key \ swept PROVE grants[k] <= Allowance
  BY DEF HeldKeyRate
<1> DEFINE slice == clock \div Window
<1>1. clock \in Nat /\ Limit \in Nat /\ slice \in Nat
  BY LimitAssumption, SliceOf DEF RateInv, PinInv, TypeOK
<1>2. Allowance = Limit * slice + Limit
  <2> HIDE DEF slice
  <2>1. Limit * (slice + 1) = Limit * slice + Limit
    BY <1>1, SMT
  <2>2. QED
    BY <2>1 DEF Allowance, slice
<1>3. Limit * slice \in Nat
  BY <1>1, SMT
<1>4. CASE k \notin Held
  BY <1>1, <1>2, <1>3, <1>4 DEF RateInv, Accounted
<1>5. CASE k \in Held
  <2> DEFINE s == state[k].started
             old == s \div Window
  <2>1. /\ s \in Nat /\ s <= clock /\ state[k].count \in Nat /\ state[k].count <= Limit
        /\ grants[k] \in Nat
    BY <1>5 DEF RateInv, PinInv, TypeOK, ClockInv, LimitInv, Slot
  <2>2. old \in Nat /\ slice >= old
    BY <1>1, <2>1, SliceOf, SliceMonotone
  <2>3. grants[k] <= Limit * old + state[k].count
    BY <1>5 DEF RateInv, Accounted
  <2> HIDE DEF old, slice, s
  <2>4. Limit * old <= Limit * slice /\ Limit * old \in Nat
    BY <1>1, <2>2, SMT
  <2>5. QED
    BY <1>1, <1>2, <1>3, <2>1, <2>3, <2>4
<1>6. QED
  BY <1>4, <1>5

(* A key no sweep has dropped is granted at most one limit for each window  *)
(* that fits in the time gone by, whatever order its calls took the mutex   *)
(* in: with room for every key, the counter is the ceiling README promises. *)
THEOREM HeldKeyRateHolds == Spec => []HeldKeyRate
<1>1. QED
  BY RateInit, RateNext, RateImplies, PTL DEF Spec

----------------------------------------------------------------------------
(***************************************************************************)
(* The quota.  Each way out of admits is one decision: it forgets the keys *)
(* a sweep drops, and the caller's own when it gets a fresh window.  What  *)
(* may be forgotten is judged by the clock, and the caller judges by its   *)
(* own older reading: EndedByTheClock closes the gap.                      *)
(***************************************************************************)
\* A fresh window for k, in a map from which only ended windows are dropped.
LEMMA OpeningDecides ==
  ASSUME PinInv, UNCHANGED clock, Limit >= 1,
         NEW k \in Key, NEW n \in Nat, n <= clock,
         NEW keep \in SUBSET Held, state' = Opened(keep, k, n),
         \A x \in (Held \ keep) \cup (Held \cap {k}) : clock - state[x].started >= Window
  PROVE  Promise!Decide((Held \ keep) \cup {k}, {k})
<1> USE DEF PinInv, TypeOK, ClockInv
<1>1. /\ Held' = keep \cup {k}
      /\ state'[k].started = n /\ state'[k].count = 1
      /\ \A x \in keep \ {k} : state'[x] = state[x]
  BY OpenedStep
<1>2. \A x \in (Held \ keep) \cup {k} : Promise!MayForget(x)
  BY DEF Promise!MayForget
<1>3. \A x \in Held : state[x].count \in Nat
  BY DEF Slot
<1>4. ASSUME NEW x \in Key
      PROVE  /\ (IF x \in Held' THEN state'[x].count ELSE 0)
                 = (IF x \in (Held \ keep) \cup {k} THEN 0
                    ELSE IF x \in Held THEN state[x].count ELSE 0)
                   + (IF x \in {k} THEN 1 ELSE 0)
             /\ IF x \in (Held \ keep) \cup {k}
                THEN (IF x \in Held' THEN state'[x].started ELSE 0) <= clock
                ELSE (IF x \in Held' THEN state'[x].started ELSE 0)
                     = (IF x \in Held THEN state[x].started ELSE 0)
  <2>1. CASE x = k
    BY <1>1, <2>1
  <2>2. CASE x # k /\ x \in keep
    BY <1>1, <1>3, <2>2
  <2>3. CASE x # k /\ x \notin keep
    BY <1>1, <2>3
  <2>4. QED
    BY <2>1, <2>2, <2>3
<1> DEFINE F == (Held \ keep) \cup {k}
           used == [x \in Key |-> IF x \in Held THEN state[x].count ELSE 0]
           since == [x \in Key |-> IF x \in Held THEN state[x].started ELSE 0]
<1>5. used' = [x \in Key |-> (IF x \in F THEN 0 ELSE used[x]) + IF x \in {k} THEN 1 ELSE 0]
  BY <1>4, SMT
<1>6. \A x \in Key : IF x \in F THEN since'[x] <= clock ELSE since'[x] = since[x]
  BY <1>4, SMT
<1>7. QED
  BY <1>2, <1>5, <1>6, LimitAssumption, SMT DEF Promise!Decide

LEMMA QuotaStep == PinInv /\ [Next]_vars => [Promise!Next]_(Promise!vars)
<1> SUFFICES ASSUME PinInv, [Next]_vars PROVE Promise!Next \/ UNCHANGED Promise!vars
  OBVIOUS
<1>1. CASE Tick
  BY <1>1 DEF Tick, Held, Promise!Next, Promise!Tick
<1>2. CASE UNCHANGED <<clock, state>>
  BY <1>2 DEF Held, Promise!vars
<1>3. ASSUME NEW c \in waiting, Admits(c) PROVE Promise!Next \/ UNCHANGED Promise!vars
  <2>1. c.key \in Key /\ c.now \in Nat /\ c.now <= clock /\ Limit >= 1
    BY LimitAssumption DEF PinInv, TypeOK, Call, ClockInv, LimitInv
  <2>2. Held \subseteq Key
    BY DEF PinInv, TypeOK
  <2>3. CASE Renew(c)
    <3>1. Promise!Decide((Held \ Held) \cup {c.key}, {c.key})
      BY <2>1, <2>3, EndedByTheClock, OpeningDecides DEF Renew, Done
    <3>2. QED
      BY <2>1, <3>1 DEF Promise!Next
  <2>4. CASE Open(c)
    <3>1. Promise!Decide((Held \ Held) \cup {c.key}, {c.key})
      BY <2>1, <2>4, OpeningDecides DEF Open, Done
    <3>2. QED
      BY <2>1, <3>1 DEF Promise!Next
  <2>5. CASE SweepAndOpen(c)
    <3>1. \A x \in Held \ Kept(c.now) : clock - state[x].started >= Window
      BY EndedByTheClock DEF Kept
    <3>2. Promise!Decide((Held \ Kept(c.now)) \cup {c.key}, {c.key})
      BY <2>1, <2>5, <3>1, KeptType, OpeningDecides DEF SweepAndOpen, Done
    <3>3. QED
      BY <2>1, <2>2, <3>2 DEF Promise!Next
  <2>6. CASE RefuseFull(c)
    <3>1. \A x \in Held \ Kept(c.now) : clock - state[x].started >= Window
      BY EndedByTheClock DEF Kept
    <3>2. Held' = Kept(c.now) /\ \A x \in Kept(c.now) : state'[x] = state[x]
      BY <2>6 DEF RefuseFull, Held
    <3>3. \A x \in Held : state[x].count \in Nat
      BY DEF PinInv, TypeOK, Slot
    <3>4. Kept(c.now) \subseteq Held
      BY DEF Kept
    <3>5. ASSUME NEW x \in Key
          PROVE  /\ (IF x \in Held' THEN state'[x].count ELSE 0)
                     = (IF x \in Held \ Kept(c.now) THEN 0
                        ELSE IF x \in Held THEN state[x].count ELSE 0)
                       + (IF x \in {} THEN 1 ELSE 0)
                 /\ IF x \in Held \ Kept(c.now)
                    THEN (IF x \in Held' THEN state'[x].started ELSE 0) <= clock
                    ELSE (IF x \in Held' THEN state'[x].started ELSE 0)
                         = (IF x \in Held THEN state[x].started ELSE 0)
      BY <3>2, <3>3, <3>4 DEF PinInv, TypeOK
    <3>6. \A x \in Held \ Kept(c.now) : Promise!MayForget(x)
      BY <2>2, <3>1 DEF Promise!MayForget
    <3> DEFINE F == Held \ Kept(c.now)
               used == [x \in Key |-> IF x \in Held THEN state[x].count ELSE 0]
               since == [x \in Key |-> IF x \in Held THEN state[x].started ELSE 0]
    <3>7. used' = [x \in Key |-> (IF x \in F THEN 0 ELSE used[x]) + IF x \in {} THEN 1 ELSE 0]
      BY <3>5, SMT
    <3>8. \A x \in Key : IF x \in F THEN since'[x] <= clock ELSE since'[x] = since[x]
      BY <3>5, SMT
    <3>9. Promise!Decide(F, {})
      BY <2>6, <3>6, <3>7, <3>8, SMT DEF RefuseFull, Done, Promise!Decide
    <3>10. QED
      BY <2>2, <3>9 DEF Promise!Next
  <2>7. CASE CountOne(c)
    <3>1. /\ Held' = Held
          /\ \A x \in Held : /\ state'[x].started = state[x].started
                            /\ state'[x].count = state[x].count + IF x = c.key THEN 1 ELSE 0
      BY <2>7 DEF CountOne, Held, PinInv, TypeOK, Slot
    <3>2. Promise!Decide({}, {c.key})
      BY <2>1, <2>7, <3>1 DEF CountOne, Done, Promise!Decide
    <3>3. QED
      BY <2>1, <3>2 DEF Promise!Next
  <2>8. CASE RefuseSpent(c) \/ HangUp(c)
    BY <1>2, <2>8 DEF RefuseSpent, HangUp, Done
  <2>9. QED
    BY <1>3, <2>3, <2>4, <2>5, <2>6, <2>7, <2>8 DEF Admits
<1>4. QED
  BY <1>1, <1>2, <1>3 DEF Next, Ask, vars

LEMMA QuotaInit == Init => Promise!Init
  BY DEF Init, Held, Promise!Init

(* Refinement: the counter implements the quota of Limit pins a window, for *)
(* every capacity: neither a sweep nor a stale reading of the clock gives   *)
(* a key back what its running window has spent.                            *)
THEOREM KeepsQuotaHolds == Spec => KeepsQuota
<1>1. QED
  BY PinInit, PinNext, QuotaInit, QuotaStep, PTL DEF Spec, KeepsQuota, Promise!Spec

----------------------------------------------------------------------------
(***************************************************************************)
(* The rate of every key, dropped ones too.  In the slice of time that     *)
(* runs, a key can still get a window for each call left over from an      *)
(* earlier slice, and one of this slice.  If every connection has such a   *)
(* call, the first of them to finish finds the window that holds the key   *)
(* against all of them, and that call is wasted.  No step adds to the      *)
(* windows left, an opening uses one up, and a new slice brings at most    *)
(* one for each connection: a window of the slice before it, if there was  *)
(* one, holds the key against every call there is.                         *)
(***************************************************************************)
Slice(n) == n \div Window

LEMMA SliceFacts ==
  ASSUME NEW n \in Nat
  PROVE  /\ Slice(n) \in Nat
         /\ \A m \in Nat : m >= n + Window => Slice(m) >= Slice(n) + 1
         /\ \A m \in Nat : m >= n => Slice(m) >= Slice(n)
         /\ Slice(n + 1) = Slice(n) \/ Slice(n + 1) = Slice(n) + 1
<1>1. Slice(n) \in Nat
  BY SliceOf DEF Slice
<1>2. \A m \in Nat : m >= n + Window => Slice(m) >= Slice(n) + 1
  BY NextSlice DEF Slice
<1>3. \A m \in Nat : m >= n => Slice(m) >= Slice(n)
  BY SliceMonotone DEF Slice
<1>4. Slice(n + 1) = Slice(n) \/ Slice(n + 1) = Slice(n) + 1
  <2> DEFINE p == n \div Window
             q == (n + 1) \div Window
  <2>1. Window \in Nat /\ Window > 0
    BY WindowAssumption
  <2>2. /\ p \in Nat /\ q \in Nat /\ q >= p
        /\ n < Window * p + Window /\ Window * q <= n + 1
    BY SliceOf, SliceMonotone
  <2> HIDE DEF p, q
  <2>3. ~(q >= p + 2)
    BY <2>1, <2>2, SMT
  <2>4. q = p \/ q = p + 1
    BY <2>2, <2>3
  <2>5. QED
    BY <2>4 DEF Slice, p, q
<1>5. QED
  BY <1>1, <1>2, <1>3, <1>4

Connections == Cardinality(Task)

\* Calls that read the clock in a slice that is over.
Stale == {c \in waiting : Slice(c.now) < Slice(clock)}

\* The window of the key is live for every call that waits.
Blocked(k) == k \in Held /\ \A c \in waiting : ~Ended(k, c.now)

Late(k) == Cardinality(Stale) - IF Cardinality(Stale) = Connections /\ Blocked(k) THEN 1 ELSE 0

Young(k) == k \in Held /\ Slice(state[k].started) = Slice(clock)

WindowsLeft(k) == Late(k) + IF Young(k) THEN 0 ELSE 1

Room(k) == IF k \in Held THEN Limit - state[k].count ELSE 0

Ceiling(slice) == Limit * (Connections * slice + 1)

OneCall == \A c, d \in waiting : c.task = d.task => c = d

Within(k) == grants[k] + Room(k) + Limit * WindowsLeft(k) <= Ceiling(Slice(clock))

OvertakenInv == PinInv /\ OneCall /\ \A k \in Key : Within(k)

LEMMA ConnectionsType == Connections \in Nat /\ Connections > 0
  BY TaskAssumption, FS_CardinalityType, FS_EmptySet DEF Connections

\* As many calls wait as connections have one.
LEMMA CallsOf ==
  ASSUME TypeOK, OneCall, NEW C \in SUBSET waiting, NEW T \in SUBSET Task,
         \A c \in C : c.task \in T
  PROVE  /\ IsFiniteSet(C) /\ Cardinality(C) \in Nat
         /\ Cardinality(C) <= Cardinality(T)
         /\ Cardinality(T) \in Nat /\ Cardinality(T) <= Connections
<1> DEFINE f == [c \in C |-> c.task]
<1>1. f \in Injection(C, T)
  <2>1. f \in [C -> T]
    OBVIOUS
  <2>2. \A c, d \in C : f[c] = f[d] => c = d
    BY DEF OneCall
  <2> HIDE DEF f
  <2>3. QED
    BY <2>1, <2>2, Zenon DEF Injection, IsInjective
<1>2. IsFiniteSet(T) /\ Cardinality(T) <= Connections /\ Cardinality(T) \in Nat
  BY TaskAssumption, FS_Subset, FS_CardinalityType DEF Connections
<1>3. IsFiniteSet(C) /\ Cardinality(C) <= Cardinality(T)
  BY <1>1, <1>2, FS_Injection
<1>4. QED
  BY <1>2, <1>3, FS_CardinalityType

LEMMA StaleType ==
  ASSUME TypeOK, OneCall
  PROVE  /\ IsFiniteSet(waiting) /\ Cardinality(waiting) \in Nat
         /\ Cardinality(waiting) <= Connections
         /\ IsFiniteSet(Stale) /\ Cardinality(Stale) \in Nat
         /\ Cardinality(Stale) <= Cardinality(waiting)
<1>1. \A c \in waiting : c.task \in Task
  BY DEF TypeOK, Call
<1>2. Stale \in SUBSET waiting
  BY DEF Stale
<1>3. IsFiniteSet(waiting) /\ Cardinality(waiting) \in Nat /\ Cardinality(waiting) <= Connections
  <2>1. waiting \in SUBSET waiting /\ Task \in SUBSET Task
    OBVIOUS
  <2>2. QED
    BY <1>1, <2>1, CallsOf DEF Connections
<1>4. QED
  BY <1>2, <1>3, FS_Subset, FS_CardinalityType

LEMMA LeftType ==
  ASSUME TypeOK, OneCall, NEW k \in Key
  PROVE  /\ Late(k) \in Nat /\ Late(k) <= Cardinality(Stale)
         /\ WindowsLeft(k) \in Nat
<1>1. Late(k) \in Nat /\ Late(k) <= Cardinality(Stale)
  BY StaleType, ConnectionsType DEF Late
<1>2. QED
  BY <1>1 DEF WindowsLeft

\* A window of the slice that runs is live for every call and by the clock.
LEMMA YoungIsLive ==
  ASSUME PinInv, NEW k \in Key, Young(k)
  PROVE  Blocked(k) /\ ~(clock - state[k].started >= Window)
<1>1. /\ k \in Held /\ state[k].started \in Nat /\ clock \in Nat
      /\ Slice(state[k].started) = Slice(clock)
  BY DEF Young, PinInv, TypeOK, Slot
<1>2. ~(clock >= state[k].started + Window)
  <2>1. Slice(clock) \in Nat
    BY <1>1, SliceFacts
  <2>2. QED
    BY <1>1, <2>1, SliceFacts, WindowAssumption
<1>3. \A c \in waiting : c.now \in Nat /\ c.now <= clock
  BY DEF PinInv, TypeOK, ClockInv, Call
<1>4. QED
  BY <1>1, <1>2, <1>3, WindowAssumption DEF Blocked, Ended

\* A call that is over takes no window with it, and frees the one it blocked.
LEMMA LateAfterCall ==
  ASSUME PinInv, OneCall, OneCall', TypeOK', NEW k \in Key, NEW c \in waiting, Done(c)
  PROVE  /\ Late(k)' <= Late(k)
         /\ c \in Stale /\ ~Blocked(k) => Late(k)' <= Late(k) - 1
<1> DEFINE size == Cardinality(Stale)
           size1 == Cardinality(Stale')
<1>1. /\ size \in Nat /\ size <= Connections /\ Cardinality(waiting) \in Nat
      /\ Cardinality(waiting) <= Connections /\ Connections \in Nat /\ Connections > 0
      /\ IsFiniteSet(Stale) /\ IsFiniteSet(waiting)
  BY StaleType, ConnectionsType DEF PinInv
<1>2. Stale' = Stale \ {c}
  BY DEF Stale, Done, Slice
<1>3. size1 = IF c \in Stale THEN size - 1 ELSE size
  BY <1>1, <1>2, FS_RemoveElement
<1>4. Late(k)' \in Int /\ Late(k)' <= size1 /\ Late(k) \in Int
  BY <1>1, <1>3 DEF Late, Connections
<1>5. CASE c \in Stale
  <2>1. Late(k) >= size - 1 /\ (~Blocked(k) => Late(k) = size)
    BY <1>1 DEF Late
  <2> HIDE DEF size, size1
  <2>2. QED
    BY <1>1, <1>3, <1>4, <1>5, <2>1
<1>6. CASE c \notin Stale
  <2>1. size < Connections
    <3>1. Stale \in SUBSET (waiting \ {c})
      BY <1>6 DEF Stale
    <3>2. IsFiniteSet(waiting \ {c}) /\ Cardinality(waiting \ {c}) = Cardinality(waiting) - 1
      BY <1>1, FS_RemoveElement
    <3>3. size <= Cardinality(waiting \ {c})
      BY <3>1, <3>2, FS_Subset
    <3> HIDE DEF size
    <3>4. QED
      BY <1>1, <3>2, <3>3
  <2>2. Late(k) = size
    BY <1>1, <2>1 DEF Late
  <2> HIDE DEF size, size1
  <2>3. QED
    BY <1>1, <1>3, <1>4, <1>6, <2>2
<1>7. QED
  BY <1>5, <1>6

LEMMA TimesLimit ==
  ASSUME NEW a \in Nat, NEW b \in Nat, a <= b
  PROVE  /\ Limit \in Nat /\ Limit * a \in Nat /\ Limit * b \in Nat
         /\ Limit * a <= Limit * b
         /\ Limit * (a + 1) = Limit * a + Limit
<1>1. Limit \in Nat
  BY LimitAssumption
<1>2. QED
  BY <1>1, SMT

LEMMA CeilingType ==
  ASSUME NEW n \in Nat
  PROVE  Ceiling(n) \in Nat /\ Ceiling(n + 1) = Ceiling(n) + Limit * Connections
<1>1. Limit \in Nat /\ Connections \in Nat
  BY LimitAssumption, ConnectionsType
<1> HIDE DEF Connections
<1>2. Connections * n + 1 \in Nat
  BY <1>1, SMT
<1>3. Connections * (n + 1) + 1 = (Connections * n + 1) + Connections
  BY <1>1, SMT
<1> DEFINE p == Connections * n + 1
<1>4. Limit * (p + Connections) = Limit * p + Limit * Connections /\ Limit * p \in Nat
  <2> HIDE DEF p
  <2>1. p \in Nat
    BY <1>2 DEF p
  <2>2. QED
    BY <1>1, <2>1, SMT
<1>5. QED
  BY <1>3, <1>4 DEF Ceiling

LeftTypes == \A k \in Key : Late(k) \in Nat /\ WindowsLeft(k) \in Nat

LEMMA LeftTypesHold == TypeOK /\ OneCall => LeftTypes
  BY LeftType DEF LeftTypes

LEMMA LeftTypesNext == TypeOK' /\ OneCall' => LeftTypes'
  BY LeftTypesHold, PTL

LEMMA OneCallNext == TypeOK /\ OneCall /\ [Next]_vars => OneCall'
<1> SUFFICES ASSUME TypeOK, OneCall, [Next]_vars PROVE OneCall'
  OBVIOUS
<1>1. CASE UNCHANGED waiting
  BY <1>1 DEF OneCall
<1>2. ASSUME NEW t \in Task, NEW k \in Key, Ask(t, k) PROVE OneCall'
  BY <1>2 DEF Ask, OneCall
<1>3. ASSUME NEW c \in waiting, Admits(c) PROVE OneCall'
  <2>1. waiting' \subseteq waiting
    BY <1>3 DEF Admits, Renew, Open, SweepAndOpen, RefuseFull, CountOne, RefuseSpent, HangUp, Done
  <2>2. QED
    BY <2>1 DEF OneCall
<1>4. QED
  BY <1>1, <1>2, <1>3 DEF Next, Tick, vars

\* The sum that is bounded, of numbers: no product is left for the arithmetic.
LEMMA Charged ==
  ASSUME NEW spent \in Nat, NEW w \in Nat, NEW bound \in Nat, spent + Limit * w <= bound,
         NEW spent1 \in Nat, NEW w1 \in Nat, NEW charge \in Nat,
         spent1 <= spent + charge,
         \/ charge = 0 /\ w1 <= w
         \/ charge = Limit /\ w1 + 1 <= w
  PROVE  spent1 + Limit * w1 <= bound
<1> DEFINE p == Limit * w
           q == Limit * w1
<1>1. p \in Nat /\ q \in Nat /\ spent + p <= bound
  <2>1. w <= w /\ w1 <= w1
    OBVIOUS
  <2>2. Limit * w \in Nat /\ Limit * w1 \in Nat
    BY <2>1, TimesLimit
  <2>3. QED
    BY <2>2
<1>2. charge + q <= p
  <2>1. CASE charge = 0 /\ w1 <= w
    <3>1. q <= p
      BY <2>1, TimesLimit
    <3> HIDE DEF p, q
    <3>2. QED
      BY <1>1, <2>1, <3>1
  <2>2. CASE charge = Limit /\ w1 + 1 <= w
    <3>1. w1 + 1 \in Nat /\ w1 <= w1
      OBVIOUS
    <3>2. Limit * (w1 + 1) <= p
      BY <2>2, <3>1, TimesLimit
    <3>3. Limit * (w1 + 1) = q + Limit /\ Limit \in Nat
      BY <3>1, TimesLimit
    <3>4. q + Limit <= p
      BY <3>2, <3>3
    <3> HIDE DEF p, q
    <3>5. QED
      BY <1>1, <2>2, <3>3, <3>4
  <2>3. QED
    BY <2>1, <2>2
<1>3. spent1 + q <= bound
  <2> HIDE DEF p, q
  <2>1. QED
    BY <1>1, <1>2
<1>4. QED
  BY <1>3

\* Spending within the slice: what is granted comes out of the room or the windows left.
LEMMA WithinStep ==
  ASSUME OvertakenInv, PinInv', OneCall', UNCHANGED clock, NEW k \in Key,
         \/ WindowsLeft(k)' <= WindowsLeft(k) /\ grants'[k] + Room(k)' <= grants[k] + Room(k)
         \/ WindowsLeft(k)' + 1 <= WindowsLeft(k) /\ grants'[k] + Room(k)' <= grants[k] + Limit
  PROVE  Within(k)'
<1>1. /\ grants[k] \in Nat /\ grants'[k] \in Nat /\ Room(k) \in Nat /\ Room(k)' \in Nat
  BY LimitAssumption DEF OvertakenInv, PinInv, TypeOK, LimitInv, Room, Slot
<1>2. WindowsLeft(k) \in Nat /\ WindowsLeft(k)' \in Nat
  BY LeftTypesHold, LeftTypesNext DEF OvertakenInv, PinInv, LeftTypes
<1>3. Ceiling(Slice(clock)) \in Nat /\ Slice(clock)' = Slice(clock)
  BY SliceFacts, CeilingType DEF OvertakenInv, PinInv, TypeOK, Slice
<1>4. Ceiling(Slice(clock))' = Ceiling(Slice(clock))
  BY <1>3 DEF Ceiling, Connections
<1>5. grants[k] + Room(k) + Limit * WindowsLeft(k) <= Ceiling(Slice(clock))
  BY DEF OvertakenInv, Within
<1> DEFINE bound == Ceiling(Slice(clock))
           left == WindowsLeft(k)
           left1 == WindowsLeft(k)'
           spent == grants[k] + Room(k)
           spent1 == grants'[k] + Room(k)'
<1>6. /\ bound \in Nat /\ left \in Nat /\ left1 \in Nat /\ spent \in Nat /\ spent1 \in Nat
      /\ spent + Limit * left <= bound
  BY <1>1, <1>2, <1>3, <1>5
<1> DEFINE charge == IF left1 + 1 <= left THEN Limit ELSE 0
<1>7. charge \in Nat /\ spent1 <= spent + charge
  <2>1. CASE left1 + 1 <= left
    <3>1. charge = Limit /\ (spent1 <= spent \/ spent1 <= grants[k] + Limit)
      BY <2>1
    <3> HIDE DEF left, left1, charge
    <3>2. QED
      BY <1>1, <3>1, LimitAssumption
  <2>2. CASE ~(left1 + 1 <= left)
    <3>1. charge = 0 /\ spent1 <= spent
      BY <2>2
    <3> HIDE DEF left, left1, spent, spent1, charge
    <3>2. QED
      BY <1>6, <3>1
  <2>3. QED
    BY <2>1, <2>2
<1>8. \/ charge = 0 /\ left1 <= left
      \/ charge = Limit /\ left1 + 1 <= left
  BY <1>6
<1>9. spent1 + Limit * left1 <= bound
  <2> HIDE DEF bound, left, left1, spent, spent1, charge
  <2>1. QED
    BY <1>6, <1>7, <1>8, Charged
<1>10. QED
  BY <1>4, <1>9 DEF Within

\* A fresh window of the caller's own: it was not blocked, and uses one up.
LEMMA WithinOpened ==
  ASSUME OvertakenInv, PinInv', OneCall', NEW c \in waiting, Done(c), NEW keep \in SUBSET Held,
         state' = Opened(keep, c.key, c.now), Granted(c.key),
         c.key \in Held => Ended(c.key, c.now)
  PROVE  Within(c.key)'
<1> DEFINE k == c.key
<1>1. k \in Key /\ c.now \in Nat /\ c.now <= clock /\ Limit >= 1 /\ Limit \in Nat
  BY LimitAssumption DEF OvertakenInv, PinInv, TypeOK, Call, ClockInv, LimitInv
<1>2. k \in Held' /\ state'[k].started = c.now /\ state'[k].count = 1
  BY <1>1, OpenedStep DEF OvertakenInv, PinInv
<1>3. ~Blocked(k)
  BY DEF Blocked
<1>4. ~Young(k)
  BY <1>1, <1>3, YoungIsLive DEF OvertakenInv
<1>5. /\ Late(k)' <= Late(k) /\ (c \in Stale => Late(k)' <= Late(k) - 1)
      /\ Late(k) \in Nat /\ Late(k)' \in Nat
  <2>1. TypeOK' /\ PinInv /\ TypeOK /\ OneCall
    BY DEF OvertakenInv, PinInv
  <2>2. QED
    BY <1>1, <1>3, <2>1, LateAfterCall, LeftType, LeftTypesNext DEF LeftTypes
<1>6. UNCHANGED clock /\ Slice(clock)' = Slice(clock)
  BY DEF Done, Slice
<1>7. Slice(c.now) \in Nat /\ Slice(clock) \in Nat /\ Slice(c.now) <= Slice(clock)
  BY <1>1, SliceFacts DEF OvertakenInv, PinInv, TypeOK
<1>8. WindowsLeft(k)' + 1 <= WindowsLeft(k)
  <2>1. CASE c \in Stale
    BY <1>4, <1>5, <2>1 DEF WindowsLeft
  <2>2. CASE c \notin Stale
    <3>1. Slice(c.now) = Slice(clock)
      BY <1>7, <2>2 DEF Stale
    <3>2. Young(k)'
      BY <1>2, <1>6, <3>1 DEF Young, Slice
    <3>3. QED
      BY <1>4, <1>5, <3>2 DEF WindowsLeft
  <2>3. QED
    BY <2>1, <2>2
<1>9. grants'[k] + Room(k)' <= grants[k] + Limit
  <2>1. grants[k] \in Nat /\ grants'[k] = grants[k] + 1
    BY <1>1 DEF OvertakenInv, PinInv, TypeOK, Granted
  <2>2. Room(k)' = Limit - 1
    BY <1>2 DEF Room
  <2>3. QED
    BY <1>1, <2>1, <2>2
<1>10. QED
  BY <1>1, <1>6, <1>8, <1>9, WithinStep

\* Any other end of a call: it leaves the window of the key as it is, counts
\* one in it, or drops it when it is over.
LEMMA WithinOther ==
  ASSUME OvertakenInv, PinInv', OneCall', NEW c \in waiting, Done(c), NEW k \in Key,
         k \in Held' => k \in Held /\ state'[k].started = state[k].started,
         Young(k) => k \in Held',
         grants'[k] + Room(k)' <= grants[k] + Room(k)
  PROVE  Within(k)'
<1>1. Late(k)' <= Late(k) /\ Late(k) \in Nat /\ Late(k)' \in Nat
  <2>1. TypeOK' /\ PinInv /\ TypeOK /\ OneCall
    BY DEF OvertakenInv, PinInv
  <2>2. QED
    BY <2>1, LateAfterCall, LeftType, LeftTypesNext DEF LeftTypes
<1>2. UNCHANGED clock
  BY DEF Done
<1>3. Young(k) => Young(k)'
  BY <1>2 DEF Young, Slice
<1>4. WindowsLeft(k)' <= WindowsLeft(k)
  BY <1>1, <1>3 DEF WindowsLeft
<1>5. QED
  BY <1>2, <1>4, WithinStep

\* A call that joins is of this slice, and its connection had none.
LEMMA WithinAsk ==
  ASSUME OvertakenInv, PinInv', OneCall', NEW t \in Task, NEW j \in Key, Ask(t, j), NEW k \in Key
  PROVE  Within(k)'
<1>1. /\ UNCHANGED <<clock, state, grants>> /\ clock \in Nat
      /\ waiting' = waiting \cup {[task |-> t, key |-> j, now |-> clock]}
      /\ \A c \in waiting : c.task # t
  BY DEF Ask, OvertakenInv, PinInv, TypeOK
<1>2. Slice(clock) \in Nat /\ Slice(clock)' = Slice(clock)
  BY <1>1, SliceFacts DEF Slice
<1>3. Stale' = Stale
  <2>1. \A c : c \in Stale' <=> c \in Stale
    BY <1>1, <1>2 DEF Stale, Slice
  <2>2. QED
    BY <2>1, Zenon DEF Stale
<1>4. /\ Cardinality(Stale) \in Nat /\ Cardinality(Stale) < Connections
      /\ Connections' = Connections
  <2>1. /\ \A c \in Stale : c.task \in Task \ {t}
        /\ Stale \in SUBSET waiting /\ Task \ {t} \in SUBSET Task
    BY <1>1 DEF Stale, OvertakenInv, PinInv, TypeOK, Call
  <2>2. /\ Cardinality(Stale) \in Nat /\ Cardinality(Task \ {t}) \in Nat
        /\ Cardinality(Stale) <= Cardinality(Task \ {t})
    BY <2>1, CallsOf DEF OvertakenInv, PinInv
  <2>3. Cardinality(Task \ {t}) = Connections - 1
    BY TaskAssumption, FS_RemoveElement DEF Connections
  <2>4. QED
    BY <2>2, <2>3, ConnectionsType DEF Connections
<1>5. Late(k)' = Late(k)
  BY <1>3, <1>4 DEF Late
<1>6. Young(k)' <=> Young(k)
  BY <1>1, <1>2 DEF Young, Held, Slice
<1>7. WindowsLeft(k)' = WindowsLeft(k) /\ WindowsLeft(k) \in Nat
  BY <1>5, <1>6, LeftTypesHold DEF WindowsLeft, LeftTypes, OvertakenInv, PinInv
<1>8. Room(k)' = Room(k) /\ Room(k) \in Nat /\ grants[k] \in Nat
  BY <1>1, LimitAssumption DEF Room, Held, OvertakenInv, PinInv, TypeOK, LimitInv, Slot
<1>9. QED
  BY <1>1, <1>7, <1>8, WithinStep

\* A new slice: every call that waits is stale, and a window of the slice
\* before holds the key against all of them.
LEMMA WithinTick ==
  ASSUME OvertakenInv, PinInv', OneCall', Tick, NEW k \in Key
  PROVE  Within(k)'
<1>1. /\ UNCHANGED <<state, waiting, grants, swept>> /\ clock' = clock + 1 /\ clock \in Nat
      /\ Slice(clock) \in Nat /\ Slice(clock)' = Slice(clock')
  BY SliceFacts DEF Tick, OvertakenInv, PinInv, TypeOK, Slice
<1>2. /\ WindowsLeft(k) \in Nat /\ WindowsLeft(k)' \in Nat
      /\ Late(k) \in Nat /\ Late(k)' \in Nat
  BY LeftTypesHold, LeftTypesNext DEF LeftTypes, OvertakenInv, PinInv
<1>3. Room(k)' = Room(k) /\ Room(k) \in Nat /\ grants[k] \in Nat
  BY <1>1, LimitAssumption DEF Room, Held, OvertakenInv, PinInv, TypeOK, LimitInv, Slot
<1>4. (Blocked(k)' <=> Blocked(k)) /\ Connections' = Connections
  BY <1>1 DEF Blocked, Held, Ended, Connections
<1>5. CASE Slice(clock') = Slice(clock)
  <2>1. Stale' = Stale
    BY <1>1, <1>5 DEF Stale, Slice
  <2>2. Young(k)' <=> Young(k)
    BY <1>1, <1>5 DEF Young, Held, Slice
  <2>3. Late(k)' = Late(k)
    BY <1>4, <2>1 DEF Late
  <2>4. WindowsLeft(k)' = WindowsLeft(k)
    BY <2>2, <2>3 DEF WindowsLeft
  <2>5. Ceiling(Slice(clock))' = Ceiling(Slice(clock))
    BY <1>1, <1>4, <1>5 DEF Ceiling
  <2>6. QED
    BY <1>1, <1>3, <2>4, <2>5 DEF Within, OvertakenInv
<1>6. CASE Slice(clock') = Slice(clock) + 1
  <2>1. Stale' = waiting
    <3>1. \A c \in waiting : c.now \in Nat /\ c.now <= clock
      BY DEF OvertakenInv, PinInv, TypeOK, ClockInv, Call
    <3>2. \A c \in waiting : Slice(c.now) \in Nat /\ Slice(c.now) <= Slice(clock)
      BY <1>1, <3>1, SliceFacts
    <3>3. QED
      BY <1>1, <1>6, <3>2 DEF Stale, Slice
  <2>2. /\ Cardinality(waiting) \in Nat /\ Cardinality(waiting) <= Connections
        /\ Connections \in Nat
    BY StaleType, ConnectionsType DEF OvertakenInv, PinInv
  <2>3. Late(k)' = Cardinality(waiting)
                   - IF Cardinality(waiting) = Connections /\ Blocked(k) THEN 1 ELSE 0
    BY <1>4, <2>1 DEF Late
  <2>4. WindowsLeft(k)' <= Late(k)' + 1
    BY <1>2 DEF WindowsLeft
  <2>5. WindowsLeft(k)' <= WindowsLeft(k) + Connections
    <3>1. CASE Young(k)
      <4>1. Blocked(k)
        BY <3>1, YoungIsLive DEF OvertakenInv
      <4>2. Late(k)' + 1 <= Connections
        BY <2>2, <2>3, <4>1
      <4>3. QED
        BY <1>2, <2>2, <2>4, <4>2
    <3>2. CASE ~Young(k)
      <4>1. Late(k)' <= Connections
        BY <2>2, <2>3
      <4>2. WindowsLeft(k) >= 1
        BY <1>2, <3>2 DEF WindowsLeft
      <4>3. QED
        BY <1>2, <2>2, <2>4, <4>1, <4>2
    <3>3. QED
      BY <3>1, <3>2
  <2>6. Ceiling(Slice(clock))' = Ceiling(Slice(clock)) + Limit * Connections
    <3>1. Ceiling(Slice(clock))' = Ceiling(Slice(clock) + 1)
      BY <1>1, <1>4, <1>6 DEF Ceiling
    <3>2. QED
      BY <1>1, <3>1, CeilingType
  <2>7. grants[k] + Room(k) + Limit * WindowsLeft(k) <= Ceiling(Slice(clock))
    BY DEF OvertakenInv, Within
  <2> DEFINE left == WindowsLeft(k)
             left1 == WindowsLeft(k)'
             sum == left + Connections
  <2>8. Limit * left1 <= Limit * left + Limit * Connections
    <3>1. left \in Nat /\ left1 \in Nat /\ Connections \in Nat /\ left1 <= left + Connections
      BY <1>2, <2>2, <2>5
    <3> HIDE DEF left, left1
    <3>2. Limit * left1 <= Limit * (left + Connections)
      BY <3>1, TimesLimit
    <3>3. Limit * (left + Connections) = Limit * left + Limit * Connections
      BY <3>1, LimitAssumption, SMT
    <3>4. QED
      BY <3>2, <3>3
  <2>9. /\ Limit * left \in Nat /\ Limit * left1 \in Nat /\ Limit * Connections \in Nat
        /\ Ceiling(Slice(clock)) \in Nat
    <3>1. left \in Nat /\ left1 \in Nat /\ Connections \in Nat
      BY <1>2, <2>2
    <3> HIDE DEF left, left1
    <3>2. Limit * left \in Nat /\ Limit * left1 \in Nat /\ Limit * Connections \in Nat
      BY <3>1, LimitAssumption, SMT
    <3>3. QED
      BY <1>1, <3>2, CeilingType
  <2>10. grants[k] + Room(k) + Limit * left1 <= Ceiling(Slice(clock)) + Limit * Connections
    BY <1>3, <2>7, <2>8, <2>9
  <2>11. QED
    BY <1>1, <1>3, <2>6, <2>10 DEF Within
<1>7. QED
  BY <1>1, <1>5, <1>6, SliceFacts

LEMMA WithinAdmits ==
  ASSUME OvertakenInv, PinInv', OneCall', NEW c \in waiting, Admits(c), NEW k \in Key
  PROVE  Within(k)'
<1>1. c.key \in Key /\ c.now \in Nat /\ TypeOK
  BY DEF OvertakenInv, PinInv, TypeOK, Call
<1>2. Done(c)
  BY DEF Admits, Renew, Open, SweepAndOpen, RefuseFull, CountOne, RefuseSpent, HangUp
<1>3. Room(k) \in Nat /\ grants[k] \in Nat
  BY LimitAssumption DEF Room, OvertakenInv, PinInv, TypeOK, LimitInv, Slot
<1>4. Young(k) => k \in Kept(c.now)
  BY YoungIsLive DEF OvertakenInv, Blocked, Kept
<1>5. ASSUME NEW keep \in SUBSET Held, state' = Opened(keep, c.key, c.now), Granted(c.key),
             c.key \in Held => Ended(c.key, c.now), Kept(c.now) \subseteq keep
      PROVE  Within(k)'
  <2>1. CASE k = c.key
    BY <1>2, <1>5, <2>1, WithinOpened
  <2>2. CASE k # c.key
    <3>1. /\ Held' = keep \cup {c.key}
          /\ k \in keep => state'[k] = state[k]
      BY <1>1, <1>5, <2>2, OpenedStep
    <3>2. grants'[k] = grants[k]
      BY <1>1, <1>5, <2>2 DEF Granted, TypeOK
    <3>3. Room(k)' <= Room(k)
      BY <1>3, <2>2, <3>1 DEF Room
    <3>4. grants'[k] + Room(k)' <= grants[k] + Room(k)
      <4>1. Room(k)' \in Nat
        BY <1>3, <2>2, <3>1 DEF Room
      <4>2. QED
        BY <1>3, <3>2, <3>3, <4>1
    <3>5. QED
      BY <1>2, <1>4, <1>5, <2>2, <3>1, <3>4, WithinOther
  <2>3. QED
    BY <2>1, <2>2
<1>6. CASE Renew(c) \/ Open(c) \/ SweepAndOpen(c)
  BY <1>5, <1>6, KeptType DEF Renew, Open, SweepAndOpen
<1>7. CASE RefuseFull(c)
  <2>1. Held' = Kept(c.now) /\ grants' = grants /\ (k \in Kept(c.now) => state'[k] = state[k])
    BY <1>7 DEF RefuseFull, Held
  <2>2. Room(k)' <= Room(k) /\ Room(k)' \in Nat
    BY <1>3, <2>1, KeptType DEF Room
  <2>3. grants'[k] + Room(k)' <= grants[k] + Room(k)
    BY <1>3, <2>1, <2>2
  <2>4. QED
    BY <1>2, <1>4, <2>1, <2>3, KeptType, WithinOther
<1>8. CASE CountOne(c)
  <2>1. /\ Held' = Held
        /\ k \in Held => state'[k].started = state[k].started
        /\ c.key \in Held
    BY <1>1, <1>8 DEF CountOne, Held, TypeOK, Slot
  <2>2. grants'[k] + Room(k)' <= grants[k] + Room(k)
    <3>1. CASE k = c.key
      <4>1. /\ grants'[k] = grants[k] + 1 /\ state'[k].count = state[k].count + 1
            /\ state[k].count \in Nat /\ Limit \in Nat
        BY <1>1, <1>8, <2>1, <3>1, LimitAssumption DEF CountOne, Granted, Held, TypeOK, Slot
      <4>2. QED
        BY <1>3, <2>1, <3>1, <4>1 DEF Room
    <3>2. CASE k # c.key
      <4>1. grants'[k] = grants[k] /\ (k \in Held => state'[k] = state[k])
        BY <1>1, <1>8, <3>2 DEF CountOne, Granted, Held, TypeOK
      <4>2. Room(k)' = Room(k)
        BY <2>1, <4>1 DEF Room
      <4>3. QED
        BY <1>3, <4>1, <4>2
    <3>3. QED
      BY <3>1, <3>2
  <2>3. QED
    BY <1>2, <2>1, <2>2, WithinOther DEF Young
<1>9. CASE RefuseSpent(c) \/ HangUp(c)
  <2>1. Held' = Held /\ UNCHANGED <<state, grants>>
    BY <1>9 DEF RefuseSpent, HangUp, Held
  <2>2. Room(k)' = Room(k)
    BY <2>1 DEF Room
  <2>3. QED
    BY <1>2, <1>3, <2>1, <2>2, WithinOther DEF Young
<1>10. QED
  BY <1>6, <1>7, <1>8, <1>9 DEF Admits

LEMMA OvertakenInit == Init => OvertakenInv
<1>0. Init => OneCall
  BY DEF Init, OneCall
<1> SUFFICES ASSUME Init, NEW k \in Key PROVE Within(k)
  BY <1>0, PinInit DEF OvertakenInv
<1>1. clock = 0 /\ waiting = {} /\ Held = {} /\ grants[k] = 0
  BY DEF Init, Held
<1>2. Slice(0) \in Nat /\ Window * Slice(0) <= 0 /\ Window \in Nat /\ Window > 0
  BY SliceOf, WindowAssumption DEF Slice
<1>3. Slice(0) = 0
  BY <1>2, SMT
<1>4. Stale = {} /\ ~Blocked(k) /\ ~Young(k) /\ Room(k) = 0
  BY <1>1 DEF Stale, Blocked, Young, Room
<1>5. WindowsLeft(k) = 1
  BY <1>4, FS_EmptySet DEF WindowsLeft, Late
<1>6. Ceiling(0) = Limit /\ Limit * 1 = Limit /\ Limit \in Nat
  <2>1. Connections * 0 + 1 = 1
    <3>1. Connections \in Nat
      BY ConnectionsType
    <3> HIDE DEF Connections
    <3>2. QED
      BY <3>1, SMT
  <2>2. Limit \in Nat /\ Limit * 1 = Limit
    BY LimitAssumption, SMT
  <2>3. QED
    BY <2>1, <2>2 DEF Ceiling
<1>7. QED
  BY <1>1, <1>3, <1>4, <1>5, <1>6 DEF Within

LEMMA OvertakenNext == OvertakenInv /\ [Next]_vars => OvertakenInv'
<1> SUFFICES ASSUME OvertakenInv, [Next]_vars PROVE OvertakenInv'
  OBVIOUS
<1>1. PinInv' /\ OneCall'
  BY PinNext, OneCallNext DEF OvertakenInv, PinInv
<1>2. ASSUME NEW k \in Key PROVE Within(k)'
  <2>1. CASE UNCHANGED vars
    BY <2>1 DEF OvertakenInv, Within, Room, WindowsLeft, Late, Young, Blocked, Stale, Held,
                Ended, Ceiling, Slice, Connections, vars
  <2>2. QED
    BY <1>1, <2>1, WithinTick, WithinAsk, WithinAdmits DEF Next
<1>3. QED
  BY <1>1, <1>2 DEF OvertakenInv

LEMMA OvertakenImplies == OvertakenInv => OvertakenRate
<1> SUFFICES ASSUME OvertakenInv, NEW k \in Key
             PROVE  grants[k] <= Allowance + Limit * (Cardinality(Task) - 1) * (clock \div Window)
  BY DEF OvertakenRate
<1> DEFINE slice == Slice(clock)
           t == Connections
           left == WindowsLeft(k)
<1>1. /\ slice \in Nat /\ t \in Nat /\ left \in Nat /\ Limit \in Nat
      /\ grants[k] \in Nat /\ Room(k) \in Nat
  BY SliceFacts, ConnectionsType, LeftTypesHold, LimitAssumption
    DEF OvertakenInv, PinInv, TypeOK, LeftTypes, Room, LimitInv, Slot
<1>2. grants[k] + Room(k) + Limit * left <= Limit * (t * slice + 1)
  BY DEF OvertakenInv, Within, Ceiling
<1>3. Limit * (slice + 1) + Limit * (t - 1) * slice = Limit * (t * slice + 1)
  <2> HIDE DEF slice, t, left
  <2>1. /\ Limit * (slice + 1) = Limit * slice + Limit
        /\ Limit * (t - 1) * slice = Limit * t * slice - Limit * slice
        /\ Limit * (t * slice + 1) = Limit * t * slice + Limit
    BY <1>1, SMT
  <2>2. Limit * slice \in Nat /\ Limit * t * slice \in Nat
    BY <1>1, SMT
  <2>3. QED
    BY <1>1, <2>1, <2>2
<1>4. Limit * left \in Nat /\ Limit * (t * slice + 1) \in Nat
  <2> HIDE DEF slice, t, left
  <2>1. t * slice + 1 \in Nat
    BY <1>1, SMT
  <2>2. QED
    BY <1>1, <2>1, SMT
<1>5. grants[k] <= Limit * (t * slice + 1)
  <2> HIDE DEF slice, t, left
  <2>1. QED
    BY <1>1, <1>2, <1>4
<1>6. QED
  BY <1>3, <1>5 DEF Allowance, Slice, Connections

(* The rate of every key, whatever sweeps dropped: for each window gone by, *)
(* a connection whose call was overtaken by the window's end may have won   *)
(* the key one limit more.  With one connection nothing is won, and the     *)
(* count is as exact as README has it.                                      *)
THEOREM OvertakenRateHolds == Spec => []OvertakenRate
<1>1. QED
  BY OvertakenInit, OvertakenNext, OvertakenImplies, PTL DEF Spec
=============================================================================
