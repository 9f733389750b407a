-------------------------------- MODULE Quota --------------------------------
(***************************************************************************)
(* What a counter over windows of time promises, whatever it keeps and     *)
(* whoever calls it: a key is granted at most Max times, and what it used  *)
(* is forgotten only when a whole Window has gone by since its window      *)
(* began.  RateLimiter (a limiter on attempts) and PinLimiter are shown to *)
(* implement it.                                                           *)
(***************************************************************************)
EXTENDS Integers

CONSTANTS
  Key,     \* what grants are counted by
  Max,     \* the grants of one window
  Window   \* the ticks a window lasts at least

VARIABLES
  clock,   \* the time, in ticks
  used,    \* the grants of a key in its window
  since    \* when the window of a key began

vars == <<clock, used, since>>

Init ==
  /\ clock = 0
  /\ used = [k \in Key |-> 0]
  /\ since = [k \in Key |-> 0]

Tick == clock' = clock + 1 /\ UNCHANGED <<used, since>>

MayForget(k) == used[k] = 0 \/ clock - since[k] >= Window

(* Forget the keys of F and grant those of G, each once, where there is     *)
(* room.  A window never begins in the future.                              *)
Decide(F, G) ==
  LET kept(k) == IF k \in F THEN 0 ELSE used[k] IN
  /\ \A k \in F : MayForget(k)
  /\ \A k \in G : kept(k) < Max
  /\ used' = [k \in Key |-> kept(k) + IF k \in G THEN 1 ELSE 0]
  /\ \A k \in Key : IF k \in F THEN since'[k] <= clock ELSE since'[k] = since[k]
  /\ UNCHANGED clock

Next == Tick \/ \E F, G \in SUBSET Key : Decide(F, G)

Spec == Init /\ [][Next]_vars
=============================================================================
