-------------------------- MODULE RateLimiterAudit --------------------------
(***************************************************************************)
(* The rate limiter beside a record of everything it did: what it charged, *)
(* by the window the limiter believed in and by the window of the clock,   *)
(* and how much it had let through by each tick.  The limiter keeps two    *)
(* numbers a bucket; these properties say what the two are worth.          *)
(***************************************************************************)
EXTENDS RateLimiter

VARIABLES
  ledger,    \* charges of a bucket, by the limiter's window
  errors,    \* failing answers charged to a bucket, by the clock's window
  admitted   \* requests let through in a bucket before a tick

audit == <<ledger, errors, admitted>>

Windows == 0 .. MaxTime \div WindowDuration

\* The ticks of the clock, and those at which a stretch of ticks can end.
Ticks == 0 .. MaxTime + WindowDuration

AuditInit ==
  /\ Init
  /\ ledger = [b \in Bucket |-> [w \in Windows |-> 0]]
  /\ errors = [b \in Bucket |-> [w \in Windows |-> 0]]
  /\ admitted = [b \in Bucket |-> [n \in Ticks |-> 0]]

Add(record, b, i, n) == [record EXCEPT ![b][i] = @ + n]

AddAll(record, B, i) ==
  [b \in Bucket |-> IF b \in B THEN [record[b] EXCEPT ![i] = @ + 1] ELSE record[b]]

\* A turn of the loop charges an attempt, whatever its verdict.
AuditAttempt(b) ==
  /\ ledger' = Add(ledger, b, window, IF Mode = "Before" THEN 1 ELSE 0)
  /\ UNCHANGED <<errors, admitted>>

\* One more request in its buckets before every tick to come.
AddOnwards(record, B, now) ==
  [b \in Bucket |-> [n \in Ticks |-> record[b][n] + IF b \in B /\ n > now THEN 1 ELSE 0]]

\* Only of a limiter on attempts does a property speak of the record by tick.
AuditAdmit(t) ==
  /\ admitted' = IF Mode = "Before" THEN AddOnwards(admitted, keys[t], clock) ELSE admitted
  /\ UNCHANGED <<ledger, errors>>

AuditIncrement(t) ==
  LET charged == IF failed[t] THEN keys[t] ELSE {} IN
  /\ ledger' = AddAll(ledger, charged, window)
  /\ errors' = AddAll(errors, charged, CurrentWindow)
  /\ UNCHANGED admitted

AuditNext ==
  \/ (Tick \/ Quiet) /\ UNCHANGED audit
  \/ \E t \in Task :
       \/ (Arrive(t) \/ EntersCheck(t) \/ Answer(t) \/ EndUncounted(t)) /\ UNCHANGED audit
       \/ SkipIncrement(t) /\ UNCHANGED audit
       \/ Admit(t) /\ AuditAdmit(t)
       \/ PostIncrement(t) /\ AuditIncrement(t)
       \/ \E b \in Bucket : (PassBucket(t, b) \/ DenyBucket(t, b)) /\ AuditAttempt(b)

AuditSpec == AuditInit /\ [][AuditNext]_<<vars, audit>>

\* The record keeps nothing from happening.
AuditFairSpec == AuditSpec /\ Fairness

----------------------------------------------------------------------------
(* The two maps are the record of the limiter's window and of the window    *)
(* before it: no roll loses a count it should keep or keeps one too long,   *)
(* through windows nothing was asked in.                                    *)
CountsMatchLedger ==
  \A b \in Bucket :
    /\ cur[b] = ledger[b][window]
    /\ last[b] = IF window = 0 THEN 0 ELSE ledger[b][window - 1]

(* "Will not allow more than 2*`limit` for any given window": that is so of *)
(* the limiter's own windows (AttemptCeiling) and not of others.  Over any  *)
(* WindowDuration ticks in a row, wherever they start, a limiter on         *)
(* attempts lets through up to three times its limit, and one request more  *)
(* when the clock left the window while that request was being weighed;     *)
(* but never more than this.                                                *)
SpanCeiling ==
  Mode = "Before" =>
    \A b \in Bucket, first \in 0 .. MaxTime :
      admitted[b][first + WindowDuration] - admitted[b][first] <= 3 * Limit + 1

(* The configuration says a failing answer increments the count.  While a   *)
(* request is weighed, every failure charged in the running window of the   *)
(* clock or the one before is still in one of the two maps.                 *)
NoFailureForgotten ==
  \A t \in Task, b \in Bucket :
    pc[t] = "checking" /\ window = CurrentWindow =>
      errors[b][window] + (IF window = 0 THEN 0 ELSE errors[b][window - 1])
        <= cur[b] + last[b]
=============================================================================
