--------------------------- MODULE RecoveryThrottle ---------------------------
(***************************************************************************)
(* The throttle of the recovery endpoints (lib/recoveryThrottle.ts): a     *)
(* function of the failed verifications in the ledger and the clock,       *)
(* consulted before a verification and fed after it (enforceThrottle() and *)
(* its callers in lib/adminRecovery.ts).  The re-authentication of the     *)
(* security settings (lib/recentAuth.ts) uses the account half of it.      *)
(*                                                                         *)
(* One account and one address are watched.  An attempt is at both, at the *)
(* account from an address of its own ("elsewhere"), or at another account *)
(* from the address ("neighbour").  A ledger is the sequence of the        *)
(* instants of its failures; a tick is a fraction of a second.             *)
(***************************************************************************)
EXTENDS Integers, Sequences, FiniteSetsExt

CONSTANTS
  Free, Window, Base, MaxDelay,   \* RECOVERY_THROTTLE.account
  IpMax, IpWindow,                \* RECOVERY_THROTTLE.ip
  Second,                         \* ticks of a second
  Horizon,                        \* bound: the last instant
  Overlap                         \* bound: handlers between check and record

ASSUME ThrottleAssumption ==
  /\ {Free, Window, Base, MaxDelay, IpMax, IpWindow, Second, Horizon, Overlap} \subseteq Nat \ {0}
  /\ Base < Window /\ Window <= MaxDelay   \* 30 seconds; both are 15 minutes

VARIABLES
  now,
  account, ip,    \* the failures of admin_recovery_audit with this subjectHash, with this ip
  checked         \* handlers of each kind that have passed the check

throttleVars == <<now, account, ip, checked>>

OfAccount == {"both", "elsewhere"}
OfAddress == {"both", "neighbour"}
Kinds == OfAccount \cup OfAddress

ThrottleInit ==
  /\ now = 0
  /\ account = <<>> /\ ip = <<>>
  /\ checked = [k \in Kinds |-> 0]

-----------------------------------------------------------------------------
(* The decision.                                                           *)

ALLOWED == [blocked |-> FALSE, retryAfter |-> 0]

Least(a, b) == IF a <= b THEN a ELSE b

\* Rounded up to seconds.
BlockedFor(remaining) ==
  IF remaining > 0 THEN [blocked |-> TRUE, retryAfter |-> (remaining + Second - 1) \div Second] ELSE ALLOWED

\* mutant: the delay does not grow
ConstantDelay(failures) == Base

\* The base delay doubled e times; the exponent is capped at 20.
Doubled[e \in 0..20] == IF e = 0 THEN Base ELSE 2 * Doubled[e - 1]

\* The cap on the exponent is no cap on the delay.
ASSUME ExponentAssumption == Doubled[20] >= Window

\* The delay after that many failures.
DelayAfter(failures) == Least(Doubled[Least(failures - Free, 20)], MaxDelay)

accountThrottleDecision(failures, last, at) ==
  IF failures < Free THEN ALLOWED
  ELSE LET delay == DelayAfter(failures) IN BlockedFor(Least(last + delay - at, delay))

ipThrottleDecision(failures, releasing, at) ==
  IF failures < IpMax THEN ALLOWED ELSE BlockedFor(Least(releasing + IpWindow - at, IpWindow))

\* The one that lasts longer.
combineThrottleDecisions(a, b) == IF a.blocked /\ (b.blocked => a.retryAfter >= b.retryAfter) THEN a ELSE b

\* createdAt >= at - window: the places of these failures in the ledger.
Within(ledger, window, at) == {n \in 1..Len(ledger) : ledger[n] >= at - window}

\* aggregate(): how many failures the window holds and the latest of them.
accountDecision(at) ==
  LET recent == Within(account, Window, at)
      last == IF recent = {} THEN 0 ELSE account[Max(recent)]
  IN accountThrottleDecision(Cardinality(recent), last, at)

\* mutant: the oldest failure of the window is taken for the releasing one
Oldest(recent) == ip[Min(recent)]

\* Ordered by createdAt, skip count - maxFailures, take 1.
Releasing(recent) == ip[Max(recent) - IpMax + 1]

ipDecision(at) ==
  LET recent == Within(ip, IpWindow, at)
      count == Cardinality(recent)
  IN ipThrottleDecision(count, IF count >= IpMax THEN Releasing(recent) ELSE 0, at)

\* What an attempt of this kind is told; an address or an account that is not
\* watched does not block.
checkRecoveryThrottle(kind, at) ==
  combineThrottleDecisions(IF kind \in OfAccount THEN accountDecision(at) ELSE ALLOWED,
                           IF kind \in OfAddress THEN ipDecision(at) ELSE ALLOWED)

-----------------------------------------------------------------------------
(* The handlers.                                                           *)

\* enforceThrottle(): a blocked attempt ends here; its ATTEMPT_THROTTLED row
\* is none of those the ledger counts.
EnforceThrottle(kind) ==
  /\ checked["both"] + checked["elsewhere"] + checked["neighbour"] < Overlap
  /\ ~checkRecoveryThrottle(kind, now).blocked
  /\ checked' = [checked EXCEPT ![kind] = @ + 1]
  /\ UNCHANGED <<now, account, ip>>

\* The verification succeeds, or the process ends before it is recorded.
NotRecorded(kind) ==
  /\ checked[kind] > 0
  /\ checked' = [checked EXCEPT ![kind] = @ - 1]
  /\ UNCHANGED <<now, account, ip>>

\* It fails: recordFailedCodeVerification(), recordFailedPasskeyVerification().
\* Both kinds of event share the ledger.
RecordFailure(kind) ==
  /\ checked[kind] > 0
  /\ checked' = [checked EXCEPT ![kind] = @ - 1]
  /\ account' = IF kind \in OfAccount THEN Append(account, now) ELSE account
  /\ ip' = IF kind \in OfAddress THEN Append(ip, now) ELSE ip
  /\ UNCHANGED now

Tick ==
  /\ now < Horizon
  /\ now' = now + 1
  /\ UNCHANGED <<account, ip, checked>>

ThrottleNext == Tick \/ \E k \in Kinds : EnforceThrottle(k) \/ NotRecorded(k) \/ RecordFailure(k)

ThrottleSpec == ThrottleInit /\ [][ThrottleNext]_throttleVars

-----------------------------------------------------------------------------
(* Properties.                                                             *)

\* The doublings of the base delay that keep it shorter than a window.
Doublings == CHOOSE e \in 0..19 : Doubled[e] < Window /\ Doubled[e + 1] >= Window

\* However attempts are timed and from however many addresses, less than a
\* window's time sees at most the free failures, one for each doubling of the
\* delay that fits in it, and one for each handler that may have passed the
\* check before the failures of the others were recorded.
AttemptBudget == Cardinality(Within(account, Window - 1, now)) <= Free + Doublings + Overlap

\* No lockout: whoever is refused, waits for the announced time and fails no
\* more meanwhile, is let in by both scopes.
WaitingSuffices ==
  \A k \in Kinds :
    LET decision == checkRecoveryThrottle(k, now)
    IN decision.blocked => ~checkRecoveryThrottle(k, now + Second * decision.retryAfter).blocked
===============================================================================
