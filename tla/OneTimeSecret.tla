---------------------------- MODULE OneTimeSecret ----------------------------
(***************************************************************************)
(* What every one-time secret of the system promises, whatever its table:  *)
(* an invitation code (routes/auth.ts), the recovery code of a cashier's   *)
(* request (lib/cashierRecovery.ts), the emergency codes and grants of an  *)
(* admin (lib/recoveryCodes.ts, lib/recoveryGrant.ts).  A secret is issued *)
(* once, redeemed at most once, only while it lives, and what it buys      *)
(* happens in the step that spends it.  A spent or a dead secret never     *)
(* comes back.                                                             *)
(***************************************************************************)
EXTENDS Naturals

CONSTANT Secrets

VARIABLES
  state,     \* "none" | "live" | "spent" | "dead"
  bought     \* how often the secret has had its effect

secretVars == <<state, bought>>

States == {"none", "live", "spent", "dead"}

Init ==
  /\ state = [s \in Secrets |-> "none"]
  /\ bought = [s \in Secrets |-> 0]

\* Some secrets are issued and others revoked, replaced, refused or expired.
Turnover ==
  /\ state' \in [Secrets -> States]
  /\ \A s \in Secrets : \/ state'[s] = state[s]
                        \/ state[s] = "none" /\ state'[s] \in {"live", "dead"}
                        \/ state[s] = "live" /\ state'[s] = "dead"
  /\ UNCHANGED bought

\* One secret is redeemed; it may buy another one, and others of its owner
\* may die with it.
Redeem(s) ==
  /\ state[s] = "live"
  /\ bought' = [bought EXCEPT ![s] = @ + 1]
  /\ state' \in [Secrets -> States]
  /\ state'[s] = "spent"
  /\ \A t \in Secrets \ {s} : \/ state'[t] = state[t]
                              \/ state[t] = "none" /\ state'[t] = "live"
                              \/ state[t] = "live" /\ state'[t] = "dead"

Next == Turnover \/ \E s \in Secrets : Redeem(s)

Spec == Init /\ [][Next]_secretVars
===============================================================================
