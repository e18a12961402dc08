------------------------ MODULE MCOnboardingScenarios ------------------------
(***************************************************************************)
(* CashierOnboarding with every kind of request at two branches is too     *)
(* large for TLC: every state reached is one of two scenarios.             *)
(***************************************************************************)
EXTENDS MCCashierOnboarding

CONSTANT s2

\* Every kind of request while nobody applies for the second branch.
OneBranch == \A r \in Reqs : job[r].shop # s2

\* Applications for both branches while no code is revoked or expires.
TwoBranches ==
  /\ \A r \in Reqs : job[r].kind \notin {"expire", "revoke"}
  /\ \A k \in Codes : ~code[k].expired

\* The steps TLC takes: which requests arrive is restricted, never a request
\* under way.
Scenarios == OneBranch' \/ TwoBranches'
===============================================================================
