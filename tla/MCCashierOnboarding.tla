------------------------- MODULE MCCashierOnboarding -------------------------
(* Small instances of CashierOnboarding for TLC.                           *)
EXTENDS CashierOnboarding, TLC

ReqSymmetry == Permutations(Reqs)
===============================================================================
