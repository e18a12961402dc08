--------------------------- MODULE MCCashierRecovery ---------------------------
(* Small instances of CashierRecovery for TLC.                             *)
EXTENDS CashierRecovery, TLC

RowSymmetry == Permutations(Requests) \cup Permutations(Sessions) \cup Permutations(Ops)
===============================================================================
