---------------------------- MODULE MCCreditLedger ----------------------------
(* Small instances of CreditLedger for TLC.                                *)
EXTENDS CreditLedger, TLC

TxSymmetry == Permutations(Txs)
===============================================================================
