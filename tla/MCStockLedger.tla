---------------------------- MODULE MCStockLedger ----------------------------
(* Small instances of StockLedger for TLC.                                 *)
EXTENDS StockLedger, TLC

CONSTANTS s1, s2, c1, c2, c3

\* One branch with one cashier.
OneCashier == c1 :> s1

\* Two branches that carry the same products; c2 waits for approval at s1.
TwoShopCashiers == c1 :> s1 @@ c2 :> s1 @@ c3 :> s2

TxSymmetry == Permutations(Txs)
=============================================================================
