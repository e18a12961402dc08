-------------------------- MODULE MCStockScenarios ---------------------------
(***************************************************************************)
(* StockLedger with every kind of transaction, of branch and of cashier at *)
(* once is too large for TLC: every state reached is one of two scenarios. *)
(***************************************************************************)
EXTENDS MCStockLedger

CONSTANT b2

\* Every kind of transaction at one branch whose cashier stays; manual
\* adjustments come one at a time and net to one unit each way.
OneBranch ==
  /\ \A t \in Txs : req[t].kind # "none" => req[t].shop = s1 /\ req[t].doc # b2
  /\ \A t, u \in Txs : t # u => ~({req[t].kind, req[u].kind} \subseteq {"add", "remove"})
  /\ \A t \in Txs, p \in Products :
       /\ req[t].kind = "add" => adjusted[<<s1, p>>] <= 0
       /\ req[t].kind = "remove" => adjusted[<<s1, p>>] >= 0
  /\ account[c1] = "active" /\ account[c2] = "none"
  /\ doc[b2] = NoDoc /\ \A d \in Docs : doc[d].shop # s2
  /\ \A p \in Products : catalog[<<s2, p>>] = "assigned"

\* Sales and cancellations at two branches while cashiers of the first come
\* and go.  The cutover and its rollback run in both scenarios.
TwoBranches ==
  /\ \A t \in Txs : req[t].kind \in {"none", "sale", "cancel"}
  /\ \A d \in Purchases : doc[d] = NoDoc
  /\ \A x \in Shops \X Products : catalog[x] = "assigned" /\ adjusted[x] = 0

\* The steps TLC takes: which requests arrive is restricted, never a transaction
\* under way.
Scenarios == account'[c3] = "active" /\ (OneBranch' \/ TwoBranches')
=============================================================================
