------------------------------ MODULE MCCatalog ------------------------------
(***************************************************************************)
(* Small instances of Catalog and UpiAccounts for TLC.  They share no      *)
(* variable; each is explored while the other is at rest.                  *)
(***************************************************************************)
EXTENDS Catalog, UpiAccounts, TLC

BothInit == Init /\ UpiInit

SideBySide ==
  /\ BothInit
  /\ [][\/ UpiInit /\ Next /\ UNCHANGED upiVars
        \/ Init /\ UpiNext /\ UNCHANGED vars]_<<vars, upiVars>>

RowSymmetry == Permutations(Ops)
===============================================================================
