---------------------------- MODULE MCAdminRecovery ----------------------------
(***************************************************************************)
(* Small instances of AdminRecovery and RecoveryThrottle for TLC.  The two *)
(* share no variable: the throttle only refuses attempts, which the        *)
(* account's module may drop anyway.  Each is explored while the other is  *)
(* at rest.                                                                *)
(***************************************************************************)
EXTENDS AdminRecovery, RecoveryThrottle, TLC

BothInit == Init /\ ThrottleInit

SideBySide ==
  /\ BothInit
  /\ [][\/ ThrottleInit /\ Next /\ UNCHANGED throttleVars
        \/ Init /\ ThrottleNext /\ UNCHANGED vars]_<<vars, throttleVars>>

RowSymmetry == Permutations(Grants) \cup Permutations(Passkeys) \cup Permutations(Ceremonies) \cup Permutations(Ops)
===============================================================================
