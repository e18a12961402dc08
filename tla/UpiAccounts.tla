----------------------------- MODULE UpiAccounts -----------------------------
(***************************************************************************)
(* The UPI accounts of one admin (routes/admin/upi.ts) and the receiver    *)
(* that a branch's payments go to (lib/upi.ts).  A save is an upsert of    *)
(* the ORM: it looks for the row and then creates or updates it, and a     *)
(* creation that finds the key taken is tried once more from the start.    *)
(*                                                                         *)
(* Whose branch it is has been settled before (Catalog); an account is one *)
(* value for its id and payee name, typed cleanly, untidily or not at all. *)
(***************************************************************************)
EXTENDS Naturals

CONSTANTS
  Shops,       \* the branches of the admin
  Accounts,    \* normalised accounts
  Handlers, NoAccount

ASSUME UpiAssumption ==
  /\ NoAccount \notin Shops \cup Accounts \cup [account : Accounts, enabled : BOOLEAN]
  /\ "common" \notin Shops

VARIABLES
  common,         \* upi_common_accounts
  shopRow,        \* upi_shop_accounts
  saver,          \* the handlers
  lastCommon, lastMode, lastCustom,   \* history: the last saves of each kind
  failed          \* history: saves answered with an error of the database

upiVars == <<common, shopRow, saver, lastCommon, lastMode, lastCustom, failed>>

NoShopRow == [exists |-> FALSE, mode |-> "COMMON", custom |-> NoAccount, customEnabled |-> FALSE]
AtRest == [pc |-> "idle", target |-> NoAccount, mode |-> "COMMON", account |-> NoAccount, enabled |-> FALSE, found |-> FALSE, attempt |-> 1]

UpiInit ==
  /\ common = NoAccount
  /\ shopRow = [s \in Shops |-> NoShopRow]
  /\ saver = [h \in Handlers |-> AtRest]
  /\ lastCommon = NoAccount
  /\ lastMode = [s \in Shops |-> "COMMON"]
  /\ lastCustom = [s \in Shops |-> NoAccount]
  /\ failed = 0

Serve(h, new) == saver' = [saver EXCEPT ![h] = new]
RowExists(target) == IF target = "common" THEN common # NoAccount ELSE shopRow[target].exists

\* What the form may hold.
Inputs == [of : Accounts, form : {"clean", "untidy", "malformed"}]

\* validateUpiId(), validatePayeeName(), normalizeUpiId(), normalizePayeeName():
\* NoAccount stands for the 422 of checkAccount().
CheckAccount(input) == IF input.form = "malformed" THEN NoAccount ELSE input.of

-----------------------------------------------------------------------------
(* Saving.                                                                 *)

\* PUT /admin/upi/common
SaveCommon(h, input, enabled) ==
  /\ saver[h] = AtRest /\ CheckAccount(input) # NoAccount
  /\ Serve(h, [AtRest EXCEPT !.pc = "find", !.target = "common", !.account = CheckAccount(input), !.enabled = enabled])
  /\ UNCHANGED <<common, shopRow, lastCommon, lastMode, lastCustom, failed>>

\* PUT /admin/upi/shops/:shopId with a custom account ...
SaveCustom(h, s, input, enabled) ==
  /\ saver[h] = AtRest /\ CheckAccount(input) # NoAccount
  /\ Serve(h, [AtRest EXCEPT !.pc = "find", !.target = s, !.mode = "CUSTOM", !.account = CheckAccount(input), !.enabled = enabled])
  /\ UNCHANGED <<common, shopRow, lastCommon, lastMode, lastCustom, failed>>

\* ... and with mode COMMON, which carries no account.
UseCommon(h, s) ==
  /\ saver[h] = AtRest
  /\ Serve(h, [AtRest EXCEPT !.pc = "find", !.target = s])
  /\ UNCHANGED <<common, shopRow, lastCommon, lastMode, lastCustom, failed>>

\* The upsert looks for the row.
FindRow(h) ==
  /\ saver[h].pc = "find"
  /\ Serve(h, [saver[h] EXCEPT !.pc = "write", !.found = RowExists(saver[h].target)])
  /\ UNCHANGED <<common, shopRow, lastCommon, lastMode, lastCustom, failed>>

\* mutant: a conflict is an error at once
OneAttempt == 1

\* withUpsertRetry()
MaxAttempts == 2

\* The row after an update or a creation: mode COMMON leaves the details.
SavedShopRow(h, s) ==
  IF saver[h].mode = "COMMON" THEN [shopRow[s] EXCEPT !.exists = TRUE, !.mode = "COMMON"]
  ELSE [exists |-> TRUE, mode |-> "CUSTOM", custom |-> saver[h].account, customEnabled |-> saver[h].enabled]

\* It writes what it came to write; a row that has appeared since raises P2002.
WriteRow(h) ==
  /\ saver[h].pc = "write" /\ (RowExists(saver[h].target) => saver[h].found)
  /\ LET t == saver[h].target
         details == [account |-> saver[h].account, enabled |-> saver[h].enabled]
     IN IF t = "common"
        THEN common' = details /\ lastCommon' = details /\ UNCHANGED <<shopRow, lastMode, lastCustom>>
        ELSE /\ shopRow' = [shopRow EXCEPT ![t] = SavedShopRow(h, t)]
             /\ lastMode' = [lastMode EXCEPT ![t] = saver[h].mode]
             /\ lastCustom' = IF saver[h].mode = "CUSTOM" THEN [lastCustom EXCEPT ![t] = details] ELSE lastCustom
             /\ UNCHANGED <<common, lastCommon>>
  /\ Serve(h, AtRest)
  /\ UNCHANGED failed

Conflict(h) ==
  /\ saver[h].pc = "write" /\ RowExists(saver[h].target) /\ ~saver[h].found
  /\ IF saver[h].attempt < MaxAttempts
     THEN Serve(h, [saver[h] EXCEPT !.pc = "find", !.attempt = @ + 1]) /\ UNCHANGED failed
     ELSE Serve(h, AtRest) /\ failed' = failed + 1
  /\ UNCHANGED <<common, shopRow, lastCommon, lastMode, lastCustom>>

UpiNext ==
  \E h \in Handlers :
    \/ \E input \in Inputs, enabled \in BOOLEAN :
         SaveCommon(h, input, enabled) \/ \E s \in Shops : SaveCustom(h, s, input, enabled)
    \/ \E s \in Shops : UseCommon(h, s)
    \/ FindRow(h) \/ WriteRow(h) \/ Conflict(h)

UpiSpec == UpiInit /\ [][UpiNext]_upiVars

-----------------------------------------------------------------------------
(* The receiver.                                                           *)

\* The custom account of a row that selects and enables it.
CustomChosen(s) == shopRow[s].exists /\ shopRow[s].mode = "CUSTOM" /\ shopRow[s].customEnabled

\* resolveEffectiveReceiver(), what toBranchView() shows
resolveEffectiveReceiver(s) ==
  IF CustomChosen(s) /\ shopRow[s].custom # NoAccount THEN shopRow[s].custom
  ELSE IF common # NoAccount /\ common.enabled THEN common.account ELSE NoAccount

-----------------------------------------------------------------------------
(* Properties.                                                             *)

\* Where the money should go by the saves that were answered: the custom
\* account if the last choice for the branch was a custom one and enabled,
\* else the common account if it is enabled, else nowhere.
Intended(s) ==
  CASE lastMode[s] = "CUSTOM" /\ lastCustom[s].enabled -> lastCustom[s].account
    [] lastCommon # NoAccount /\ lastCommon.enabled /\ (lastMode[s] = "CUSTOM" => ~lastCustom[s].enabled) -> lastCommon.account
    [] OTHER -> NoAccount

\* Custom details outlive the choice of the common account.
DetailsKept(s) == lastCustom[s] # NoAccount => shopRow[s].custom = lastCustom[s].account

\* No save fails because another first save overtook it, the receiver of a
\* branch is the one intended by the last saves, and the details of a custom
\* account stay, dormant, while the common one is used.
SavesTakeEffect == failed = 0 /\ \A s \in Shops : resolveEffectiveReceiver(s) = Intended(s) /\ DetailsKept(s)
===============================================================================
