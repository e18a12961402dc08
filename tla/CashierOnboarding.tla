-------------------------- MODULE CashierOnboarding --------------------------
(***************************************************************************)
(* How a cashier joins a branch: invitation codes                          *)
(* (routes/admin/invitationCodes.ts), signup with a code (routes/auth.ts), *)
(* approval and rejection (routes/admin/cashierRequests.ts), suspension    *)
(* and activation (routes/admin/cashiers.ts), and the one-cashier-per-     *)
(* branch slot (lib/branchCashier.ts), for the codes of one admin.         *)
(*                                                                         *)
(* A request first reads what it needs (its Begin action), then makes one  *)
(* step per statement that waits for a lock; what it read may be stale by  *)
(* then.  The stock side of an approval is in StockLedger.                 *)
(***************************************************************************)
EXTENDS Integers, FiniteSets

CONSTANTS
  Cashiers, Shops, Codes,
  Legacy, LegacyShop,  \* suspended cashiers who never used a code, their branch
  Reqs,                \* concurrent requests
  Workload,            \* the kinds of request made
  None

Kinds == {"generate", "expire", "revoke", "signup", "approve", "reject", "activate", "suspend"}

ASSUME OnboardingAssumption ==
  /\ Legacy \subseteq Cashiers /\ LegacyShop \in Shops
  /\ Workload \subseteq Kinds
  /\ None \notin Cashiers \cup Shops \cup Codes \cup Reqs

VARIABLES
  code,      \* invitation_codes
  user,      \* users with role CASHIER
  tokens,    \* codes for which a verification token was issued
  codeLock,  \* row locks of invitation_codes
  slotLock,  \* pg_advisory_xact_lock of a branch
  pc, job,
  signups,   \* history: successful signups per code
  strayed    \* history: cashiers opened by a decision that held the slot of a branch they had left

vars == <<code, user, tokens, codeLock, slotLock, pc, job, signups, strayed>>

NoCode == [status |-> "none", expired |-> FALSE, usedBy |-> None]
NoJob == [kind |-> "none", cashier |-> None, code |-> None, shop |-> None, known |-> FALSE, codes |-> {}]

Init ==
  /\ code = [k \in Codes |-> NoCode]
  /\ user = [c \in Cashiers |-> IF c \in Legacy THEN [status |-> "SUSPENDED", shop |-> LegacyShop]
                                ELSE [status |-> "none", shop |-> None]]
  /\ tokens = {}
  /\ codeLock = [k \in Codes |-> None]
  /\ slotLock = [s \in Shops |-> None]
  /\ pc = [r \in Reqs |-> "idle"]
  /\ job = [r \in Reqs |-> NoJob]
  /\ signups = [k \in Codes |-> 0]
  /\ strayed = {}

-----------------------------------------------------------------------------
(* Requests and what they read first.                                      *)

Begin(r, j, firstPc) ==
  /\ pc[r] = "idle"
  /\ j.kind \in Workload
  /\ pc' = [pc EXCEPT ![r] = firstPc]
  /\ job' = [job EXCEPT ![r] = j]
  /\ UNCHANGED <<code, user, tokens, codeLock, slotLock, signups, strayed>>

\* The updateMany of POST /admin/invitation-codes finds the admin's ACTIVE
\* codes of this moment; it will wait for those that are locked.
BeginGenerate(r) ==
  \* bound: a code is left for every generation under way
  /\ Cardinality({k \in Codes : code[k] = NoCode}) > Cardinality({q \in Reqs : job[q].kind = "generate"})
  /\ Begin(r, [NoJob EXCEPT !.kind = "generate", !.codes = {k \in Codes : code[k].status = "ACTIVE"}], "revokeAll")

\* GET .../active and verify-invitation find an ACTIVE code past its expiry.
BeginExpire(r, k) ==
  /\ code[k].status = "ACTIVE" /\ code[k].expired
  /\ Begin(r, [NoJob EXCEPT !.kind = "expire", !.code = k], "setCode")

BeginRevoke(r, k) ==
  /\ code[k].status = "ACTIVE"
  /\ Begin(r, [NoJob EXCEPT !.kind = "revoke", !.code = k], "setCode")

\* POST /auth/signup: the token names the code; ACTIVE and PENDING accounts
\* are refused, REJECTED and SUSPENDED ones re-apply on the same row.
BeginSignup(r, c, k, s) ==
  /\ k \in tokens
  /\ user[c].status \in {"none", "REJECTED", "SUSPENDED"}
  /\ Begin(r, [kind |-> "signup", cashier |-> c, code |-> k, shop |-> s,
               known |-> user[c].status # "none", codes |-> {}], "claim")

\* The admin's requests on one cashier: allowed status, then the branch as
\* it is now; approval and activation go through the branch's slot.
BeginDecision(r, c, kind) ==
  /\ user[c].status \in (IF kind \in {"approve", "reject"} THEN {"PENDING"} ELSE {"ACTIVE", "SUSPENDED"})
  /\ Begin(r, [NoJob EXCEPT !.kind = kind, !.cashier = c, !.shop = user[c].shop, !.known = TRUE],
           IF kind \in {"approve", "activate"} THEN "slot" ELSE "write")

\* verify-invitation of a live code signs a token.
VerifyInvitation(k) ==
  /\ code[k].status = "ACTIVE" /\ ~code[k].expired
  /\ k \notin tokens
  /\ tokens' = tokens \cup {k}
  /\ UNCHANGED <<code, user, codeLock, slotLock, pc, job, signups, strayed>>

\* The clock passes expiresAt.
Expire(k) ==
  /\ "expire" \in Workload
  /\ code[k].status # "none" /\ ~code[k].expired
  /\ code' = [code EXCEPT ![k].expired = TRUE]
  /\ UNCHANGED <<user, tokens, codeLock, slotLock, pc, job, signups, strayed>>

-----------------------------------------------------------------------------
(* Statements.                                                             *)

Free(lock, r) == lock \in {None, r}

\* mutant: the branch's lock survives the request
EndKeepingSlot(r) ==
  /\ pc' = [pc EXCEPT ![r] = "idle"]
  /\ job' = [job EXCEPT ![r] = NoJob]
  /\ codeLock' = [k \in Codes |-> IF codeLock[k] = r THEN None ELSE codeLock[k]]
  /\ UNCHANGED slotLock

\* The transaction ends, by COMMIT or by ROLLBACK, and its locks go.
End(r) ==
  /\ pc' = [pc EXCEPT ![r] = "idle"]
  /\ job' = [job EXCEPT ![r] = NoJob]
  /\ codeLock' = [k \in Codes |-> IF codeLock[k] = r THEN None ELSE codeLock[k]]
  /\ slotLock' = [s \in Shops |-> IF slotLock[s] = r THEN None ELSE slotLock[s]]

Rollback(r) == End(r) /\ UNCHANGED <<code, user, tokens, signups, strayed>>

\* Every row found is waited for and tested again.
RevokeAll(r) ==
  /\ pc[r] = "revokeAll"
  /\ \A k \in job[r].codes : Free(codeLock[k], r)
  /\ LET live == {k \in job[r].codes : code[k].status = "ACTIVE"}
     IN  /\ codeLock' = [k \in Codes |-> IF k \in live THEN r ELSE codeLock[k]]
         /\ job' = [job EXCEPT ![r].codes = live]
  /\ pc' = [pc EXCEPT ![r] = "create"]
  /\ UNCHANGED <<code, user, tokens, slotLock, signups, strayed>>

CreateCode(r, k) ==
  /\ pc[r] = "create"
  /\ code[k] = NoCode
  /\ code' = [c \in Codes |-> IF c = k THEN [NoCode EXCEPT !.status = "ACTIVE"]
                              ELSE IF c \in job[r].codes THEN [code[c] EXCEPT !.status = "REVOKED"]
                              ELSE code[c]]
  /\ End(r)
  /\ UNCHANGED <<user, tokens, signups, strayed>>

\* UPDATE by id, whatever the status is by now.
SetCode(r) ==
  /\ pc[r] = "setCode"
  /\ Free(codeLock[job[r].code], r)
  /\ code' = [code EXCEPT ![job[r].code].status = IF job[r].kind = "revoke" THEN "REVOKED" ELSE "EXPIRED"]
  /\ End(r)
  /\ UNCHANGED <<user, tokens, signups, strayed>>

\* mutant: the claim does not test the status
ClaimUnexpired(r) == ~code[job[r].code].expired

\* UPDATE ... SET USED WHERE ACTIVE and unexpired
Claimable(r) == code[job[r].code].status = "ACTIVE" /\ ~code[job[r].code].expired

ClaimCode(r) ==
  /\ pc[r] = "claim"
  /\ Free(codeLock[job[r].code], r)
  /\ \/ /\ Claimable(r)
        /\ codeLock' = [codeLock EXCEPT ![job[r].code] = r]
        /\ pc' = [pc EXCEPT ![r] = "slot"]
        /\ UNCHANGED <<code, user, tokens, slotLock, job, signups, strayed>>
     \/ ~Claimable(r) /\ Rollback(r)

OpenStatuses == {"ACTIVE", "PENDING"}

\* mutant: only an ACTIVE cashier occupies the slot
NoActiveCashier(r) ==
  \A d \in Cashiers : user[d].shop = job[r].shop /\ user[d].status = "ACTIVE" => d = job[r].cashier /\ job[r].known

\* assertBranchCashierSlotFree(), the account itself excluded if it was known
BranchCashierSlotFree(r) ==
  \A d \in Cashiers :
    user[d].shop = job[r].shop /\ user[d].status \in OpenStatuses => d = job[r].cashier /\ job[r].known

\* lockBranchCashierSlot(), then the assertion
LockBranchCashierSlot(r) ==
  /\ pc[r] = "slot"
  /\ Free(slotLock[job[r].shop], r)
  /\ \/ /\ BranchCashierSlotFree(r)
        /\ slotLock' = [slotLock EXCEPT ![job[r].shop] = r]
        /\ pc' = [pc EXCEPT ![r] = "write"]
        /\ UNCHANGED <<code, user, tokens, codeLock, job, signups, strayed>>
     \/ ~BranchCashierSlotFree(r) /\ Rollback(r)

\* P2002: the email exists by now, or the account is usedByUserId of
\* another code.
UniqueViolation(r) ==
  \/ ~job[r].known /\ user[job[r].cashier].status # "none"
  \/ \E k \in Codes \ {job[r].code} : code[k].usedBy = job[r].cashier

\* The end of a signup: the user row, usedByUserId, COMMIT.
WriteSignup(r) ==
  /\ pc[r] = "write" /\ job[r].kind = "signup"
  /\ \/ /\ ~UniqueViolation(r)
        /\ user' = [user EXCEPT ![job[r].cashier] = [status |-> "PENDING", shop |-> job[r].shop]]
        /\ code' = [code EXCEPT ![job[r].code].status = "USED", ![job[r].code].usedBy = job[r].cashier]
        /\ signups' = [signups EXCEPT ![job[r].code] = @ + 1]
        /\ strayed' = strayed \ {job[r].cashier}
        /\ End(r)
        /\ UNCHANGED tokens
     \/ UniqueViolation(r) /\ Rollback(r)

\* mutant: a status the enumeration does not have
DecidedInactive(kind) == IF kind \in {"approve", "activate"} THEN "ACTIVE" ELSE "INACTIVE"

Decided(kind) ==
  CASE kind \in {"approve", "activate"} -> "ACTIVE" [] kind = "reject" -> "REJECTED" [] OTHER -> "SUSPENDED"

\* The end of an admin's decision: UPDATE of the status by id, COMMIT.
WriteDecision(r) ==
  /\ pc[r] = "write" /\ job[r].kind # "signup"
  /\ user' = [user EXCEPT ![job[r].cashier].status = Decided(job[r].kind)]
  /\ strayed' = IF job[r].kind \in {"approve", "activate"} /\ job[r].shop # user[job[r].cashier].shop
                THEN strayed \cup {job[r].cashier} ELSE strayed \ {job[r].cashier}
  /\ End(r)
  /\ UNCHANGED <<code, tokens, signups>>

\* A timeout, a lost connection or a crash.
Fail(r) == pc[r] # "idle" /\ Rollback(r)

-----------------------------------------------------------------------------
Request(r) ==
  \/ BeginGenerate(r)
  \/ \E k \in Codes : BeginExpire(r, k) \/ BeginRevoke(r, k)
  \/ \E c \in Cashiers, k \in Codes, s \in Shops : BeginSignup(r, c, k, s)
  \/ \E c \in Cashiers, kind \in {"approve", "reject", "activate", "suspend"} : BeginDecision(r, c, kind)

Step(r) ==
  \/ RevokeAll(r) \/ (\E k \in Codes : CreateCode(r, k)) \/ SetCode(r)
  \/ ClaimCode(r) \/ LockBranchCashierSlot(r) \/ WriteSignup(r) \/ WriteDecision(r)

Next ==
  \/ \E r \in Reqs : Request(r) \/ Step(r) \/ Fail(r)
  \/ \E k \in Codes : VerifyInvitation(k) \/ Expire(k)

Spec == Init /\ [][Next]_vars

\* The database serves the waiters of a lock in turn and handlers run to
\* their answer; nobody has to send a request or to lose one.
LiveSpec == Spec /\ \A r \in Reqs : SF_vars(Step(r))

-----------------------------------------------------------------------------
(* Properties.                                                             *)

\* The type invariant.
TypeOK ==
  /\ code \in [Codes -> [status : {"none", "ACTIVE", "USED", "REVOKED", "EXPIRED"}, expired : BOOLEAN,
                         usedBy : Cashiers \cup {None}]]
  /\ user \in [Cashiers -> [status : {"none", "PENDING", "ACTIVE", "REJECTED", "SUSPENDED"},
                            shop : Shops \cup {None}]]
  /\ tokens \subseteq Codes
  /\ codeLock \in [Codes -> Reqs \cup {None}] /\ slotLock \in [Shops -> Reqs \cup {None}]
  /\ pc \in [Reqs -> {"idle", "revokeAll", "create", "setCode", "claim", "slot", "write"}]
  /\ job \in [Reqs -> [kind : Kinds \cup {"none"}, cashier : Cashiers \cup {None}, code : Codes \cup {None},
                       shop : Shops \cup {None}, known : BOOLEAN, codes : SUBSET Codes]]
  /\ signups \in [Codes -> Nat] /\ strayed \subseteq Cashiers

CodeState(k) ==
  IF code[k].usedBy # None THEN "spent"
  ELSE [none |-> "none", ACTIVE |-> "live", REVOKED |-> "dead", EXPIRED |-> "dead", USED |-> "spent"][code[k].status]

Invitation == INSTANCE OneTimeSecret
                WITH Secrets <- Codes, state <- [k \in Codes |-> CodeState(k)], bought <- signups

\* An invitation code is a one-time secret: "the invitation code can only
\* ever produce ONE successful cashier signup", in the step that uses it up,
\* whatever requests race for it, and no late revocation or expiry, which
\* write by id, revives a code or frees a used one.
CodeIsOneTime == Invitation!Spec

Colleagues(c, d) ==
  c # d /\ user[c].shop = user[d].shop /\ user[c].status \in OpenStatuses /\ user[d].status \in OpenStatuses

\* "Exactly ONE Cashier per branch" (lib/branchCashier.ts), in the words of
\* PATCH /admin/cashiers/:id/status: "re-activating a suspended Cashier must
\* not create a second Cashier at the branch".
OneCashierPerBranch == \A c, d \in Cashiers : ~Colleagues(c, d)

\* What of that the slot's lock keeps, with any number of branches: of two
\* ACTIVE or PENDING cashiers of one branch, one was opened by a decision that
\* had read his branch before he re-applied for this one.  Everybody else was
\* let in while the branch had no other cashier but such a one, although
\* signups, approvals and activations act on statuses read earlier.
OneCashierUnlessStrayed == \A c, d \in Cashiers : Colleagues(c, d) => c \in strayed \/ d \in strayed

\* Every request ends: the slot's lock and the codes' locks are never kept
\* and never waited for in a ring.
RequestsEnd == \A r \in Reqs : pc[r] # "idle" ~> pc[r] = "idle"

\* "REJECTED / SUSPENDED: fall through and let them re-apply below, reusing
\* the same user row" (POST /auth/signup): an application that has claimed a
\* live code and won a free branch for a known account can be written.
ReapplyCanSucceed ==
  \A r \in Reqs : pc[r] = "write" /\ job[r].kind = "signup" /\ job[r].known => ~UniqueViolation(r)
===============================================================================
