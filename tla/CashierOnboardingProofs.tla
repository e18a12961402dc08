----------------------- MODULE CashierOnboardingProofs -----------------------
(***************************************************************************)
(* Proofs about CashierOnboarding for any cashiers, branches, codes and    *)
(* concurrent requests.                                                    *)
(***************************************************************************)
EXTENDS CashierOnboarding, TLAPS

Stages == {"idle", "revokeAll", "create", "setCode", "claim", "slot", "write"}
JobType == [kind : Kinds \cup {"none"}, cashier : Cashiers \cup {None}, code : Codes \cup {None},
            shop : Shops \cup {None}, known : BOOLEAN, codes : SUBSET Codes]

CodeRow == [status : {"none", "ACTIVE", "USED", "REVOKED", "EXPIRED"}, expired : BOOLEAN, usedBy : Cashiers \cup {None}]
Account == [status : {"none", "PENDING", "ACTIVE", "REJECTED", "SUSPENDED"}, shop : Shops \cup {None}]

\* The kinds of request that write under a branch's slot, and those that decide
\* on a known cashier.
SlotKinds == {"signup", "approve", "activate"}
Decisions == {"approve", "reject", "activate", "suspend"}

\* The stage a request is in says what it carries.
StageOK(stage, j) ==
  /\ stage \in {"revokeAll", "create"} => j.kind = "generate"
  /\ stage = "setCode" => j.kind \in {"expire", "revoke"} /\ j.code \in Codes
  /\ stage = "claim" => j.kind = "signup"
  /\ stage = "slot" => j.kind \in SlotKinds
  /\ stage = "write" => j.kind \in SlotKinds \cup Decisions
  /\ j.kind = "signup" => j.code \in Codes
  /\ j.kind \in SlotKinds => j.shop \in Shops
  /\ j.kind \in SlotKinds \cup Decisions => j.cashier \in Cashiers

StagesOK == \A r \in Reqs : StageOK(pc[r], job[r])

\* A code that a request is about to replace or to use up is ACTIVE under the
\* request's lock; one it is about to close was issued.
Secured(r) ==
  /\ pc[r] = "create" => \A k \in job[r].codes : codeLock[k] = r /\ code[k].status = "ACTIVE"
  /\ pc[r] \in {"slot", "write"} /\ job[r].kind = "signup" =>
       codeLock[job[r].code] = r /\ code[job[r].code].status = "ACTIVE"
  /\ pc[r] = "setCode" => code[job[r].code].status # "none"

\* A used code names its account and an open one does not.
CodesOK ==
  /\ \A k \in Codes : /\ code[k].status \in {"none", "ACTIVE"} => code[k].usedBy = None
                      /\ code[k].status = "USED" => code[k].usedBy # None
  /\ \A r \in Reqs : Secured(r)

\* An account belongs to a branch, and a decision is about an account.
AccountsOK ==
  /\ \A c \in Cashiers : user[c].status # "none" => user[c].shop \in Shops
  /\ \A r \in Reqs : job[r].kind \in Decisions => user[job[r].cashier].status # "none"

OInv == TypeOK /\ StagesOK /\ CodesOK /\ AccountsOK

\* Whoever is about to open an account has the branch's slot, and shares the
\* branch with nobody but cashiers who strayed there.
HasSlot(r) ==
  pc[r] = "write" /\ job[r].kind \in SlotKinds =>
    /\ slotLock[job[r].shop] = r
    /\ \A d \in Cashiers : user[d].shop = job[r].shop /\ user[d].status \in OpenStatuses => d = job[r].cashier \/ d \in strayed
SlotsOK == (\A r \in Reqs : HasSlot(r)) /\ OneCashierUnlessStrayed

-----------------------------------------------------------------------------
(* Steps of a request.                                                     *)

LEMMA NoJobFacts == NoJob \in JobType /\ NoJob.kind = "none" /\ StageOK("idle", NoJob)
  BY DEF NoJob, JobType, StageOK, SlotKinds, Decisions

\* The end of a transaction frees the request's locks and nobody else's.
LEMMA EndFacts ==
  ASSUME TypeOK, NEW r \in Reqs, End(r)
  PROVE  /\ pc' \in [Reqs -> Stages] /\ job' \in [Reqs -> JobType]
         /\ codeLock' \in [Codes -> Reqs \cup {None}] /\ slotLock' \in [Shops -> Reqs \cup {None}]
         /\ pc'[r] = "idle" /\ job'[r] = NoJob
         /\ \A q \in Reqs \ {r} : /\ pc'[q] = pc[q] /\ job'[q] = job[q]
                                  /\ \A k \in Codes : codeLock[k] = q => codeLock'[k] = q
                                  /\ \A s \in Shops : slotLock[s] = q => slotLock'[s] = q
  <1>1. pc' \in [Reqs -> Stages] /\ pc'[r] = "idle" /\ \A q \in Reqs \ {r} : pc'[q] = pc[q]
    BY DEF TypeOK, End, Stages
  <1>2. job' \in [Reqs -> JobType] /\ job'[r] = NoJob /\ \A q \in Reqs \ {r} : job'[q] = job[q]
    BY NoJobFacts DEF TypeOK, End, JobType
  <1>3. /\ codeLock' \in [Codes -> Reqs \cup {None}]
        /\ \A q \in Reqs \ {r}, k \in Codes : codeLock[k] = q => codeLock'[k] = q
    BY DEF TypeOK, End
  <1>4. /\ slotLock' \in [Shops -> Reqs \cup {None}]
        /\ \A q \in Reqs \ {r}, s \in Shops : slotLock[s] = q => slotLock'[s] = q
    BY DEF TypeOK, End
  <1> QED BY <1>1, <1>2, <1>3, <1>4

\* The stages and jobs after a step of r, and after its end.
LEMMA OthersStages ==
  ASSUME StagesOK, NEW r \in Reqs, StageOK(pc'[r], job'[r]),
         \A q \in Reqs \ {r} : pc'[q] = pc[q] /\ job'[q] = job[q]
  PROVE  StagesOK'
  BY DEF StagesOK, StageOK

LEMMA EndStages ==
  ASSUME TypeOK, StagesOK, NEW r \in Reqs, End(r)
  PROVE  StagesOK'
  BY EndFacts, NoJobFacts, OthersStages

\* What the other requests have secured stays, if the codes they hold do.
LEMMA OthersSecured ==
  ASSUME OInv, NEW r \in Reqs, \A q \in Reqs \ {r} : pc'[q] = pc[q] /\ job'[q] = job[q],
         \A q \in Reqs \ {r}, k \in Codes : codeLock[k] = q /\ code[k].status = "ACTIVE" =>
           codeLock'[k] = q /\ code'[k].status = "ACTIVE",
         \A k \in Codes : code[k].status # "none" => code'[k].status # "none"
  PROVE  \A q \in Reqs \ {r} : Secured(q)'
  <1> SUFFICES ASSUME NEW q \in Reqs \ {r} PROVE Secured(q)'
    OBVIOUS
  <1>1. pc'[q] = pc[q] /\ job'[q] = job[q] /\ Secured(q) /\ StageOK(pc[q], job[q]) /\ job[q].codes \subseteq Codes
    BY DEF OInv, CodesOK, StagesOK, TypeOK
  <1>2. \A k \in Codes : codeLock[k] = q /\ code[k].status = "ACTIVE" => codeLock'[k] = q /\ code'[k].status = "ACTIVE"
    OBVIOUS
  <1>3. pc[q] = "create" => \A k \in job[q].codes : codeLock'[k] = q /\ code'[k].status = "ACTIVE"
    BY <1>1, <1>2 DEF Secured
  <1>4. pc[q] \in {"slot", "write"} /\ job[q].kind = "signup" =>
          codeLock'[job[q].code] = q /\ code'[job[q].code].status = "ACTIVE"
    BY <1>1, <1>2 DEF Secured, StageOK
  <1>5. pc[q] = "setCode" => code'[job[q].code].status # "none"
    BY <1>1 DEF Secured, StageOK
  <1> QED BY <1>1, <1>3, <1>4, <1>5 DEF Secured

\* A request that has ended decides nothing; accounts are never deleted.
LEMMA AccountsKept ==
  ASSUME AccountsOK, NEW r \in Reqs, StagesOK,
         \A q \in Reqs \ {r} : job'[q] = job[q],
         job'[r].kind \in Decisions => job'[r].cashier \in Cashiers /\ user'[job'[r].cashier].status # "none",
         \A c \in Cashiers : user[c].status # "none" => user'[c].status # "none",
         \A c \in Cashiers : user'[c].status # "none" => user'[c].shop \in Shops
  PROVE  AccountsOK'
  <1>1. ASSUME NEW q \in Reqs \ {r}, job[q].kind \in Decisions PROVE user'[job[q].cashier].status # "none"
    BY <1>1 DEF AccountsOK, StagesOK, StageOK
  <1> QED BY <1>1 DEF AccountsOK

LEMMA RollbackKeeps ==
  ASSUME OInv, NEW r \in Reqs, Rollback(r)
  PROVE  OInv'
  <1>1. End(r) /\ UNCHANGED <<code, user, tokens, signups, strayed>>
    BY DEF Rollback
  <1>2. TypeOK /\ StagesOK /\ AccountsOK
    BY DEF OInv
  <1>3. TypeOK'
    BY <1>1, <1>2, EndFacts DEF TypeOK, Stages, JobType
  <1>4. StagesOK'
    BY <1>1, <1>2, EndStages
  <1>5. \A q \in Reqs \ {r} : Secured(q)'
    BY <1>1, <1>2, EndFacts, OthersSecured
  <1>6. Secured(r)'
    BY <1>1, <1>2, EndFacts DEF Secured
  <1>7. CodesOK'
    BY <1>1, <1>5, <1>6 DEF OInv, CodesOK
  <1>8. AccountsOK'
    <2>1. job'[r].kind \notin Decisions
      BY <1>1, <1>2, EndFacts, NoJobFacts DEF Decisions
    <2>2. \A c \in Cashiers : user'[c].status # "none" => user'[c].shop \in Shops
      BY <1>1, <1>2 DEF AccountsOK
    <2> QED BY <1>1, <1>2, <2>1, <2>2, EndFacts, AccountsKept
  <1> QED BY <1>3, <1>4, <1>7, <1>8 DEF OInv

\* A request begins with what it has read.
LEMMA BeginKeeps ==
  ASSUME OInv, NEW r \in Reqs, NEW j \in JobType, NEW stage \in Stages, Begin(r, j, stage), StageOK(stage, j),
         stage # "create", stage \in {"slot", "write"} => j.kind # "signup",
         stage = "setCode" => code[j.code].status # "none",
         j.kind \in Decisions => user[j.cashier].status # "none"
  PROVE  OInv'
  <1>1. UNCHANGED <<code, user, tokens, codeLock, slotLock, signups, strayed>>
    BY DEF Begin
  <1>2. TypeOK /\ StagesOK /\ AccountsOK
    BY DEF OInv
  <1>3. pc' \in [Reqs -> Stages] /\ pc'[r] = stage /\ \A q \in Reqs \ {r} : pc'[q] = pc[q]
    BY <1>2 DEF TypeOK, Begin, Stages
  <1>4. job' \in [Reqs -> JobType] /\ job'[r] = j /\ \A q \in Reqs \ {r} : job'[q] = job[q]
    BY <1>2 DEF TypeOK, Begin, JobType
  <1>5. TypeOK'
    BY <1>1, <1>2, <1>3, <1>4 DEF TypeOK, Stages, JobType
  <1>6. StagesOK'
    BY <1>2, <1>3, <1>4, OthersStages
  <1>7. \A q \in Reqs \ {r} : Secured(q)'
    BY <1>1, <1>3, <1>4, OthersSecured
  <1>8. Secured(r)'
    BY <1>1, <1>3, <1>4 DEF Secured
  <1>9. CodesOK'
    BY <1>1, <1>7, <1>8 DEF OInv, CodesOK
  <1>10. AccountsOK'
    <2>1. job'[r].kind \in Decisions => job'[r].cashier \in Cashiers /\ user'[job'[r].cashier].status # "none"
      BY <1>1, <1>4 DEF StageOK
    <2>2. \A c \in Cashiers : user'[c].status # "none" => user'[c].shop \in Shops
      BY <1>1, <1>2 DEF AccountsOK
    <2> QED BY <1>1, <1>2, <1>4, <2>1, <2>2, AccountsKept
  <1> QED BY <1>5, <1>6, <1>9, <1>10 DEF OInv

LEMMA RequestKeeps ==
  ASSUME OInv, NEW r \in Reqs, Request(r)
  PROVE  OInv'
  <1>1. CASE BeginGenerate(r)
    <2> DEFINE j == [NoJob EXCEPT !.kind = "generate", !.codes = {k \in Codes : code[k].status = "ACTIVE"}]
    <2>1. j \in JobType /\ j.kind = "generate"
      BY DEF NoJob, JobType, Kinds
    <2>2. Begin(r, j, "revokeAll")
      BY <1>1 DEF BeginGenerate
    <2> HIDE DEF j
    <2>3. StageOK("revokeAll", j)
      BY <2>1 DEF StageOK, SlotKinds, Decisions
    <2> QED BY <2>1, <2>2, <2>3, BeginKeeps DEF Stages, Decisions
  <1>2. ASSUME NEW k \in Codes, NEW kind \in {"expire", "revoke"}, code[k].status = "ACTIVE",
               Begin(r, [NoJob EXCEPT !.kind = kind, !.code = k], "setCode")
        PROVE  OInv'
    <2> DEFINE j == [NoJob EXCEPT !.kind = kind, !.code = k]
    <2>1. j \in JobType /\ j.kind = kind /\ j.code = k
      BY DEF NoJob, JobType, Kinds
    <2>2. Begin(r, j, "setCode")
      BY <1>2
    <2> HIDE DEF j
    <2>3. StageOK("setCode", j)
      BY <2>1 DEF StageOK, SlotKinds, Decisions
    <2> QED BY <1>2, <2>1, <2>2, <2>3, BeginKeeps DEF Stages, Decisions
  <1>3. ASSUME NEW c \in Cashiers, NEW k \in Codes, NEW s \in Shops, BeginSignup(r, c, k, s)
        PROVE  OInv'
    <2> DEFINE j == [kind |-> "signup", cashier |-> c, code |-> k, shop |-> s, known |-> user[c].status # "none", codes |-> {}]
    <2>1. j \in JobType /\ j.kind = "signup" /\ j.code = k /\ j.shop = s /\ j.cashier = c
      BY DEF JobType, Kinds
    <2>2. Begin(r, j, "claim")
      BY <1>3 DEF BeginSignup
    <2> HIDE DEF j
    <2>3. StageOK("claim", j)
      BY <2>1 DEF StageOK
    <2> QED BY <2>1, <2>2, <2>3, BeginKeeps DEF Stages, Decisions
  <1>4. ASSUME NEW c \in Cashiers, NEW kind \in Decisions, BeginDecision(r, c, kind)
        PROVE  OInv'
    <2> DEFINE j == [NoJob EXCEPT !.kind = kind, !.cashier = c, !.shop = user[c].shop, !.known = TRUE]
    <2> DEFINE stage == IF kind \in {"approve", "activate"} THEN "slot" ELSE "write"
    <2>1. user[c].status # "none"
      BY <1>4 DEF BeginDecision
    <2>2. user[c].shop \in Shops
      BY <2>1 DEF OInv, AccountsOK
    <2>3. j \in JobType
      BY <2>2 DEF NoJob, JobType, Kinds, Decisions
    <2>4. j.kind = kind /\ j.cashier = c /\ j.shop = user[c].shop
      BY DEF NoJob
    <2>5. Begin(r, j, stage)
      BY <1>4 DEF BeginDecision
    <2> HIDE DEF j
    <2>6. StageOK(stage, j) /\ stage \in Stages /\ stage \in {"slot", "write"}
      BY <2>2, <2>4 DEF StageOK, SlotKinds, Decisions, Stages
    <2> HIDE DEF stage
    <2> QED BY <2>1, <2>3, <2>4, <2>5, <2>6, BeginKeeps DEF Decisions
  <1> QED BY <1>1, <1>2, <1>3, <1>4 DEF Request, BeginExpire, BeginRevoke, Decisions

-----------------------------------------------------------------------------
(* Codes.                                                                  *)

LEMMA RevokeAllKeeps ==
  ASSUME OInv, NEW r \in Reqs, RevokeAll(r)
  PROVE  OInv'
  <1>1. PICK live : live = {k \in job[r].codes : code[k].status = "ACTIVE"}
    OBVIOUS
  <1>2. TypeOK /\ StagesOK /\ AccountsOK
    BY DEF OInv
  <1>3. live \subseteq Codes /\ job[r] \in JobType
    BY <1>1, <1>2 DEF TypeOK, JobType
  <1>4. /\ codeLock' = [k \in Codes |-> IF k \in live THEN r ELSE codeLock[k]]
        /\ job' = [job EXCEPT ![r].codes = live] /\ pc' = [pc EXCEPT ![r] = "create"] /\ pc[r] = "revokeAll"
        /\ UNCHANGED <<code, user, tokens, slotLock, signups, strayed>>
        /\ \A k \in live : codeLock[k] \in {None, r}
    BY <1>1 DEF RevokeAll, Free
  <1>5. pc' \in [Reqs -> Stages] /\ pc'[r] = "create" /\ \A q \in Reqs \ {r} : pc'[q] = pc[q]
    BY <1>2, <1>4 DEF TypeOK, Stages
  <1>6. job'[r] = [job[r] EXCEPT !.codes = live] /\ \A q \in Reqs \ {r} : job'[q] = job[q]
    BY <1>2, <1>4 DEF TypeOK
  <1>7. job'[r] \in JobType /\ job'[r].codes = live /\ job'[r].kind = job[r].kind
    BY <1>3, <1>6 DEF JobType
  <1>8. job' \in [Reqs -> JobType]
    BY <1>2, <1>4, <1>6, <1>7 DEF TypeOK, JobType
  <1>9. job[r].kind = "generate"
    BY <1>2, <1>4 DEF StagesOK, StageOK
  <1>10. TypeOK'
    <2>1. codeLock' \in [Codes -> Reqs \cup {None}]
      BY <1>2, <1>4 DEF TypeOK
    <2> QED BY <1>2, <1>4, <1>5, <1>8, <2>1 DEF TypeOK, Stages, JobType
  <1>11. StagesOK'
    <2>1. StageOK(pc'[r], job'[r])
      BY <1>5, <1>7, <1>9 DEF StageOK, SlotKinds, Decisions
    <2> QED BY <1>2, <1>5, <1>6, <2>1, OthersStages
  <1>12. \A q \in Reqs \ {r}, k \in Codes : codeLock[k] = q => codeLock'[k] = q
    BY <1>4, OnboardingAssumption
  <1>13. \A q \in Reqs \ {r} : Secured(q)'
    BY <1>4, <1>5, <1>6, <1>12, OthersSecured
  <1>14. Secured(r)'
    BY <1>1, <1>3, <1>4, <1>5, <1>7 DEF Secured
  <1>15. CodesOK'
    BY <1>4, <1>13, <1>14 DEF OInv, CodesOK
  <1>16. AccountsOK'
    BY <1>2, <1>4, <1>6, <1>7, <1>9, AccountsKept DEF AccountsOK, Decisions
  <1> QED BY <1>10, <1>11, <1>15, <1>16 DEF OInv

\* A step that ends r and writes accounts, and codes that nobody else holds.
LEMMA EndKeeps ==
  ASSUME OInv, NEW r \in Reqs, End(r), UNCHANGED tokens, signups' \in [Codes -> Nat], strayed' \subseteq Cashiers,
         user' \in [Cashiers -> Account],
         \A c \in Cashiers : user[c].status # "none" => user'[c].status # "none",
         \A c \in Cashiers : user'[c].status # "none" => user'[c].shop \in Shops,
         code' \in [Codes -> CodeRow],
         \A k \in Codes : code[k].status # "none" => code'[k].status # "none",
         \A k \in Codes : /\ code'[k].status \in {"none", "ACTIVE"} => code'[k].usedBy = None
                          /\ code'[k].status = "USED" => code'[k].usedBy # None,
         \A q \in Reqs \ {r}, k \in Codes : codeLock[k] = q /\ code[k].status = "ACTIVE" => code'[k].status = "ACTIVE"
  PROVE  OInv'
  <1>1. TypeOK /\ StagesOK /\ AccountsOK
    BY DEF OInv
  <1>2. TypeOK'
    BY <1>1, EndFacts DEF TypeOK, CodeRow, Account, Stages, JobType
  <1>3. StagesOK'
    BY <1>1, EndStages
  <1>4. \A q \in Reqs \ {r} : Secured(q)'
    BY <1>1, EndFacts, OthersSecured
  <1>5. Secured(r)'
    BY <1>1, EndFacts DEF Secured
  <1>6. CodesOK'
    <2>1. \A q \in Reqs : Secured(q)'
      BY <1>4, <1>5
    <2> QED BY <2>1 DEF CodesOK
  <1>7. AccountsOK'
    <2>1. job'[r].kind \notin Decisions
      BY <1>1, EndFacts, NoJobFacts DEF Decisions
    <2> QED BY <1>1, <2>1, EndFacts, AccountsKept
  <1> QED BY <1>2, <1>3, <1>6, <1>7 DEF OInv

LEMMA CreateCodeKeeps ==
  ASSUME OInv, NEW r \in Reqs, NEW k \in Codes, CreateCode(r, k)
  PROVE  OInv'
  <1>1. TypeOK /\ CodesOK /\ AccountsOK /\ End(r) /\ UNCHANGED <<user, tokens, signups, strayed>>
    BY DEF OInv, CreateCode
  <1>2. code[k] = NoCode /\ \A c \in job[r].codes : codeLock[c] = r /\ code[c].status = "ACTIVE"
    BY <1>1 DEF CreateCode, CodesOK, Secured
  <1>3. \A c \in Codes : code'[c] = IF c = k THEN [NoCode EXCEPT !.status = "ACTIVE"]
                              ELSE IF c \in job[r].codes THEN [code[c] EXCEPT !.status = "REVOKED"]
                              ELSE code[c]
    BY DEF CreateCode
  <1>4. code' \in [Codes -> CodeRow]
    <2>1. \A c \in Codes : code[c] \in CodeRow
      BY <1>1 DEF TypeOK, CodeRow
    <2>2. [NoCode EXCEPT !.status = "ACTIVE"] \in CodeRow /\ \A x \in CodeRow : [x EXCEPT !.status = "REVOKED"] \in CodeRow
      BY DEF NoCode, CodeRow
    <2> QED BY <2>1, <2>2 DEF CreateCode
  <1>5. k \notin job[r].codes /\ code[k].status = "none"
    BY <1>2 DEF NoCode
  <1>6. ASSUME NEW c \in Codes
        PROVE  /\ c = k => code'[c].status = "ACTIVE" /\ code'[c].usedBy = None
               /\ c # k /\ c \in job[r].codes => code'[c].status = "REVOKED"
               /\ c # k /\ c \notin job[r].codes => code'[c] = code[c]
    <2>1. code[c] \in CodeRow
      BY <1>1 DEF TypeOK, CodeRow, Account
    <2> QED BY <1>3, <2>1 DEF NoCode, CodeRow
  <1>7. \A c \in Codes : /\ code'[c].status \in {"none", "ACTIVE"} => code'[c].usedBy = None
                         /\ code'[c].status = "USED" => code'[c].usedBy # None
    BY <1>1, <1>6 DEF CodesOK
  <1>8. \A c \in Codes : code[c].status # "none" => code'[c].status # "none"
    BY <1>6
  <1>9. \A q \in Reqs \ {r}, c \in Codes : codeLock[c] = q /\ code[c].status = "ACTIVE" => code'[c].status = "ACTIVE"
    BY <1>2, <1>6
  <1> QED BY <1>1, <1>4, <1>7, <1>8, <1>9, EndKeeps DEF TypeOK, CodeRow, Account, AccountsOK

LEMMA SetCodeKeeps ==
  ASSUME OInv, NEW r \in Reqs, SetCode(r)
  PROVE  OInv'
  <1>1. TypeOK /\ CodesOK /\ AccountsOK /\ End(r) /\ UNCHANGED <<user, tokens, signups, strayed>>
    BY DEF OInv, SetCode
  <1>2. PICK k \in Codes : k = job[r].code /\ code[k].status # "none" /\ codeLock[k] \in {None, r}
    BY <1>1 DEF OInv, StagesOK, StageOK, SetCode, CodesOK, Secured, Free
  <1>3. PICK closed \in {"REVOKED", "EXPIRED"} : code' = [code EXCEPT ![k].status = closed]
    BY <1>2 DEF SetCode
  <1>4. code' \in [Codes -> CodeRow]
    <2>1. code \in [Codes -> CodeRow]
      BY <1>1 DEF TypeOK, CodeRow
    <2>2. [code[k] EXCEPT !.status = closed] \in CodeRow
      BY <2>1 DEF CodeRow
    <2>3. code' = [code EXCEPT ![k] = [code[k] EXCEPT !.status = closed]]
      BY <1>3
    <2> QED BY <2>1, <2>2, <2>3
  <1>5. code'[k].status = closed /\ \A c \in Codes \ {k} : code'[c] = code[c]
    BY <1>1, <1>3 DEF TypeOK, CodeRow, Account
  <1>6. \A c \in Codes : /\ code'[c].status \in {"none", "ACTIVE"} => code'[c].usedBy = None
                         /\ code'[c].status = "USED" => code'[c].usedBy # None
    BY <1>1, <1>5 DEF CodesOK
  <1>7. \A c \in Codes : code[c].status # "none" => code'[c].status # "none"
    BY <1>5
  <1>8. \A q \in Reqs \ {r}, c \in Codes : codeLock[c] = q /\ code[c].status = "ACTIVE" => code'[c].status = "ACTIVE"
    BY <1>2, <1>5, OnboardingAssumption
  <1> QED BY <1>1, <1>4, <1>6, <1>7, <1>8, EndKeeps DEF TypeOK, CodeRow, Account, AccountsOK

LEMMA ClaimCodeKeeps ==
  ASSUME OInv, NEW r \in Reqs, ClaimCode(r)
  PROVE  OInv'
  <1>1. ASSUME Claimable(r), codeLock' = [codeLock EXCEPT ![job[r].code] = r], pc' = [pc EXCEPT ![r] = "slot"],
               UNCHANGED <<code, user, tokens, slotLock, job, signups, strayed>>
        PROVE  OInv'
    <2>1. TypeOK /\ StagesOK /\ AccountsOK
      BY DEF OInv
    <2>2. job[r].kind = "signup" /\ job[r].code \in Codes /\ StageOK("claim", job[r])
      BY <2>1 DEF StagesOK, StageOK, ClaimCode
    <2>3. pc' \in [Reqs -> Stages] /\ pc'[r] = "slot" /\ \A q \in Reqs \ {r} : pc'[q] = pc[q]
      BY <1>1, <2>1 DEF TypeOK, CodeRow, Account, Stages
    <2>4. codeLock' \in [Codes -> Reqs \cup {None}] /\ codeLock'[job[r].code] = r
          /\ \A q \in Reqs \ {r}, k \in Codes : codeLock[k] = q => codeLock'[k] = q
      BY <1>1, <2>1, <2>2, OnboardingAssumption DEF TypeOK, CodeRow, Account, ClaimCode, Free
    <2>5. TypeOK'
      BY <1>1, <2>1, <2>3, <2>4 DEF TypeOK, CodeRow, Account, Stages
    <2>6. StagesOK'
      <3>1. StageOK(pc'[r], job'[r])
        BY <1>1, <2>2, <2>3 DEF StageOK, SlotKinds
      <3> QED BY <1>1, <2>1, <2>3, <3>1, OthersStages
    <2>7. \A q \in Reqs \ {r} : Secured(q)'
      BY <1>1, <2>3, <2>4, OthersSecured
    <2>8. Secured(r)'
      BY <1>1, <2>3, <2>4 DEF Secured, Claimable
    <2>9. CodesOK'
      BY <1>1, <2>7, <2>8 DEF OInv, CodesOK
    <2>10. AccountsOK'
      BY <1>1, <2>1 DEF AccountsOK
    <2> QED BY <2>5, <2>6, <2>9, <2>10 DEF OInv
  <1> QED BY <1>1, RollbackKeeps DEF ClaimCode

LEMMA LockSlotKeeps ==
  ASSUME OInv, NEW r \in Reqs, LockBranchCashierSlot(r)
  PROVE  OInv'
  <1>1. ASSUME slotLock' = [slotLock EXCEPT ![job[r].shop] = r], pc' = [pc EXCEPT ![r] = "write"],
               UNCHANGED <<code, user, tokens, codeLock, job, signups, strayed>>
        PROVE  OInv'
    <2>1. TypeOK /\ StagesOK /\ AccountsOK /\ pc[r] = "slot"
      BY DEF OInv, LockBranchCashierSlot
    <2>2. job[r].kind \in SlotKinds /\ job[r].shop \in Shops
      BY <2>1 DEF StagesOK, StageOK
    <2>3. pc' \in [Reqs -> Stages] /\ pc'[r] = "write" /\ \A q \in Reqs \ {r} : pc'[q] = pc[q]
      BY <1>1, <2>1 DEF TypeOK, CodeRow, Account, Stages
    <2>4. TypeOK'
      BY <1>1, <2>1, <2>2, <2>3 DEF TypeOK, CodeRow, Account, Stages
    <2>5. StagesOK'
      <3>1. StageOK(pc'[r], job'[r])
        BY <1>1, <2>1, <2>2, <2>3 DEF StagesOK, StageOK
      <3> QED BY <1>1, <2>1, <2>3, <3>1, OthersStages
    <2>6. \A q \in Reqs \ {r} : Secured(q)'
      BY <1>1, <2>3, OthersSecured
    <2>7. Secured(r)'
      BY <1>1, <2>1, <2>3 DEF OInv, CodesOK, Secured
    <2>8. CodesOK'
      BY <1>1, <2>6, <2>7 DEF OInv, CodesOK
    <2>9. AccountsOK'
      BY <1>1, <2>1 DEF AccountsOK
    <2> QED BY <2>4, <2>5, <2>8, <2>9 DEF OInv
  <1> QED BY <1>1, RollbackKeeps DEF LockBranchCashierSlot

\* A signup that gets to its end uses up the code it has locked.
LEMMA WrittenSignup ==
  ASSUME OInv, NEW r \in Reqs, WriteSignup(r), ~UniqueViolation(r)
  PROVE  \E c \in Cashiers, k \in Codes, s \in Shops :
           /\ c = job[r].cashier /\ k = job[r].code /\ s = job[r].shop
           /\ codeLock[k] = r /\ code[k].status = "ACTIVE" /\ code[k].usedBy = None
           /\ user' = [user EXCEPT ![c] = [status |-> "PENDING", shop |-> s]]
           /\ code'[k].status = "USED" /\ code'[k].usedBy = c /\ \A l \in Codes \ {k} : code'[l] = code[l]
           /\ code' \in [Codes -> CodeRow]
           /\ signups' = [signups EXCEPT ![k] = @ + 1] /\ strayed' = strayed \ {c}
           /\ End(r) /\ UNCHANGED tokens
  <1>1. TypeOK /\ pc[r] = "write" /\ job[r].kind = "signup" /\ StageOK("write", job[r]) /\ Secured(r)
    BY DEF OInv, StagesOK, WriteSignup, CodesOK
  <1>2. PICK c \in Cashiers, k \in Codes, s \in Shops : c = job[r].cashier /\ k = job[r].code /\ s = job[r].shop
    BY <1>1 DEF StageOK, SlotKinds
  <1>3. codeLock[k] = r /\ code[k].status = "ACTIVE" /\ code[k].usedBy = None
    BY <1>1, <1>2 DEF Secured, OInv, CodesOK
  <1>4. /\ user' = [user EXCEPT ![c] = [status |-> "PENDING", shop |-> s]]
        /\ code' = [code EXCEPT ![k].status = "USED", ![k].usedBy = c]
        /\ signups' = [signups EXCEPT ![k] = @ + 1] /\ strayed' = strayed \ {c} /\ End(r) /\ UNCHANGED tokens
    BY <1>2 DEF WriteSignup
  <1>5. PICK x : x = [code[k] EXCEPT !.status = "USED", !.usedBy = c]
    OBVIOUS
  <1>6. x \in CodeRow /\ x.status = "USED" /\ x.usedBy = c
    <2>1. code[k] \in CodeRow
      BY <1>1 DEF TypeOK, CodeRow
    <2> QED BY <1>5, <2>1 DEF CodeRow
  <1>7. code' = [code EXCEPT ![k] = x]
    BY <1>1, <1>4, <1>5 DEF TypeOK
  <1>8. code'[k] = x /\ (\A l \in Codes \ {k} : code'[l] = code[l]) /\ code' \in [Codes -> CodeRow]
    BY <1>1, <1>6, <1>7 DEF TypeOK, CodeRow
  <1> QED BY <1>2, <1>3, <1>4, <1>6, <1>8

LEMMA WriteSignupKeeps ==
  ASSUME OInv, NEW r \in Reqs, WriteSignup(r)
  PROVE  OInv'
  <1>1. CASE UniqueViolation(r)
    BY <1>1, RollbackKeeps DEF WriteSignup
  <1>2. CASE ~UniqueViolation(r)
    <2>1. PICK c \in Cashiers, k \in Codes, s \in Shops :
           /\ codeLock[k] = r /\ code[k].status = "ACTIVE"
           /\ user' = [user EXCEPT ![c] = [status |-> "PENDING", shop |-> s]]
           /\ code'[k].status = "USED" /\ code'[k].usedBy = c /\ \A l \in Codes \ {k} : code'[l] = code[l]
           /\ code' \in [Codes -> CodeRow]
           /\ signups' = [signups EXCEPT ![k] = @ + 1] /\ strayed' = strayed \ {c}
           /\ End(r) /\ UNCHANGED tokens
      BY <1>2, WrittenSignup
    <2>2. TypeOK /\ CodesOK /\ AccountsOK
      BY DEF OInv
    <2>3. user' \in [Cashiers -> Account]
      BY <2>1, <2>2 DEF TypeOK, CodeRow, Account
    <2>4. user'[c].status = "PENDING" /\ user'[c].shop = s /\ \A d \in Cashiers \ {c} : user'[d] = user[d]
      BY <2>1, <2>2 DEF TypeOK, CodeRow, Account
    <2>5. \A d \in Cashiers : /\ user[d].status # "none" => user'[d].status # "none"
                              /\ user'[d].status # "none" => user'[d].shop \in Shops
      BY <2>2, <2>4 DEF AccountsOK
    <2>6. signups' \in [Codes -> Nat] /\ strayed' \subseteq Cashiers
      BY <2>1, <2>2 DEF TypeOK, CodeRow, Account
    <2>7. \A l \in Codes : /\ code'[l].status \in {"none", "ACTIVE"} => code'[l].usedBy = None
                           /\ code'[l].status = "USED" => code'[l].usedBy # None
      BY <2>1, <2>2, OnboardingAssumption DEF CodesOK
    <2>8. \A l \in Codes : code[l].status # "none" => code'[l].status # "none"
      BY <2>1
    <2>9. \A q \in Reqs \ {r}, l \in Codes : codeLock[l] = q /\ code[l].status = "ACTIVE" => code'[l].status = "ACTIVE"
      BY <2>1
    <2> QED BY <2>1, <2>3, <2>5, <2>6, <2>7, <2>8, <2>9, EndKeeps
  <1> QED BY <1>1, <1>2

\* A decision changes the status of an account that exists.
LEMMA WrittenDecision ==
  ASSUME OInv, NEW r \in Reqs, WriteDecision(r)
  PROVE  \E c \in Cashiers :
           /\ c = job[r].cashier /\ job[r].kind \in Decisions /\ user[c].status # "none" /\ user[c].shop \in Shops
           /\ user'[c].status = Decided(job[r].kind) /\ user'[c].shop = user[c].shop
           /\ \A d \in Cashiers \ {c} : user'[d] = user[d]
           /\ user' \in [Cashiers -> Account]
           /\ strayed' = IF job[r].kind \in {"approve", "activate"} /\ job[r].shop # user[c].shop
                         THEN strayed \cup {c} ELSE strayed \ {c}
           /\ End(r) /\ UNCHANGED <<code, tokens, signups>>
  <1>1. TypeOK /\ AccountsOK /\ StageOK("write", job[r]) /\ job[r].kind # "signup"
    BY DEF OInv, StagesOK, WriteDecision
  <1>2. job[r].kind \in Decisions
    BY <1>1 DEF StageOK, SlotKinds, Decisions
  <1>3. PICK c \in Cashiers : c = job[r].cashier
    BY <1>1, <1>2 DEF StageOK
  <1>4. user[c].status # "none" /\ user[c].shop \in Shops
    BY <1>1, <1>2, <1>3 DEF AccountsOK
  <1>5. PICK d : d = Decided(job[r].kind)
    OBVIOUS
  <1>6. d \in {"ACTIVE", "REJECTED", "SUSPENDED"}
    BY <1>5 DEF Decided
  <1>7. user' = [user EXCEPT ![c].status = d] /\ End(r) /\ UNCHANGED <<code, tokens, signups>>
    BY <1>3, <1>5 DEF WriteDecision
  <1>8. /\ user'[c].status = d /\ user'[c].shop = user[c].shop
        /\ \A e \in Cashiers \ {c} : user'[e] = user[e]
        /\ user' \in [Cashiers -> Account]
    BY <1>1, <1>6, <1>7 DEF TypeOK, CodeRow, Account
  <1>9. strayed' = IF job[r].kind \in {"approve", "activate"} /\ job[r].shop # user[c].shop
                   THEN strayed \cup {c} ELSE strayed \ {c}
    BY <1>3 DEF WriteDecision
  <1> QED BY <1>2, <1>3, <1>4, <1>5, <1>7, <1>8, <1>9

LEMMA WriteDecisionKeeps ==
  ASSUME OInv, NEW r \in Reqs, WriteDecision(r)
  PROVE  OInv'
  <1>1. PICK c \in Cashiers :
           /\ user[c].shop \in Shops /\ user'[c].status = Decided(job[r].kind) /\ user'[c].shop = user[c].shop
           /\ \A d \in Cashiers \ {c} : user'[d] = user[d]
           /\ user' \in [Cashiers -> Account]
           /\ strayed' \in {strayed \cup {c}, strayed \ {c}}
           /\ End(r) /\ UNCHANGED <<code, tokens, signups>>
    BY WrittenDecision
  <1>2. Decided(job[r].kind) # "none"
    BY DEF Decided
  <1>3. \A d \in Cashiers : user[d].status # "none" => user'[d].status # "none"
    BY <1>1, <1>2
  <1>4. \A d \in Cashiers : user'[d].status # "none" => user'[d].shop \in Shops
    BY <1>1 DEF OInv, AccountsOK
  <1>5. strayed' \subseteq Cashiers
    BY <1>1 DEF OInv, TypeOK
  <1> QED BY <1>1, <1>3, <1>4, <1>5, EndKeeps DEF OInv, TypeOK, CodeRow, Account, CodesOK

\* Verifying a code and the passing of its expiry change no status.
LEMMA ClockKeeps ==
  ASSUME OInv, NEW k \in Codes, VerifyInvitation(k) \/ Expire(k)
  PROVE  OInv'
  <1>1. CASE VerifyInvitation(k)
    BY <1>1 DEF VerifyInvitation, OInv, TypeOK, CodeRow, Account, StagesOK, StageOK, CodesOK, Secured, AccountsOK
  <1>2. CASE Expire(k)
    <2>1. code' = [code EXCEPT ![k].expired = TRUE] /\ UNCHANGED <<user, tokens, codeLock, slotLock, pc, job, signups, strayed>>
      BY <1>2 DEF Expire
    <2>2. TypeOK /\ StagesOK /\ AccountsOK
      BY DEF OInv
    <2>3. code' \in [Codes -> CodeRow]
      <3>1. code \in [Codes -> CodeRow]
        BY <2>2 DEF TypeOK, CodeRow
      <3>2. [code[k] EXCEPT !.expired = TRUE] \in CodeRow
        BY <3>1 DEF CodeRow
      <3>3. code' = [code EXCEPT ![k] = [code[k] EXCEPT !.expired = TRUE]]
        BY <2>1
      <3> QED BY <3>1, <3>2, <3>3
    <2>4. \A l \in Codes : code'[l].status = code[l].status /\ code'[l].usedBy = code[l].usedBy
      BY <2>1, <2>2 DEF TypeOK, CodeRow, Account
    <2>5. TypeOK' /\ StagesOK' /\ AccountsOK'
      BY <2>1, <2>2, <2>3 DEF TypeOK, CodeRow, Account, StagesOK, StageOK, AccountsOK
    <2>6. ASSUME NEW r \in Reqs PROVE Secured(r)'
      <3>1. Secured(r) /\ StageOK(pc[r], job[r]) /\ job[r].codes \subseteq Codes
        BY DEF OInv, CodesOK, StagesOK, TypeOK, CodeRow, Account
      <3> QED BY <2>1, <2>4, <3>1 DEF Secured, StageOK
    <2> QED BY <2>4, <2>5, <2>6 DEF OInv, CodesOK
  <1> QED BY <1>1, <1>2

LEMMA InitOInv ==
  ASSUME Init
  PROVE  OInv
  <1>1. TypeOK
    BY OnboardingAssumption DEF Init, TypeOK, CodeRow, Account, NoCode, NoJob, Kinds
  <1>2. \A r \in Reqs : pc[r] = "idle" /\ job[r] = NoJob
    BY DEF Init
  <1>3. StagesOK
    BY <1>2, NoJobFacts DEF StagesOK
  <1>4. CodesOK
    BY <1>2 DEF Init, CodesOK, Secured, NoCode
  <1>5. AccountsOK
    BY <1>2, NoJobFacts, OnboardingAssumption DEF Init, AccountsOK, Decisions
  <1> QED BY <1>1, <1>3, <1>4, <1>5 DEF OInv

LEMMA NextOInv ==
  ASSUME OInv, [Next]_vars
  PROVE  OInv'
  <1>1. CASE Next
    BY <1>1, RequestKeeps, RevokeAllKeeps, CreateCodeKeeps, SetCodeKeeps, ClaimCodeKeeps, LockSlotKeeps,
       WriteSignupKeeps, WriteDecisionKeeps, RollbackKeeps, ClockKeeps
    DEF Next, Step, Fail
  <1>2. CASE UNCHANGED vars
    BY <1>2 DEF vars, OInv, TypeOK, CodeRow, Account, StagesOK, StageOK, CodesOK, Secured, AccountsOK
  <1> QED BY <1>1, <1>2

\* In every reachable state requests carry what their stage needs, a code about
\* to be replaced or used up is ACTIVE under a lock, and decisions are about
\* accounts that exist.
THEOREM Invariant == Spec => []OInv
  <1> QED BY InitOInv, NextOInv, PTL DEF Spec

\* The tables, locks and requests hold values of their types.
THEOREM TypeCorrect == Spec => []TypeOK
  <1>1. OInv => TypeOK
    BY DEF OInv
  <1> QED BY <1>1, Invariant, PTL

-----------------------------------------------------------------------------
(* The one-time code.                                                      *)

\* What may happen to a code outside a signup: it is issued, or closed by id,
\* its user, if it has one, staying.
CodeTurn(k) ==
  \/ code'[k].status = code[k].status /\ code'[k].usedBy = code[k].usedBy
  \/ code[k].status = "none" /\ code'[k].status = "ACTIVE"
  \/ code[k].status # "none" /\ code'[k].status \in {"REVOKED", "EXPIRED"} /\ code'[k].usedBy = code[k].usedBy
Turn == (\A k \in Codes : CodeTurn(k)) /\ UNCHANGED signups

LEMMA CodeStateFacts ==
  ASSUME TypeOK, CodesOK, NEW k \in Codes
  PROVE  /\ CodeState(k) \in Invitation!States
         /\ CodeState(k) = "none" <=> code[k].status = "none"
         /\ CodeState(k) = "live" <=> code[k].status = "ACTIVE"
         /\ CodeState(k) = "spent" <=> code[k].usedBy # None
         /\ CodeState(k) = "dead" <=> code[k].status \in {"REVOKED", "EXPIRED"} /\ code[k].usedBy = None
  <1>1. code[k].status \in {"none", "ACTIVE", "USED", "REVOKED", "EXPIRED"}
    BY DEF TypeOK
  <1>2. /\ code[k].status \in {"none", "ACTIVE"} => code[k].usedBy = None
        /\ code[k].status = "USED" => code[k].usedBy # None
    BY DEF CodesOK
  <1> QED BY <1>1, <1>2 DEF CodeState, Invitation!States

LEMMA CodeStateNext ==
  ASSUME TypeOK', CodesOK', NEW k \in Codes
  PROVE  /\ CodeState(k)' \in Invitation!States
         /\ CodeState(k)' = "none" <=> code'[k].status = "none"
         /\ CodeState(k)' = "live" <=> code'[k].status = "ACTIVE"
         /\ CodeState(k)' = "spent" <=> code'[k].usedBy # None
         /\ CodeState(k)' = "dead" <=> code'[k].status \in {"REVOKED", "EXPIRED"} /\ code'[k].usedBy = None
  <1>1. code'[k].status \in {"none", "ACTIVE", "USED", "REVOKED", "EXPIRED"}
    BY DEF TypeOK
  <1>2. /\ code'[k].status \in {"none", "ACTIVE"} => code'[k].usedBy = None
        /\ code'[k].status = "USED" => code'[k].usedBy # None
    BY DEF CodesOK
  <1> QED BY <1>1, <1>2 DEF CodeState, Invitation!States

\* Every step but the end of a signup turns codes over.
LEMMA TurnSteps ==
  ASSUME OInv, [Next]_vars
  PROVE  Turn \/ \E r \in Reqs : WriteSignup(r) /\ ~UniqueViolation(r)
  <1>1. ASSUME UNCHANGED <<code, signups>> PROVE Turn
    BY <1>1 DEF Turn, CodeTurn
  <1>2. ASSUME NEW r \in Reqs, Request(r) PROVE Turn
    BY <1>1, <1>2 DEF Request, BeginGenerate, BeginExpire, BeginRevoke, BeginSignup, BeginDecision, Begin
  <1>3. ASSUME NEW r \in Reqs, RevokeAll(r) \/ ClaimCode(r) \/ LockBranchCashierSlot(r) \/ WriteDecision(r) \/ Fail(r) PROVE Turn
    BY <1>1, <1>3 DEF RevokeAll, ClaimCode, LockBranchCashierSlot, WriteDecision, Fail, Rollback
  <1>4. ASSUME NEW r \in Reqs, NEW k \in Codes, CreateCode(r, k) PROVE Turn
    <2>1. code[k] = NoCode /\ pc[r] = "create" /\ UNCHANGED signups
      BY <1>4 DEF CreateCode
    <2>2. \A c \in job[r].codes : code[c].status = "ACTIVE"
      BY <2>1 DEF OInv, CodesOK, Secured
    <2>3. \A c \in Codes : code'[c] = IF c = k THEN [NoCode EXCEPT !.status = "ACTIVE"]
                                ELSE IF c \in job[r].codes THEN [code[c] EXCEPT !.status = "REVOKED"]
                                ELSE code[c]
      BY <1>4 DEF CreateCode
    <2>4. ASSUME NEW c \in Codes PROVE CodeTurn(c)
      <3>1. code[c] \in CodeRow
        BY DEF OInv, TypeOK, CodeRow
      <3>2. CASE c = k
        <4>1. code[c].status = "none"
          BY <2>1, <3>2 DEF NoCode
        <4>2. code'[c] = [NoCode EXCEPT !.status = "ACTIVE"]
          BY <2>3, <3>2
        <4>3. code'[c].status = "ACTIVE"
          BY <4>2 DEF NoCode
        <4> QED BY <4>1, <4>3 DEF CodeTurn
      <3>3. CASE c # k /\ c \in job[r].codes
        BY <2>2, <2>3, <3>1, <3>3 DEF CodeTurn, CodeRow
      <3>4. CASE c # k /\ c \notin job[r].codes
        BY <2>3, <3>4 DEF CodeTurn
      <3> QED BY <3>2, <3>3, <3>4
    <2> QED BY <2>1, <2>4 DEF Turn
  <1>5. ASSUME NEW r \in Reqs, SetCode(r) PROVE Turn
    <2>1. PICK k \in Codes : k = job[r].code /\ code[k].status # "none"
      BY <1>5 DEF OInv, StagesOK, StageOK, SetCode, CodesOK, Secured
    <2>2. PICK closed \in {"REVOKED", "EXPIRED"} : code' = [code EXCEPT ![k].status = closed]
      BY <1>5, <2>1 DEF SetCode
    <2>3. UNCHANGED signups
      BY <1>5 DEF SetCode
    <2> QED BY <2>1, <2>2, <2>3 DEF Turn, CodeTurn, OInv, TypeOK
  <1>6. ASSUME NEW r \in Reqs, WriteSignup(r), UniqueViolation(r) PROVE Turn
    BY <1>1, <1>6 DEF WriteSignup, Rollback
  <1>7. ASSUME NEW k \in Codes, VerifyInvitation(k) PROVE Turn
    BY <1>1, <1>7 DEF VerifyInvitation
  <1>8. ASSUME NEW k \in Codes, Expire(k) PROVE Turn
    BY <1>8 DEF Expire, Turn, CodeTurn, OInv, TypeOK
  <1>9. CASE UNCHANGED vars
    BY <1>1, <1>9 DEF vars
  <1> QED BY <1>2, <1>3, <1>4, <1>5, <1>6, <1>7, <1>8, <1>9 DEF Next, Step

LEMMA TurnIsTurnover ==
  ASSUME OInv, OInv', Turn
  PROVE  Invitation!Turnover
  <1>1. \A k \in Codes : \/ CodeState(k)' = CodeState(k)
                         \/ CodeState(k) = "none" /\ CodeState(k)' \in {"live", "dead"}
                         \/ CodeState(k) = "live" /\ CodeState(k)' = "dead"
    <2> SUFFICES ASSUME NEW k \in Codes
                 PROVE  \/ CodeState(k)' = CodeState(k)
                        \/ CodeState(k) = "none" /\ CodeState(k)' \in {"live", "dead"}
                        \/ CodeState(k) = "live" /\ CodeState(k)' = "dead"
      OBVIOUS
    <2>1. CodeTurn(k)
      BY DEF Turn
    <2>2. TypeOK /\ CodesOK /\ TypeOK' /\ CodesOK'
      BY DEF OInv
    <2>3. /\ code[k].status \in {"none", "ACTIVE", "USED", "REVOKED", "EXPIRED"}
          /\ code'[k].status \in {"none", "ACTIVE", "USED", "REVOKED", "EXPIRED"}
      BY <2>2 DEF TypeOK
    <2> QED BY <2>1, <2>2, <2>3, CodeStateFacts, CodeStateNext DEF CodeTurn, CodesOK, Invitation!States
  <1>2. \A k \in Codes : CodeState(k)' \in Invitation!States
    BY CodeStateNext DEF OInv
  <1> QED BY <1>1, <1>2 DEF Invitation!Turnover, Turn

LEMMA SignupIsRedeem ==
  ASSUME OInv, OInv', NEW r \in Reqs, WriteSignup(r), ~UniqueViolation(r)
  PROVE  \E k \in Codes : Invitation!Redeem(k)
  <1>1. PICK c \in Cashiers, k \in Codes :
           /\ code[k].status = "ACTIVE" /\ code'[k].usedBy = c /\ \A l \in Codes \ {k} : code'[l] = code[l]
           /\ signups' = [signups EXCEPT ![k] = @ + 1]
    BY WrittenSignup
  <1>2. TypeOK /\ CodesOK /\ TypeOK' /\ CodesOK'
    BY DEF OInv
  <1>3. CodeState(k) = "live" /\ CodeState(k)' = "spent"
    BY <1>1, <1>2, CodeStateFacts, CodeStateNext, OnboardingAssumption
  <1>4. \A l \in Codes \ {k} : CodeState(l)' = CodeState(l)
    BY <1>1 DEF CodeState
  <1>5. \A l \in Codes : CodeState(l)' \in Invitation!States
    BY <1>2, CodeStateNext
  <1>6. Invitation!Redeem(k)
    BY <1>1, <1>3, <1>4, <1>5 DEF Invitation!Redeem
  <1> QED BY <1>6

\* Onboarding implements OneTimeSecret: however signups, generations,
\* revocations and expiries interleave, an invitation code brings at most one
\* cashier, only while it is live, and is never live again.
THEOREM CodesAreOneTime == Spec => CodeIsOneTime
  <1>1. Init => Invitation!Init
    BY DEF Init, NoCode, CodeState, Invitation!Init
  <1>2. OInv /\ OInv' /\ [Next]_vars => [Invitation!Next]_(Invitation!secretVars)
    BY TurnSteps, TurnIsTurnover, SignupIsRedeem DEF Invitation!Next
  <1> QED BY <1>1, <1>2, Invariant, PTL DEF Spec, CodeIsOneTime, Invitation!Spec

-----------------------------------------------------------------------------
(* The branch's slot.                                                      *)

\* A step that neither takes nor uses a slot, and opens no account.
LEMMA SlotsKept ==
  ASSUME OInv, SlotsOK, NEW r \in Reqs, pc'[r] # "write" \/ job'[r].kind \notin SlotKinds,
         \A q \in Reqs \ {r} : pc'[q] = pc[q] /\ job'[q] = job[q],
         \A q \in Reqs \ {r}, s \in Shops : slotLock[s] = q => slotLock'[s] = q,
         \A c \in Cashiers : user'[c].status \in OpenStatuses => user[c].status \in OpenStatuses /\ user'[c].shop = user[c].shop,
         \A c \in Cashiers : user'[c].status \in OpenStatuses /\ c \in strayed => c \in strayed'
  PROVE  SlotsOK'
  <1>1. ASSUME NEW q \in Reqs \ {r} PROVE HasSlot(q)'
    <2>1. pc'[q] = pc[q] /\ job'[q] = job[q] /\ HasSlot(q) /\ StageOK(pc[q], job[q])
      BY DEF SlotsOK, OInv, StagesOK
    <2>2. CASE pc[q] = "write" /\ job[q].kind \in SlotKinds
      <3>1. slotLock'[job[q].shop] = q
        BY <2>1, <2>2 DEF HasSlot, StageOK
      <3>2. \A d \in Cashiers : user'[d].shop = job[q].shop /\ user'[d].status \in OpenStatuses => d = job[q].cashier \/ d \in strayed'
        BY <2>1, <2>2 DEF HasSlot
      <3> QED BY <2>1, <3>1, <3>2 DEF HasSlot, OpenStatuses
    <2> QED BY <2>1, <2>2 DEF HasSlot
  <1>2. HasSlot(r)'
    BY DEF HasSlot
  <1>3. OneCashierUnlessStrayed'
    BY DEF SlotsOK, OneCashierUnlessStrayed, Colleagues, OpenStatuses
  <1> QED BY <1>1, <1>2, <1>3 DEF SlotsOK

\* A step of r that opens, or leaves open, the account c at a branch whose slot
\* r has.
LEMMA OpenedUnderSlot ==
  ASSUME OInv, SlotsOK, NEW r \in Reqs, pc[r] = "write", job[r].kind \in SlotKinds, End(r),
         NEW c \in Cashiers, c = job[r].cashier, user'[c].shop = job[r].shop,
         \A d \in Cashiers \ {c} : user'[d] = user[d], strayed' = strayed \ {c}
  PROVE  SlotsOK'
  <1>0. TypeOK /\ HasSlot(r) /\ job[r].shop \in Shops
    BY DEF OInv, SlotsOK, StagesOK, StageOK
  <1>1. slotLock[job[r].shop] = r /\ \A d \in Cashiers : user[d].shop = job[r].shop /\ user[d].status \in OpenStatuses => d = c \/ d \in strayed
    BY <1>0 DEF HasSlot
  <1>2. ASSUME NEW q \in Reqs \ {r} PROVE HasSlot(q)'
    <2>1. pc'[q] = pc[q] /\ job'[q] = job[q] /\ HasSlot(q) /\ StageOK(pc[q], job[q])
      BY <1>0, EndFacts DEF SlotsOK, OInv, StagesOK
    <2>2. CASE pc[q] = "write" /\ job[q].kind \in SlotKinds
      <3>1. slotLock[job[q].shop] = q /\ job[q].shop \in Shops
        BY <2>1, <2>2 DEF HasSlot, StageOK
      <3>2. slotLock'[job[q].shop] = q
        BY <1>0, <3>1, EndFacts
      <3>3. user'[c].shop # job[q].shop
        BY <1>1, <3>1
      <3>4. \A d \in Cashiers : user'[d].shop = job[q].shop /\ user'[d].status \in OpenStatuses => d = job[q].cashier \/ d \in strayed'
        BY <2>1, <2>2, <3>3 DEF HasSlot
      <3> QED BY <2>1, <3>2, <3>4 DEF HasSlot, OpenStatuses
    <2> QED BY <2>1, <2>2 DEF HasSlot
  <1>3. HasSlot(r)'
    BY <1>0, EndFacts DEF HasSlot
  <1>4. OneCashierUnlessStrayed'
    <2> SUFFICES ASSUME NEW d \in Cashiers, NEW e \in Cashiers, Colleagues(d, e)'
                 PROVE  d \in strayed' \/ e \in strayed'
      BY DEF OneCashierUnlessStrayed
    <2>0. d # e /\ user'[d].shop = user'[e].shop /\ user'[d].status \in OpenStatuses /\ user'[e].status \in OpenStatuses
      BY DEF Colleagues, OpenStatuses
    <2>1. CASE d # c /\ e # c
      BY <2>0, <2>1 DEF SlotsOK, OneCashierUnlessStrayed, Colleagues
    <2>2. CASE d = c \/ e = c
      BY <1>1, <2>0, <2>2
    <2> QED BY <2>1, <2>2
  <1> QED BY <1>2, <1>3, <1>4 DEF SlotsOK

\* A decision of r that opens, under the slot of the branch it had read, an
\* account c that has left it.
LEMMA OpenedElsewhere ==
  ASSUME OInv, SlotsOK, NEW r \in Reqs, End(r), NEW c \in Cashiers,
         \A d \in Cashiers \ {c} : user'[d] = user[d], strayed' = strayed \cup {c}
  PROVE  SlotsOK'
  <1>1. TypeOK
    BY DEF OInv
  <1>2. ASSUME NEW q \in Reqs \ {r} PROVE HasSlot(q)'
    <2>1. pc'[q] = pc[q] /\ job'[q] = job[q] /\ HasSlot(q) /\ StageOK(pc[q], job[q])
      BY <1>1, EndFacts DEF SlotsOK, OInv, StagesOK
    <2>2. CASE pc[q] = "write" /\ job[q].kind \in SlotKinds
      <3>1. slotLock[job[q].shop] = q /\ job[q].shop \in Shops
        BY <2>1, <2>2 DEF HasSlot, StageOK
      <3>2. slotLock'[job[q].shop] = q
        BY <1>1, <3>1, EndFacts
      <3>3. \A d \in Cashiers : user'[d].shop = job[q].shop /\ user'[d].status \in OpenStatuses => d = job[q].cashier \/ d \in strayed'
        BY <2>1, <2>2 DEF HasSlot
      <3> QED BY <2>1, <3>2, <3>3 DEF HasSlot, OpenStatuses
    <2> QED BY <2>1, <2>2 DEF HasSlot
  <1>3. HasSlot(r)'
    BY <1>1, EndFacts DEF HasSlot
  <1>4. OneCashierUnlessStrayed'
    BY DEF SlotsOK, OneCashierUnlessStrayed, Colleagues, OpenStatuses
  <1> QED BY <1>2, <1>3, <1>4 DEF SlotsOK

LEMMA LockSlotSlots ==
  ASSUME OInv, SlotsOK, NEW r \in Reqs, LockBranchCashierSlot(r), BranchCashierSlotFree(r),
         slotLock' = [slotLock EXCEPT ![job[r].shop] = r], pc' = [pc EXCEPT ![r] = "write"],
         UNCHANGED <<user, job, strayed>>
  PROVE  SlotsOK'
  <1>1. TypeOK /\ job[r].shop \in Shops /\ slotLock[job[r].shop] \in {None, r}
    BY DEF OInv, StagesOK, StageOK, LockBranchCashierSlot, Free
  <1>2. /\ pc'[r] = "write" /\ slotLock'[job[r].shop] = r /\ \A q \in Reqs \ {r} : pc'[q] = pc[q]
        /\ \A q \in Reqs \ {r}, s \in Shops : slotLock[s] = q => slotLock'[s] = q
    BY <1>1, OnboardingAssumption DEF TypeOK
  <1>3. ASSUME NEW q \in Reqs PROVE HasSlot(q)'
    <2>1. CASE q = r
      BY <1>2, <2>1 DEF HasSlot, BranchCashierSlotFree, OpenStatuses
    <2>2. CASE q # r
      <3>1. HasSlot(q) /\ StageOK(pc[q], job[q])
        BY DEF SlotsOK, OInv, StagesOK
      <3> QED BY <1>2, <2>2, <3>1 DEF HasSlot, OpenStatuses, StageOK
    <2> QED BY <2>1, <2>2
  <1>4. OneCashierUnlessStrayed'
    BY DEF SlotsOK, OneCashierUnlessStrayed, Colleagues, OpenStatuses
  <1> QED BY <1>3, <1>4 DEF SlotsOK

LEMMA RollbackSlots ==
  ASSUME OInv, SlotsOK, NEW r \in Reqs, Rollback(r)
  PROVE  SlotsOK'
  <1>1. TypeOK /\ End(r) /\ UNCHANGED <<user, strayed>>
    BY DEF OInv, Rollback
  <1>2. pc'[r] # "write"
    BY <1>1, EndFacts
  <1> QED BY <1>1, <1>2, EndFacts, SlotsKept

LEMMA NextSlots ==
  ASSUME OInv, SlotsOK, [Next]_vars
  PROVE  SlotsOK'
  <1>0. TypeOK
    BY DEF OInv
  <1>1. ASSUME NEW r \in Reqs, Request(r) PROVE SlotsOK'
    <2>1. PICK j, stage : Begin(r, j, stage) /\ (stage = "write" => j.kind \in {"reject", "suspend"})
      <3>1. ASSUME NEW c \in Cashiers, NEW kind \in Decisions, BeginDecision(r, c, kind)
            PROVE  \E j, stage : Begin(r, j, stage) /\ (stage = "write" => j.kind \in {"reject", "suspend"})
        <4> DEFINE j == [NoJob EXCEPT !.kind = kind, !.cashier = c, !.shop = user[c].shop, !.known = TRUE]
        <4> DEFINE stage == IF kind \in {"approve", "activate"} THEN "slot" ELSE "write"
        <4>1. stage = "write" => j.kind \in {"reject", "suspend"}
          BY DEF NoJob, Decisions
        <4>2. Begin(r, j, stage)
          BY <3>1 DEF BeginDecision
        <4> HIDE DEF j, stage
        <4> QED BY <4>1, <4>2
      <3>2. ASSUME NEW j, NEW stage \in {"revokeAll", "setCode", "claim"}, Begin(r, j, stage)
            PROVE  \E i, h : Begin(r, i, h) /\ (h = "write" => i.kind \in {"reject", "suspend"})
        BY <3>2
      <3> QED BY <1>1, <3>1, <3>2 DEF Request, BeginGenerate, BeginExpire, BeginRevoke, BeginSignup, Decisions
    <2>2. pc'[r] = stage /\ job'[r] = j /\ UNCHANGED <<user, slotLock, strayed>> /\ \A q \in Reqs \ {r} : pc'[q] = pc[q] /\ job'[q] = job[q]
      BY <1>0, <2>1 DEF Begin, TypeOK
    <2>3. pc'[r] # "write" \/ job'[r].kind \notin SlotKinds
      BY <2>1, <2>2 DEF SlotKinds
    <2> QED BY <2>2, <2>3, SlotsKept
  <1>2. ASSUME NEW r \in Reqs, RevokeAll(r) PROVE SlotsOK'
    BY <1>0, <1>2, SlotsKept DEF RevokeAll, TypeOK
  <1>3. ASSUME NEW r \in Reqs, \/ SetCode(r) \/ \E k \in Codes : CreateCode(r, k) PROVE SlotsOK'
    <2>1. End(r) /\ UNCHANGED <<user, strayed>>
      BY <1>3 DEF SetCode, CreateCode
    <2>2. pc'[r] # "write"
      BY <1>0, <2>1, EndFacts
    <2> QED BY <1>0, <2>1, <2>2, EndFacts, SlotsKept
  <1>4. ASSUME NEW r \in Reqs, ClaimCode(r) PROVE SlotsOK'
    <2>1. ASSUME pc' = [pc EXCEPT ![r] = "slot"], UNCHANGED <<user, slotLock, job, strayed>> PROVE SlotsOK'
      BY <1>0, <2>1, SlotsKept DEF TypeOK
    <2> QED BY <1>4, <2>1, RollbackSlots DEF ClaimCode
  <1>5. ASSUME NEW r \in Reqs, LockBranchCashierSlot(r) PROVE SlotsOK'
    BY <1>5, LockSlotSlots, RollbackSlots DEF LockBranchCashierSlot
  <1>6. ASSUME NEW r \in Reqs, WriteSignup(r) PROVE SlotsOK'
    <2>1. CASE UniqueViolation(r)
      BY <1>6, <2>1, RollbackSlots DEF WriteSignup
    <2>2. CASE ~UniqueViolation(r)
      <3>1. PICK c \in Cashiers, s \in Shops :
              /\ c = job[r].cashier /\ s = job[r].shop /\ End(r)
              /\ user' = [user EXCEPT ![c] = [status |-> "PENDING", shop |-> s]] /\ strayed' = strayed \ {c}
        BY <1>6, <2>2, WrittenSignup
      <3>2. user'[c].shop = job[r].shop /\ \A d \in Cashiers \ {c} : user'[d] = user[d]
        BY <1>0, <3>1 DEF TypeOK
      <3>3. pc[r] = "write" /\ job[r].kind \in SlotKinds
        BY <1>6 DEF WriteSignup, SlotKinds
      <3> QED BY <3>1, <3>2, <3>3, OpenedUnderSlot
    <2> QED BY <2>1, <2>2
  <1>7. ASSUME NEW r \in Reqs, WriteDecision(r) PROVE SlotsOK'
    <2>1. PICK c \in Cashiers :
            /\ c = job[r].cashier /\ job[r].kind \in Decisions
            /\ user'[c].status = Decided(job[r].kind) /\ user'[c].shop = user[c].shop
            /\ (\A d \in Cashiers \ {c} : user'[d] = user[d]) /\ End(r)
            /\ strayed' = IF job[r].kind \in {"approve", "activate"} /\ job[r].shop # user[c].shop
                          THEN strayed \cup {c} ELSE strayed \ {c}
      BY <1>7, WrittenDecision
    <2>2. CASE job[r].kind \in {"approve", "activate"}
      <3>1. CASE job[r].shop = user[c].shop
        <4>1. pc[r] = "write" /\ user'[c].shop = job[r].shop /\ strayed' = strayed \ {c}
          BY <1>7, <2>1, <3>1 DEF WriteDecision
        <4> QED BY <2>1, <2>2, <4>1, OpenedUnderSlot DEF SlotKinds
      <3>2. CASE job[r].shop # user[c].shop
        <4>1. strayed' = strayed \cup {c}
          BY <2>1, <2>2, <3>2
        <4> QED BY <2>1, <4>1, OpenedElsewhere
      <3> QED BY <3>1, <3>2
    <2>3. CASE job[r].kind \in {"reject", "suspend"}
      <3>1. user'[c].status \notin OpenStatuses
        BY <2>1, <2>3 DEF Decided, OpenStatuses
      <3>2. pc'[r] # "write"
        BY <1>0, <2>1, EndFacts
      <3>3. \A d \in Cashiers : user'[d].status \in OpenStatuses => user[d].status \in OpenStatuses /\ user'[d].shop = user[d].shop
        BY <2>1, <3>1
      <3>4. \A d \in Cashiers : user'[d].status \in OpenStatuses /\ d \in strayed => d \in strayed'
        BY <2>1, <2>3, <3>1
      <3> QED BY <1>0, <2>1, <3>2, <3>3, <3>4, EndFacts, SlotsKept
    <2> QED BY <2>1, <2>2, <2>3 DEF Decisions
  <1>8. ASSUME NEW r \in Reqs, Fail(r) PROVE SlotsOK'
    BY <1>8, RollbackSlots DEF Fail
  <1>9. ASSUME UNCHANGED <<user, slotLock, pc, job, strayed>> PROVE SlotsOK'
    BY <1>9 DEF SlotsOK, HasSlot, OneCashierUnlessStrayed, Colleagues, OpenStatuses
  <1> QED BY <1>1, <1>2, <1>3, <1>4, <1>5, <1>6, <1>7, <1>8, <1>9 DEF Next, Step, VerifyInvitation, Expire, vars

LEMMA InitSlots ==
  ASSUME Init
  PROVE  SlotsOK
  BY DEF Init, SlotsOK, HasSlot, OneCashierUnlessStrayed, Colleagues, OpenStatuses

\* Two cashiers of one branch are ACTIVE or PENDING only if a decision that held
\* the slot of a branch its cashier had left opened one of them: but for that
\* race the slot's lock orders signups, approvals and activations, for any
\* number of each and any number of branches.
THEOREM OneCashierUnlessAstray == Spec => []OneCashierUnlessStrayed
  <1>1. SlotsOK => OneCashierUnlessStrayed
    BY DEF SlotsOK
  <1> QED BY <1>1, InitSlots, NextSlots, Invariant, PTL DEF Spec

=============================================================================
