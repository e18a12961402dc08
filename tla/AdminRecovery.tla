---------------------------- MODULE AdminRecovery ----------------------------
(***************************************************************************)
(* The account of one admin: emergency recovery codes                      *)
(* (lib/recoveryCodes.ts), passkeys (lib/passkeys.ts), the recovery that   *)
(* turns a code or a passkey assertion into a grant and a grant into a new *)
(* password (lib/adminRecovery.ts, lib/recoveryGrant.ts), and the login    *)
(* that competes with it (routes/auth.ts).                                 *)
(*                                                                         *)
(* An op is one HTTP handler.  Inside a transaction it makes one step per  *)
(* statement that can wait: for a row another transaction has written, or  *)
(* for the user row.  The user row is locked FOR UPDATE by a reset, a      *)
(* generation and a registration; inserting a row that refers to the user  *)
(* (a grant, a session, a challenge) takes the key-share lock of the       *)
(* foreign key, which waits for FOR UPDATE and is waited for by it.        *)
(*                                                                         *)
(* The challenges of the passkey login are claimed before anything is      *)
(* verified; no property is about their number, so their creation is one   *)
(* step.                                                                   *)
(*                                                                         *)
(* Wrong codes, foreign credentials and other User-Agents match no row and *)
(* change nothing but the throttle's ledger (RecoveryThrottle).            *)
(***************************************************************************)
EXTENDS Integers, FiniteSets

CONSTANTS
  MaxSets, SetSize,        \* generations explored; RECOVERY_CODE_COUNT
  Grants, Passkeys,        \* rows that may come to exist
  MaxCounter,              \* bound: the signature counters authenticators report
  MaxChallenges,           \* bound: authentication challenges
  MaxLive,                 \* MAX_LIVE_CHALLENGES_PER_SUBJECT
  Ceremonies,              \* registration challenges that may come to exist
  MaxPasskeys,             \* MAX_PASSKEYS_PER_ADMIN
  Sessions, Ops, None

Codes == (1..MaxSets) \X (1..SetSize)

\* Rows of different tables differ.
ASSUME AdminAssumption ==
  /\ MaxSets \in Nat /\ SetSize \in Nat \ {0} /\ MaxChallenges \in Nat /\ MaxLive \in Nat \ {0}
  /\ MaxPasskeys \in Nat \ {0} /\ MaxCounter \in Nat
  /\ Codes \cap (Grants \cup Passkeys) = {} /\ Grants \cap Passkeys = {}
  /\ Ceremonies \cap (Codes \cup Grants \cup Passkeys) = {}
  /\ IsFiniteSet(Grants) /\ IsFiniteSet(Passkeys) /\ IsFiniteSet(Ops)
  /\ None \notin Grants \cup Passkeys \cup Sessions \cup Ops \cup Ceremonies

VARIABLES
  active,        \* User.status = ACTIVE
  userLock,      \* the transaction that holds the user row FOR UPDATE
  cut,           \* how many resets have committed
  codes, sets,   \* admin_recovery_codes, generations so far
  issues,        \* how many grants a code has bought
  grant, resets, \* admin_recovery_grants; how often a grant has set the password
  challenge,     \* admin_recovery_challenges
  passkey,       \* admin_passkeys: their counter; -1 before, -2 after their life
  uses,          \* history: how many grants a passkey has bought with each counter
  ceremony,      \* admin_passkey_challenges
  session,       \* sessions
  op

creds == <<codes, sets, issues, challenge, passkey, uses, ceremony>>
vars == <<active, userLock, cut, codes, sets, issues, grant, resets, challenge, passkey, uses, ceremony, session, op>>

Idle == [pc |-> "idle", row |-> None, next |-> "idle", held |-> {}, seen |-> 0, born |-> 0]
NoGrant == [status |-> "none", born |-> 0]
NoSession == [status |-> "none", seen |-> 0, born |-> 0]

Init ==
  /\ active = TRUE /\ userLock = None /\ cut = 0
  /\ codes = [c \in Codes |-> "none"] /\ sets = 0
  /\ issues = [c \in Codes |-> 0]
  /\ grant = [g \in Grants |-> NoGrant]
  /\ resets = [g \in Grants |-> 0]
  /\ challenge = [h \in 1..MaxChallenges |-> "none"]
  /\ passkey = [p \in Passkeys |-> -1]
  /\ uses = [p \in Passkeys |-> [n \in 0..MaxCounter |-> 0]]
  /\ ceremony = [h \in Ceremonies |-> "none"]
  /\ session = [s \in Sessions |-> NoSession]
  /\ op = [o \in Ops |-> Idle]

At(o, stage) == op[o].pc = stage
Goto(o, new) == op' = [op EXCEPT ![o] = new]
Begin(o, new) == op[o] = Idle /\ Goto(o, new)
Finish(o) == Goto(o, Idle)

\* A row some other open transaction has written.
Busy(row, o) == \E q \in Ops \ {o} : row \in op[q].held

\* Open transactions that have inserted a row referring to the user.
Sharing == {q \in Ops : op[q].pc = "issued"}

\* A foreign key can be checked.
KeyShareFree == userLock = None

Release(o) == userLock' = IF userLock = o THEN None ELSE userLock

\* Bound: a handler begins only if a row is left for it to create.
Spare(rows, stages) == Cardinality(rows) > Cardinality({q \in Ops : op[q].pc \in stages})

-----------------------------------------------------------------------------
(* Locking the user row.                                                   *)

\* mutant: the user row is read without FOR UPDATE
LockUserNoWait(o) ==
  /\ At(o, "lock")
  /\ IF active THEN Goto(o, [op[o] EXCEPT !.pc = op[o].next]) ELSE Finish(o)
  /\ UNCHANGED <<active, userLock, cut, creds, grant, resets, session>>

\* SELECT ... FOR UPDATE, then role and status on the locked row; an account
\* that is no longer ACTIVE rolls the transaction back.
LockUser(o) ==
  /\ At(o, "lock")
  /\ userLock = None /\ Sharing \subseteq {o}
  /\ IF active
     THEN userLock' = o /\ Goto(o, [op[o] EXCEPT !.pc = op[o].next])
     ELSE UNCHANGED userLock /\ Finish(o)
  /\ UNCHANGED <<active, cut, creds, grant, resets, session>>

LiveCodes == {c \in Codes : codes[c] = "live"}
LiveGrants == {g \in Grants : grant[g].status \in {"live", "lapsed"}}

\* mutant: a reset revokes the recovery codes too
RowsToWriteAll(o) == IF At(o, "generate") THEN LiveCodes ELSE IF At(o, "reset") THEN LiveGrants \cup LiveCodes ELSE {}

\* Rows of the account that the transaction writes while it holds the user row.
RowsToWrite(o) == IF At(o, "generate") THEN LiveCodes ELSE IF At(o, "reset") THEN LiveGrants ELSE {}

CanWrite(o) == \A row \in RowsToWrite(o) : ~Busy(row, o)

-----------------------------------------------------------------------------
(* Security settings: codes and passkeys.                                  *)

\* authenticate() and requireRecentAuth(): the account is ACTIVE and the
\* request carries its password.  What holds for any caller holds for those
\* with a session, so the session is not asked for.
RequireRecentAuth == active

\* POST /security/recovery-codes
Generate(o) ==
  /\ RequireRecentAuth
  /\ sets + Cardinality({q \in Ops : op[q].next = "generate"}) < MaxSets
  /\ Begin(o, [Idle EXCEPT !.pc = "lock", !.next = "generate"])
  /\ UNCHANGED <<active, userLock, cut, creds, grant, resets, session>>

\* generateRecoveryCodeSet(): what is live is revoked, ...
RevokeLiveCodes(o) ==
  /\ At(o, "generate") /\ CanWrite(o)
  /\ Goto(o, [op[o] EXCEPT !.pc = "createSet", !.held = LiveCodes])
  /\ UNCHANGED <<active, userLock, cut, creds, grant, resets, session>>

\* mutant: the old codes get a status no code has
GenerateExpiring(o) ==
  /\ At(o, "createSet")
  /\ codes' = [c \in Codes |-> IF c[1] = sets + 1 THEN "live" ELSE IF c \in op[o].held THEN "EXPIRED" ELSE codes[c]]
  /\ sets' = sets + 1
  /\ Release(o) /\ Finish(o)
  /\ UNCHANGED <<active, cut, issues, challenge, passkey, uses, ceremony, grant, resets, session>>

\* ... a set is created; COMMIT.
GenerateRecoveryCodeSet(o) ==
  /\ At(o, "createSet")
  /\ codes' = [c \in Codes |-> IF c[1] = sets + 1 THEN "live" ELSE IF c \in op[o].held THEN "revoked" ELSE codes[c]]
  /\ sets' = sets + 1
  /\ Release(o) /\ Finish(o)
  /\ UNCHANGED <<active, cut, issues, challenge, passkey, uses, ceremony, grant, resets, session>>

Registered == {p \in Passkeys : passkey[p] >= 0}

\* createRegistrationOptions(): the limit is read; earlier ceremonies are retired
CreateRegistrationOptions(o) ==
  /\ RequireRecentAuth
  /\ Cardinality(Registered) < MaxPasskeys
  /\ Spare({h \in Ceremonies : ceremony[h] = "none"}, {"options"})
  /\ Begin(o, [Idle EXCEPT !.pc = "options", !.held = {h \in Ceremonies : ceremony[h] = "live"}])
  /\ \A h \in Ceremonies : ceremony[h] = "live" => ~Busy(h, o)
  /\ UNCHANGED <<active, userLock, cut, creds, grant, resets, session>>

\* ... and the new one is created.
CreateCeremony(o) ==
  /\ At(o, "options") /\ KeyShareFree
  /\ \E n \in Ceremonies :
       /\ ceremony[n] = "none"
       /\ ceremony' = [h \in Ceremonies |-> IF h = n THEN "live" ELSE IF h \in op[o].held THEN "used" ELSE ceremony[h]]
  /\ Finish(o)
  /\ UNCHANGED <<active, userLock, cut, codes, sets, issues, challenge, passkey, uses, grant, resets, session>>

\* completeRegistration(): the challenge is claimed before the response is
\* verified; a response that does not verify ends here.
CompleteRegistration(o, h) ==
  /\ active /\ ceremony[h] = "live" /\ ~Busy(h, o)
  /\ ceremony' = [ceremony EXCEPT ![h] = "used"]
  /\ op[o] = Idle
  /\ \/ Goto(o, [Idle EXCEPT !.pc = "lock", !.next = "register"])
     \/ Finish(o)
  /\ UNCHANGED <<active, userLock, cut, codes, sets, issues, challenge, passkey, uses, grant, resets, session>>

\* Its transaction, under the user row: the passkeys are counted, ...
CountPasskeys(o) ==
  /\ At(o, "register")
  /\ IF Cardinality(Registered) < MaxPasskeys
     THEN UNCHANGED userLock /\ Goto(o, [op[o] EXCEPT !.pc = "createPasskey"])
     ELSE Release(o) /\ Finish(o)
  /\ UNCHANGED <<active, cut, creds, grant, resets, session>>

\* ... then the new one is stored with the counter its authenticator reported;
\* a credential that is registered already raises P2002.
RegisterPasskey(o) ==
  /\ At(o, "createPasskey")
  /\ \/ \E p \in Passkeys, n \in 0..MaxCounter : passkey[p] = -1 /\ passkey' = [passkey EXCEPT ![p] = n]
     \/ UNCHANGED passkey
  /\ Release(o) /\ Finish(o)
  /\ UNCHANGED <<active, cut, codes, sets, issues, challenge, uses, ceremony, grant, resets, session>>

\* removePasskey()
RemovePasskey(o, p) ==
  /\ RequireRecentAuth
  /\ op[o] = Idle /\ p \in Registered /\ ~Busy(p, o)
  /\ passkey' = [passkey EXCEPT ![p] = -2]
  /\ UNCHANGED <<active, userLock, cut, codes, sets, issues, uses, challenge, ceremony, grant, resets, session, op>>

-----------------------------------------------------------------------------
(* From a code or a passkey to a grant.                                    *)

GrantSpare == Spare({g \in Grants : grant[g].status = "none"}, {"consume", "claimed", "counter", "insert", "issued"})

\* verifyRecoveryCode(): not throttled, the account is an active admin.
VerifyRecoveryCode(o, c) ==
  /\ active /\ codes[c] # "none" /\ GrantSpare
  /\ Begin(o, [Idle EXCEPT !.pc = "consume", !.row = c])
  /\ UNCHANGED <<active, userLock, cut, creds, grant, resets, session>>

\* mutant: a code that was found is not tested again
ConsumeAsFound(o) ==
  /\ At(o, "consume")
  /\ Goto(o, [op[o] EXCEPT !.pc = "insert", !.held = {op[o].row}])
  /\ UNCHANGED <<active, userLock, cut, creds, grant, resets, session>>

\* consumeRecoveryCode(): the conditional UPDATE, once the row is free.
ConsumeRecoveryCode(o) ==
  /\ At(o, "consume") /\ ~Busy(op[o].row, o)
  /\ IF codes[op[o].row] = "live"
     THEN Goto(o, [op[o] EXCEPT !.pc = "insert", !.held = {op[o].row}])
     ELSE Finish(o)
  /\ UNCHANGED <<active, userLock, cut, creds, grant, resets, session>>

\* createPasskeyAuthenticationOptions(): the newest MaxLive live challenges
\* stay, the others are deleted.
CreateChallenge(n) ==
  LET live == {h \in 1..MaxChallenges : challenge[h] = "live"} \cup {n}
      surplus == {h \in live : Cardinality({k \in live : k > h}) >= MaxLive}
  IN /\ challenge[n] = "none" /\ \A h \in 1..n - 1 : challenge[h] # "none"
     /\ challenge' = [h \in 1..MaxChallenges |-> IF h \in surplus THEN "gone" ELSE IF h = n THEN "live" ELSE challenge[h]]
     /\ UNCHANGED <<active, userLock, cut, codes, sets, issues, passkey, uses, ceremony, grant, resets, session, op>>

\* verifyPasskeyRecovery(): the challenge is claimed before anything is verified
VerifyPasskeyRecovery(o, h) ==
  /\ challenge[h] = "live" /\ GrantSpare
  /\ challenge' = [challenge EXCEPT ![h] = "used"]
  /\ Begin(o, [Idle EXCEPT !.pc = "claimed"])
  /\ UNCHANGED <<active, userLock, cut, codes, sets, issues, passkey, uses, ceremony, grant, resets, session>>

\* verifyPasskeyAuthentication() refuses a counter that does not advance, unless
\* the authenticator keeps none.
NewCounters(seen) == {n \in 0..MaxCounter : n > seen \/ (n = 0 /\ seen = 0)}

\* ... the account and its passkey are read and the assertion verified, or not
ReadPasskey(o) ==
  /\ At(o, "claimed")
  /\ \/ /\ active
        /\ \E p \in Registered :
             /\ NewCounters(passkey[p]) # {}
             /\ Goto(o, [op[o] EXCEPT !.pc = "counter", !.row = p, !.seen = passkey[p]])
     \/ Finish(o)
  /\ UNCHANGED <<active, userLock, cut, creds, grant, resets, session>>

\* mutant: the counter is advanced whatever it is by now
AdvanceBlindly(o) ==
  /\ At(o, "counter") /\ ~Busy(op[o].row, o)
  /\ Goto(o, [op[o] EXCEPT !.pc = "insert", !.held = {op[o].row}])
  /\ UNCHANGED <<active, userLock, cut, creds, grant, resets, session>>

\* ... its counter is compared and set.
AdvanceCounter(o) ==
  /\ At(o, "counter") /\ ~Busy(op[o].row, o)
  /\ IF passkey[op[o].row] = op[o].seen
     THEN Goto(o, [op[o] EXCEPT !.pc = "insert", !.held = {op[o].row}])
     ELSE Finish(o)
  /\ UNCHANGED <<active, userLock, cut, creds, grant, resets, session>>

\* issueRecoveryGrant(): the INSERT takes the key-share lock of the user row.
IssueRecoveryGrant(o) ==
  /\ At(o, "insert") /\ KeyShareFree
  /\ Goto(o, [op[o] EXCEPT !.pc = "issued", !.born = cut])
  /\ UNCHANGED <<active, userLock, cut, creds, grant, resets, session>>

\* COMMIT: the code is used or the counter is the one of the assertion, and the
\* grant exists.
CommitGrant(o) ==
  /\ At(o, "issued")
  /\ \E g \in Grants :
       /\ grant[g].status = "none"
       /\ grant' = [grant EXCEPT ![g] = [status |-> "live", born |-> op[o].born]]
  /\ LET row == op[o].row
     IN IF row \in Codes
        THEN /\ codes' = [codes EXCEPT ![row] = "used"]
             /\ issues' = [issues EXCEPT ![row] = @ + 1]
             /\ UNCHANGED <<passkey, uses>>
        ELSE /\ \E n \in NewCounters(op[o].seen) :
                  /\ passkey' = [passkey EXCEPT ![row] = n]
                  /\ uses' = [uses EXCEPT ![row][n] = @ + 1]
             /\ UNCHANGED <<codes, issues>>
  /\ Finish(o)
  /\ UNCHANGED <<active, userLock, cut, sets, challenge, ceremony, resets, session>>

\* The deadline of a grant passes.  A transaction that has claimed the grant
\* before has done with it; should it be rolled back, the deadline counts.
LapseGrant(g) ==
  /\ grant[g].status = "live" /\ \A o \in Ops : g \notin op[o].held
  /\ grant' = [grant EXCEPT ![g].status = "lapsed"]
  /\ UNCHANGED <<active, userLock, cut, creds, resets, session, op>>

-----------------------------------------------------------------------------
(* From a grant to a password.                                             *)

\* resetPasswordWithGrant() up to its transaction: the grant was usable when
\* it was looked up.
ResetPasswordWithGrant(o, g) ==
  /\ grant[g].status = "live"
  /\ Begin(o, [Idle EXCEPT !.pc = "redeem", !.row = g])
  /\ UNCHANGED <<active, userLock, cut, creds, grant, resets, session>>

\* consumeRecoveryGrant()
ConsumeRecoveryGrant(o) ==
  /\ At(o, "redeem") /\ ~Busy(op[o].row, o)
  /\ IF grant[op[o].row].status = "live"
     THEN Goto(o, [op[o] EXCEPT !.pc = "lock", !.next = "reset", !.held = {op[o].row}])
     ELSE Finish(o)
  /\ UNCHANGED <<active, userLock, cut, creds, grant, resets, session>>

\* Under the user row: the password, every session, every other grant; COMMIT.
ResetPassword(o) ==
  /\ At(o, "reset") /\ CanWrite(o)
  /\ cut' = cut + 1
  /\ resets' = [resets EXCEPT ![op[o].row] = @ + 1]
  /\ grant' = [g \in Grants |-> IF g = op[o].row THEN [grant[g] EXCEPT !.status = "spent"]
                                ELSE IF g \in LiveGrants THEN [grant[g] EXCEPT !.status = "dead"] ELSE grant[g]]
  /\ session' = [s \in Sessions |-> IF session[s].status = "OPEN" THEN [session[s] EXCEPT !.status = "REVOKED"]
                                   ELSE session[s]]
  /\ Release(o) /\ Finish(o)
  /\ UNCHANGED <<active, creds>>

-----------------------------------------------------------------------------
(* Sessions, the operator, failures.                                       *)

\* POST /auth/admin/login: the password and the status pass, then issueSession().
AdminLogin(o) ==
  /\ active
  /\ Spare({s \in Sessions : session[s].status = "none"}, {"login"})
  /\ Begin(o, [Idle EXCEPT !.pc = "login", !.seen = cut])
  /\ UNCHANGED <<active, userLock, cut, creds, grant, resets, session>>

IssueSession(o) ==
  /\ At(o, "login") /\ KeyShareFree
  /\ \E s \in Sessions :
       /\ session[s].status = "none"
       /\ session' = [session EXCEPT ![s] = [status |-> "OPEN", seen |-> op[o].seen, born |-> cut]]
  /\ Finish(o)
  /\ UNCHANGED <<active, userLock, cut, creds, grant, resets>>

\* An admin's status is changed in the database, never through the API.
Deactivate ==
  /\ active /\ userLock = None
  /\ active' = FALSE
  /\ UNCHANGED <<userLock, cut, creds, grant, resets, session, op>>

\* A crash, a lost connection, a timeout or the deadlock detector: the open
\* transaction is rolled back.
Abort(o) ==
  /\ op[o] # Idle
  /\ Release(o) /\ Finish(o)
  /\ UNCHANGED <<active, cut, creds, grant, resets, session>>

-----------------------------------------------------------------------------
Step(o) ==
  \/ LockUser(o) \/ RevokeLiveCodes(o) \/ GenerateRecoveryCodeSet(o)
  \/ CreateCeremony(o) \/ CountPasskeys(o) \/ RegisterPasskey(o)
  \/ ConsumeRecoveryCode(o) \/ ReadPasskey(o) \/ AdvanceCounter(o) \/ IssueRecoveryGrant(o) \/ CommitGrant(o)
  \/ ConsumeRecoveryGrant(o) \/ ResetPassword(o) \/ IssueSession(o)

\* What a signed-in admin may ask for ...
SecuritySettings(o) ==
  \/ Generate(o) \/ CreateRegistrationOptions(o)
  \/ \E h \in Ceremonies : CompleteRegistration(o, h)
  \/ \E p \in Passkeys : RemovePasskey(o, p)

\* ... and what anybody may.
RecoveryEndpoints(o) ==
  \/ \E c \in Codes : VerifyRecoveryCode(o, c)
  \/ \E h \in 1..MaxChallenges : CreateChallenge(h) \/ VerifyPasskeyRecovery(o, h)
  \/ \E g \in Grants : ResetPasswordWithGrant(o, g)

Next ==
  \/ \E o \in Ops : SecuritySettings(o) \/ RecoveryEndpoints(o) \/ AdminLogin(o) \/ Step(o) \/ Abort(o)
  \/ \E g \in Grants : LapseGrant(g)
  \/ Deactivate

Spec == Init /\ [][Next]_vars

-----------------------------------------------------------------------------
(* Properties.                                                             *)

\* The type invariant.
TypeOK ==
  /\ active \in BOOLEAN /\ userLock \in Ops \cup {None}
  /\ cut \in Nat /\ sets \in 0..MaxSets
  /\ codes \in [Codes -> {"none", "live", "used", "revoked"}]
  /\ issues \in [Codes -> Nat]
  /\ grant \in [Grants -> [status : {"none", "live", "lapsed", "spent", "dead"}, born : Nat]]
  /\ resets \in [Grants -> Nat]
  /\ challenge \in [1..MaxChallenges -> {"none", "live", "used", "gone"}]
  /\ passkey \in [Passkeys -> (0..MaxCounter) \cup {-1, -2}]
  /\ uses \in [Passkeys -> [0..MaxCounter -> Nat]]
  /\ ceremony \in [Ceremonies -> {"none", "live", "used"}]
  /\ session \in [Sessions -> [status : {"none", "OPEN", "REVOKED"}, seen : Nat, born : Nat]]
  /\ op \in [Ops -> [pc : {"idle", "lock", "generate", "createSet", "options", "register", "createPasskey", "consume",
                           "claimed", "counter", "insert", "issued", "redeem", "reset", "login"},
                     next : {"idle", "generate", "register", "reset"},
                     row : Codes \cup Grants \cup Passkeys \cup {None},
                     held : SUBSET (Codes \cup Grants \cup Passkeys \cup Ceremonies),
                     seen : Nat, born : Nat]]

\* A reset leaves no grant and no session that was inserted before it: the
\* FOR UPDATE lock of the user row waits for the key-share locks of those
\* inserts and holds up the later ones.  (A login that verified the old
\* password may still insert its session after the reset.)
NothingOutlivesReset ==
  /\ \A g \in LiveGrants : grant[g].born = cut
  /\ \A s \in Sessions : session[s].status = "OPEN" => session[s].born = cut

\* What the user row serialises.  Two generations, each revoking what it finds
\* before it creates, leave usable codes of one set only; two registrations,
\* each counting before it creates, stay within MaxPasskeys, although the
\* options were handed out by a count without a lock.
LimitsUnderLock ==
  /\ \A c, d \in LiveCodes : c[1] = d[1]
  /\ Cardinality(Registered) <= MaxPasskeys

SecretState(s) ==
  IF s \in Codes
  THEN [none |-> "none", live |-> "live", used |-> "spent", revoked |-> "dead"][codes[s]]
  ELSE [none |-> "none", live |-> "live", lapsed |-> "dead", spent |-> "spent", dead |-> "dead"][grant[s].status]

Secret == INSTANCE OneTimeSecret
            WITH Secrets <- Codes \cup Grants,
                 state <- [s \in Codes \cup Grants |-> SecretState(s)],
                 bought <- [s \in Codes \cup Grants |-> IF s \in Codes THEN issues[s] ELSE resets[s]]

\* Recovery codes and grants are one-time secrets: concurrent verifications,
\* regenerations, resets, deadlines and aborted transactions never let a code
\* buy two grants or a grant two passwords, nor revive a dead one.
SecretsAreOneTime == Secret!Spec

\* "Two concurrent assertions can't both advance it, and a replayed/cloned
\* authenticator loses the race" (verifyPasskeyRecovery): a signature counter
\* buys at most one grant and the stored one never goes back behind a counter
\* that has bought one, although assertions are verified against a counter
\* read before the transaction.  (Authenticators that keep no counter always
\* report 0.)
CountersSpentOnce ==
  \A p \in Passkeys : \A n \in 1..MaxCounter :
    uses[p][n] > 0 => uses[p][n] = 1 /\ (p \in Registered => n <= passkey[p])

\* Handler o waits for a lock that q holds.
WaitsFor(o, q) ==
  /\ o # q
  /\ \/ At(o, "lock") /\ (userLock = q \/ q \in Sharing)
     \/ op[o].pc \in {"insert", "login", "options"} /\ userLock = q
     \/ op[o].pc \in {"consume", "counter", "redeem"} /\ op[o].row \in op[q].held
     \/ RowsToWrite(o) \cap op[q].held # {}

\* Two handlers wait for each other only when a new set of codes meets a
\* verification of an old one (code row against user row) or two resets meet
\* (grant row against user row); a reset and a verification never do.
OnlyKnownDeadlocks ==
  \A o, q \in Ops :
    WaitsFor(o, q) /\ WaitsFor(q, o) /\ userLock = o =>
      \/ At(o, "generate") /\ At(q, "insert") /\ op[q].row \in Codes
      \/ At(o, "reset") /\ At(q, "lock") /\ op[q].next = "reset"
===============================================================================
