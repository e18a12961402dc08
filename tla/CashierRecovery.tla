--------------------------- MODULE CashierRecovery ---------------------------
(***************************************************************************)
(* A cashier's account between its sessions and its password:              *)
(* login, logout and authentication (routes/auth.ts, plugins/auth.ts,      *)
(* lib/session.ts), suspension (routes/admin/cashiers.ts) and the admin-   *)
(* assisted recovery of lib/cashierRecovery.ts (request, approval with a   *)
(* one-time code, rejection, reset).                                       *)
(*                                                                         *)
(* An op is one HTTP handler; it makes one step per statement or           *)
(* transaction, and a transaction that can wait or be overtaken has one    *)
(* step that takes its row locks and one that commits.  The code a request *)
(* was approved with is named by the request.  Time is the age of a        *)
(* request: 0 before its deadline, 1 after it, 2 out of the hourly window. *)
(***************************************************************************)
EXTENDS Integers, FiniteSets

CONSTANTS
  Cashiers, Requests, Sessions,   \* accounts; rows that may come to exist
  Ops,                            \* concurrent handlers
  PerHour,                        \* CASHIER_RECOVERY_LIMITS.perAccountPerHour
  MaxCuts,                        \* bound: suspensions explored
  None

ASSUME RecoveryAssumption ==
  /\ PerHour \in Nat \ {0} /\ MaxCuts \in Nat
  /\ IsFiniteSet(Requests) /\ IsFiniteSet(Ops)
  /\ None \notin Cashiers \cup Requests \cup Sessions

VARIABLES
  status,      \* User.status
  cut,         \* how often all sessions of a user were revoked at once
  request,     \* cashier_recovery_requests
  resets,      \* how often a request's code has set the password
  session,     \* sessions
  op           \* the handlers

vars == <<status, cut, request, resets, session, op>>

NoRequest == [status |-> "none", user |-> None, age |-> 0]
NoSession == [status |-> "none", user |-> None, seen |-> 0, raced |-> FALSE]
Idle == [pc |-> "idle", user |-> None, row |-> None, code |-> None, locked |-> {}, seen |-> 0]

Init ==
  /\ status = [u \in Cashiers |-> "ACTIVE"]
  /\ cut = [u \in Cashiers |-> 0]
  /\ request = [r \in Requests |-> NoRequest]
  /\ resets = [r \in Requests |-> 0]
  /\ session = [s \in Sessions |-> NoSession]
  /\ op = [o \in Ops |-> Idle]

Goto(o, new) == op' = [op EXCEPT ![o] = new]
Begin(o, new) == op[o] = Idle /\ Goto(o, new)
At(o, stage) == op[o].pc = stage
Finish(o) == Goto(o, Idle)

Active == {r \in Requests : request[r].status \in {"PENDING", "APPROVED"}}
Lapsed(r) == request[r].age > 0
OfUser(u) == {r \in Requests : request[r].user = u}

\* Rows whose lock another handler's open transaction holds.
Locked(r, o) == \E q \in Ops \ {o} : r \in op[q].locked

\* Bound: a handler begins only if a row is left for it to create.
Spare(rows, stages) == Cardinality(rows) > Cardinality({q \in Ops : op[q].pc \in stages})

\* Time passes.
Tick(r) ==
  /\ request[r].status # "none" /\ request[r].age < 2
  /\ request' = [request EXCEPT ![r].age = @ + 1]
  /\ UNCHANGED <<status, cut, resets, session, op>>

-----------------------------------------------------------------------------
(* Filing, listing, approving and rejecting a request.                     *)

Stale == {r \in Active : Lapsed(r)}

Expired(rows) == [r \in Requests |-> IF r \in rows THEN [request[r] EXCEPT !.status = "EXPIRED"] ELSE request[r]]

\* expireStaleRequests() outside a transaction; it waits for locked rows.
ExpireStale(o) ==
  /\ \A r \in Stale : ~Locked(r, o)
  /\ request' = Expired(Stale)
  /\ UNCHANGED <<status, cut, resets, session>>

\* submitRecoveryRequest(): unknown and inactive accounts end here.
SubmitRecoveryRequest(o, u) ==
  /\ status[u] = "ACTIVE"
  /\ Spare({r \in Requests : request[r].status = "none"}, {"submit", "create"})
  /\ Begin(o, [Idle EXCEPT !.pc = "submit", !.user = u])
  /\ UNCHANGED <<status, cut, request, resets, session>>

\* mutant: only open requests count towards the limit
OpenRecent(u) == {r \in OfUser(u) \cap Active : request[r].age < 2}

\* The requests of the account in the last hour, whatever became of them.
Recent(u) == {r \in OfUser(u) : request[r].age < 2}

\* Its transaction: lapsed rows of the account are expired and the requests
\* of the last hour counted.
CountRecent(o) ==
  /\ At(o, "submit")
  /\ LET u == op[o].user
         rows == Stale \cap OfUser(u)
     IN /\ \A r \in rows : ~Locked(r, o)
        /\ \/ /\ Cardinality(Recent(u)) < PerHour
              /\ Goto(o, [op[o] EXCEPT !.pc = "create", !.locked = rows])
              /\ UNCHANGED request
           \/ /\ Cardinality(Recent(u)) >= PerHour
              /\ request' = Expired(rows)
              /\ Finish(o)
  /\ UNCHANGED <<status, cut, resets, session>>

\* Rows that stand in the way of the partial unique index (one PENDING or
\* APPROVED request per user).
Conflicts(o) == (OfUser(op[o].user) \cap Active) \ op[o].locked

\* The INSERT and COMMIT; P2002 rolls the transaction back.
CreateRequest(o) ==
  /\ At(o, "create")
  /\ \A r \in Conflicts(o) : ~Locked(r, o)
  /\ \/ /\ Conflicts(o) = {}
        /\ \E n \in Requests :
             /\ request[n].status = "none"
             /\ request' = [Expired(op[o].locked) EXCEPT ![n] = [status |-> "PENDING", user |-> op[o].user, age |-> 0]]
     \/ Conflicts(o) # {} /\ UNCHANGED request
  /\ Finish(o)
  /\ UNCHANGED <<status, cut, resets, session>>

\* listRecoveryRequests() expires first and then only reads.
ListRecoveryRequests(o) == op[o] = Idle /\ ExpireStale(o) /\ UNCHANGED op

\* POST /:id/approve and /:id/reject expire first, then find the row.
Decide(o, r, verb) ==
  /\ request[r].status # "none"
  /\ Begin(o, [Idle EXCEPT !.pc = verb, !.row = r])
  /\ ExpireStale(o)

Approvable(r) == request[r].status = "PENDING" /\ ~Lapsed(r) /\ status[request[r].user] = "ACTIVE"

\* approveRecoveryRequest(): one conditional UPDATE; the deadline stays.
ApproveRequest(o) ==
  /\ At(o, "approve")
  /\ LET r == op[o].row
     IN /\ ~Locked(r, o)
        /\ request' = IF Approvable(r) THEN [request EXCEPT ![r].status = "APPROVED"] ELSE request
  /\ Finish(o)
  /\ UNCHANGED <<status, cut, resets, session>>

\* mutant: the status of the wrong enum is written
RejectAsRevoked(o) ==
  /\ At(o, "reject") /\ ~Locked(op[o].row, o)
  /\ request' = [request EXCEPT ![op[o].row].status = "REVOKED"]
  /\ Finish(o)
  /\ UNCHANGED <<status, cut, resets, session>>

\* rejectRecoveryRequest(): also revokes an approved code.
RejectRequest(o) ==
  /\ At(o, "reject")
  /\ LET r == op[o].row
     IN /\ ~Locked(r, o)
        /\ request' = IF r \in Active /\ ~Lapsed(r) THEN [request EXCEPT ![r].status = "REJECTED"] ELSE request
  /\ Finish(o)
  /\ UNCHANGED <<status, cut, resets, session>>

-----------------------------------------------------------------------------
(* Redeeming the code.                                                     *)

\* resetPasswordWithCode() up to its transaction: the account is eligible and
\* has an APPROVED request before its deadline.  The clock is not read again.
ReadRequest(o, u, code) ==
  /\ status[u] = "ACTIVE"
  /\ \E r \in OfUser(u) :
       /\ request[r].status = "APPROVED" /\ ~Lapsed(r)
       /\ Begin(o, [Idle EXCEPT !.pc = "claim", !.user = u, !.row = r, !.code = code])
  /\ UNCHANGED <<status, cut, request, resets, session>>

\* mutant: the claim relies on the request read before
ClaimableAsRead(o) == op[o].code = op[o].row

\* hashCashierRecoveryCode() binds a code to its request and user, and every
\* spelling of it has one hash.
CodeMatches(o) == op[o].code = op[o].row

\* The conditions of the claiming UPDATE.
Claimable(o) == request[op[o].row].status = "APPROVED" /\ CodeMatches(o)

\* The transaction claims the request, writes the password and revokes the
\* sessions it can see.
ClaimRequest(o) ==
  /\ At(o, "claim")
  /\ ~Locked(op[o].row, o)
  /\ IF Claimable(o) THEN Goto(o, [op[o] EXCEPT !.pc = "commit", !.locked = {op[o].row}]) ELSE Finish(o)
  /\ session' = IF Claimable(o)
                THEN [s \in Sessions |-> IF session[s].status = "OPEN" /\ session[s].user = op[o].user
                                         THEN [session[s] EXCEPT !.status = "revoking"] ELSE session[s]]
                ELSE session
  /\ UNCHANGED <<status, cut, request, resets>>

\* A session is usable until its revocation commits.
Live(s) == session[s].status \in {"OPEN", "revoking"}

\* mutant: the reset forgets the sessions
CommitKeepingSessions(o) ==
  /\ At(o, "commit")
  /\ request' = [request EXCEPT ![op[o].row].status = "COMPLETED"]
  /\ resets' = [resets EXCEPT ![op[o].row] = @ + 1]
  /\ cut' = [cut EXCEPT ![op[o].user] = @ + 1]
  /\ Finish(o)
  /\ UNCHANGED <<status, session>>

CommitReset(o) ==
  /\ At(o, "commit")
  /\ request' = [request EXCEPT ![op[o].row].status = "COMPLETED"]
  /\ resets' = [resets EXCEPT ![op[o].row] = @ + 1]
  /\ session' = [s \in Sessions |-> IF session[s].status = "revoking" /\ session[s].user = op[o].user
                                    THEN [session[s] EXCEPT !.status = "REVOKED"] ELSE session[s]]
  /\ cut' = [cut EXCEPT ![op[o].user] = @ + 1]
  /\ Finish(o)
  /\ UNCHANGED status

-----------------------------------------------------------------------------
(* Sessions.                                                               *)

\* POST /auth/login: the user row is read, the password and the status pass.
Login(o, u) ==
  /\ status[u] = "ACTIVE"
  /\ Spare({s \in Sessions : session[s].status = "none"}, {"issue"})
  /\ Begin(o, [Idle EXCEPT !.pc = "issue", !.user = u, !.seen = cut[u]])
  /\ UNCHANGED <<status, cut, request, resets, session>>

\* issueSession(), a statement of its own.
IssueSession(o) ==
  /\ At(o, "issue")
  /\ \E s \in Sessions :
       /\ session[s].status = "none"
       /\ session' = [session EXCEPT ![s] =
            [status |-> "OPEN", user |-> op[o].user, seen |-> op[o].seen,
             raced |-> \/ cut[op[o].user] # op[o].seen
                       \/ \E q \in Ops : At(q, "commit") /\ op[q].user = op[o].user]]
  /\ Finish(o)
  /\ UNCHANGED <<status, cut, request, resets>>

\* POST /auth/logout, authenticate() first: the session row, then the user.
Logout(o, s) ==
  /\ Live(s) /\ status[session[s].user] = "ACTIVE"
  /\ Begin(o, [Idle EXCEPT !.pc = "revoke", !.row = s])
  /\ UNCHANGED <<status, cut, request, resets, session>>

RevokeSession(o) ==
  /\ At(o, "revoke")
  /\ session[op[o].row].status # "revoking"   \* waits for the reset that holds the row
  /\ session' = [session EXCEPT ![op[o].row].status = "REVOKED"]
  /\ Finish(o)
  /\ UNCHANGED <<status, cut, request, resets>>

\* PATCH /admin/cashiers/:id/status
Suspend(o, u) ==
  /\ cut[u] < MaxCuts
  /\ status' = [status EXCEPT ![u] = "SUSPENDED"]
  /\ Begin(o, [Idle EXCEPT !.pc = "kill", !.user = u])
  /\ UNCHANGED <<cut, request, resets, session>>

\* ... and all live sessions, in a second statement.
KillSessions(o) ==
  /\ At(o, "kill")
  /\ \A s \in Sessions : session[s].user = op[o].user => session[s].status # "revoking"
  /\ session' = [s \in Sessions |-> IF Live(s) /\ session[s].user = op[o].user
                                    THEN [session[s] EXCEPT !.status = "REVOKED"] ELSE session[s]]
  /\ cut' = [cut EXCEPT ![op[o].user] = @ + 1]
  /\ Finish(o)
  /\ UNCHANGED <<status, request, resets>>

Activate(u) ==
  /\ status[u] = "SUSPENDED"
  /\ status' = [status EXCEPT ![u] = "ACTIVE"]
  /\ UNCHANGED <<cut, request, resets, session, op>>

\* The process dies or its connection drops: an open transaction is rolled
\* back, what was committed stays.
Crash(o) ==
  /\ op[o] # Idle
  /\ session' = [s \in Sessions |-> IF /\ At(o, "commit")
                                       /\ session[s].status = "revoking" /\ session[s].user = op[o].user
                                    THEN [session[s] EXCEPT !.status = "OPEN"] ELSE session[s]]
  /\ Finish(o)
  /\ UNCHANGED <<status, cut, request, resets>>

-----------------------------------------------------------------------------
Step(o) ==
  \/ CountRecent(o) \/ CreateRequest(o) \/ ApproveRequest(o) \/ RejectRequest(o)
  \/ ClaimRequest(o) \/ CommitReset(o) \/ IssueSession(o) \/ RevokeSession(o) \/ KillSessions(o)

\* Anybody's requests about account u ...
RecoveryEndpoints(o, u) == SubmitRecoveryRequest(o, u) \/ \E c \in Requests : ReadRequest(o, u, c)

\* ... and the central admin's.
RecoveryDesk(o) == ListRecoveryRequests(o) \/ \E r \in Requests, verb \in {"approve", "reject"} : Decide(o, r, verb)

Next ==
  \/ \E o \in Ops, u \in Cashiers : RecoveryEndpoints(o, u) \/ Login(o, u) \/ Suspend(o, u)
  \/ \E o \in Ops : RecoveryDesk(o) \/ (\E s \in Sessions : Logout(o, s)) \/ Step(o) \/ Crash(o)
  \/ \E r \in Requests : Tick(r)
  \/ \E u \in Cashiers : Activate(u)

Spec == Init /\ [][Next]_vars

-----------------------------------------------------------------------------
(* Properties.                                                             *)

\* The type invariant.
TypeOK ==
  /\ status \in [Cashiers -> {"ACTIVE", "SUSPENDED"}]
  /\ cut \in [Cashiers -> Nat]
  /\ request \in [Requests -> [status : {"none", "PENDING", "APPROVED", "REJECTED", "EXPIRED", "COMPLETED"},
                              user : Cashiers \cup {None}, age : 0..2]]
  /\ resets \in [Requests -> Nat]
  /\ session \in [Sessions -> [status : {"none", "OPEN", "revoking", "REVOKED"}, user : Cashiers \cup {None},
                              seen : Nat, raced : BOOLEAN]]
  /\ op \in [Ops -> [pc : {"idle", "submit", "create", "approve", "reject", "claim", "commit", "issue", "revoke", "kill"},
                     user : Cashiers \cup {None}, row : Requests \cup Sessions \cup {None},
                     code : Requests \cup {None}, locked : SUBSET Requests, seen : Nat]]

CodeState(r) ==
  CASE request[r].status \in {"none", "PENDING"} -> "none"
    [] request[r].status = "APPROVED" -> "live"
    [] request[r].status = "COMPLETED" -> "spent"
    [] OTHER -> "dead"

Code == INSTANCE OneTimeSecret
          WITH Secrets <- Requests, state <- [r \in Requests |-> CodeState(r)], bought <- resets

\* The code of a recovery request is a one-time secret: however resets,
\* approvals, rejections, expiry and crashes interleave, it sets the password
\* at most once, only while its request is APPROVED, and a rejected, expired
\* or completed request never comes back.
CodeIsOneTime == Code!Spec

\* A reset or a suspension that has revoked the sessions of a cashier leaves
\* none that was opened before it, except one of a login that had passed its
\* checks and inserted the row after the revoking statement had run.
SessionsCut ==
  \A s \in Sessions : Live(s) /\ session[s].seen < cut[session[s].user] => session[s].raced

\* The hourly limit is counted and then acted on; what handlers overlapping in
\* that gap can file beyond it is at most one request each.
HourlyLimit ==
  \A u \in Cashiers : Cardinality({r \in OfUser(u) : request[r].age < 2}) <= PerHour - 1 + Cardinality(Ops)
===============================================================================
