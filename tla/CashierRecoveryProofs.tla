------------------------ MODULE CashierRecoveryProofs ------------------------
(***************************************************************************)
(* Proofs about CashierRecovery for any cashiers, requests, sessions,      *)
(* handlers and limits.                                                    *)
(***************************************************************************)
EXTENDS CashierRecovery, FiniteSetTheorems, TLAPS

RequestType == [status : {"none", "PENDING", "APPROVED", "REJECTED", "EXPIRED", "COMPLETED"},
                user : Cashiers \cup {None}, age : 0..2]
SessionType == [status : {"none", "OPEN", "revoking", "REVOKED"}, user : Cashiers \cup {None},
                seen : Nat, raced : BOOLEAN]
OpType == [pc : {"idle", "submit", "create", "approve", "reject", "claim", "commit", "issue", "revoke", "kill"},
           user : Cashiers \cup {None}, row : Requests \cup Sessions \cup {None},
           code : Requests \cup {None}, locked : SUBSET Requests, seen : Nat]

\* A handler knows its cashier and its request; the request it redeems is one
\* of its cashier's.  A filing holds lapsed requests of its cashier, a reset its
\* APPROVED request, and nobody else holds a row lock.
HandlerOK(o) ==
  /\ op[o].pc \in {"submit", "create", "claim", "commit", "issue", "kill"} => op[o].user \in Cashiers
  /\ op[o].pc \in {"approve", "reject", "claim", "commit"} =>
       op[o].row \in Requests /\ request[op[o].row].status # "none"
  /\ op[o].pc \in {"claim", "commit"} => request[op[o].row].user = op[o].user
  /\ op[o].pc \notin {"create", "commit"} => op[o].locked = {}
  /\ op[o].pc = "create" => op[o].locked \subseteq OfUser(op[o].user) \cap Active
  /\ op[o].pc = "commit" => op[o].locked = {op[o].row} /\ request[op[o].row].status = "APPROVED"

HandlersOK == \A o \in Ops : HandlerOK(o)

\* A row lock has one holder.
Exclusive(o) == \A q \in Ops \ {o} : op[o].locked \cap op[q].locked = {}
LocksExclusive == \A o \in Ops : Exclusive(o)

\* The partial unique index: one open request per cashier.
OneActive == \A r, q \in Active : request[r].user = request[q].user => r = q

IInv == TypeOK /\ HandlersOK /\ LocksExclusive /\ OneActive

-----------------------------------------------------------------------------
LEMMA TypeFacts ==
  ASSUME TypeOK
  PROVE  /\ request \in [Requests -> RequestType]
         /\ session \in [Sessions -> SessionType]
         /\ op \in [Ops -> OpType]
  BY DEF TypeOK, RequestType, SessionType, OpType

LEMMA ExpiredType ==
  ASSUME TypeOK, NEW rows \in SUBSET Requests
  PROVE  /\ Expired(rows) \in [Requests -> RequestType]
         /\ \A r \in rows : Expired(rows)[r].status = "EXPIRED"
         /\ \A r \in Requests \ rows : Expired(rows)[r] = request[r]
         /\ \A r \in Requests : Expired(rows)[r].user = request[r].user /\ Expired(rows)[r].age = request[r].age
  BY DEF TypeOK, Expired, RequestType

LEMMA IdleType == Idle \in OpType
  BY DEF Idle, OpType

\* A step of one handler leaves the others where they are.
LEMMA GotoFacts ==
  ASSUME TypeOK, NEW o \in Ops, NEW new \in OpType, Goto(o, new)
  PROVE  op' \in [Ops -> OpType] /\ op'[o] = new /\ \A q \in Ops \ {o} : op'[q] = op[q]
  BY TypeFacts DEF Goto

LEMMA FinishFacts ==
  ASSUME TypeOK, NEW o \in Ops, Finish(o)
  PROVE  op' \in [Ops -> OpType] /\ op'[o] = Idle /\ \A q \in Ops \ {o} : op'[q] = op[q]
  BY GotoFacts, IdleType DEF Finish

\* One row of a table is rewritten.
LEMMA RowFacts ==
  ASSUME NEW T, NEW S, NEW table \in [S -> T], NEW r, NEW new, r \in S => new \in T
  PROVE  /\ [table EXCEPT ![r] = new] \in [S -> T]
         /\ r \in S => [table EXCEPT ![r] = new][r] = new
         /\ \A s \in S \ {r} : [table EXCEPT ![r] = new][s] = table[s]
  OBVIOUS

LEMMA TypeParts ==
  ASSUME status' \in [Cashiers -> {"ACTIVE", "SUSPENDED"}], cut' \in [Cashiers -> Nat],
         request' \in [Requests -> RequestType], resets' \in [Requests -> Nat],
         session' \in [Sessions -> SessionType], op' \in [Ops -> OpType]
  PROVE  TypeOK'
  BY DEF TypeOK, RequestType, SessionType, OpType

\* Init.
LEMMA InitIInv == Init => IInv
  <1> SUFFICES ASSUME Init PROVE IInv
    OBVIOUS
  <1>1. TypeOK
    BY DEF Init, TypeOK, NoRequest, NoSession, Idle
  <1>2. HandlersOK /\ LocksExclusive /\ OneActive
    BY DEF Init, HandlersOK, HandlerOK, LocksExclusive, Exclusive, OneActive, Active, NoRequest, Idle
  <1> QED BY <1>1, <1>2 DEF IInv

-----------------------------------------------------------------------------
(* What each action does, with its records unfolded.                       *)

\* Handler o moves and no other.
Moves(o) == op' \in [Ops -> OpType] /\ \A q \in Ops \ {o} : op'[q] = op[q]

RequestsKept == UNCHANGED <<request, resets>>
SessionsKept == UNCHANGED <<session, cut>>

\* Only rows of the set rows change, and those become EXPIRED.
Expires(rows) ==
  /\ request' \in [Requests -> RequestType]
  /\ \A r \in rows : request'[r].status = "EXPIRED"
  /\ \A r \in Requests \ rows : request'[r].status = request[r].status
  /\ \A r \in Requests : request'[r].user = request[r].user /\ request'[r].age = request[r].age

\* Only the status of row r changes.
SetsStatus(r, s) ==
  /\ request' \in [Requests -> RequestType]
  /\ request'[r].status = s
  /\ \A q \in Requests \ {r} : request'[q] = request[q]
  /\ request'[r].user = request[r].user /\ request'[r].age = request[r].age

LEMMA ExpiresFact ==
  ASSUME TypeOK, NEW rows \in SUBSET Requests, request' = Expired(rows)
  PROVE  Expires(rows)
  BY ExpiredType DEF Expires

LEMMA SetsStatusFact ==
  ASSUME TypeOK, NEW r \in Requests, NEW s \in {"PENDING", "APPROVED", "REJECTED", "EXPIRED", "COMPLETED"},
         request' = [request EXCEPT ![r].status = s]
  PROVE  SetsStatus(r, s)
  BY TypeFacts DEF SetsStatus, RequestType

LEMMA SubmitEffect ==
  ASSUME TypeOK, NEW o \in Ops, NEW u \in Cashiers, SubmitRecoveryRequest(o, u)
  PROVE  /\ Moves(o) /\ op[o] = Idle /\ op'[o].pc = "submit" /\ op'[o].user = u /\ op'[o].locked = {}
         /\ RequestsKept /\ SessionsKept /\ status' = status
  BY TypeFacts DEF SubmitRecoveryRequest, Begin, Goto, Idle, OpType, Moves, RequestsKept, SessionsKept

LEMMA ReadEffect ==
  ASSUME TypeOK, NEW o \in Ops, NEW u \in Cashiers, NEW code \in Requests, ReadRequest(o, u, code)
  PROVE  /\ Moves(o) /\ op[o] = Idle /\ op'[o].pc = "claim" /\ op'[o].user = u /\ op'[o].locked = {}
         /\ op'[o].row \in Requests /\ request[op'[o].row].user = u /\ request[op'[o].row].status = "APPROVED"
         /\ RequestsKept /\ SessionsKept /\ status' = status
  <1>1. PICK r \in OfUser(u) : request[r].status = "APPROVED"
                             /\ Begin(o, [Idle EXCEPT !.pc = "claim", !.user = u, !.row = r, !.code = code])
    BY DEF ReadRequest
  <1> QED BY <1>1, TypeFacts DEF ReadRequest, OfUser, Begin, Goto, Idle, OpType, Moves, RequestsKept, SessionsKept

LEMMA LoginEffect ==
  ASSUME TypeOK, NEW o \in Ops, NEW u \in Cashiers, Login(o, u)
  PROVE  /\ Moves(o) /\ op[o] = Idle /\ op'[o].pc = "issue" /\ op'[o].user = u /\ op'[o].locked = {}
         /\ op'[o].seen = cut[u]
         /\ RequestsKept /\ SessionsKept /\ status' = status
  <1>1. cut[u] \in Nat
    BY DEF TypeOK
  <1> QED BY <1>1, TypeFacts DEF Login, Begin, Goto, Idle, OpType, Moves, RequestsKept, SessionsKept

LEMMA SuspendEffect ==
  ASSUME TypeOK, NEW o \in Ops, NEW u \in Cashiers, Suspend(o, u)
  PROVE  /\ Moves(o) /\ op[o] = Idle /\ op'[o].pc = "kill" /\ op'[o].user = u /\ op'[o].locked = {}
         /\ RequestsKept /\ SessionsKept /\ status' \in [Cashiers -> {"ACTIVE", "SUSPENDED"}]
  <1>1. status' \in [Cashiers -> {"ACTIVE", "SUSPENDED"}]
    BY DEF TypeOK, Suspend
  <1> QED BY <1>1, TypeFacts DEF Suspend, Begin, Goto, Idle, OpType, Moves, RequestsKept, SessionsKept

LEMMA LogoutEffect ==
  ASSUME TypeOK, NEW o \in Ops, NEW s \in Sessions, Logout(o, s)
  PROVE  /\ Moves(o) /\ op[o] = Idle /\ op'[o].pc = "revoke" /\ op'[o].locked = {}
         /\ RequestsKept /\ SessionsKept /\ status' = status
  BY TypeFacts DEF Logout, Begin, Goto, Idle, OpType, Moves, RequestsKept, SessionsKept

\* expireStaleRequests() touches no row that another handler has locked.
LEMMA ExpireEffect ==
  ASSUME TypeOK, NEW o \in Ops, ExpireStale(o)
  PROVE  /\ Stale \in SUBSET Requests /\ Stale \subseteq Active /\ Expires(Stale)
         /\ \A q \in Ops \ {o} : Stale \cap op[q].locked = {}
         /\ resets' = resets /\ SessionsKept /\ status' = status
  <1>1. Stale \in SUBSET Requests /\ Stale \subseteq Active
    BY DEF Stale, Active
  <1> QED BY <1>1, ExpiresFact DEF ExpireStale, Locked, SessionsKept

LEMMA DecideEffect ==
  ASSUME TypeOK, NEW o \in Ops, NEW r \in Requests, NEW verb \in {"approve", "reject"}, Decide(o, r, verb)
  PROVE  /\ Moves(o) /\ op[o] = Idle /\ op'[o].pc = verb /\ op'[o].row = r /\ op'[o].locked = {}
         /\ request[r].status # "none" /\ ExpireStale(o)
  BY TypeFacts DEF Decide, Begin, Goto, Idle, OpType, Moves

\* A handler that ends returns to Idle.
Ends(o) == Moves(o) /\ op'[o].pc = "idle" /\ op'[o].locked = {}

LEMMA FinishEffect ==
  ASSUME TypeOK, NEW o \in Ops, Finish(o)
  PROVE  Ends(o)
  BY TypeFacts DEF Finish, Goto, Idle, OpType, Moves, Ends

LEMMA CountEffect ==
  ASSUME TypeOK, NEW o \in Ops, CountRecent(o)
  PROVE  /\ At(o, "submit") /\ resets' = resets /\ SessionsKept /\ status' = status
         /\ LET rows == Stale \cap OfUser(op[o].user)
            IN /\ rows \in SUBSET Requests /\ rows \subseteq Active
               /\ \A q \in Ops \ {o} : rows \cap op[q].locked = {}
               /\ \/ /\ Cardinality(Recent(op[o].user)) < PerHour
                     /\ Moves(o) /\ op'[o].pc = "create" /\ op'[o].user = op[o].user /\ op'[o].locked = rows
                     /\ request' = request
                  \/ Ends(o) /\ Expires(rows)
  <1> DEFINE rows == Stale \cap OfUser(op[o].user)
  <1>1. rows \in SUBSET Requests /\ rows \subseteq Active
    BY DEF Stale, Active
  <1>2. At(o, "submit") /\ resets' = resets /\ SessionsKept /\ status' = status
        /\ \A q \in Ops \ {o} : rows \cap op[q].locked = {}
    BY DEF CountRecent, SessionsKept, Locked
  <1>3. CASE Cardinality(Recent(op[o].user)) < PerHour /\ Goto(o, [op[o] EXCEPT !.pc = "create", !.locked = rows]) /\ request' = request
    BY <1>1, <1>2, <1>3, TypeFacts DEF Goto, OpType, Moves
  <1>4. CASE request' = Expired(rows) /\ Finish(o)
    BY <1>1, <1>2, <1>4, ExpiresFact, FinishEffect
  <1> QED BY <1>3, <1>4 DEF CountRecent

\* The rows a filing held become EXPIRED and row n is its request.
Creates(u, rows, n) ==
  /\ request' \in [Requests -> RequestType]
  /\ request[n].status = "none" /\ request'[n].status = "PENDING" /\ request'[n].user = u
  /\ \A r \in rows \ {n} : request'[r].status = "EXPIRED"
  /\ \A r \in Requests \ (rows \cup {n}) : request'[r].status = request[r].status
  /\ \A r \in Requests \ {n} : request'[r].user = request[r].user /\ request'[r].age = request[r].age

LEMMA CreateEffect ==
  ASSUME TypeOK, NEW o \in Ops, CreateRequest(o), op[o].user \in Cashiers
  PROVE  /\ At(o, "create") /\ Ends(o) /\ resets' = resets /\ SessionsKept /\ status' = status
         /\ \/ Conflicts(o) = {} /\ \E n \in Requests : Creates(op[o].user, op[o].locked, n)
            \/ request' = request
  <1>1. At(o, "create") /\ Ends(o) /\ resets' = resets /\ SessionsKept /\ status' = status
    BY FinishEffect DEF CreateRequest, SessionsKept
  <1>2. ASSUME NEW n \in Requests, request[n].status = "none",
               request' = [Expired(op[o].locked) EXCEPT ![n] = [status |-> "PENDING", user |-> op[o].user, age |-> 0]]
        PROVE  Creates(op[o].user, op[o].locked, n)
    <2>1. op[o].locked \in SUBSET Requests
      BY TypeFacts DEF OpType
    <2> DEFINE new == [status |-> "PENDING", user |-> op[o].user, age |-> 0]
    <2>2. new \in RequestType /\ new.status = "PENDING" /\ new.user = op[o].user
      BY DEF RequestType
    <2>3. request' = [Expired(op[o].locked) EXCEPT ![n] = new]
      BY <1>2
    <2> HIDE DEF new
    <2>4. request' \in [Requests -> RequestType] /\ request'[n] = new
          /\ \A r \in Requests \ {n} : request'[r] = Expired(op[o].locked)[r]
      BY <2>1, <2>2, <2>3, ExpiredType
    <2> QED BY <1>2, <2>1, <2>2, <2>4, ExpiredType DEF Creates
  <1> QED BY <1>1, <1>2 DEF CreateRequest

LEMMA ApproveEffect ==
  ASSUME TypeOK, NEW o \in Ops, ApproveRequest(o), op[o].row \in Requests
  PROVE  /\ At(o, "approve") /\ Ends(o) /\ resets' = resets /\ SessionsKept /\ status' = status
         /\ \A q \in Ops \ {o} : op[o].row \notin op[q].locked
         /\ \/ request[op[o].row].status = "PENDING" /\ SetsStatus(op[o].row, "APPROVED")
            \/ request' = request
  <1>1. At(o, "approve") /\ Ends(o) /\ resets' = resets /\ SessionsKept /\ status' = status
        /\ \A q \in Ops \ {o} : op[o].row \notin op[q].locked
    BY FinishEffect DEF ApproveRequest, SessionsKept, Locked
  <1> QED BY <1>1, SetsStatusFact DEF ApproveRequest, Approvable

LEMMA RejectEffect ==
  ASSUME TypeOK, NEW o \in Ops, RejectRequest(o), op[o].row \in Requests
  PROVE  /\ At(o, "reject") /\ Ends(o) /\ resets' = resets /\ SessionsKept /\ status' = status
         /\ \A q \in Ops \ {o} : op[o].row \notin op[q].locked
         /\ \/ op[o].row \in Active /\ SetsStatus(op[o].row, "REJECTED")
            \/ request' = request
  <1>1. At(o, "reject") /\ Ends(o) /\ resets' = resets /\ SessionsKept /\ status' = status
        /\ \A q \in Ops \ {o} : op[o].row \notin op[q].locked
    BY FinishEffect DEF RejectRequest, SessionsKept, Locked
  <1> QED BY <1>1, SetsStatusFact DEF RejectRequest

\* Only the status of sessions changes, and only from the first to the second
\* status, for the sessions of user u.
Turns(u, from, to) ==
  /\ session' \in [Sessions -> SessionType]
  /\ \A s \in Sessions :
       /\ session'[s].user = session[s].user /\ session'[s].seen = session[s].seen
       /\ session'[s].raced = session[s].raced
       /\ session'[s].status = IF session[s].status \in from /\ session[s].user = u THEN to ELSE session[s].status

LEMMA TurnsFact ==
  ASSUME TypeOK, NEW u, NEW from, NEW to \in {"OPEN", "revoking", "REVOKED"},
         session' = [s \in Sessions |-> IF session[s].status \in from /\ session[s].user = u
                                        THEN [session[s] EXCEPT !.status = to] ELSE session[s]]
  PROVE  Turns(u, from, to)
  <1>1. \A s \in Sessions : session[s] \in SessionType
    BY TypeFacts
  <1>2. \A s \in Sessions : LET new == [session[s] EXCEPT !.status = to]
                            IN new \in SessionType /\ new.status = to /\ new.user = session[s].user
                               /\ new.seen = session[s].seen /\ new.raced = session[s].raced
    BY <1>1 DEF SessionType
  <1> HIDE DEF SessionType
  <1>3. \A s \in Sessions : session'[s] = IF session[s].status \in from /\ session[s].user = u
                                          THEN [session[s] EXCEPT !.status = to] ELSE session[s]
    OBVIOUS
  <1>4. session' \in [Sessions -> SessionType]
    BY <1>1, <1>2
  <1> QED BY <1>2, <1>3, <1>4 DEF Turns

LEMMA ClaimEffect ==
  ASSUME TypeOK, NEW o \in Ops, ClaimRequest(o), op[o].row \in Requests
  PROVE  /\ At(o, "claim") /\ RequestsKept /\ cut' = cut /\ status' = status
         /\ \/ /\ request[op[o].row].status = "APPROVED"
               /\ \A q \in Ops \ {o} : op[o].row \notin op[q].locked
               /\ Moves(o) /\ op'[o].pc = "commit" /\ op'[o].user = op[o].user /\ op'[o].row = op[o].row
               /\ op'[o].locked = {op[o].row}
               /\ Turns(op[o].user, {"OPEN"}, "revoking")
            \/ Ends(o) /\ session' = session
  <1>1. At(o, "claim") /\ RequestsKept /\ cut' = cut /\ status' = status
        /\ \A q \in Ops \ {o} : op[o].row \notin op[q].locked
    BY DEF ClaimRequest, RequestsKept, Locked
  <1>2. CASE Claimable(o)
    <2>1. Goto(o, [op[o] EXCEPT !.pc = "commit", !.locked = {op[o].row}])
      BY <1>2 DEF ClaimRequest
    <2>2. Moves(o) /\ op'[o].pc = "commit" /\ op'[o].user = op[o].user /\ op'[o].row = op[o].row
          /\ op'[o].locked = {op[o].row}
      BY <2>1, TypeFacts DEF Goto, OpType, Moves
    <2>3. session' = [s \in Sessions |-> IF session[s].status \in {"OPEN"} /\ session[s].user = op[o].user
                                         THEN [session[s] EXCEPT !.status = "revoking"] ELSE session[s]]
      BY <1>2 DEF ClaimRequest
    <2>4. Turns(op[o].user, {"OPEN"}, "revoking")
      BY <2>3, TurnsFact
    <2> QED BY <1>1, <1>2, <2>2, <2>4 DEF Claimable
  <1>3. CASE ~Claimable(o)
    BY <1>1, <1>3, FinishEffect DEF ClaimRequest
  <1> QED BY <1>2, <1>3

LEMMA CommitEffect ==
  ASSUME TypeOK, NEW o \in Ops, CommitReset(o), op[o].row \in Requests, op[o].user \in Cashiers
  PROVE  /\ At(o, "commit") /\ Ends(o) /\ status' = status /\ SetsStatus(op[o].row, "COMPLETED")
         /\ resets' = [resets EXCEPT ![op[o].row] = @ + 1] /\ resets' \in [Requests -> Nat]
         /\ cut' = [cut EXCEPT ![op[o].user] = @ + 1] /\ cut' \in [Cashiers -> Nat]
         /\ Turns(op[o].user, {"revoking"}, "REVOKED")
  <1>1. At(o, "commit") /\ Ends(o) /\ status' = status
        /\ resets' = [resets EXCEPT ![op[o].row] = @ + 1] /\ cut' = [cut EXCEPT ![op[o].user] = @ + 1]
    BY FinishEffect DEF CommitReset
  <1>2. resets' \in [Requests -> Nat] /\ cut' \in [Cashiers -> Nat]
    BY <1>1 DEF TypeOK
  <1>3. SetsStatus(op[o].row, "COMPLETED")
    BY SetsStatusFact DEF CommitReset
  <1>4. session' = [s \in Sessions |-> IF session[s].status \in {"revoking"} /\ session[s].user = op[o].user
                                       THEN [session[s] EXCEPT !.status = "REVOKED"] ELSE session[s]]
    BY DEF CommitReset
  <1>5. Turns(op[o].user, {"revoking"}, "REVOKED")
    BY <1>4, TurnsFact
  <1> QED BY <1>1, <1>2, <1>3, <1>5

LEMMA IssueEffect ==
  ASSUME TypeOK, NEW o \in Ops, IssueSession(o)
  PROVE  /\ At(o, "issue") /\ Ends(o) /\ RequestsKept /\ cut' = cut /\ status' = status
         /\ session' \in [Sessions -> SessionType]
         /\ \E s \in Sessions :
              /\ \A t \in Sessions \ {s} : session'[t] = session[t]
              /\ session'[s].status = "OPEN" /\ session'[s].user = op[o].user /\ session'[s].seen = op[o].seen
              /\ session'[s].raced = (\/ cut[op[o].user] # op[o].seen
                                      \/ \E q \in Ops : At(q, "commit") /\ op[q].user = op[o].user)
  <1>1. At(o, "issue") /\ Ends(o) /\ RequestsKept /\ cut' = cut /\ status' = status
    BY FinishEffect DEF IssueSession, RequestsKept
  <1> DEFINE raced == \/ cut[op[o].user] # op[o].seen
                      \/ \E q \in Ops : At(q, "commit") /\ op[q].user = op[o].user
  <1>2. PICK s \in Sessions :
          session' = [session EXCEPT ![s] = [status |-> "OPEN", user |-> op[o].user, seen |-> op[o].seen, raced |-> raced]]
    BY DEF IssueSession
  <1>3. raced \in BOOLEAN
    OBVIOUS
  <1> HIDE DEF raced
  <1>4. op[o].user \in Cashiers \cup {None} /\ op[o].seen \in Nat
    BY TypeFacts DEF OpType
  <1> DEFINE new == [status |-> "OPEN", user |-> op[o].user, seen |-> op[o].seen, raced |-> raced]
  <1>5. new \in SessionType /\ new.status = "OPEN" /\ new.user = op[o].user /\ new.seen = op[o].seen /\ new.raced = raced
    BY <1>3, <1>4 DEF SessionType
  <1> HIDE DEF new
  <1>6. session' = [session EXCEPT ![s] = new]
    BY <1>2 DEF new
  <1>7. session' \in [Sessions -> SessionType] /\ session'[s] = new /\ \A t \in Sessions \ {s} : session'[t] = session[t]
    BY <1>5, <1>6, TypeFacts
  <1> QED BY <1>1, <1>5, <1>7 DEF raced

LEMMA RevokeEffect ==
  ASSUME TypeOK, NEW o \in Ops, RevokeSession(o)
  PROVE  /\ At(o, "revoke") /\ Ends(o) /\ RequestsKept /\ cut' = cut /\ status' = status
         /\ session' \in [Sessions -> SessionType]
         /\ \A s \in Sessions : session'[s] = session[s] \/ session'[s].status = "REVOKED"
  <1>1. At(o, "revoke") /\ Ends(o) /\ RequestsKept /\ cut' = cut /\ status' = status
    BY FinishEffect DEF RevokeSession, RequestsKept
  <1>2. session' = [session EXCEPT ![op[o].row].status = "REVOKED"]
    BY DEF RevokeSession
  <1>3. session' \in [Sessions -> SessionType]
        /\ \A s \in Sessions : session'[s] = session[s] \/ session'[s].status = "REVOKED"
    BY <1>2, TypeFacts DEF SessionType
  <1> QED BY <1>1, <1>3

LEMMA KillEffect ==
  ASSUME TypeOK, NEW o \in Ops, KillSessions(o), op[o].user \in Cashiers
  PROVE  /\ At(o, "kill") /\ Ends(o) /\ RequestsKept /\ status' = status
         /\ cut' = [cut EXCEPT ![op[o].user] = @ + 1] /\ cut' \in [Cashiers -> Nat]
         /\ Turns(op[o].user, {"OPEN", "revoking"}, "REVOKED")
  <1>1. At(o, "kill") /\ Ends(o) /\ RequestsKept /\ status' = status /\ cut' = [cut EXCEPT ![op[o].user] = @ + 1]
    BY FinishEffect DEF KillSessions, RequestsKept
  <1>2. cut' \in [Cashiers -> Nat]
    BY <1>1 DEF TypeOK
  <1>3. session' = [s \in Sessions |-> IF session[s].status \in {"OPEN", "revoking"} /\ session[s].user = op[o].user
                                       THEN [session[s] EXCEPT !.status = "REVOKED"] ELSE session[s]]
    BY DEF KillSessions, Live
  <1> QED BY <1>1, <1>2, <1>3, TurnsFact

LEMMA CrashEffect ==
  ASSUME TypeOK, NEW o \in Ops, Crash(o)
  PROVE  /\ Ends(o) /\ RequestsKept /\ cut' = cut /\ status' = status
         /\ \/ At(o, "commit") /\ Turns(op[o].user, {"revoking"}, "OPEN")
            \/ ~At(o, "commit") /\ session' = session
  <1>1. Ends(o) /\ RequestsKept /\ cut' = cut /\ status' = status
    BY FinishEffect DEF Crash, RequestsKept
  <1>2. CASE At(o, "commit")
    <2>1. session' = [s \in Sessions |-> IF session[s].status \in {"revoking"} /\ session[s].user = op[o].user
                                         THEN [session[s] EXCEPT !.status = "OPEN"] ELSE session[s]]
      BY <1>2 DEF Crash
    <2> QED BY <1>1, <1>2, <2>1, TurnsFact
  <1>3. CASE ~At(o, "commit")
    <2>1. session' = [s \in Sessions |-> session[s]]
      BY <1>3 DEF Crash
    <2> QED BY <1>1, <1>3, <2>1, TypeFacts
  <1> QED BY <1>2, <1>3

LEMMA TickEffect ==
  ASSUME TypeOK, NEW r \in Requests, Tick(r)
  PROVE  /\ request' \in [Requests -> RequestType]
         /\ \A q \in Requests : /\ request'[q].status = request[q].status /\ request'[q].user = request[q].user
                                /\ request'[q].age >= request[q].age
         /\ UNCHANGED <<op, resets, status>> /\ SessionsKept
  <1>1. request[r] \in RequestType /\ request[r].age + 1 \in 0..2 /\ request[r].age \in 0..2
    BY TypeFacts DEF Tick, RequestType
  <1> QED BY <1>1, TypeFacts DEF Tick, RequestType, SessionsKept

-----------------------------------------------------------------------------
(* The invariant.                                                          *)

\* No row becomes open, and none is forgotten or changes hands.
RowsSettle ==
  \A r \in Requests :
    /\ request'[r].user = request[r].user
    /\ request'[r].status \in {"PENDING", "APPROVED"} => request[r].status \in {"PENDING", "APPROVED"}
    /\ request[r].status # "none" => request'[r].status # "none"

\* The step leaves the rows alone that others have locked.
Respects(o) ==
  \A q \in Ops \ {o} : \A r \in op[q].locked :
    request'[r].status = request[r].status /\ request'[r].user = request[r].user

LEMMA OthersKeep ==
  ASSUME IInv, NEW o \in Ops, Moves(o), Respects(o), HandlerOK(o)', Exclusive(o)',
         \A r \in Requests : request[r].status # "none" => /\ request'[r].status # "none"
                                                           /\ request'[r].user = request[r].user
  PROVE  HandlersOK' /\ LocksExclusive'
  <1>1. \A q \in Ops \ {o} : HandlerOK(q)'
    <2> SUFFICES ASSUME NEW q \in Ops \ {o} PROVE HandlerOK(q)'
      OBVIOUS
    <2>1. HandlerOK(q) /\ op'[q] = op[q] /\ op[q].locked \in SUBSET Requests
      BY TypeFacts DEF IInv, HandlersOK, Moves, OpType
    <2>2. op[q].pc = "create" => (op[q].locked \subseteq OfUser(op[q].user) \cap Active)'
      BY <2>1 DEF HandlerOK, OfUser, Active, Respects
    <2>3. op[q].pc = "commit" => request'[op[q].row].status = "APPROVED"
      BY <2>1 DEF HandlerOK, Respects
    <2> QED BY <2>1, <2>2, <2>3 DEF HandlerOK, OfUser, Active
  <1>2. \A q \in Ops \ {o} : Exclusive(q)'
    BY DEF IInv, LocksExclusive, Exclusive, Moves
  <1> QED BY <1>1, <1>2 DEF HandlersOK, LocksExclusive

LEMMA SettleStep ==
  ASSUME IInv, TypeOK', NEW o \in Ops, Moves(o), RowsSettle, Respects(o), HandlerOK(o)', Exclusive(o)'
  PROVE  IInv'
  <1>1. HandlersOK' /\ LocksExclusive'
    BY OthersKeep DEF RowsSettle
  <1>2. OneActive'
    BY DEF IInv, OneActive, Active, RowsSettle
  <1> QED BY <1>1, <1>2 DEF IInv

\* A step of a handler that holds no lock afterwards and leaves requests alone.
LEMMA QuietStep ==
  ASSUME IInv, TypeOK', NEW o \in Ops, Moves(o), request' = request, HandlerOK(o)', op'[o].locked = {}
  PROVE  IInv'
  <1>1. RowsSettle /\ Respects(o) /\ Exclusive(o)'
    BY DEF RowsSettle, Respects, Exclusive
  <1> QED BY <1>1, SettleStep

LEMMA EndOK ==
  ASSUME NEW o \in Ops, Ends(o)
  PROVE  HandlerOK(o)' /\ Exclusive(o)' /\ Moves(o)
  BY DEF Ends, HandlerOK, Exclusive

LEMMA ExpiresOK ==
  ASSUME IInv, NEW rows \in SUBSET Requests, rows \subseteq Active, Expires(rows), NEW o \in Ops,
         \A q \in Ops \ {o} : rows \cap op[q].locked = {}
  PROVE  RowsSettle /\ Respects(o)
  <1>1. \A q \in Ops : op[q].locked \in SUBSET Requests
    BY TypeFacts DEF IInv, OpType
  <1> QED BY <1>1 DEF Expires, RowsSettle, Respects, Active

LEMMA SetsStatusOK ==
  ASSUME IInv, NEW r \in Requests, NEW s \in {"APPROVED", "REJECTED", "COMPLETED"}, SetsStatus(r, s), r \in Active,
         NEW o \in Ops, \A q \in Ops \ {o} : r \notin op[q].locked
  PROVE  RowsSettle /\ Respects(o)
  <1>1. \A q \in Ops : op[q].locked \in SUBSET Requests
    BY TypeFacts DEF IInv, OpType
  <1> QED BY <1>1 DEF SetsStatus, RowsSettle, Respects, Active

LEMMA StartSteps ==
  ASSUME IInv, NEW o \in Ops
  PROVE  /\ \A u \in Cashiers : RecoveryEndpoints(o, u) \/ Login(o, u) \/ Suspend(o, u) => IInv'
         /\ \A s \in Sessions : Logout(o, s) => IInv'
         /\ RecoveryDesk(o) => IInv'
  <1> USE DEF IInv
  <1>1. ASSUME NEW u \in Cashiers, SubmitRecoveryRequest(o, u) PROVE IInv'
    <2>1. TypeOK'
      BY <1>1, SubmitEffect, TypeFacts, TypeParts DEF Moves, RequestsKept, SessionsKept, TypeOK
    <2> QED BY <1>1, <2>1, SubmitEffect, QuietStep DEF HandlerOK, RequestsKept
  <1>2. ASSUME NEW u \in Cashiers, NEW c \in Requests, ReadRequest(o, u, c) PROVE IInv'
    <2>1. TypeOK'
      BY <1>2, ReadEffect, TypeFacts, TypeParts DEF Moves, RequestsKept, SessionsKept, TypeOK
    <2>2. HandlerOK(o)'
      BY <1>2, ReadEffect DEF HandlerOK, RequestsKept
    <2> QED BY <1>2, <2>1, <2>2, ReadEffect, QuietStep DEF RequestsKept
  <1>3. ASSUME NEW u \in Cashiers, Login(o, u) PROVE IInv'
    <2>1. TypeOK'
      BY <1>3, LoginEffect, TypeFacts, TypeParts DEF Moves, RequestsKept, SessionsKept, TypeOK
    <2> QED BY <1>3, <2>1, LoginEffect, QuietStep DEF HandlerOK, RequestsKept
  <1>4. ASSUME NEW u \in Cashiers, Suspend(o, u) PROVE IInv'
    <2>1. TypeOK'
      BY <1>4, SuspendEffect, TypeFacts, TypeParts DEF Moves, RequestsKept, SessionsKept, TypeOK
    <2> QED BY <1>4, <2>1, SuspendEffect, QuietStep DEF HandlerOK, RequestsKept
  <1>5. ASSUME NEW s \in Sessions, Logout(o, s) PROVE IInv'
    <2>1. TypeOK'
      BY <1>5, LogoutEffect, TypeFacts, TypeParts DEF Moves, RequestsKept, SessionsKept, TypeOK
    <2> QED BY <1>5, <2>1, LogoutEffect, QuietStep DEF HandlerOK, RequestsKept
  <1>6. ASSUME NEW r \in Requests, NEW verb \in {"approve", "reject"}, Decide(o, r, verb) PROVE IInv'
    <2>1. ExpireStale(o)
      BY <1>6, DecideEffect
    <2>2. TypeOK'
      BY <1>6, <2>1, DecideEffect, ExpireEffect, TypeFacts, TypeParts DEF Moves, Expires, SessionsKept, TypeOK
    <2>3. RowsSettle /\ Respects(o)
      BY <2>1, ExpireEffect, ExpiresOK
    <2>4. HandlerOK(o)'
      BY <1>6, <2>3, DecideEffect DEF HandlerOK, RowsSettle
    <2>5. Exclusive(o)'
      BY <1>6, DecideEffect DEF Exclusive
    <2> QED BY <1>6, <2>2, <2>3, <2>4, <2>5, DecideEffect, SettleStep
  <1>7. ASSUME ListRecoveryRequests(o) PROVE IInv'
    <2>1. ExpireStale(o) /\ op' = op
      BY <1>7 DEF ListRecoveryRequests
    <2>2. TypeOK'
      BY <2>1, ExpireEffect, TypeFacts, TypeParts DEF Expires, SessionsKept, TypeOK
    <2>3. RowsSettle /\ Respects(o)
      BY <2>1, ExpireEffect, ExpiresOK
    <2>4. Moves(o) /\ HandlerOK(o)' /\ Exclusive(o)'
      BY <1>7, <2>1, TypeFacts DEF ListRecoveryRequests, Moves, HandlerOK, Exclusive, Idle, LocksExclusive
    <2> QED BY <2>2, <2>3, <2>4, SettleStep
  <1> QED BY <1>1, <1>2, <1>3, <1>4, <1>5, <1>6, <1>7 DEF RecoveryEndpoints, RecoveryDesk

\* A row that is not open is locked by nobody ...
LEMMA LockedRowsAreOpen ==
  ASSUME IInv, NEW o \in Ops, NEW r \in op[o].locked
  PROVE  r \in Active
  <1>1. op[o] \in OpType /\ HandlerOK(o)
    BY TypeFacts DEF IInv, HandlersOK
  <1> QED BY <1>1 DEF HandlerOK, OpType, Active

\* ... so a new request takes no locked row.
LEMMA CreatesStep ==
  ASSUME IInv, TypeOK', NEW o \in Ops, At(o, "create"), Ends(o), Conflicts(o) = {},
         NEW n \in Requests, Creates(op[o].user, op[o].locked, n)
  PROVE  IInv'
  <1>1. op[o] \in OpType /\ HandlerOK(o) /\ op[o].user \in Cashiers
        /\ op[o].locked \subseteq OfUser(op[o].user) \cap Active /\ op[o].locked \in SUBSET Requests
    BY TypeFacts DEF IInv, HandlersOK, HandlerOK, At, OpType
  <1>2. n \notin Active
    BY DEF Creates, Active
  <1>3. Respects(o)
    <2> SUFFICES ASSUME NEW q \in Ops \ {o}, NEW r \in op[q].locked
                 PROVE  request'[r].status = request[r].status /\ request'[r].user = request[r].user
      BY DEF Respects
    <2>1. r \in Active /\ r \notin op[o].locked
      BY LockedRowsAreOpen DEF IInv, LocksExclusive, Exclusive
    <2> QED BY <1>2, <2>1 DEF Creates, Active
  <1>4. \A r \in Requests : request[r].status # "none" => request'[r].status # "none" /\ request'[r].user = request[r].user
    BY <1>1 DEF Creates
  <1>5. HandlersOK' /\ LocksExclusive'
    BY <1>3, <1>4, OthersKeep, EndOK
  <1>6. \A r \in Active' : r = n \/ (r \in Active /\ r \notin op[o].locked /\ request'[r].user = request[r].user)
    BY <1>1 DEF Active, Creates
  <1>7. \A r \in Active : request[r].user = op[o].user => r \in op[o].locked
    BY DEF Conflicts, OfUser, Active
  <1>8. OneActive'
    BY <1>6, <1>7 DEF OneActive, IInv, Creates
  <1> QED BY <1>5, <1>8 DEF IInv

LEMMA HandlerSteps ==
  ASSUME IInv, NEW o \in Ops, Step(o) \/ Crash(o)
  PROVE  IInv'
  <1>0. TypeOK /\ HandlerOK(o) /\ HandlersOK /\ op[o] \in OpType
    BY TypeFacts DEF IInv, HandlersOK
  <1> USE DEF At
  <1>1. CASE CountRecent(o)
    <2> DEFINE rows == Stale \cap OfUser(op[o].user)
    <2>1. /\ rows \in SUBSET Requests /\ rows \subseteq Active
          /\ \A q \in Ops \ {o} : rows \cap op[q].locked = {}
          /\ op[o].pc = "submit" /\ resets' = resets /\ SessionsKept /\ status' = status
      BY <1>0, <1>1, CountEffect
    <2>2. CASE Moves(o) /\ op'[o].pc = "create" /\ op'[o].user = op[o].user /\ op'[o].locked = rows /\ request' = request
      <3>1. TypeOK'
        BY <1>0, <2>1, <2>2, TypeFacts, TypeParts DEF Moves, SessionsKept, TypeOK
      <3>2. RowsSettle /\ Respects(o)
        BY <2>2 DEF RowsSettle, Respects
      <3>3. HandlerOK(o)'
        <4>1. (op[o].locked \subseteq OfUser(op[o].user) \cap Active)'
          BY <2>1, <2>2 DEF OfUser, Active
        <4> QED BY <1>0, <2>1, <2>2, <4>1 DEF HandlerOK
      <3>4. Exclusive(o)'
        BY <2>1, <2>2 DEF Exclusive, Moves
      <3> QED BY <2>2, <3>1, <3>2, <3>3, <3>4, SettleStep
    <2>3. CASE Ends(o) /\ Expires(rows)
      <3>1. TypeOK'
        BY <1>0, <2>1, <2>3, TypeFacts, TypeParts DEF Ends, Moves, Expires, SessionsKept, TypeOK
      <3> QED BY <2>1, <2>3, <3>1, EndOK, ExpiresOK, SettleStep
    <2> QED BY <1>0, <1>1, <2>2, <2>3, CountEffect
  <1>2. CASE CreateRequest(o)
    <2>1. op[o].user \in Cashiers /\ op[o].pc = "create"
      BY <1>0, <1>2 DEF HandlerOK, CreateRequest
    <2>2. /\ Ends(o) /\ resets' = resets /\ SessionsKept /\ status' = status
          /\ \/ Conflicts(o) = {} /\ \E n \in Requests : Creates(op[o].user, op[o].locked, n)
             \/ request' = request
      BY <1>0, <1>2, <2>1, CreateEffect
    <2>3. TypeOK'
      BY <1>0, <2>2, TypeFacts, TypeParts DEF Ends, Moves, Creates, SessionsKept, TypeOK
    <2>4. CASE request' = request
      BY <2>2, <2>3, <2>4, EndOK, QuietStep DEF Ends
    <2> QED BY <2>1, <2>2, <2>3, <2>4, CreatesStep
  <1>3. CASE ApproveRequest(o)
    <2>1. op[o].pc = "approve" /\ op[o].row \in Requests
      BY <1>0, <1>3 DEF HandlerOK, ApproveRequest
    <2>2. TypeOK'
      BY <1>0, <1>3, <2>1, ApproveEffect, TypeFacts, TypeParts DEF Ends, Moves, SetsStatus, SessionsKept, TypeOK
    <2>3. CASE request' = request
      BY <1>0, <1>3, <2>1, <2>2, <2>3, ApproveEffect, EndOK, QuietStep DEF Ends
    <2>4. CASE request[op[o].row].status = "PENDING" /\ SetsStatus(op[o].row, "APPROVED")
      <3>1. RowsSettle /\ Respects(o)
        BY <1>0, <1>3, <2>1, <2>4, ApproveEffect, SetsStatusOK DEF Active
      <3> QED BY <1>0, <1>3, <2>1, <2>2, <3>1, ApproveEffect, EndOK, SettleStep
    <2> QED BY <1>0, <1>3, <2>1, <2>3, <2>4, ApproveEffect
  <1>4. CASE RejectRequest(o)
    <2>1. op[o].pc = "reject" /\ op[o].row \in Requests
      BY <1>0, <1>4 DEF HandlerOK, RejectRequest
    <2>2. TypeOK'
      BY <1>0, <1>4, <2>1, RejectEffect, TypeFacts, TypeParts DEF Ends, Moves, SetsStatus, SessionsKept, TypeOK
    <2>3. CASE request' = request
      BY <1>0, <1>4, <2>1, <2>2, <2>3, RejectEffect, EndOK, QuietStep DEF Ends
    <2>4. CASE op[o].row \in Active /\ SetsStatus(op[o].row, "REJECTED")
      <3>1. RowsSettle /\ Respects(o)
        BY <1>0, <1>4, <2>1, <2>4, RejectEffect, SetsStatusOK
      <3> QED BY <1>0, <1>4, <2>1, <2>2, <3>1, RejectEffect, EndOK, SettleStep
    <2> QED BY <1>0, <1>4, <2>1, <2>3, <2>4, RejectEffect
  <1>5. CASE ClaimRequest(o)
    <2>1. op[o].pc = "claim" /\ op[o].row \in Requests /\ op[o].user \in Cashiers
          /\ request[op[o].row].user = op[o].user /\ request[op[o].row].status # "none"
      BY <1>0, <1>5 DEF HandlerOK, ClaimRequest
    <2>2. TypeOK'
      BY <1>0, <1>5, <2>1, ClaimEffect, TypeFacts, TypeParts DEF Ends, Moves, Turns, RequestsKept, TypeOK
    <2>3. CASE Ends(o)
      BY <1>0, <1>5, <2>1, <2>2, <2>3, ClaimEffect, EndOK, QuietStep DEF Ends, RequestsKept
    <2>4. CASE ~Ends(o)
      <3>1. /\ request[op[o].row].status = "APPROVED" /\ request' = request
            /\ \A q \in Ops \ {o} : op[o].row \notin op[q].locked
            /\ Moves(o) /\ op'[o].pc = "commit" /\ op'[o].user = op[o].user /\ op'[o].row = op[o].row
            /\ op'[o].locked = {op[o].row}
        BY <1>0, <1>5, <2>1, <2>4, ClaimEffect DEF RequestsKept
      <3>2. HandlerOK(o)' /\ Exclusive(o)'
        BY <2>1, <3>1 DEF HandlerOK, Exclusive, Moves
      <3>3. RowsSettle /\ Respects(o)
        BY <3>1 DEF RowsSettle, Respects
      <3> QED BY <2>2, <3>1, <3>2, <3>3, SettleStep
    <2> QED BY <2>3, <2>4
  <1>6. CASE CommitReset(o)
    <2>1. /\ op[o].pc = "commit" /\ op[o].row \in Requests /\ op[o].user \in Cashiers
          /\ op[o].locked = {op[o].row} /\ request[op[o].row].status = "APPROVED"
      BY <1>0, <1>6 DEF HandlerOK, CommitReset
    <2>2. TypeOK'
      BY <1>0, <1>6, <2>1, CommitEffect, TypeFacts, TypeParts DEF Ends, Moves, SetsStatus, Turns, TypeOK
    <2>3. \A q \in Ops \ {o} : op[o].row \notin op[q].locked
      BY <2>1 DEF IInv, LocksExclusive, Exclusive
    <2>4. RowsSettle /\ Respects(o)
      BY <1>0, <1>6, <2>1, <2>3, CommitEffect, SetsStatusOK DEF Active
    <2> QED BY <1>0, <1>6, <2>1, <2>2, <2>4, CommitEffect, EndOK, SettleStep
  <1>7. CASE IssueSession(o)
    <2>1. TypeOK'
      BY <1>0, <1>7, IssueEffect, TypeFacts, TypeParts, ZenonT(60) DEF Ends, Moves, RequestsKept, TypeOK
    <2> QED BY <1>0, <1>7, <2>1, IssueEffect, EndOK, QuietStep DEF Ends, RequestsKept
  <1>8. CASE RevokeSession(o)
    <2>1. TypeOK'
      BY <1>0, <1>8, RevokeEffect, TypeFacts, TypeParts DEF Ends, Moves, RequestsKept, TypeOK
    <2> QED BY <1>0, <1>8, <2>1, RevokeEffect, EndOK, QuietStep DEF Ends, RequestsKept
  <1>9. CASE KillSessions(o)
    <2>1. op[o].user \in Cashiers
      BY <1>0, <1>9 DEF HandlerOK, KillSessions
    <2>2. TypeOK'
      BY <1>0, <1>9, <2>1, KillEffect, TypeFacts, TypeParts DEF Ends, Moves, Turns, RequestsKept, TypeOK
    <2> QED BY <1>0, <1>9, <2>1, <2>2, KillEffect, EndOK, QuietStep DEF Ends, RequestsKept
  <1>10. CASE Crash(o)
    <2>1. TypeOK'
      BY <1>0, <1>10, CrashEffect, TypeFacts, TypeParts DEF Ends, Moves, Turns, RequestsKept, TypeOK
    <2> QED BY <1>0, <1>10, <2>1, CrashEffect, EndOK, QuietStep DEF Ends, RequestsKept
  <1> QED BY <1>1, <1>2, <1>3, <1>4, <1>5, <1>6, <1>7, <1>8, <1>9, <1>10 DEF Step

LEMMA OutsideSteps ==
  ASSUME IInv
  PROVE  /\ \A r \in Requests : Tick(r) => IInv'
         /\ \A u \in Cashiers : Activate(u) => IInv'
         /\ UNCHANGED vars => IInv'
  <1> USE DEF IInv
  <1>1. ASSUME NEW r \in Requests, Tick(r) PROVE IInv'
    <2>1. TypeOK'
      BY <1>1, TickEffect, TypeFacts, TypeParts DEF SessionsKept, TypeOK
    <2>2. HandlersOK' /\ LocksExclusive'
      BY <1>1, TickEffect, TypeFacts DEF HandlersOK, HandlerOK, LocksExclusive, Exclusive, OfUser, Active, OpType
    <2>3. OneActive'
      BY <1>1, TickEffect DEF OneActive, Active
    <2> QED BY <2>1, <2>2, <2>3
  <1>2. ASSUME NEW u \in Cashiers, Activate(u) PROVE IInv'
    <2>1. TypeOK'
      BY <1>2 DEF Activate, TypeOK
    <2> QED BY <1>2, <2>1 DEF Activate, HandlersOK, HandlerOK, LocksExclusive, Exclusive, OneActive, OfUser, Active
  <1>3. ASSUME UNCHANGED vars PROVE IInv'
    BY <1>3 DEF vars, TypeOK, HandlersOK, HandlerOK, LocksExclusive, Exclusive, OneActive, OfUser, Active
  <1> QED BY <1>1, <1>2, <1>3

LEMMA NextIInv == IInv /\ [Next]_vars => IInv'
  BY StartSteps, HandlerSteps, OutsideSteps DEF Next

\* The rows a handler has locked keep their state until it ends, every handler
\* acts for a cashier on a request of that cashier, and a cashier has one open
\* request.
THEOREM Invariant == Spec => []IInv
  BY InitIInv, NextIInv, PTL DEF Spec

\* The type invariant, for any number of cashiers, requests and handlers.
THEOREM TypeCorrect == Spec => []TypeOK
  <1>1. IInv => TypeOK
    BY DEF IInv
  <1> QED BY <1>1, Invariant, PTL

-----------------------------------------------------------------------------
(* Sessions.                                                               *)

\* A session being revoked belongs to a cashier whose reset is under way, and
\* a session that is open during a reset was opened behind its back.
SessionsOK ==
  \A s \in Sessions :
    /\ Live(s) => session[s].user \in Cashiers
    /\ session[s].status = "revoking" => \E o \in Ops : At(o, "commit") /\ op[o].user = session[s].user
    /\ session[s].status = "OPEN" =>
         \A o \in Ops : At(o, "commit") /\ op[o].user = session[s].user => session[s].raced
    /\ Live(s) /\ session[s].seen < cut[session[s].user] => session[s].raced

SInv == IInv /\ SessionsOK

\* One reset of a cashier at a time.
LEMMA OneReset ==
  ASSUME IInv, NEW o \in Ops, NEW q \in Ops, At(o, "commit"), At(q, "commit"), op[o].user = op[q].user
  PROVE  o = q
  <1>1. HandlerOK(o) /\ HandlerOK(q)
    BY DEF IInv, HandlersOK
  <1>2. op[o].row \in Active /\ op[q].row \in Active /\ request[op[o].row].user = request[op[q].row].user
    BY <1>1 DEF HandlerOK, At, Active
  <1>3. op[o].row = op[q].row
    BY <1>2 DEF IInv, OneActive
  <1>4. op[o].locked \cap op[q].locked # {}
    BY <1>1, <1>3 DEF HandlerOK, At
  <1> QED BY <1>4 DEF IInv, LocksExclusive, Exclusive

\* Steps that leave the sessions alone and begin or end no reset.
LEMMA SessionsUntouched ==
  ASSUME SessionsOK, session' = session, cut' = cut,
         \A o \in Ops : At(o, "commit")' <=> At(o, "commit"),
         \A o \in Ops : At(o, "commit") => op'[o].user = op[o].user
  PROVE  SessionsOK'
  BY DEF SessionsOK, At, Live

LEMMA StartsKeepSessions ==
  ASSUME SInv, NEW o \in Ops
  PROVE  /\ \A u \in Cashiers : RecoveryEndpoints(o, u) \/ Login(o, u) \/ Suspend(o, u) => SessionsOK'
         /\ \A s \in Sessions : Logout(o, s) => SessionsOK'
         /\ RecoveryDesk(o) => SessionsOK'
  <1> USE DEF SInv, IInv
  <1>1. ASSUME Moves(o), op[o] = Idle, op'[o].pc # "commit", SessionsKept PROVE SessionsOK'
    BY <1>1, SessionsUntouched DEF Moves, SessionsKept, Idle, At
  <1>2. ASSUME NEW u \in Cashiers, RecoveryEndpoints(o, u) \/ Login(o, u) \/ Suspend(o, u) PROVE SessionsOK'
    BY <1>1, <1>2, SubmitEffect, ReadEffect, LoginEffect, SuspendEffect DEF RecoveryEndpoints
  <1>3. ASSUME NEW s \in Sessions, Logout(o, s) PROVE SessionsOK'
    BY <1>1, <1>3, LogoutEffect
  <1>4. ASSUME NEW r \in Requests, NEW verb \in {"approve", "reject"}, Decide(o, r, verb) PROVE SessionsOK'
    BY <1>1, <1>4, DecideEffect, ExpireEffect
  <1>5. ASSUME ListRecoveryRequests(o) PROVE SessionsOK'
    <2>1. op' = op /\ session' = session /\ cut' = cut
      BY <1>5 DEF ListRecoveryRequests, ExpireStale
    <2> QED BY <2>1, SessionsUntouched DEF At
  <1> QED BY <1>2, <1>3, <1>4, <1>5 DEF RecoveryDesk

LEMMA HandlersKeepSessions ==
  ASSUME SInv, NEW o \in Ops, Step(o) \/ Crash(o)
  PROVE  SessionsOK'
  <1>0. TypeOK /\ HandlerOK(o) /\ IInv /\ SessionsOK /\ op[o] \in OpType /\ session \in [Sessions -> SessionType]
    BY TypeFacts DEF SInv, IInv, HandlersOK
  <1>1. ASSUME Moves(o), ~At(o, "commit"), op'[o].pc # "commit", SessionsKept PROVE SessionsOK'
    BY <1>0, <1>1, SessionsUntouched DEF Moves, SessionsKept, At
  <1>2. CASE CountRecent(o)
    BY <1>0, <1>1, <1>2, CountEffect DEF At, Ends
  <1>3. CASE CreateRequest(o)
    BY <1>0, <1>1, <1>3, CreateEffect DEF At, Ends, HandlerOK, CreateRequest
  <1>4. CASE ApproveRequest(o)
    BY <1>0, <1>1, <1>4, ApproveEffect DEF At, Ends, HandlerOK, ApproveRequest
  <1>5. CASE RejectRequest(o)
    BY <1>0, <1>1, <1>5, RejectEffect DEF At, Ends, HandlerOK, RejectRequest
  <1>6. CASE ClaimRequest(o)
    <2>1. op[o].row \in Requests /\ At(o, "claim") /\ op[o].user \in Cashiers
      BY <1>0, <1>6 DEF HandlerOK, At, ClaimRequest
    <2>2. CASE Ends(o) /\ session' = session
      BY <1>0, <1>1, <1>6, <2>1, <2>2, ClaimEffect DEF At, Ends, SessionsKept
    <2>3. CASE ~(Ends(o) /\ session' = session)
      <3>1. /\ Moves(o) /\ op'[o].pc = "commit" /\ op'[o].user = op[o].user /\ cut' = cut
            /\ Turns(op[o].user, {"OPEN"}, "revoking")
        BY <1>0, <1>6, <2>1, <2>3, ClaimEffect
      <3> SUFFICES ASSUME NEW s \in Sessions
                   PROVE  /\ Live(s)' => session'[s].user \in Cashiers
                          /\ session'[s].status = "revoking" => \E q \in Ops : At(q, "commit")' /\ op'[q].user = session'[s].user
                          /\ session'[s].status = "OPEN" =>
                               \A q \in Ops : At(q, "commit")' /\ op'[q].user = session'[s].user => session'[s].raced
                          /\ Live(s)' /\ session'[s].seen < cut'[session'[s].user] => session'[s].raced
        BY DEF SessionsOK
      <3>2. Live(s)' => Live(s)
        BY <3>1 DEF Turns, Live
      <3>3. session'[s].status = "revoking" => \E q \in Ops : At(q, "commit")' /\ op'[q].user = session'[s].user
        <4>1. CASE session[s].user = op[o].user
          BY <3>1, <4>1 DEF Turns, At
        <4>2. CASE session[s].user # op[o].user
          BY <1>0, <2>1, <3>1, <4>2 DEF Turns, SessionsOK, At, Moves
        <4> QED BY <4>1, <4>2
      <3>4. session'[s].status = "OPEN" => session[s].status = "OPEN" /\ session[s].user # op[o].user
        BY <3>1 DEF Turns
      <3>5. session'[s].status = "OPEN" =>
              \A q \in Ops : At(q, "commit")' /\ op'[q].user = session'[s].user => session'[s].raced
        BY <1>0, <3>1, <3>4 DEF Turns, SessionsOK, At, Moves
      <3> QED BY <1>0, <3>1, <3>2, <3>3, <3>5 DEF Turns, SessionsOK
    <2> QED BY <2>2, <2>3
  <1>7. CASE CommitReset(o)
    <2>1. op[o].row \in Requests /\ At(o, "commit") /\ op[o].user \in Cashiers
      BY <1>0, <1>7 DEF HandlerOK, At, CommitReset
    <2>2. Ends(o) /\ cut' = [cut EXCEPT ![op[o].user] = @ + 1] /\ cut \in [Cashiers -> Nat]
          /\ Turns(op[o].user, {"revoking"}, "REVOKED")
      BY <1>0, <1>7, <2>1, CommitEffect DEF TypeOK
    <2> SUFFICES ASSUME NEW s \in Sessions, Live(s)'
                 PROVE  /\ session'[s].user \in Cashiers
                        /\ session'[s].status = "revoking" => \E q \in Ops : At(q, "commit")' /\ op'[q].user = session'[s].user
                        /\ session'[s].status = "OPEN" =>
                             \A q \in Ops : At(q, "commit")' /\ op'[q].user = session'[s].user => session'[s].raced
                        /\ session'[s].seen < cut'[session'[s].user] => session'[s].raced
      BY DEF SessionsOK, Live
    <2>3. /\ Live(s) /\ session'[s].status = session[s].status
          /\ session'[s].user = session[s].user /\ session'[s].raced = session[s].raced /\ session'[s].seen = session[s].seen
          /\ session[s].status = "revoking" => session[s].user # op[o].user
      BY <2>2 DEF Turns, Live
    <2>4. session[s].user \in Cashiers
      BY <1>0, <2>3 DEF SessionsOK
    <2>5. session[s].user = op[o].user => session[s].raced
      BY <1>0, <2>1, <2>3 DEF SessionsOK, Live
    <2>6. session[s].user # op[o].user => cut'[session[s].user] = cut[session[s].user]
      BY <2>2
    <2>7. session'[s].status = "revoking" => \E q \in Ops : At(q, "commit")' /\ op'[q].user = session'[s].user
      BY <1>0, <2>1, <2>2, <2>3 DEF SessionsOK, At, Ends, Moves
    <2>8. session'[s].status = "OPEN" =>
            \A q \in Ops : At(q, "commit")' /\ op'[q].user = session'[s].user => session'[s].raced
      BY <1>0, <2>2, <2>3, ZenonT(60) DEF SessionsOK, At, Ends, Moves
    <2> QED BY <1>0, <2>3, <2>4, <2>5, <2>6, <2>7, <2>8 DEF SessionsOK
  <1>8. CASE IssueSession(o)
    <2>1. At(o, "issue") /\ Ends(o) /\ cut' = cut /\ op[o].user \in Cashiers
      BY <1>0, <1>8, IssueEffect DEF HandlerOK, At
    <2>2. PICK s \in Sessions :
            /\ \A t \in Sessions \ {s} : session'[t] = session[t]
            /\ session'[s].status = "OPEN" /\ session'[s].user = op[o].user /\ session'[s].seen = op[o].seen
            /\ session'[s].raced = (\/ cut[op[o].user] # op[o].seen
                                    \/ \E q \in Ops : At(q, "commit") /\ op[q].user = op[o].user)
      BY <1>0, <1>8, IssueEffect
    <2>3. \A q \in Ops : /\ At(q, "commit")' <=> At(q, "commit")
                         /\ At(q, "commit") => op'[q].user = op[q].user
      BY <2>1 DEF At, Ends, Moves
    <2>4. cut \in [Cashiers -> Nat] /\ op[o].seen \in Nat
      BY <1>0 DEF TypeOK, OpType
    <2>5. \A q \in Ops : At(q, "commit") /\ op[q].user = op[o].user => session'[s].raced
      BY <2>2
    <2>6. op[o].seen < cut[op[o].user] => session'[s].raced
      BY <2>1, <2>2, <2>4
    <2>7. \A q \in Ops : At(q, "commit")' /\ op'[q].user = session'[s].user => session'[s].raced
      BY <2>2, <2>3, <2>5
    <2> SUFFICES ASSUME NEW t \in Sessions
                 PROVE  /\ Live(t)' => session'[t].user \in Cashiers
                        /\ session'[t].status = "revoking" => \E q \in Ops : At(q, "commit")' /\ op'[q].user = session'[t].user
                        /\ session'[t].status = "OPEN" =>
                             \A q \in Ops : At(q, "commit")' /\ op'[q].user = session'[t].user => session'[t].raced
                        /\ Live(t)' /\ session'[t].seen < cut'[session'[t].user] => session'[t].raced
      BY DEF SessionsOK
    <2>8. CASE t = s
      BY <2>1, <2>2, <2>6, <2>7, <2>8
    <2>9. CASE t # s
      <3>1. session'[t] = session[t] /\ (Live(t)' <=> Live(t))
        BY <2>2, <2>9 DEF Live
      <3> QED BY <1>0, <2>1, <2>3, <3>1 DEF SessionsOK
    <2> QED BY <2>8, <2>9
  <1>9. CASE RevokeSession(o)
    <2>1. /\ At(o, "revoke") /\ Ends(o) /\ cut' = cut
          /\ \A s \in Sessions : session'[s] = session[s] \/ session'[s].status = "REVOKED"
      BY <1>0, <1>9, RevokeEffect
    <2>2. \A q \in Ops : /\ At(q, "commit")' <=> At(q, "commit")
                         /\ At(q, "commit") => op'[q].user = op[q].user
      BY <2>1 DEF At, Ends, Moves
    <2> QED BY <1>0, <2>1, <2>2 DEF SessionsOK, Live
  <1>10. CASE KillSessions(o)
    <2>1. /\ At(o, "kill") /\ Ends(o) /\ op[o].user \in Cashiers
          /\ cut' = [cut EXCEPT ![op[o].user] = @ + 1] /\ cut \in [Cashiers -> Nat]
          /\ Turns(op[o].user, {"OPEN", "revoking"}, "REVOKED")
      BY <1>0, <1>10, KillEffect DEF HandlerOK, KillSessions, At, TypeOK
    <2>2. \A q \in Ops : /\ At(q, "commit")' <=> At(q, "commit")
                         /\ At(q, "commit") => op'[q].user = op[q].user
      BY <2>1 DEF At, Ends, Moves
    <2>3. \A s \in Sessions : Live(s)' => /\ Live(s) /\ session'[s].status = session[s].status
                                          /\ session[s].user # op[o].user
      BY <2>1 DEF Turns, Live
    <2>4. \A s \in Sessions : session[s].user # op[o].user => cut'[session[s].user] = cut[session[s].user]
      BY <2>1
    <2> QED BY <1>0, <2>1, <2>2, <2>3, <2>4 DEF SessionsOK, Turns, Live
  <1>11. CASE Crash(o)
    <2>1. CASE ~At(o, "commit")
      BY <1>0, <1>1, <1>11, <2>1, CrashEffect DEF At, Ends, SessionsKept
    <2>2. CASE At(o, "commit")
      <3>1. Ends(o) /\ cut' = cut /\ Turns(op[o].user, {"revoking"}, "OPEN")
        BY <1>0, <1>11, <2>2, CrashEffect
      <3> SUFFICES ASSUME NEW s \in Sessions, Live(s)'
                   PROVE  /\ session'[s].user \in Cashiers
                          /\ session'[s].status = "revoking" => \E q \in Ops : At(q, "commit")' /\ op'[q].user = session'[s].user
                          /\ session'[s].status = "OPEN" =>
                               \A q \in Ops : At(q, "commit")' /\ op'[q].user = session'[s].user => session'[s].raced
                          /\ session'[s].seen < cut'[session'[s].user] => session'[s].raced
        BY DEF SessionsOK, Live
      <3>2. /\ Live(s)
            /\ session'[s].user = session[s].user /\ session'[s].raced = session[s].raced /\ session'[s].seen = session[s].seen
            /\ session'[s].status = "revoking" => session[s].status = "revoking" /\ session[s].user # op[o].user
        BY <3>1 DEF Turns, Live
      <3>3. session'[s].status = "revoking" => \E q \in Ops : At(q, "commit")' /\ op'[q].user = session'[s].user
        BY <1>0, <3>1, <3>2 DEF SessionsOK, At, Ends, Moves
      <3>4. session'[s].status = "OPEN" =>
              \A q \in Ops : At(q, "commit")' /\ op'[q].user = session'[s].user => session'[s].raced
        <4> SUFFICES ASSUME session'[s].status = "OPEN", NEW q \in Ops, At(q, "commit")', op'[q].user = session'[s].user
                     PROVE  session'[s].raced
          OBVIOUS
        <4>1. q # o /\ At(q, "commit") /\ op[q].user = session[s].user
          BY <3>1, <3>2 DEF Ends, Moves, At
        <4>2. op[o].user # session[s].user
          BY <1>0, <2>2, <4>1, OneReset
        <4>3. session[s].status = "OPEN"
          BY <3>1, <4>2 DEF Turns
        <4> QED BY <1>0, <3>2, <4>1, <4>3 DEF SessionsOK
      <3> QED BY <1>0, <3>1, <3>2, <3>3, <3>4 DEF SessionsOK
    <2> QED BY <2>1, <2>2
  <1> QED BY <1>2, <1>3, <1>4, <1>5, <1>6, <1>7, <1>8, <1>9, <1>10, <1>11 DEF Step

\* A reset or a suspension leaves no usable session that was opened before it,
\* except one inserted behind the back of the statement that revokes them.
THEOREM SessionsAreCut == Spec => []SessionsCut
  <1>1. Init => SInv
    BY InitIInv DEF Init, SInv, SessionsOK, NoSession, Live
  <1>2. SInv /\ [Next]_vars => SInv'
    <2> SUFFICES ASSUME SInv, [Next]_vars PROVE SInv'
      OBVIOUS
    <2>1. IInv'
      BY NextIInv DEF SInv
    <2>2. ASSUME NEW r \in Requests, Tick(r) PROVE SessionsOK'
      BY <2>2, SessionsUntouched DEF Tick, SInv, At
    <2>3. ASSUME NEW u \in Cashiers, Activate(u) PROVE SessionsOK'
      BY <2>3, SessionsUntouched DEF Activate, SInv, At
    <2>4. CASE UNCHANGED vars
      <3>1. session' = session /\ cut' = cut /\ op' = op
        BY <2>4 DEF vars
      <3> QED BY <2>1, <3>1 DEF SInv, SessionsOK, At, Live
    <2> QED BY <2>1, <2>2, <2>3, <2>4, StartsKeepSessions, HandlersKeepSessions DEF Next, SInv
  <1>3. SInv => SessionsCut
    BY DEF SInv, SessionsOK, SessionsCut
  <1> QED BY <1>1, <1>2, <1>3, PTL DEF Spec

-----------------------------------------------------------------------------
(* The code of a request is a one-time secret.                             *)

\* How the status of a request changes when no reset commits.
StatusTurn(r) ==
  \/ request'[r].status = request[r].status
  \/ request[r].status = "none" /\ request'[r].status = "PENDING"
  \/ request[r].status = "PENDING" /\ request'[r].status = "APPROVED"
  \/ request[r].status \in {"PENDING", "APPROVED"} /\ request'[r].status \in {"REJECTED", "EXPIRED"}

Turn == resets' = resets /\ \A r \in Requests : StatusTurn(r)

LEMMA ExpiresTurn ==
  ASSUME NEW rows \in SUBSET Requests, rows \subseteq Active, Expires(rows)
  PROVE  \A r \in Requests : StatusTurn(r)
  BY DEF Expires, StatusTurn, Active

\* Every step but the commit of a reset turns codes over and redeems none.
LEMMA TurnSteps ==
  ASSUME IInv, [Next]_vars
  PROVE  Turn \/ \E o \in Ops : CommitReset(o)
  <1>0. TypeOK /\ HandlersOK
    BY DEF IInv
  <1>1. ASSUME RequestsKept PROVE Turn
    BY <1>1 DEF RequestsKept, Turn, StatusTurn
  <1>2. ASSUME NEW o \in Ops, ExpireStale(o) PROVE Turn
    BY <1>0, <1>2, ExpireEffect, ExpiresTurn DEF Turn
  <1>3. ASSUME NEW o \in Ops, NEW u \in Cashiers, RecoveryEndpoints(o, u) \/ Login(o, u) \/ Suspend(o, u) PROVE Turn
    BY <1>1, <1>3 DEF RecoveryEndpoints, SubmitRecoveryRequest, ReadRequest, Login, Suspend, RequestsKept
  <1>4. ASSUME NEW o \in Ops, RecoveryDesk(o) PROVE Turn
    BY <1>2, <1>4 DEF RecoveryDesk, ListRecoveryRequests, Decide
  <1>5. ASSUME NEW o \in Ops, CountRecent(o) PROVE Turn
    BY <1>0, <1>1, <1>5, CountEffect, ExpiresTurn DEF Turn, RequestsKept
  <1>6. ASSUME NEW o \in Ops, CreateRequest(o) PROVE Turn
    <2>1. HandlerOK(o) /\ At(o, "create") /\ op[o] \in OpType
      BY <1>0, <1>6, TypeFacts DEF HandlersOK, CreateRequest
    <2>2. op[o].user \in Cashiers /\ op[o].locked \subseteq Active /\ op[o].locked \in SUBSET Requests
      BY <2>1 DEF HandlerOK, At, OpType
    <2>3. CASE request' = request
      BY <1>0, <1>1, <1>6, <2>2, <2>3, CreateEffect DEF RequestsKept
    <2>4. CASE \E n \in Requests : Creates(op[o].user, op[o].locked, n)
      <3>1. \A r \in Requests : StatusTurn(r)
        BY <2>2, <2>4 DEF Creates, StatusTurn, Active
      <3> QED BY <1>0, <1>6, <2>2, <3>1, CreateEffect DEF Turn
    <2> QED BY <1>0, <1>6, <2>2, <2>3, <2>4, CreateEffect
  <1>7. ASSUME NEW o \in Ops, ApproveRequest(o) PROVE Turn
    <2>1. op[o].row \in Requests
      BY <1>0, <1>7 DEF HandlersOK, HandlerOK, At, ApproveRequest
    <2>2. CASE request' = request
      BY <1>0, <1>1, <1>7, <2>1, <2>2, ApproveEffect DEF RequestsKept
    <2>3. CASE request[op[o].row].status = "PENDING" /\ SetsStatus(op[o].row, "APPROVED")
      <3>1. \A q \in Requests : StatusTurn(q)
        BY <2>1, <2>3 DEF SetsStatus, StatusTurn
      <3> QED BY <1>0, <1>7, <2>1, <3>1, ApproveEffect DEF Turn
    <2> QED BY <1>0, <1>7, <2>1, <2>2, <2>3, ApproveEffect
  <1>8. ASSUME NEW o \in Ops, RejectRequest(o) PROVE Turn
    <2>1. op[o].row \in Requests
      BY <1>0, <1>8 DEF HandlersOK, HandlerOK, At, RejectRequest
    <2>2. CASE request' = request
      BY <1>0, <1>1, <1>8, <2>1, <2>2, RejectEffect DEF RequestsKept
    <2>3. CASE op[o].row \in Active /\ SetsStatus(op[o].row, "REJECTED")
      <3>1. \A q \in Requests : StatusTurn(q)
        BY <2>3 DEF SetsStatus, StatusTurn, Active
      <3> QED BY <1>0, <1>8, <2>1, <3>1, RejectEffect DEF Turn
    <2> QED BY <1>0, <1>8, <2>1, <2>2, <2>3, RejectEffect
  <1>9. ASSUME NEW o \in Ops, \/ ClaimRequest(o) \/ IssueSession(o) \/ RevokeSession(o) \/ KillSessions(o)
                              \/ Crash(o) \/ \E s \in Sessions : Logout(o, s)
        PROVE  Turn
    BY <1>1, <1>9 DEF ClaimRequest, IssueSession, RevokeSession, KillSessions, Crash, Logout, RequestsKept
  <1>10. ASSUME NEW r \in Requests, Tick(r) PROVE Turn
    BY <1>0, <1>10, TickEffect DEF Turn, StatusTurn
  <1>11. ASSUME NEW u \in Cashiers, Activate(u) PROVE Turn
    BY <1>1, <1>11 DEF Activate, RequestsKept
  <1>12. CASE UNCHANGED vars
    BY <1>1, <1>12 DEF vars, RequestsKept
  <1> QED BY <1>3, <1>4, <1>5, <1>6, <1>7, <1>8, <1>9, <1>10, <1>11, <1>12 DEF Next, Step

LEMMA CodeStateFacts ==
  ASSUME TypeOK, NEW r \in Requests
  PROVE  /\ CodeState(r) \in Code!States
         /\ CodeState(r) = "none" <=> request[r].status \in {"none", "PENDING"}
         /\ CodeState(r) = "live" <=> request[r].status = "APPROVED"
         /\ CodeState(r) = "spent" <=> request[r].status = "COMPLETED"
         /\ CodeState(r) = "dead" <=> request[r].status \in {"REJECTED", "EXPIRED"}
  <1>1. request[r].status \in {"none", "PENDING", "APPROVED", "REJECTED", "EXPIRED", "COMPLETED"}
    BY TypeFacts DEF RequestType
  <1> QED BY <1>1 DEF CodeState, Code!States

LEMMA CodeStateNext ==
  ASSUME TypeOK', NEW r \in Requests
  PROVE  /\ CodeState(r)' \in Code!States
         /\ CodeState(r)' = "none" <=> request'[r].status \in {"none", "PENDING"}
         /\ CodeState(r)' = "live" <=> request'[r].status = "APPROVED"
         /\ CodeState(r)' = "spent" <=> request'[r].status = "COMPLETED"
         /\ CodeState(r)' = "dead" <=> request'[r].status \in {"REJECTED", "EXPIRED"}
  <1>1. request'[r].status \in {"none", "PENDING", "APPROVED", "REJECTED", "EXPIRED", "COMPLETED"}
    BY DEF TypeOK
  <1> QED BY <1>1 DEF CodeState, Code!States

LEMMA TurnIsTurnover ==
  ASSUME IInv, IInv', Turn
  PROVE  Code!Turnover
  <1>1. \A r \in Requests : \/ CodeState(r)' = CodeState(r)
                            \/ CodeState(r) = "none" /\ CodeState(r)' \in {"live", "dead"}
                            \/ CodeState(r) = "live" /\ CodeState(r)' = "dead"
    <2> SUFFICES ASSUME NEW r \in Requests
                 PROVE  \/ CodeState(r)' = CodeState(r)
                        \/ CodeState(r) = "none" /\ CodeState(r)' \in {"live", "dead"}
                        \/ CodeState(r) = "live" /\ CodeState(r)' = "dead"
      OBVIOUS
    <2>1. StatusTurn(r)
      BY DEF Turn
    <2> QED BY <2>1, CodeStateFacts, CodeStateNext DEF StatusTurn, IInv, Code!States
  <1>2. \A r \in Requests : CodeState(r)' \in Code!States
    BY CodeStateNext DEF IInv
  <1> QED BY <1>1, <1>2 DEF Code!Turnover, Turn

LEMMA CommitIsRedeem ==
  ASSUME IInv, IInv', NEW o \in Ops, CommitReset(o)
  PROVE  \E r \in Requests : Code!Redeem(r)
  <1>0. PICK row : row = op[o].row
    OBVIOUS
  <1>1. row \in Requests /\ op[o].user \in Cashiers /\ request[row].status = "APPROVED"
    BY <1>0 DEF IInv, HandlersOK, HandlerOK, At, CommitReset
  <1>2. SetsStatus(row, "COMPLETED") /\ resets' = [resets EXCEPT ![row] = @ + 1]
    BY <1>0, <1>1, CommitEffect DEF IInv
  <1>3. CodeState(row) = "live" /\ (CodeState(row))' = "spent"
    <2>1. request'[row].status = "COMPLETED"
      BY <1>2 DEF SetsStatus
    <2> QED BY <1>1, <2>1 DEF CodeState
  <1>4. \A r \in Requests \ {row} : CodeState(r)' = CodeState(r)
    BY <1>2 DEF SetsStatus, CodeState
  <1>5. \A r \in Requests : CodeState(r)' \in Code!States
    BY CodeStateNext DEF IInv
  <1>6. Code!Redeem(row)
    BY <1>1, <1>2, <1>3, <1>4, <1>5 DEF Code!Redeem
  <1> QED BY <1>1, <1>6

\* Recovery implements OneTimeSecret: the code of a request sets the password
\* at most once and only while its request is APPROVED.
THEOREM CodesAreOneTime == Spec => CodeIsOneTime
  <1>1. Init => Code!Init
    BY DEF Init, NoRequest, CodeState, Code!Init
  <1>2. IInv /\ IInv' /\ [Next]_vars => [Code!Next]_(Code!secretVars)
    BY TurnSteps, TurnIsTurnover, CommitIsRedeem DEF Code!Next
  <1> QED BY <1>1, <1>2, Invariant, PTL DEF Spec, CodeIsOneTime, Code!Spec

-----------------------------------------------------------------------------
(* The hourly limit.                                                       *)

\* The filings of a cashier that have been counted and not yet committed.
Filing(u) == {o \in Ops : op[o].pc = "create" /\ op[o].user = u}

\* A filing that was counted below the limit will add at most one request.
Counted(u) == Cardinality(Recent(u)) + Cardinality(Filing(u)) <= PerHour - 1 + Cardinality(Ops)

HInv == IInv /\ \A u \in Cashiers : Counted(u)

LEMMA Finite ==
  ASSUME NEW u
  PROVE  /\ IsFiniteSet(Recent(u)) /\ Cardinality(Recent(u)) \in Nat
         /\ IsFiniteSet(Filing(u)) /\ Cardinality(Filing(u)) \in Nat /\ Cardinality(Filing(u)) <= Cardinality(Ops)
         /\ IsFiniteSet(Recent(u)') /\ Cardinality(Recent(u)') \in Nat
         /\ IsFiniteSet(Filing(u)') /\ Cardinality(Filing(u)') \in Nat /\ Cardinality(Filing(u)') <= Cardinality(Ops)
         /\ Cardinality(Ops) \in Nat /\ PerHour \in Nat
  <1>1. /\ Recent(u) \in SUBSET Requests /\ Recent(u)' \in SUBSET Requests
        /\ Filing(u) \in SUBSET Ops /\ Filing(u)' \in SUBSET Ops
    BY DEF Recent, Filing, OfUser
  <1>2. IsFiniteSet(Requests) /\ IsFiniteSet(Ops) /\ PerHour \in Nat
    BY RecoveryAssumption
  <1> HIDE DEF Recent, Filing
  <1> QED BY <1>1, <1>2, FS_Subset, FS_CardinalityType

LEMMA CountedKept ==
  ASSUME NEW u \in Cashiers, Counted(u), Recent(u)' \subseteq Recent(u), Filing(u)' \subseteq Filing(u)
  PROVE  Counted(u)'
  <1>1. Cardinality(Recent(u)') <= Cardinality(Recent(u)) /\ Cardinality(Filing(u)') <= Cardinality(Filing(u))
    BY Finite, FS_Subset
  <1> QED BY <1>1, Finite DEF Counted

\* No step but the counting adds to the filings, and no step but the INSERT
\* adds to the requests of an hour.
Older == \A r \in Requests : request'[r].user = request[r].user /\ request'[r].age >= request[r].age

LEMMA OlderFact ==
  ASSUME TypeOK, TypeOK', Older, NEW u
  PROVE  Recent(u)' \subseteq Recent(u)
  <1>1. \A r \in Requests : request[r].age \in Int /\ request'[r].age \in Int
    BY SMTT(30) DEF TypeOK
  <1> QED BY <1>1 DEF Older, Recent, OfUser

LEMMA FilingFact ==
  ASSUME NEW o \in Ops, Moves(o), op'[o].pc # "create", NEW u
  PROVE  Filing(u)' \subseteq Filing(u) \ {o}
  BY DEF Moves, Filing

LEMMA ExpiresOlder ==
  ASSUME TypeOK, NEW rows, Expires(rows)
  PROVE  Older
  BY DEF TypeOK, Expires, Older

LEMMA QuietCounted ==
  ASSUME IInv, IInv', NEW o \in Ops, Moves(o), op'[o].pc # "create", Older, \A u \in Cashiers : Counted(u)
  PROVE  \A u \in Cashiers : Counted(u)'
  <1> SUFFICES ASSUME NEW u \in Cashiers PROVE Counted(u)'
    OBVIOUS
  <1>1. Recent(u)' \subseteq Recent(u)
    BY OlderFact DEF IInv
  <1>2. Filing(u)' \subseteq Filing(u)
    BY FilingFact
  <1> QED BY <1>1, <1>2, CountedKept

\* A filing starts below the limit ...
LEMMA CountKeepsLimit ==
  ASSUME IInv, IInv', NEW o \in Ops, CountRecent(o), \A u \in Cashiers : Counted(u)
  PROVE  \A u \in Cashiers : Counted(u)'
  <1> DEFINE rows == Stale \cap OfUser(op[o].user)
  <1>0. TypeOK
    BY DEF IInv
  <1>1. \/ /\ Cardinality(Recent(op[o].user)) < PerHour
           /\ Moves(o) /\ op'[o].pc = "create" /\ op'[o].user = op[o].user /\ request' = request
        \/ Ends(o) /\ Expires(rows)
    BY <1>0, CountEffect
  <1>2. CASE Ends(o) /\ Expires(rows)
    BY <1>0, <1>2, ExpiresOlder, QuietCounted DEF Ends
  <1>3. CASE Cardinality(Recent(op[o].user)) < PerHour /\ Moves(o) /\ op'[o].user = op[o].user /\ request' = request
    <2> SUFFICES ASSUME NEW u \in Cashiers PROVE Counted(u)'
      OBVIOUS
    <2>1. Recent(u)' = Recent(u)
      BY <1>3 DEF Recent, OfUser
    <2>2. CASE u = op[o].user
      <3>1. Cardinality(Recent(u)') <= PerHour - 1
        BY <1>3, <2>1, <2>2, Finite
      <3> QED BY <3>1, Finite DEF Counted
    <2>3. CASE u # op[o].user
      <3>1. Filing(u)' \subseteq Filing(u)
        BY <1>3, <2>3 DEF Filing, Moves
      <3> QED BY <2>1, <3>1, CountedKept
    <2> QED BY <2>2, <2>3
  <1> QED BY <1>1, <1>2, <1>3

\* ... and ends when its request appears.
LEMMA CreateKeepsLimit ==
  ASSUME IInv, IInv', NEW o \in Ops, CreateRequest(o), \A u \in Cashiers : Counted(u)
  PROVE  \A u \in Cashiers : Counted(u)'
  <1>0. TypeOK /\ At(o, "create") /\ op[o].user \in Cashiers
    BY DEF IInv, HandlersOK, HandlerOK, At, CreateRequest
  <1>1. Ends(o) /\ Moves(o)
    BY <1>0, CreateEffect DEF Ends
  <1>2. CASE request' = request
    <2>1. Older
      BY <1>0, <1>2 DEF Older, TypeOK
    <2> QED BY <1>1, <2>1, QuietCounted DEF Ends
  <1>3. CASE \E n \in Requests : Creates(op[o].user, op[o].locked, n)
    <2>1. PICK n \in Requests : Creates(op[o].user, op[o].locked, n)
      BY <1>3
    <2>2. request'[n].user = op[o].user
          /\ \A r \in Requests \ {n} : request'[r].user = request[r].user /\ request'[r].age = request[r].age
      BY <2>1 DEF Creates
    <2> SUFFICES ASSUME NEW u \in Cashiers PROVE Counted(u)'
      OBVIOUS
    <2>3. CASE u = op[o].user
      <3>1. Recent(u)' \subseteq Recent(u) \cup {n}
        BY <2>2 DEF Recent, OfUser
      <3>2. Cardinality(Recent(u)') <= Cardinality(Recent(u)) + 1
        <4>1. IsFiniteSet(Recent(u) \cup {n}) /\ Cardinality(Recent(u) \cup {n}) <= Cardinality(Recent(u)) + 1
          <5>1. PICK T : T = Recent(u)
            OBVIOUS
          <5>2. IsFiniteSet(T) /\ Cardinality(T) \in Nat
            BY <5>1, Finite
          <5>3. IsFiniteSet(T \cup {n}) /\ Cardinality(T \cup {n}) = IF n \in T THEN Cardinality(T) ELSE Cardinality(T) + 1
            BY <5>2, FS_AddElement
          <5> QED BY <5>1, <5>2, <5>3
        <4>2. Cardinality(Recent(u)') <= Cardinality(Recent(u) \cup {n})
          BY <3>1, <4>1, FS_Subset
        <4>3. Cardinality(Recent(u) \cup {n}) \in Nat
          BY <4>1, FS_CardinalityType
        <4> QED BY <4>1, <4>2, <4>3, Finite
      <3>3. o \in Filing(u) /\ Filing(u)' \subseteq Filing(u) \ {o}
        BY <1>0, <1>1, <2>3, FilingFact DEF Filing, At, Ends
      <3>4. Cardinality(Filing(u)') <= Cardinality(Filing(u)) - 1
        <4>1. IsFiniteSet(Filing(u) \ {o}) /\ Cardinality(Filing(u) \ {o}) = Cardinality(Filing(u)) - 1
          BY <3>3, Finite, FS_RemoveElement
        <4> QED BY <3>3, <4>1, FS_Subset
      <3> QED BY <3>2, <3>4, Finite DEF Counted
    <2>4. CASE u # op[o].user
      <3>1. Recent(u)' \subseteq Recent(u)
        BY <2>2, <2>4 DEF Recent, OfUser
      <3>2. Filing(u)' \subseteq Filing(u)
        BY <1>1, FilingFact DEF Ends
      <3> QED BY <3>1, <3>2, CountedKept
    <2> QED BY <2>3, <2>4
  <1> QED BY <1>0, <1>2, <1>3, CreateEffect

LEMMA StartsKeepLimit ==
  ASSUME IInv, IInv', NEW o \in Ops, \A u \in Cashiers : Counted(u)
  PROVE  /\ \A u \in Cashiers : RecoveryEndpoints(o, u) \/ Login(o, u) \/ Suspend(o, u) => \A v \in Cashiers : Counted(v)'
         /\ \A s \in Sessions : Logout(o, s) => \A v \in Cashiers : Counted(v)'
         /\ RecoveryDesk(o) => \A v \in Cashiers : Counted(v)'
  <1>0. TypeOK
    BY DEF IInv
  <1>1. ASSUME RequestsKept PROVE Older
    BY <1>0, <1>1 DEF TypeOK, RequestsKept, Older
  <1>2. ASSUME NEW u \in Cashiers, RecoveryEndpoints(o, u) \/ Login(o, u) \/ Suspend(o, u)
        PROVE  \A v \in Cashiers : Counted(v)'
    <2>1. Moves(o) /\ op'[o].pc # "create" /\ RequestsKept
      BY <1>0, <1>2, SubmitEffect, ReadEffect, LoginEffect, SuspendEffect DEF RecoveryEndpoints
    <2> QED BY <1>1, <2>1, QuietCounted
  <1>3. ASSUME NEW s \in Sessions, Logout(o, s) PROVE \A v \in Cashiers : Counted(v)'
    BY <1>0, <1>1, <1>3, LogoutEffect, QuietCounted
  <1>4. ASSUME NEW r \in Requests, NEW verb \in {"approve", "reject"}, Decide(o, r, verb)
        PROVE  \A v \in Cashiers : Counted(v)'
    <2>1. Moves(o) /\ op'[o].pc # "create" /\ Expires(Stale)
      BY <1>0, <1>4, DecideEffect, ExpireEffect
    <2> QED BY <1>0, <2>1, ExpiresOlder, QuietCounted
  <1>5. ASSUME ListRecoveryRequests(o) PROVE \A v \in Cashiers : Counted(v)'
    <2>1. Moves(o) /\ op'[o].pc # "create" /\ Expires(Stale)
      BY <1>0, <1>5, ExpireEffect, TypeFacts DEF ListRecoveryRequests, Moves, Idle
    <2> QED BY <1>0, <2>1, ExpiresOlder, QuietCounted
  <1> QED BY <1>2, <1>3, <1>4, <1>5 DEF RecoveryDesk

LEMMA HandlersKeepLimit ==
  ASSUME IInv, IInv', NEW o \in Ops, Step(o) \/ Crash(o), \A u \in Cashiers : Counted(u)
  PROVE  \A u \in Cashiers : Counted(u)'
  <1>0. TypeOK /\ HandlerOK(o)
    BY DEF IInv, HandlersOK
  <1>1. ASSUME Ends(o), Older PROVE \A u \in Cashiers : Counted(u)'
    BY <1>1, QuietCounted DEF Ends
  <1>2. ASSUME request' = request PROVE Older
    BY <1>0, <1>2 DEF TypeOK, Older
  <1>3. ASSUME NEW r \in Requests, NEW st, SetsStatus(r, st) PROVE Older
    BY <1>0, <1>3 DEF TypeOK, SetsStatus, Older
  <1>4. CASE ApproveRequest(o)
    <2>1. op[o].row \in Requests
      BY <1>0, <1>4 DEF HandlerOK, At, ApproveRequest
    <2> QED BY <1>0, <1>1, <1>2, <1>3, <1>4, <2>1, ApproveEffect
  <1>5. CASE RejectRequest(o)
    <2>1. op[o].row \in Requests
      BY <1>0, <1>5 DEF HandlerOK, At, RejectRequest
    <2> QED BY <1>0, <1>1, <1>2, <1>3, <1>5, <2>1, RejectEffect
  <1>6. CASE ClaimRequest(o)
    <2>1. op[o].row \in Requests
      BY <1>0, <1>6 DEF HandlerOK, At, ClaimRequest
    <2>2. Moves(o) /\ op'[o].pc # "create" /\ Older
      BY <1>0, <1>2, <1>6, <2>1, ClaimEffect DEF Ends, RequestsKept
    <2> QED BY <2>2, QuietCounted
  <1>7. CASE CommitReset(o)
    <2>1. op[o].row \in Requests /\ op[o].user \in Cashiers
      BY <1>0, <1>7 DEF HandlerOK, At, CommitReset
    <2> QED BY <1>0, <1>1, <1>3, <1>7, <2>1, CommitEffect
  <1>8. CASE IssueSession(o) \/ RevokeSession(o) \/ Crash(o)
    BY <1>0, <1>1, <1>2, <1>8, IssueEffect, RevokeEffect, CrashEffect DEF RequestsKept
  <1>9. CASE KillSessions(o)
    <2>1. op[o].user \in Cashiers
      BY <1>0, <1>9 DEF HandlerOK, At, KillSessions
    <2> QED BY <1>0, <1>1, <1>2, <1>9, <2>1, KillEffect DEF RequestsKept
  <1> QED BY <1>4, <1>5, <1>6, <1>7, <1>8, <1>9, CountKeepsLimit, CreateKeepsLimit DEF Step

\* An account has at most PerHour - 1 requests of the last hour and one more for
\* each handler: the count and the INSERT are separate.
THEOREM LimitHolds == Spec => []HourlyLimit
  <1>1. Init => HInv
    <2> SUFFICES ASSUME Init, NEW u \in Cashiers PROVE Counted(u)
      BY InitIInv DEF HInv
    <2>1. Recent(u) = {} /\ Filing(u) = {}
      BY RecoveryAssumption DEF Init, NoRequest, Idle, Recent, OfUser, Filing
    <2>2. Cardinality(Recent(u)) = 0 /\ Cardinality(Filing(u)) = 0
      BY <2>1, FS_EmptySet
    <2>3. PerHour \in Nat \ {0} /\ Cardinality(Ops) \in Nat
      BY RecoveryAssumption, FS_CardinalityType
    <2> QED BY <2>2, <2>3 DEF Counted
  <1>2. HInv /\ [Next]_vars => HInv'
    <2> SUFFICES ASSUME HInv, [Next]_vars PROVE HInv'
      OBVIOUS
    <2>1. IInv /\ IInv' /\ \A u \in Cashiers : Counted(u)
      BY NextIInv DEF HInv
    <2>2. ASSUME Older, op' = op PROVE HInv'
      <3> SUFFICES ASSUME NEW u \in Cashiers PROVE Counted(u)'
        BY <2>1 DEF HInv
      <3>1. Recent(u)' \subseteq Recent(u)
        BY <2>1, <2>2, OlderFact DEF IInv
      <3>2. Filing(u)' \subseteq Filing(u)
        BY <2>2 DEF Filing
      <3> QED BY <2>1, <3>1, <3>2, CountedKept
    <2>3. ASSUME request' = request PROVE Older
      BY <2>1, <2>3 DEF IInv, TypeOK, Older
    <2>4. ASSUME NEW r \in Requests, Tick(r) PROVE HInv'
      BY <2>1, <2>2, <2>4, TickEffect DEF IInv, Older
    <2>5. ASSUME NEW u \in Cashiers, Activate(u) PROVE HInv'
      BY <2>2, <2>3, <2>5 DEF Activate
    <2>6. CASE UNCHANGED vars
      BY <2>2, <2>3, <2>6 DEF vars
    <2>7. ASSUME NEW o \in Ops, Step(o) \/ Crash(o) PROVE HInv'
      BY <2>1, <2>7, HandlersKeepLimit DEF HInv
    <2> QED BY <2>1, <2>4, <2>5, <2>6, <2>7, StartsKeepLimit DEF Next, HInv
  <1>3. HInv => HourlyLimit
    <2> SUFFICES ASSUME HInv, NEW u \in Cashiers
                 PROVE  Cardinality({r \in OfUser(u) : request[r].age < 2}) <= PerHour - 1 + Cardinality(Ops)
      BY DEF HourlyLimit
    <2>1. Counted(u)
      BY DEF HInv
    <2>2. Cardinality(Recent(u)) <= PerHour - 1 + Cardinality(Ops)
      BY <2>1, Finite DEF Counted
    <2> QED BY <2>2 DEF Recent
  <1> QED BY <1>1, <1>2, <1>3, PTL DEF Spec

===============================================================================
