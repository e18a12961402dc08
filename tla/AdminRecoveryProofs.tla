------------------------- MODULE AdminRecoveryProofs -------------------------
(***************************************************************************)
(* Proofs about AdminRecovery for any number of sets, codes, grants,       *)
(* passkeys, sessions and handlers, and about RecoveryThrottle for any     *)
(* window, delay and limit.                                                *)
(***************************************************************************)
EXTENDS AdminRecovery, RecoveryThrottle, FiniteSetTheorems, WellFoundedInduction, TLAPS

OpType == [pc : {"idle", "lock", "generate", "createSet", "options", "register", "createPasskey", "consume",
                 "claimed", "counter", "insert", "issued", "redeem", "reset", "login"},
           next : {"idle", "generate", "register", "reset"},
           row : Codes \cup Grants \cup Passkeys \cup {None},
           held : SUBSET (Codes \cup Grants \cup Passkeys \cup Ceremonies),
           seen : Nat, born : Nat]
GrantType == [status : {"none", "live", "lapsed", "spent", "dead"}, born : Nat]
SessionType == [status : {"none", "OPEN", "REVOKED"}, seen : Nat, born : Nat]
PasskeyType == (0..MaxCounter) \cup {-1, -2}

\* The stages in which a transaction has the user row FOR UPDATE.
UnderLock == {"generate", "createSet", "register", "createPasskey", "reset"}

\* What handler o has written and not committed: a code or a passkey on its way
\* to a grant, a grant on its way to a password.  What it has written is still
\* as it found it.
Redeeming(o) == op[o].pc = "reset" \/ (op[o].pc = "lock" /\ op[o].next = "reset")

OpOK(o) ==
  /\ op[o].pc = "lock" => op[o].next \in {"generate", "register", "reset"}
  /\ op[o].pc = "consume" => op[o].row \in Codes
  /\ op[o].pc = "counter" => op[o].row \in Passkeys
  /\ op[o].pc = "redeem" => op[o].row \in Grants
  /\ op[o].pc \in {"insert", "issued"} =>
       /\ op[o].held = {op[o].row}
       /\ \/ op[o].row \in Codes /\ codes[op[o].row] = "live"
          \/ op[o].row \in Passkeys /\ passkey[op[o].row] = op[o].seen
  /\ Redeeming(o) => op[o].held = {op[o].row} /\ op[o].row \in Grants /\ grant[op[o].row].status = "live"
  /\ op[o].pc = "options" => op[o].held \subseteq Ceremonies
  /\ op[o].pc = "createSet" => op[o].held \subseteq Codes
  /\ ~Redeeming(o) /\ op[o].pc \notin {"insert", "issued", "options", "createSet"} => op[o].held = {}
  /\ op[o].pc = "issued" => op[o].born = cut
  /\ op[o].pc \in {"generate", "createSet"} => op[o].next = "generate"
  /\ op[o].pc \in UnderLock <=> userLock = o

OpsOK == \A o \in Ops : OpOK(o)

\* A row is written by one open transaction.
Exclusive(o) == \A q \in Ops \ {o} : op[o].held \cap op[q].held = {}
LocksExclusive == \A o \in Ops : Exclusive(o)

\* FOR UPDATE and key-share locks of the user row exclude each other.
UserRowOK == userLock # None => Sharing = {}

\* What a transaction has found under the user row holds until it ends: the
\* codes it has revoked are all there are, and there is room for its passkey.
FindingsOK(o) ==
  /\ op[o].pc = "createSet" => op[o].held = LiveCodes
  /\ op[o].pc = "createPasskey" => Cardinality(Registered) < MaxPasskeys

FindingsHold == \A o \in Ops : FindingsOK(o)

Generating == {o \in Ops : op[o].next = "generate"}

\* Only the newest set is usable, and later sets are still to come.
SetsOK ==
  /\ sets + Cardinality(Generating) <= MaxSets
  /\ \A c \in Codes : (codes[c] = "live" => c[1] = sets) /\ (c[1] > sets => codes[c] = "none")

\* A passkey that is still to come has bought nothing.
CountersOK ==
  /\ CountersSpentOnce
  /\ \A p \in Passkeys : passkey[p] = -1 => \A n \in 1..MaxCounter : uses[p][n] = 0

PasskeysLimited == Cardinality(Registered) <= MaxPasskeys

IInv == /\ TypeOK /\ OpsOK /\ LocksExclusive /\ UserRowOK /\ FindingsHold
        /\ SetsOK /\ CountersOK /\ PasskeysLimited /\ NothingOutlivesReset

-----------------------------------------------------------------------------
(* Types.                                                                  *)

LEMMA TypeFacts ==
  ASSUME TypeOK
  PROVE  op \in [Ops -> OpType] /\ grant \in [Grants -> GrantType] /\ session \in [Sessions -> SessionType]
  BY DEF TypeOK, OpType, GrantType, SessionType

LEMMA TypeParts ==
  ASSUME active' \in BOOLEAN, userLock' \in Ops \cup {None}, cut' \in Nat, sets' \in 0..MaxSets,
         codes' \in [Codes -> {"none", "live", "used", "revoked"}], issues' \in [Codes -> Nat],
         grant' \in [Grants -> GrantType], resets' \in [Grants -> Nat],
         challenge' \in [1..MaxChallenges -> {"none", "live", "used", "gone"}],
         passkey' \in [Passkeys -> PasskeyType], uses' \in [Passkeys -> [0..MaxCounter -> Nat]],
         ceremony' \in [Ceremonies -> {"none", "live", "used"}],
         session' \in [Sessions -> SessionType], op' \in [Ops -> OpType]
  PROVE  TypeOK'
  BY DEF TypeOK, OpType, GrantType, SessionType, PasskeyType

\* Constants and the limits derived from them.
LEMMA ConstantFacts ==
  /\ None \notin Ops
  /\ Codes \cap (Grants \cup Passkeys) = {} /\ Grants \cap Passkeys = {}
  /\ Ceremonies \cap (Codes \cup Grants \cup Passkeys) = {}
  /\ MaxSets \in Nat /\ MaxPasskeys \in Nat \ {0} /\ MaxCounter \in Nat
  BY AdminAssumption

LEMMA Finite ==
  /\ IsFiniteSet(Generating) /\ Cardinality(Generating) \in Nat
  /\ IsFiniteSet(Generating') /\ Cardinality(Generating') \in Nat
  /\ IsFiniteSet(Registered) /\ Cardinality(Registered) \in Nat
  /\ IsFiniteSet(Registered') /\ Cardinality(Registered') \in Nat
  <1>1. /\ Generating \in SUBSET Ops /\ Generating' \in SUBSET Ops
        /\ Registered \in SUBSET Passkeys /\ Registered' \in SUBSET Passkeys
    BY DEF Generating, Registered
  <1>2. IsFiniteSet(Ops) /\ IsFiniteSet(Passkeys)
    BY AdminAssumption
  <1> HIDE DEF Generating, Registered
  <1> QED BY <1>1, <1>2, FS_Subset, FS_CardinalityType

LEMMA InitIInv == Init => IInv
  <1> SUFFICES ASSUME Init PROVE IInv
    OBVIOUS
  <1>1. TypeOK
    BY AdminAssumption DEF Init, TypeOK, Idle, NoGrant, NoSession
  <1>2. OpsOK /\ LocksExclusive /\ UserRowOK /\ FindingsHold
    BY ConstantFacts
    DEF Init, Idle, OpsOK, OpOK, Redeeming, UnderLock, LocksExclusive, Exclusive, UserRowOK, FindingsHold, FindingsOK
  <1>3. SetsOK
    <2>1. Generating = {} /\ sets = 0
      BY DEF Init, Idle, Generating
    <2>2. Cardinality(Generating) = 0
      BY <2>1, FS_EmptySet
    <2> QED BY <2>1, <2>2, ConstantFacts DEF Init, SetsOK
  <1>4. CountersOK /\ NothingOutlivesReset
    BY DEF Init, CountersOK, CountersSpentOnce, Registered, NothingOutlivesReset, LiveGrants, NoGrant, NoSession
  <1>5. PasskeysLimited
    <2>1. Registered = {}
      BY DEF Init, Registered
    <2>2. Cardinality(Registered) = 0
      BY <2>1, FS_EmptySet
    <2> QED BY <2>2, ConstantFacts DEF PasskeysLimited
  <1> QED BY <1>1, <1>2, <1>3, <1>4, <1>5 DEF IInv

-----------------------------------------------------------------------------
(* Steps that change nothing but the handlers, challenges and ceremonies.  *)

Moves(o) == op' \in [Ops -> OpType] /\ \A q \in Ops \ {o} : op'[q] = op[q]

Kept == UNCHANGED <<cut, codes, sets, issues, grant, resets, passkey, uses, session>>

\* The user's status and the challenges keep their types.
AsideOK ==
  /\ active' \in BOOLEAN
  /\ challenge' \in [1..MaxChallenges -> {"none", "live", "used", "gone"}]
  /\ ceremony' \in [Ceremonies -> {"none", "live", "used"}]

\* The user row stays as it is, is released by o or is taken by o.
LockMoves(o) ==
  \/ userLock' = userLock
  \/ userLock = o /\ userLock' = None
  \/ userLock = None /\ Sharing = {} /\ userLock' = o

\* What others have written stays as they left it.
Respects(o) ==
  \A q \in Ops \ {o} : \A r \in op[q].held :
    /\ r \in Codes => codes'[r] = codes[r]
    /\ r \in Grants => grant'[r].status = grant[r].status
    /\ r \in Passkeys => passkey'[r] = passkey[r]

LEMMA OthersKeep ==
  ASSUME IInv, NEW o \in Ops, Moves(o), LockMoves(o), Respects(o),
         cut' = cut \/ Sharing \subseteq {o}, OpOK(o)', Exclusive(o)'
  PROVE  OpsOK' /\ LocksExclusive'
  <1>1. \A q \in Ops \ {o} : OpOK(q)'
    <2> SUFFICES ASSUME NEW q \in Ops \ {o} PROVE OpOK(q)'
      OBVIOUS
    <2>1. OpOK(q) /\ op'[q] = op[q] /\ (Redeeming(q)' <=> Redeeming(q))
      BY DEF IInv, OpsOK, Moves, Redeeming
    <2>2. userLock' = q <=> userLock = q
      BY ConstantFacts DEF LockMoves
    <2>3. op[q].pc \in {"insert", "issued"} =>
            \/ op[q].row \in Codes /\ codes'[op[q].row] = "live"
            \/ op[q].row \in Passkeys /\ passkey'[op[q].row] = op[q].seen
      BY <2>1 DEF OpOK, Respects
    <2>4. Redeeming(q) => grant'[op[q].row].status = "live"
      BY <2>1 DEF OpOK, Respects
    <2>5. op[q].pc = "issued" => cut' = cut
      BY DEF Sharing
    <2> QED BY <2>1, <2>2, <2>3, <2>4, <2>5 DEF OpOK
  <1>2. \A q \in Ops \ {o} : Exclusive(q)'
    BY DEF IInv, LocksExclusive, Exclusive, Moves
  <1> QED BY <1>1, <1>2 DEF OpsOK, LocksExclusive

LEMMA UserRowKept ==
  ASSUME UserRowOK, NEW o \in Ops, Moves(o), LockMoves(o),
         op'[o].pc # "issued" \/ (userLock' = None)
  PROVE  UserRowOK'
  BY DEF UserRowOK, Moves, LockMoves, Sharing

\* What o leaves alone others have still found: codes and passkeys change under
\* their user row only, or are rows of o's own.
LEMMA FindingsKept ==
  ASSUME IInv, NEW o \in Ops, Moves(o), FindingsOK(o)',
         \/ codes' = codes
         \/ userLock = o
         \/ op[o].held \cap LiveCodes # {},
         Registered' \subseteq Registered \/ userLock = o
  PROVE  FindingsHold'
  <1> SUFFICES ASSUME NEW q \in Ops \ {o} PROVE FindingsOK(q)'
    BY DEF FindingsHold
  <1>1. op'[q] = op[q] /\ FindingsOK(q) /\ OpOK(q) /\ Exclusive(q)
    BY DEF Moves, IInv, FindingsHold, OpsOK, LocksExclusive
  <1>2. ASSUME op[q].pc = "createSet" PROVE op[q].held = LiveCodes'
    <2>1. op[q].held = LiveCodes /\ userLock # o
      BY <1>1, <1>2, ConstantFacts DEF FindingsOK, OpOK, UnderLock
    <2>2. op[o].held \cap LiveCodes = {}
      BY <1>1, <2>1 DEF Exclusive
    <2> QED BY <2>1, <2>2 DEF LiveCodes
  <1>3. ASSUME op[q].pc = "createPasskey" PROVE Cardinality(Registered') < MaxPasskeys
    <2>1. Cardinality(Registered) < MaxPasskeys /\ Registered' \subseteq Registered
      BY <1>1, <1>3, ConstantFacts DEF FindingsOK, OpOK, UnderLock
    <2>2. Cardinality(Registered') <= Cardinality(Registered)
      BY <2>1, Finite, FS_Subset
    <2> QED BY <2>1, <2>2, Finite, ConstantFacts
  <1> QED BY <1>1, <1>2, <1>3 DEF FindingsOK

LEMMA OpStep ==
  ASSUME IInv, NEW o \in Ops, Moves(o), LockMoves(o), Kept, AsideOK, OpOK(o)', Exclusive(o)', FindingsOK(o)',
         op'[o].pc # "issued" \/ (userLock' = None),
         op'[o].next = "generate" => op[o].next = "generate"
  PROVE  IInv'
  <1>1. TypeOK'
    BY TypeFacts, TypeParts DEF IInv, TypeOK, PasskeyType, Moves, LockMoves, Kept, AsideOK
  <1>2. OpsOK' /\ LocksExclusive'
    BY OthersKeep DEF Kept, Respects
  <1>3. UserRowOK'
    BY UserRowKept DEF IInv
  <1>4. SetsOK'
    <2>1. Generating' \subseteq Generating
      BY DEF Generating, Moves
    <2>2. Cardinality(Generating') <= Cardinality(Generating)
      BY <2>1, Finite, FS_Subset
    <2>3. sets \in Nat /\ MaxSets \in Nat /\ sets' = sets /\ codes' = codes
      BY ConstantFacts DEF IInv, TypeOK, Kept
    <2> QED BY <2>2, <2>3, Finite DEF IInv, SetsOK
  <1>5. CountersOK' /\ PasskeysLimited' /\ NothingOutlivesReset'
    BY DEF IInv, Kept, CountersOK, CountersSpentOnce, PasskeysLimited, Registered, NothingOutlivesReset, LiveGrants
  <1>6. FindingsHold'
    BY FindingsKept DEF Kept, Registered
  <1> QED BY <1>1, <1>2, <1>3, <1>4, <1>5, <1>6 DEF IInv

\* A handler that ends gives up the user row if it had it.
Ends(o) ==
  /\ Moves(o)
  /\ op'[o].pc = "idle" /\ op'[o].next = "idle" /\ op'[o].held = {}

LEMMA FinishEffect ==
  ASSUME TypeOK, NEW o \in Ops, Finish(o)
  PROVE  Ends(o)
  BY TypeFacts DEF Finish, Goto, Idle, OpType, Moves, Ends

LEMMA EndOK ==
  ASSUME NEW o \in Ops, Ends(o), userLock' # o
  PROVE  OpOK(o)' /\ Exclusive(o)' /\ FindingsOK(o)' /\ Moves(o)
  BY DEF Ends, OpOK, Redeeming, UnderLock, Exclusive, FindingsOK

\* Ending without having held the user row.
LEMMA EndStep ==
  ASSUME IInv, NEW o \in Ops, Ends(o), Kept, AsideOK, userLock' = userLock,
         op[o].pc \notin UnderLock
  PROVE  IInv'
  <1>1. userLock' # o
    BY DEF IInv, OpsOK, OpOK
  <1> QED BY <1>1, EndOK, OpStep DEF Ends, LockMoves

\* Beginning, or going on without a row: the new stage holds nothing.
LEMMA BareStep ==
  ASSUME IInv, NEW o \in Ops, Moves(o), Kept, AsideOK, userLock' = userLock,
         op[o].pc \notin UnderLock,
         \/ op'[o].pc = "lock" /\ op'[o].next = "register"
         \/ op'[o].pc \in {"claimed", "login"}
         \/ op'[o].pc = "consume" /\ op'[o].row \in Codes
         \/ op'[o].pc = "counter" /\ op'[o].row \in Passkeys
         \/ op'[o].pc = "redeem" /\ op'[o].row \in Grants,
         op'[o].held = {},
         op'[o].next = "generate" => op[o].next = "generate"
  PROVE  IInv'
  <1>1. userLock' # o
    BY DEF IInv, OpsOK, OpOK
  <1>2. OpOK(o)' /\ Exclusive(o)' /\ FindingsOK(o)'
    BY <1>1 DEF OpOK, Redeeming, UnderLock, Exclusive, FindingsOK
  <1> QED BY <1>2, OpStep DEF LockMoves

\* Writing one row that nobody else has written.
LEMMA WriteStep ==
  ASSUME IInv, NEW o \in Ops, Moves(o), Kept, AsideOK, userLock' = userLock,
         op[o].pc \notin UnderLock,
         \/ /\ op'[o].pc = "insert"
            /\ \/ op'[o].row \in Codes /\ codes[op'[o].row] = "live"
               \/ op'[o].row \in Passkeys /\ passkey[op'[o].row] = op'[o].seen
         \/ op'[o].pc = "lock" /\ op'[o].next = "reset" /\ op'[o].row \in Grants /\ grant[op'[o].row].status = "live",
         op'[o].held = {op'[o].row}, ~Busy(op'[o].row, o),
         op'[o].next = "generate" => op[o].next = "generate"
  PROVE  IInv'
  <1>1. userLock' # o
    BY DEF IInv, OpsOK, OpOK
  <1>2. OpOK(o)' /\ FindingsOK(o)'
    BY <1>1 DEF OpOK, Redeeming, UnderLock, Kept, FindingsOK
  <1>3. Exclusive(o)'
    BY DEF Exclusive, Busy, Moves
  <1> QED BY <1>2, <1>3, OpStep DEF LockMoves

LEMMA BeginEffect ==
  ASSUME TypeOK, NEW o \in Ops, NEW new \in OpType, op[o] = Idle, op' = [op EXCEPT ![o] = new]
  PROVE  Moves(o) /\ op'[o] = new /\ op[o].pc = "idle"
  <1>1. op[o].pc = "idle"
    BY DEF Idle
  <1> QED BY <1>1, TypeFacts DEF Moves

LEMMA StartSteps ==
  ASSUME IInv, NEW o \in Ops
  PROVE  /\ \A c \in Codes : VerifyRecoveryCode(o, c) => IInv'
         /\ \A h \in 1..MaxChallenges : VerifyPasskeyRecovery(o, h) => IInv'
         /\ \A g \in Grants : ResetPasswordWithGrant(o, g) => IInv'
         /\ AdminLogin(o) => IInv'
         /\ \A h \in Ceremonies : CompleteRegistration(o, h) => IInv'
  <1>0. TypeOK
    BY DEF IInv
  <1> USE DEF Begin, Goto, Moves, Kept, creds
  <1>1. ASSUME NEW c \in Codes, VerifyRecoveryCode(o, c) PROVE IInv'
    <2>0. op[o] = Idle /\ op' = [op EXCEPT ![o] = [Idle EXCEPT !.pc = "consume", !.row = c]] /\ Kept /\ userLock' = userLock
      BY <1>1 DEF VerifyRecoveryCode
    <2>1. /\ op[o].pc = "idle" /\ Moves(o)
          /\ op'[o].pc = "consume" /\ op'[o].row = c /\ op'[o].held = {} /\ op'[o].next = "idle"
      <3>1. PICK new : new = [Idle EXCEPT !.pc = "consume", !.row = c]
        OBVIOUS
      <3>2. new \in OpType /\ new.pc = "consume" /\ new.row = c /\ new.held = {} /\ new.next = "idle"
        BY <3>1 DEF Idle, OpType
      <3> QED BY <1>0, <2>0, <3>1, <3>2, BeginEffect
    <2>2. AsideOK
      BY <1>0, <1>1 DEF VerifyRecoveryCode, AsideOK, TypeOK
    <2> QED BY <2>0, <2>1, <2>2, BareStep DEF UnderLock
  <1>2. ASSUME NEW h \in 1..MaxChallenges, VerifyPasskeyRecovery(o, h) PROVE IInv'
    <2>1. /\ op[o].pc = "idle" /\ Moves(o) /\ Kept /\ userLock' = userLock
          /\ op'[o].pc = "claimed" /\ op'[o].held = {} /\ op'[o].next = "idle"
      BY <1>0, <1>2, TypeFacts DEF VerifyPasskeyRecovery, Idle, OpType
    <2>2. AsideOK
      BY <1>0, <1>2 DEF VerifyPasskeyRecovery, AsideOK, TypeOK
    <2> QED BY <2>1, <2>2, BareStep DEF UnderLock
  <1>3. ASSUME NEW g \in Grants, ResetPasswordWithGrant(o, g) PROVE IInv'
    <2>0. op[o] = Idle /\ op' = [op EXCEPT ![o] = [Idle EXCEPT !.pc = "redeem", !.row = g]] /\ Kept /\ userLock' = userLock
      BY <1>3 DEF ResetPasswordWithGrant
    <2>1. /\ op[o].pc = "idle" /\ Moves(o)
          /\ op'[o].pc = "redeem" /\ op'[o].row = g /\ op'[o].held = {} /\ op'[o].next = "idle"
      <3>1. PICK new : new = [Idle EXCEPT !.pc = "redeem", !.row = g]
        OBVIOUS
      <3>2. new \in OpType /\ new.pc = "redeem" /\ new.row = g /\ new.held = {} /\ new.next = "idle"
        BY <3>1 DEF Idle, OpType
      <3> QED BY <1>0, <2>0, <3>1, <3>2, BeginEffect
    <2>2. AsideOK
      BY <1>0, <1>3 DEF ResetPasswordWithGrant, AsideOK, TypeOK
    <2> QED BY <2>0, <2>1, <2>2, BareStep DEF UnderLock
  <1>4. ASSUME AdminLogin(o) PROVE IInv'
    <2>0. op[o] = Idle /\ op' = [op EXCEPT ![o] = [Idle EXCEPT !.pc = "login", !.seen = cut]] /\ Kept /\ userLock' = userLock
      BY <1>4 DEF AdminLogin
    <2>1. cut \in Nat
      BY <1>0 DEF TypeOK
    <2>2. /\ op[o].pc = "idle" /\ Moves(o)
          /\ op'[o].pc = "login" /\ op'[o].held = {} /\ op'[o].next = "idle"
      <3>1. PICK new : new = [Idle EXCEPT !.pc = "login", !.seen = cut]
        OBVIOUS
      <3>2. new \in OpType /\ new.pc = "login" /\ new.held = {} /\ new.next = "idle"
        BY <2>1, <3>1 DEF Idle, OpType
      <3> QED BY <1>0, <2>0, <3>1, <3>2, BeginEffect
    <2>3. AsideOK
      BY <1>0, <1>4 DEF AdminLogin, AsideOK, TypeOK
    <2> QED BY <2>0, <2>2, <2>3, BareStep DEF UnderLock
  <1>5. ASSUME NEW h \in Ceremonies, CompleteRegistration(o, h) PROVE IInv'
    <2>1. AsideOK
      BY <1>0, <1>5 DEF CompleteRegistration, AsideOK, TypeOK
    <2>2. op[o].pc = "idle" /\ Kept /\ userLock' = userLock
      BY <1>5 DEF CompleteRegistration, Idle
    <2>3. CASE Goto(o, [Idle EXCEPT !.pc = "lock", !.next = "register"])
      <3>1. Moves(o) /\ op'[o].pc = "lock" /\ op'[o].next = "register" /\ op'[o].held = {}
        BY <1>0, <2>3, TypeFacts DEF Idle, OpType
      <3> QED BY <2>1, <2>2, <3>1, BareStep DEF UnderLock
    <2>4. CASE Finish(o)
      BY <1>0, <2>1, <2>2, <2>4, FinishEffect, EndStep DEF UnderLock
    <2> QED BY <1>5, <2>3, <2>4 DEF CompleteRegistration
  <1> QED BY <1>1, <1>2, <1>3, <1>4, <1>5

LEMMA CeremonySteps ==
  ASSUME IInv, NEW o \in Ops
  PROVE  /\ CreateRegistrationOptions(o) => IInv'
         /\ CreateCeremony(o) => IInv'
         /\ \A h \in 1..MaxChallenges : CreateChallenge(h) => IInv'
  <1>0. TypeOK
    BY DEF IInv
  <1>1. ASSUME CreateRegistrationOptions(o) PROVE IInv'
    <2> DEFINE live == {h \in Ceremonies : ceremony[h] = "live"}
    <2>0. live \in SUBSET (Codes \cup Grants \cup Passkeys \cup Ceremonies) /\ live \subseteq Ceremonies
      OBVIOUS
    <2>b. op[o] = Idle /\ op' = [op EXCEPT ![o] = [Idle EXCEPT !.pc = "options", !.held = live]] /\ Kept /\ userLock' = userLock
      BY <1>1 DEF CreateRegistrationOptions, Begin, Goto, Kept, creds
    <2> HIDE DEF live
    <2>1. /\ op[o].pc = "idle" /\ Moves(o) /\ Kept /\ userLock' = userLock
          /\ op'[o].pc = "options" /\ op'[o].held = live /\ op'[o].next = "idle"
      <3>1. PICK new : new = [Idle EXCEPT !.pc = "options", !.held = live]
        OBVIOUS
      <3>2. new \in OpType /\ new.pc = "options" /\ new.held = live /\ new.next = "idle"
        BY <2>0, <3>1 DEF Idle, OpType
      <3> QED BY <1>0, <2>b, <3>1, <3>2, BeginEffect
    <2> USE DEF live
    <2>a. AsideOK
      BY <1>0, <1>1 DEF CreateRegistrationOptions, AsideOK, TypeOK, creds
    <2>2. OpOK(o)' /\ FindingsOK(o)'
      <3>1. userLock' # o
        BY <2>1 DEF IInv, OpsOK, OpOK, UnderLock
      <3> QED BY <2>0, <2>1, <3>1 DEF OpOK, Redeeming, UnderLock, FindingsOK
    <2>3. Exclusive(o)'
      BY <1>1, <2>1 DEF CreateRegistrationOptions, Exclusive, Busy, Moves
    <2> QED BY <2>1, <2>a, <2>2, <2>3, OpStep DEF LockMoves
  <1>2. ASSUME CreateCeremony(o) PROVE IInv'
    <2>1. AsideOK
      <3>1. PICK n \in Ceremonies :
              ceremony' = [h \in Ceremonies |-> IF h = n THEN "live" ELSE IF h \in op[o].held THEN "used" ELSE ceremony[h]]
        BY <1>2 DEF CreateCeremony
      <3>2. ceremony' \in [Ceremonies -> {"none", "live", "used"}]
        BY <1>0, <3>1 DEF TypeOK
      <3> QED BY <1>0, <1>2, <3>2 DEF CreateCeremony, AsideOK, TypeOK
    <2>2. op[o].pc = "options" /\ Ends(o) /\ Kept /\ userLock' = userLock
      BY <1>0, <1>2, FinishEffect DEF CreateCeremony, At, Kept
    <2> QED BY <2>1, <2>2, EndStep DEF UnderLock
  <1>3. ASSUME NEW n \in 1..MaxChallenges, CreateChallenge(n) PROVE IInv'
    <2>1. challenge' \in [1..MaxChallenges -> {"none", "live", "used", "gone"}]
      BY <1>0, <1>3 DEF CreateChallenge, TypeOK
    <2>2. AsideOK /\ Kept /\ op' = op /\ userLock' = userLock
      BY <1>0, <1>3, <2>1 DEF CreateChallenge, AsideOK, Kept, TypeOK
    <2>3. Moves(o) /\ OpOK(o)' /\ Exclusive(o)' /\ FindingsOK(o)'
      <3>1. OpOK(o) /\ Exclusive(o) /\ FindingsOK(o) /\ op \in [Ops -> OpType]
        BY <1>0, TypeFacts DEF IInv, OpsOK, LocksExclusive, FindingsHold
      <3> QED BY <2>2, <3>1
          DEF Moves, OpOK, Redeeming, Exclusive, Kept, FindingsOK, LiveCodes, Registered
    <2>4. op[o].pc # "issued" \/ userLock' = None
      BY <2>2 DEF IInv, UserRowOK, Sharing
    <2> QED BY <2>2, <2>3, <2>4, OpStep DEF LockMoves
  <1> QED BY <1>1, <1>2, <1>3

\* From a code or a passkey to the INSERT of a grant.
LEMMA GrantSteps ==
  ASSUME IInv, NEW o \in Ops
  PROVE  /\ ConsumeRecoveryCode(o) => IInv'
         /\ ReadPasskey(o) => IInv'
         /\ AdvanceCounter(o) => IInv'
         /\ IssueRecoveryGrant(o) => IInv'
         /\ ConsumeRecoveryGrant(o) => IInv'
  <1>0. TypeOK /\ OpOK(o) /\ op[o] \in OpType
    BY TypeFacts DEF IInv, OpsOK
  <1> USE DEF At
  <1>1. ASSUME ConsumeRecoveryCode(o) PROVE IInv'
    <2>1. /\ op[o].pc = "consume" /\ op[o].row \in Codes /\ Kept /\ AsideOK /\ userLock' = userLock
          /\ ~Busy(op[o].row, o)
      BY <1>0, <1>1 DEF ConsumeRecoveryCode, OpOK, Kept, AsideOK, TypeOK, creds
    <2>2. CASE codes[op[o].row] = "live"
      <3>0. /\ Goto(o, [op[o] EXCEPT !.pc = "insert", !.held = {op[o].row}])
            /\ {op[o].row} \in SUBSET (Codes \cup Grants \cup Passkeys \cup Ceremonies)
        BY <1>1, <2>1, <2>2 DEF ConsumeRecoveryCode
      <3>1. Moves(o) /\ op'[o].pc = "insert" /\ op'[o].row = op[o].row /\ op'[o].held = {op[o].row} /\ op'[o].next = op[o].next
        BY <1>0, <2>1, <3>0, TypeFacts DEF Goto, Moves, OpType
      <3> QED BY <2>1, <2>2, <3>1, WriteStep DEF UnderLock
    <2>3. CASE codes[op[o].row] # "live"
      BY <1>0, <1>1, <2>1, <2>3, FinishEffect, EndStep DEF ConsumeRecoveryCode, UnderLock
    <2> QED BY <2>2, <2>3
  <1>2. ASSUME ReadPasskey(o) PROVE IInv'
    <2>1. op[o].pc = "claimed" /\ op[o].held = {} /\ Kept /\ AsideOK /\ userLock' = userLock
      BY <1>0, <1>2 DEF ReadPasskey, OpOK, Redeeming, Kept, AsideOK, TypeOK, creds
    <2>2. ASSUME NEW p \in Registered, Goto(o, [op[o] EXCEPT !.pc = "counter", !.row = p, !.seen = passkey[p]])
          PROVE  IInv'
      <3>1. p \in Passkeys /\ passkey[p] \in Nat
        <4>1. p \in Passkeys /\ passkey[p] >= 0 /\ passkey[p] \in PasskeyType
          BY <1>0 DEF Registered, TypeOK, PasskeyType
        <4> QED BY <4>1, ConstantFacts DEF PasskeyType
      <3>2. Moves(o) /\ op'[o].pc = "counter" /\ op'[o].row = p /\ op'[o].held = {} /\ op'[o].next = op[o].next
        BY <1>0, <2>1, <2>2, <3>1, TypeFacts DEF Goto, Moves, OpType
      <3> QED BY <2>1, <3>1, <3>2, BareStep DEF UnderLock
    <2>3. CASE Finish(o)
      BY <1>0, <2>1, <2>3, FinishEffect, EndStep DEF UnderLock
    <2> QED BY <1>2, <2>2, <2>3 DEF ReadPasskey
  <1>3. ASSUME AdvanceCounter(o) PROVE IInv'
    <2>1. /\ op[o].pc = "counter" /\ op[o].row \in Passkeys /\ Kept /\ AsideOK /\ userLock' = userLock
          /\ ~Busy(op[o].row, o)
      BY <1>0, <1>3 DEF AdvanceCounter, OpOK, Kept, AsideOK, TypeOK, creds
    <2>2. CASE passkey[op[o].row] = op[o].seen
      <3>0. /\ Goto(o, [op[o] EXCEPT !.pc = "insert", !.held = {op[o].row}])
            /\ {op[o].row} \in SUBSET (Codes \cup Grants \cup Passkeys \cup Ceremonies)
        BY <1>3, <2>1, <2>2 DEF AdvanceCounter
      <3>1. /\ Moves(o) /\ op'[o].pc = "insert" /\ op'[o].row = op[o].row /\ op'[o].held = {op[o].row}
            /\ op'[o].next = op[o].next /\ op'[o].seen = op[o].seen
        BY <1>0, <2>1, <3>0, TypeFacts DEF Goto, Moves, OpType
      <3> QED BY <2>1, <2>2, <3>1, WriteStep DEF UnderLock
    <2>3. CASE passkey[op[o].row] # op[o].seen
      BY <1>0, <1>3, <2>1, <2>3, FinishEffect, EndStep DEF AdvanceCounter, UnderLock
    <2> QED BY <2>2, <2>3
  <1>4. ASSUME IssueRecoveryGrant(o) PROVE IInv'
    <2>1. op[o].pc = "insert" /\ Kept /\ AsideOK /\ userLock' = userLock /\ userLock = None /\ cut \in Nat
      BY <1>0, <1>4 DEF IssueRecoveryGrant, KeyShareFree, Kept, AsideOK, TypeOK, creds
    <2>2. /\ Moves(o) /\ op'[o].pc = "issued" /\ op'[o].row = op[o].row /\ op'[o].held = op[o].held
          /\ op'[o].next = op[o].next /\ op'[o].seen = op[o].seen /\ op'[o].born = cut
      BY <1>0, <1>4, <2>1, TypeFacts DEF IssueRecoveryGrant, Goto, Moves, OpType
    <2>3. OpOK(o)' /\ FindingsOK(o)'
      BY <1>0, <2>1, <2>2, ConstantFacts DEF OpOK, Redeeming, UnderLock, Kept, FindingsOK
    <2>4. Exclusive(o)'
      BY <2>2 DEF IInv, LocksExclusive, Exclusive, Moves
    <2> QED BY <2>1, <2>2, <2>3, <2>4, OpStep DEF LockMoves
  <1>5. ASSUME ConsumeRecoveryGrant(o) PROVE IInv'
    <2>1. /\ op[o].pc = "redeem" /\ op[o].row \in Grants /\ Kept /\ AsideOK /\ userLock' = userLock
          /\ ~Busy(op[o].row, o)
      BY <1>0, <1>5 DEF ConsumeRecoveryGrant, OpOK, Kept, AsideOK, TypeOK, creds
    <2>2. CASE grant[op[o].row].status = "live"
      <3>0. /\ Goto(o, [op[o] EXCEPT !.pc = "lock", !.next = "reset", !.held = {op[o].row}])
            /\ {op[o].row} \in SUBSET (Codes \cup Grants \cup Passkeys \cup Ceremonies)
        BY <1>5, <2>1, <2>2 DEF ConsumeRecoveryGrant
      <3>1. /\ Moves(o) /\ op'[o].pc = "lock" /\ op'[o].next = "reset" /\ op'[o].row = op[o].row
            /\ op'[o].held = {op[o].row}
        BY <1>0, <2>1, <3>0, TypeFacts DEF Goto, Moves, OpType
      <3> QED BY <2>1, <2>2, <3>1, WriteStep DEF UnderLock
    <2>3. CASE grant[op[o].row].status # "live"
      BY <1>0, <1>5, <2>1, <2>3, FinishEffect, EndStep DEF ConsumeRecoveryGrant, UnderLock
    <2> QED BY <2>2, <2>3
  <1> QED BY <1>1, <1>2, <1>3, <1>4, <1>5

LEMMA ReleaseFact ==
  ASSUME NEW o \in Ops, Release(o)
  PROVE  LockMoves(o) /\ userLock' # o
  BY ConstantFacts DEF Release, LockMoves

\* Taking and giving back the user row.
LEMMA UserRowSteps ==
  ASSUME IInv, NEW o \in Ops
  PROVE  /\ LockUser(o) => IInv'
         /\ Abort(o) => IInv'
         /\ Generate(o) => IInv'
  <1>0. TypeOK /\ OpOK(o) /\ op[o] \in OpType
    BY TypeFacts DEF IInv, OpsOK
  <1>1. ASSUME LockUser(o) PROVE IInv'
    <2>1. /\ op[o].pc = "lock" /\ op[o].next \in {"generate", "register", "reset"} /\ Kept /\ AsideOK
          /\ userLock = None /\ Sharing = {}
      BY <1>0, <1>1 DEF LockUser, OpOK, At, Kept, AsideOK, TypeOK, creds, Sharing
    <2>2. CASE active
      <3>1. /\ Moves(o) /\ op'[o].pc = op[o].next /\ op'[o].row = op[o].row /\ op'[o].held = op[o].held
            /\ op'[o].next = op[o].next /\ userLock' = o
        BY <1>0, <1>1, <2>1, <2>2, TypeFacts DEF LockUser, Goto, Moves, OpType
      <3>2. OpOK(o)' /\ FindingsOK(o)'
        BY <1>0, <2>1, <3>1 DEF OpOK, Redeeming, UnderLock, Kept, FindingsOK
      <3>3. Exclusive(o)'
        BY <3>1 DEF IInv, LocksExclusive, Exclusive, Moves
      <3> QED BY <2>1, <3>1, <3>2, <3>3, OpStep DEF LockMoves
    <2>3. CASE ~active
      BY <1>0, <1>1, <2>1, <2>3, FinishEffect, EndStep DEF LockUser, UnderLock
    <2> QED BY <2>2, <2>3
  <1>2. ASSUME Abort(o) PROVE IInv'
    <2>1. Ends(o) /\ Kept /\ AsideOK
      BY <1>0, <1>2, FinishEffect DEF Abort, Kept, AsideOK, TypeOK, creds
    <2>2. LockMoves(o) /\ userLock' # o
      BY <1>2, ReleaseFact DEF Abort
    <2> QED BY <2>1, <2>2, EndOK, OpStep DEF Ends
  <1>3. ASSUME Generate(o) PROVE IInv'
    <2>0. AsideOK /\ sets + Cardinality(Generating) < MaxSets
      BY <1>0, <1>3 DEF Generate, Generating, creds, AsideOK, TypeOK
    <2>a. op[o] = Idle /\ op' = [op EXCEPT ![o] = [Idle EXCEPT !.pc = "lock", !.next = "generate"]] /\ Kept /\ userLock' = userLock
      BY <1>3 DEF Generate, Begin, Goto, Kept, creds
    <2>1. /\ op[o].pc = "idle" /\ Moves(o) /\ Kept /\ userLock' = userLock
          /\ op'[o].pc = "lock" /\ op'[o].next = "generate" /\ op'[o].held = {}
      <3>1. PICK new : new = [Idle EXCEPT !.pc = "lock", !.next = "generate"]
        OBVIOUS
      <3>2. new \in OpType /\ new.pc = "lock" /\ new.held = {} /\ new.next = "generate"
        BY <3>1 DEF Idle, OpType
      <3> QED BY <1>0, <2>a, <3>1, <3>2, BeginEffect
    <2>2. TypeOK'
      BY <1>0, <2>0, <2>1, TypeFacts, TypeParts DEF TypeOK, PasskeyType, Moves, Kept, AsideOK
    <2>3. userLock' # o
      BY <1>0, <2>1 DEF OpOK, UnderLock
    <2>4. OpOK(o)' /\ Exclusive(o)' /\ FindingsOK(o)'
      BY <2>1, <2>3 DEF OpOK, Redeeming, UnderLock, Exclusive, FindingsOK
    <2>5. OpsOK' /\ LocksExclusive' /\ UserRowOK'
      BY <2>1, <2>4, OthersKeep, UserRowKept DEF IInv, Kept, Respects, LockMoves
    <2>8. FindingsHold'
      BY <2>1, <2>4, FindingsKept DEF Kept, Registered
    <2>6. SetsOK'
      <3>1. Generating' = Generating \cup {o}
        BY <2>1 DEF Generating, Moves
      <3>2. Cardinality(Generating') <= Cardinality(Generating) + 1
        BY <3>1, Finite, FS_AddElement
      <3>3. sets \in Nat /\ MaxSets \in Nat /\ sets' = sets /\ codes' = codes
        BY <1>0, <2>1, ConstantFacts DEF TypeOK, Kept
      <3> QED BY <2>0, <3>2, <3>3, Finite DEF IInv, SetsOK
    <2>7. CountersOK' /\ PasskeysLimited' /\ NothingOutlivesReset'
      BY <2>1 DEF IInv, Kept, CountersOK, CountersSpentOnce, PasskeysLimited, Registered, NothingOutlivesReset, LiveGrants
    <2> QED BY <2>2, <2>5, <2>6, <2>7, <2>8 DEF IInv
  <1> QED BY <1>1, <1>2, <1>3

\* Reading under the user row: the live codes, and the number of passkeys.
LEMMA FindingSteps ==
  ASSUME IInv, NEW o \in Ops
  PROVE  /\ RevokeLiveCodes(o) => IInv'
         /\ CountPasskeys(o) => IInv'
  <1>0. TypeOK /\ OpOK(o) /\ op[o] \in OpType
    BY TypeFacts DEF IInv, OpsOK
  <1>1. ASSUME RevokeLiveCodes(o) PROVE IInv'
    <2> DEFINE live == LiveCodes
    <2>0. live \in SUBSET (Codes \cup Grants \cup Passkeys \cup Ceremonies) /\ live \subseteq Codes
      BY DEF LiveCodes
    <2>1. /\ op[o].pc = "generate" /\ op[o].next = "generate" /\ userLock = o /\ userLock' = userLock
          /\ op' = [op EXCEPT ![o] = [op[o] EXCEPT !.pc = "createSet", !.held = live]]
          /\ Kept /\ AsideOK
      BY <1>0, <1>1 DEF RevokeLiveCodes, OpOK, UnderLock, At, Goto, Kept, AsideOK, TypeOK, creds
    <2>2. \A row \in live : ~Busy(row, o)
      BY <1>1, <2>1 DEF RevokeLiveCodes, CanWrite, RowsToWrite, At
    <2>3. live' = live
      BY <2>1 DEF LiveCodes, Kept
    <2>a. LiveCodes = live
      OBVIOUS
    <2> HIDE DEF live
    <2>4. Moves(o) /\ op'[o].pc = "createSet" /\ op'[o].held = live /\ op'[o].next = "generate"
      <3>1. PICK new : new = [op[o] EXCEPT !.pc = "createSet", !.held = live]
        OBVIOUS
      <3>2. new \in OpType /\ new.pc = "createSet" /\ new.held = live /\ new.next = "generate"
        BY <1>0, <2>0, <2>1, <3>1 DEF OpType
      <3> QED BY <1>0, <2>1, <3>1, <3>2, TypeFacts DEF Moves
    <2>5. OpOK(o)'
      BY <2>0, <2>1, <2>4 DEF OpOK, Redeeming, UnderLock
    <2>6. Exclusive(o)'
      BY <2>2, <2>4 DEF Exclusive, Busy, Moves
    <2>7. FindingsOK(o)'
      BY <2>3, <2>4, <2>a DEF FindingsOK, live
    <2> QED BY <2>1, <2>4, <2>5, <2>6, <2>7, OpStep DEF LockMoves
  <1>2. ASSUME CountPasskeys(o) PROVE IInv'
    <2>1. /\ op[o].pc = "register" /\ op[o].held = {} /\ userLock = o
          /\ Kept /\ AsideOK
      BY <1>0, <1>2 DEF CountPasskeys, OpOK, Redeeming, UnderLock, At, Kept, AsideOK, TypeOK, creds
    <2>2. CASE Cardinality(Registered) < MaxPasskeys
      <3>1. /\ Moves(o) /\ userLock' = userLock /\ op'[o].pc = "createPasskey"
            /\ op'[o].held = {} /\ op'[o].next = op[o].next
        BY <1>0, <1>2, <2>1, <2>2, TypeFacts DEF CountPasskeys, Goto, Moves, OpType
      <3>2. OpOK(o)' /\ Exclusive(o)'
        BY <2>1, <3>1 DEF OpOK, Redeeming, UnderLock, Exclusive
      <3>3. FindingsOK(o)'
        BY <2>1, <2>2, <3>1 DEF FindingsOK, Kept, Registered
      <3> QED BY <2>1, <3>1, <3>2, <3>3, OpStep DEF LockMoves
    <2>3. CASE ~(Cardinality(Registered) < MaxPasskeys)
      <3>1. Ends(o) /\ LockMoves(o) /\ userLock' # o
        BY <1>0, <1>2, <2>3, FinishEffect, ReleaseFact DEF CountPasskeys
      <3> QED BY <2>1, <3>1, EndOK, OpStep DEF Ends
    <2> QED BY <2>2, <2>3
  <1> QED BY <1>1, <1>2

-----------------------------------------------------------------------------
(* Steps that change the account's rows.                                   *)

\* A written code is live, a written grant is on its way to a reset.
LEMMA HeldRows ==
  ASSUME IInv, NEW q \in Ops, NEW r \in op[q].held
  PROVE  /\ r \in Codes => /\ codes[r] = "live"
                           /\ op[q].pc = "createSet" \/ (r = op[q].row /\ op[q].pc \in {"insert", "issued"})
         /\ r \in Passkeys => r = op[q].row /\ op[q].pc \in {"insert", "issued"}
         /\ r \in Grants => grant[r].status = "live" /\ Redeeming(q)
  <1>1. OpOK(q) /\ FindingsOK(q)
    BY DEF IInv, OpsOK, FindingsHold
  <1>2. CASE Redeeming(q)
    BY <1>1, <1>2, ConstantFacts DEF OpOK
  <1>3. CASE op[q].pc \in {"insert", "issued"}
    BY <1>1, <1>3, ConstantFacts DEF OpOK
  <1>4. CASE op[q].pc = "options"
    BY <1>1, <1>4, ConstantFacts DEF OpOK
  <1>5. CASE op[q].pc = "createSet"
    BY <1>1, <1>5, ConstantFacts DEF OpOK, FindingsOK, LiveCodes
  <1>6. CASE ~Redeeming(q) /\ op[q].pc \notin {"insert", "issued", "options", "createSet"}
    BY <1>1, <1>6 DEF OpOK
  <1> QED BY <1>2, <1>3, <1>4, <1>5, <1>6

\* The parts of the invariant about handlers, when o commits and ends.
LEMMA CommitKeeps ==
  ASSUME IInv, NEW o \in Ops, Ends(o), LockMoves(o), userLock' # o, Respects(o),
         cut' = cut \/ Sharing \subseteq {o},
         \/ codes' = codes
         \/ userLock = o
         \/ op[o].held \cap LiveCodes # {},
         Registered' \subseteq Registered \/ userLock = o
  PROVE  /\ OpsOK' /\ LocksExclusive' /\ UserRowOK' /\ FindingsHold'
         /\ Cardinality(Generating') <= Cardinality(Generating)
  <1>1. OpsOK' /\ LocksExclusive'
    BY EndOK, OthersKeep
  <1>2. UserRowOK'
    BY UserRowKept DEF IInv, Ends
  <1>3. Generating' \subseteq Generating
    BY DEF Generating, Ends, Moves
  <1>4. Cardinality(Generating') <= Cardinality(Generating)
    BY <1>3, Finite, FS_Subset
  <1>5. FindingsHold'
    BY EndOK, FindingsKept
  <1> QED BY <1>1, <1>2, <1>4, <1>5

LEMMA GenerateSetStep ==
  ASSUME IInv, NEW o \in Ops, GenerateRecoveryCodeSet(o)
  PROVE  IInv'
  <1>0. TypeOK /\ OpOK(o) /\ SetsOK /\ FindingsOK(o)
    BY DEF IInv, OpsOK, FindingsHold
  <1>1. /\ op[o].pc = "createSet" /\ op[o].next = "generate" /\ op[o].held = LiveCodes /\ userLock = o
        /\ sets' = sets + 1 /\ Ends(o) /\ LockMoves(o) /\ userLock' # o
        /\ UNCHANGED <<active, cut, issues, challenge, passkey, uses, ceremony, grant, resets, session>>
    BY <1>0, FinishEffect, ReleaseFact DEF GenerateRecoveryCodeSet, At, OpOK, UnderLock, FindingsOK
  <1>a. codes' = [c \in Codes |-> IF c[1] = sets + 1 THEN "live" ELSE IF codes[c] = "live" THEN "revoked" ELSE codes[c]]
    BY <1>1 DEF GenerateRecoveryCodeSet, LiveCodes
  <1>2. o \in Generating
    BY <1>1 DEF Generating
  <1>3. Cardinality(Generating') <= Cardinality(Generating) - 1
    <2>1. Generating' \subseteq Generating \ {o}
      BY <1>1 DEF Generating, Ends, Moves
    <2>2. IsFiniteSet(Generating \ {o}) /\ Cardinality(Generating \ {o}) = Cardinality(Generating) - 1
      BY <1>2, Finite, FS_RemoveElement
    <2> QED BY <2>1, <2>2, FS_Subset
  <1>4. sets \in Nat /\ sets + 1 \in 0..MaxSets
    <2>1. sets \in Nat /\ MaxSets \in Nat /\ Cardinality(Generating') \in Nat /\ Cardinality(Generating) \in Nat
      BY <1>0, ConstantFacts, Finite DEF TypeOK
    <2>2. sets + Cardinality(Generating) <= MaxSets
      BY <1>0 DEF SetsOK
    <2> QED BY <1>3, <2>1, <2>2
  <1>5. codes' \in [Codes -> {"none", "live", "used", "revoked"}]
    BY <1>0, <1>a DEF TypeOK
  <1>6. TypeOK'
    BY <1>0, <1>1, <1>4, <1>5, TypeFacts, TypeParts DEF TypeOK, PasskeyType, Ends, Moves, LockMoves
  <1>7. Respects(o)
    <2>1. \A q \in Ops \ {o} : \A r \in op[q].held : r \notin Codes
      BY <1>1, HeldRows DEF LiveCodes, IInv, LocksExclusive, Exclusive
    <2> QED BY <1>1, <2>1 DEF Respects
  <1>8. SetsOK'
    <2>1. \A c \in Codes : c[1] \in Nat
      BY DEF Codes
    <2>2. \A c \in Codes : (codes'[c] = "live" => c[1] = sets + 1) /\ (c[1] > sets + 1 => codes'[c] = "none")
      BY <1>0, <1>a, <1>4, <2>1 DEF SetsOK
    <2>3. sets + 1 + Cardinality(Generating') <= MaxSets
      BY <1>0, <1>3, <1>4, Finite, ConstantFacts DEF SetsOK
    <2> QED BY <1>1, <2>2, <2>3 DEF SetsOK
  <1>9. CountersOK' /\ PasskeysLimited' /\ NothingOutlivesReset'
    BY <1>1 DEF IInv, CountersOK, CountersSpentOnce, PasskeysLimited, Registered, NothingOutlivesReset, LiveGrants
  <1> QED BY <1>1, <1>6, <1>7, <1>8, <1>9, CommitKeeps DEF IInv

\* SetsOK does not depend on anything else.
LEMMA SetsKept ==
  ASSUME SetsOK, TypeOK, sets' = sets, Cardinality(Generating') <= Cardinality(Generating),
         \A c \in Codes : codes'[c] = codes[c] \/ (codes[c] = "live" /\ codes'[c] = "used")
  PROVE  SetsOK'
  <1>1. sets \in Nat /\ MaxSets \in Nat
    BY ConstantFacts DEF TypeOK
  <1>2. \A c \in Codes : c[1] \in Nat
    BY DEF Codes
  <1> QED BY <1>1, <1>2, Finite DEF SetsOK

LEMMA RegisterStep ==
  ASSUME IInv, NEW o \in Ops, RegisterPasskey(o)
  PROVE  IInv'
  <1>0. TypeOK /\ OpOK(o) /\ SetsOK /\ FindingsOK(o)
    BY DEF IInv, OpsOK, FindingsHold
  <1>1. /\ op[o].pc = "createPasskey" /\ Ends(o) /\ LockMoves(o) /\ userLock' # o /\ userLock = o
        /\ Cardinality(Registered) < MaxPasskeys
        /\ UNCHANGED <<active, cut, codes, sets, issues, challenge, uses, ceremony, grant, resets, session>>
    BY <1>0, FinishEffect, ReleaseFact DEF RegisterPasskey, At, OpOK, UnderLock, FindingsOK
  <1>2. CASE passkey' = passkey
    <2>1. TypeOK'
      BY <1>0, <1>1, <1>2, TypeFacts, TypeParts DEF TypeOK, PasskeyType, Ends, Moves, LockMoves
    <2>2. Respects(o)
      BY <1>1, <1>2 DEF Respects
    <2>3. CountersOK' /\ PasskeysLimited' /\ NothingOutlivesReset'
      BY <1>1, <1>2 DEF IInv, CountersOK, CountersSpentOnce, PasskeysLimited, Registered, NothingOutlivesReset, LiveGrants
    <2> QED BY <1>0, <1>1, <2>1, <2>2, <2>3, CommitKeeps, SetsKept DEF IInv
  <1>3. ASSUME NEW p \in Passkeys, NEW n \in 0..MaxCounter, passkey[p] = -1, passkey' = [passkey EXCEPT ![p] = n]
        PROVE  IInv'
    <2>0. passkey' \in [Passkeys -> PasskeyType] /\ passkey'[p] = n /\ \A r \in Passkeys \ {p} : passkey'[r] = passkey[r]
      BY <1>0, <1>3 DEF TypeOK, PasskeyType
    <2>1. TypeOK'
      BY <1>0, <1>1, <2>0, TypeFacts, TypeParts DEF TypeOK, Ends, Moves, LockMoves
    <2>2. Respects(o)
      <3>1. \A q \in Ops \ {o} : p \notin op[q].held
        <4> SUFFICES ASSUME NEW q \in Ops, p \in op[q].held PROVE FALSE
          OBVIOUS
        <4>1. p = op[q].row /\ op[q].pc \in {"insert", "issued"} /\ OpOK(q) /\ op[q].seen \in Nat
          BY <1>0, HeldRows, TypeFacts DEF IInv, OpsOK, OpType
        <4>2. passkey[p] = op[q].seen
          BY <4>1, ConstantFacts DEF OpOK
        <4> QED BY <1>3, <4>1, <4>2
      <3> QED BY <1>1, <2>0, <3>1, ConstantFacts DEF Respects
    <2>3. CountersOK'
      <3>1. uses' = uses /\ \A m \in 1..MaxCounter : uses[p][m] = 0
        BY <1>0, <1>1, <1>3 DEF IInv, CountersOK
      <3>2. \A r \in Passkeys \ {p} : r \in Registered' <=> r \in Registered
        BY <2>0 DEF Registered
      <3>3. n # -1
        OBVIOUS
      <3> QED BY <2>0, <3>1, <3>2, <3>3 DEF IInv, CountersOK, CountersSpentOnce
    <2>4. PasskeysLimited'
      <3>1. Registered' \subseteq Registered \cup {p}
        BY <2>0 DEF Registered
      <3>2. IsFiniteSet(Registered \cup {p}) /\ Cardinality(Registered \cup {p}) <= Cardinality(Registered) + 1
        <4>1. PICK T : T = Registered
          OBVIOUS
        <4>2. IsFiniteSet(T) /\ Cardinality(T) \in Nat
          BY <4>1, Finite
        <4>3. IsFiniteSet(T \cup {p}) /\ Cardinality(T \cup {p}) = IF p \in T THEN Cardinality(T) ELSE Cardinality(T) + 1
          BY <4>2, FS_AddElement
        <4> QED BY <4>1, <4>2, <4>3
      <3>3. Cardinality(Registered') <= Cardinality(Registered \cup {p}) /\ Cardinality(Registered \cup {p}) \in Nat
        BY <3>1, <3>2, FS_Subset, FS_CardinalityType
      <3> QED BY <1>1, <3>2, <3>3, Finite, ConstantFacts DEF PasskeysLimited
    <2>5. NothingOutlivesReset'
      BY <1>1 DEF IInv, NothingOutlivesReset, LiveGrants
    <2> QED BY <1>0, <1>1, <2>1, <2>2, <2>3, <2>4, <2>5, CommitKeeps, SetsKept DEF IInv
  <1> QED BY <1>2, <1>3 DEF RegisterPasskey

\* A step that moves no handler.
LEMMA AsideStep ==
  ASSUME IInv, UNCHANGED <<op, userLock, cut, sets, codes>>, Registered' \subseteq Registered,
         \A q \in Ops : \A r \in op[q].held : /\ r \in Grants => grant'[r].status = grant[r].status
                                              /\ r \in Passkeys => passkey'[r] = passkey[r]
  PROVE  OpsOK' /\ LocksExclusive' /\ UserRowOK' /\ FindingsHold' /\ SetsOK'
  <1>1. ASSUME NEW q \in Ops PROVE OpOK(q)'
    <2>1. OpOK(q)
      BY DEF IInv, OpsOK
    <2> QED BY <2>1 DEF OpOK, Redeeming
  <1>2. LocksExclusive' /\ UserRowOK' /\ SetsOK'
    BY DEF IInv, LocksExclusive, Exclusive, UserRowOK, Sharing, SetsOK, Generating
  <1>3. Cardinality(Registered') <= Cardinality(Registered)
    BY Finite, FS_Subset
  <1>4. FindingsHold'
    <2> SUFFICES ASSUME NEW q \in Ops PROVE FindingsOK(q)'
      BY DEF FindingsHold
    <2>1. FindingsOK(q)
      BY DEF IInv, FindingsHold
    <2>2. op'[q] = op[q] /\ LiveCodes' = LiveCodes
      BY DEF LiveCodes
    <2> QED BY <1>3, <2>1, <2>2, Finite, ConstantFacts DEF FindingsOK
  <1> QED BY <1>1, <1>2, <1>4 DEF OpsOK

LEMMA RemoveStep ==
  ASSUME IInv, NEW o \in Ops, NEW p \in Passkeys, RemovePasskey(o, p)
  PROVE  IInv'
  <1>0. TypeOK
    BY DEF IInv
  <1>1. /\ op[o] = Idle /\ p \in Registered /\ ~Busy(p, o)
        /\ UNCHANGED <<active, userLock, cut, codes, sets, issues, uses, challenge, ceremony, grant, resets, session, op>>
    BY DEF RemovePasskey
  <1>2. passkey' \in [Passkeys -> PasskeyType] /\ passkey'[p] = -2 /\ \A r \in Passkeys \ {p} : passkey'[r] = passkey[r]
    BY <1>0 DEF RemovePasskey, TypeOK, PasskeyType
  <1>3. TypeOK'
    BY <1>0, <1>1, <1>2, TypeFacts, TypeParts DEF TypeOK
  <1>4. \A q \in Ops : p \notin op[q].held
    BY <1>1 DEF Busy, Idle
  <1>5. Registered' \subseteq Registered
    BY <1>2 DEF Registered
  <1>6. OpsOK' /\ LocksExclusive' /\ UserRowOK' /\ FindingsHold' /\ SetsOK'
    <2>1. \A q \in Ops : \A r \in op[q].held : /\ r \in Grants => grant'[r].status = grant[r].status
                                              /\ r \in Passkeys => passkey'[r] = passkey[r]
      BY <1>1, <1>2, <1>4
    <2> QED BY <1>1, <1>5, <2>1, AsideStep
  <1>7. CountersOK'
    BY <1>1, <1>2 DEF IInv, CountersOK, CountersSpentOnce, Registered
  <1>8. PasskeysLimited'
    <2>1. Cardinality(Registered') <= Cardinality(Registered)
      BY <1>5, Finite, FS_Subset
    <2> QED BY <2>1, Finite, ConstantFacts DEF IInv, PasskeysLimited
  <1>9. NothingOutlivesReset'
    BY <1>1 DEF IInv, NothingOutlivesReset, LiveGrants
  <1> QED BY <1>3, <1>6, <1>7, <1>8, <1>9 DEF IInv

\* COMMIT of a grant, unfolded: a code is spent or a counter moves on.
LEMMA CommitEffect ==
  ASSUME IInv, NEW o \in Ops, CommitGrant(o)
  PROVE  /\ op[o].pc = "issued" /\ op[o].held = {op[o].row} /\ op[o].born = cut /\ Ends(o) /\ userLock # o
         /\ UNCHANGED <<active, userLock, cut, sets, challenge, ceremony, resets, session>>
         /\ \E g \in Grants : /\ grant[g].status = "none" /\ grant'[g].status = "live" /\ grant'[g].born = cut
                              /\ grant' \in [Grants -> GrantType]
                              /\ \A h \in Grants \ {g} : grant'[h] = grant[h]
         /\ \/ /\ op[o].row \in Codes /\ codes[op[o].row] = "live"
               /\ codes' = [codes EXCEPT ![op[o].row] = "used"] /\ issues' = [issues EXCEPT ![op[o].row] = @ + 1]
               /\ passkey' = passkey /\ uses' = uses
            \/ /\ op[o].row \in Passkeys /\ passkey[op[o].row] = op[o].seen
               /\ \E n \in NewCounters(op[o].seen) : /\ passkey' = [passkey EXCEPT ![op[o].row] = n]
                                                     /\ uses' = [uses EXCEPT ![op[o].row][n] = @ + 1]
               /\ codes' = codes /\ issues' = issues
  <1>0. TypeOK /\ OpOK(o) /\ op[o] \in OpType
    BY TypeFacts DEF IInv, OpsOK
  <1>1. /\ op[o].pc = "issued" /\ op[o].held = {op[o].row} /\ op[o].born = cut /\ Ends(o) /\ userLock # o
        /\ UNCHANGED <<active, userLock, cut, sets, challenge, ceremony, resets, session>>
    BY <1>0, FinishEffect DEF CommitGrant, At, OpOK, UnderLock
  <1>2. \E g \in Grants : /\ grant[g].status = "none" /\ grant'[g].status = "live" /\ grant'[g].born = cut
                          /\ grant' \in [Grants -> GrantType]
                          /\ \A h \in Grants \ {g} : grant'[h] = grant[h]
    <2>1. PICK g \in Grants : grant[g].status = "none" /\ grant' = [grant EXCEPT ![g] = [status |-> "live", born |-> op[o].born]]
      BY DEF CommitGrant
    <2>2. PICK new : new = [status |-> "live", born |-> op[o].born]
      OBVIOUS
    <2>3. new \in GrantType /\ new.status = "live" /\ new.born = cut
      BY <1>0, <1>1, <2>2 DEF GrantType, TypeOK
    <2>4. grant' \in [Grants -> GrantType] /\ grant'[g] = new /\ \A h \in Grants \ {g} : grant'[h] = grant[h]
      BY <1>0, <2>1, <2>2, <2>3, TypeFacts
    <2> QED BY <2>1, <2>3, <2>4
  <1>3. CASE op[o].row \in Codes
    BY <1>0, <1>1, <1>2, <1>3, ConstantFacts DEF OpOK, CommitGrant
  <1>4. CASE op[o].row \notin Codes
    BY <1>0, <1>1, <1>2, <1>4 DEF OpOK, CommitGrant
  <1> QED BY <1>3, <1>4

\* A counter that is accepted has bought nothing yet, unless none is kept.
LEMMA AdvanceKeeps ==
  ASSUME TypeOK, CountersOK, NEW row \in Passkeys, passkey[row] \in Nat, NEW n \in NewCounters(passkey[row]),
         passkey' = [passkey EXCEPT ![row] = n], uses' = [uses EXCEPT ![row][n] = @ + 1]
  PROVE  /\ passkey' \in [Passkeys -> PasskeyType] /\ uses' \in [Passkeys -> [0..MaxCounter -> Nat]]
         /\ CountersOK' /\ Registered' = Registered
  <1>1. n \in 0..MaxCounter /\ n \in Nat /\ n >= passkey[row] /\ (n \in 1..MaxCounter => n > passkey[row])
    BY ConstantFacts DEF NewCounters
  <1>2. passkey' \in [Passkeys -> PasskeyType] /\ passkey'[row] = n /\ \A p \in Passkeys \ {row} : passkey'[p] = passkey[p]
    BY <1>1 DEF TypeOK, PasskeyType
  <1>3. PICK old : old = uses[row]
    OBVIOUS
  <1>4. old \in [0..MaxCounter -> Nat] /\ uses \in [Passkeys -> [0..MaxCounter -> Nat]]
    BY <1>3 DEF TypeOK
  <1>5. PICK new : new = [old EXCEPT ![n] = @ + 1]
    OBVIOUS
  <1>6. /\ new \in [0..MaxCounter -> Nat] /\ new[n] = old[n] + 1
        /\ \A m \in 0..MaxCounter : m # n => new[m] = old[m]
    <2>1. old[n] + 1 \in Nat
      BY <1>1, <1>4
    <2> QED BY <1>1, <1>4, <1>5, <2>1
  <1>7. /\ uses' \in [Passkeys -> [0..MaxCounter -> Nat]] /\ uses'[row] = new
        /\ \A p \in Passkeys \ {row} : uses'[p] = uses[p]
    <2>1. uses' = [uses EXCEPT ![row] = new]
      BY <1>3, <1>5
    <2> QED BY <1>4, <1>6, <2>1
  <1>8. Registered' = Registered /\ row \in Registered
    BY <1>1, <1>2 DEF Registered
  <1>9. \A m \in 1..MaxCounter : new[m] > 0 => new[m] = 1 /\ m <= n
    <2> SUFFICES ASSUME NEW m \in 1..MaxCounter, new[m] > 0 PROVE new[m] = 1 /\ m <= n
      OBVIOUS
    <2>1. m \in 0..MaxCounter /\ m \in Nat /\ old[m] \in Nat
      BY <1>4, ConstantFacts
    <2>2. old[m] > 0 => old[m] = 1 /\ m <= passkey[row]
      BY <1>3, <1>8 DEF CountersOK, CountersSpentOnce
    <2>3. CASE m = n
      BY <1>1, <1>6, <2>1, <2>2, <2>3
    <2>4. CASE m # n
      BY <1>1, <1>6, <2>1, <2>2, <2>4
    <2> QED BY <2>3, <2>4
  <1>10. CountersSpentOnce'
    <2> SUFFICES ASSUME NEW p \in Passkeys, NEW m \in 1..MaxCounter, uses'[p][m] > 0
                 PROVE  uses'[p][m] = 1 /\ (p \in Registered' => m <= passkey'[p])
      BY DEF CountersSpentOnce
    <2>1. CASE p = row
      BY <1>2, <1>7, <1>9, <2>1
    <2>2. CASE p # row
      <3>1. uses'[p] = uses[p] /\ passkey'[p] = passkey[p]
        BY <1>2, <1>7, <2>2
      <3>2. uses[p][m] > 0 => uses[p][m] = 1 /\ (p \in Registered => m <= passkey[p])
        BY DEF CountersOK, CountersSpentOnce
      <3> QED BY <1>8, <3>1, <3>2
    <2> QED BY <2>1, <2>2
  <1>11. \A p \in Passkeys : passkey'[p] = -1 => \A m \in 1..MaxCounter : uses'[p][m] = 0
    <2>1. n # -1
      BY <1>1
    <2> QED BY <1>2, <1>7, <2>1 DEF CountersOK
  <1> QED BY <1>2, <1>7, <1>8, <1>10, <1>11 DEF CountersOK

LEMMA CommitStep ==
  ASSUME IInv, NEW o \in Ops, CommitGrant(o)
  PROVE  IInv'
  <1>0. TypeOK /\ SetsOK /\ op[o] \in OpType
    BY TypeFacts DEF IInv
  <1>1. PICK row : row = op[o].row
    OBVIOUS
  <1>2. /\ op[o].held = {row} /\ op[o].born = cut /\ Ends(o) /\ userLock # o
        /\ UNCHANGED <<active, userLock, cut, sets, challenge, ceremony, resets, session>>
    BY <1>1, CommitEffect
  <1>3. PICK g \in Grants : /\ grant[g].status = "none" /\ grant'[g].status = "live" /\ grant'[g].born = cut
                            /\ grant' \in [Grants -> GrantType]
                            /\ \A h \in Grants \ {g} : grant'[h] = grant[h]
    BY CommitEffect
  <1>4. \/ /\ row \in Codes /\ codes[row] = "live"
           /\ codes' = [codes EXCEPT ![row] = "used"] /\ issues' = [issues EXCEPT ![row] = @ + 1]
           /\ passkey' = passkey /\ uses' = uses
        \/ /\ row \in Passkeys /\ passkey[row] = op[o].seen
           /\ \E n \in NewCounters(passkey[row]) : /\ passkey' = [passkey EXCEPT ![row] = n]
                                                   /\ uses' = [uses EXCEPT ![row][n] = @ + 1]
           /\ codes' = codes /\ issues' = issues
    BY <1>1, CommitEffect
  <1>5. op[o].seen \in Nat
    BY <1>0 DEF OpType
  <1>6. /\ codes' \in [Codes -> {"none", "live", "used", "revoked"}] /\ issues' \in [Codes -> Nat]
        /\ passkey' \in [Passkeys -> PasskeyType] /\ uses' \in [Passkeys -> [0..MaxCounter -> Nat]]
        /\ CountersOK' /\ Registered' = Registered
        /\ \A p \in Passkeys \ {row} : passkey'[p] = passkey[p]
    <2>1. /\ codes \in [Codes -> {"none", "live", "used", "revoked"}] /\ issues \in [Codes -> Nat]
          /\ passkey \in [Passkeys -> PasskeyType] /\ uses \in [Passkeys -> [0..MaxCounter -> Nat]]
      BY <1>0 DEF TypeOK, PasskeyType
    <2>2. CASE passkey' = passkey /\ uses' = uses
      <3>1. CountersOK' /\ Registered' = Registered
        BY <2>2 DEF IInv, CountersOK, CountersSpentOnce, Registered
      <3>2. codes' \in [Codes -> {"none", "live", "used", "revoked"}]
        BY <1>4, <2>1
      <3>3. issues' \in [Codes -> Nat]
        BY <1>4, <2>1
      <3> QED BY <2>1, <2>2, <3>1, <3>2, <3>3
    <2>3. ASSUME NEW n \in NewCounters(passkey[row]), row \in Passkeys, passkey[row] = op[o].seen, codes' = codes, issues' = issues,
                 passkey' = [passkey EXCEPT ![row] = n], uses' = [uses EXCEPT ![row][n] = @ + 1]
          PROVE  /\ codes' \in [Codes -> {"none", "live", "used", "revoked"}] /\ issues' \in [Codes -> Nat]
                 /\ passkey' \in [Passkeys -> PasskeyType] /\ uses' \in [Passkeys -> [0..MaxCounter -> Nat]]
                 /\ CountersOK' /\ Registered' = Registered
                 /\ \A p \in Passkeys \ {row} : passkey'[p] = passkey[p]
      <3>1. \A p \in Passkeys \ {row} : passkey'[p] = passkey[p]
        BY <2>1, <2>3
      <3>2. /\ passkey' \in [Passkeys -> PasskeyType] /\ uses' \in [Passkeys -> [0..MaxCounter -> Nat]]
            /\ CountersOK' /\ Registered' = Registered
        BY <1>0, <1>5, <2>3, AdvanceKeeps DEF IInv
      <3> QED BY <2>1, <2>3, <3>1, <3>2
    <2> QED BY <1>4, <2>2, <2>3
  <1>7. TypeOK'
    BY <1>0, <1>2, <1>3, <1>6, TypeFacts, TypeParts DEF TypeOK, Ends, Moves
  <1>8. Respects(o)
    <2> SUFFICES ASSUME NEW q \in Ops \ {o}, NEW r \in op[q].held
                 PROVE  /\ r \in Codes => codes'[r] = codes[r]
                        /\ r \in Grants => grant'[r].status = grant[r].status
                        /\ r \in Passkeys => passkey'[r] = passkey[r]
      BY DEF Respects
    <2>1. r # row
      BY <1>2 DEF IInv, LocksExclusive, Exclusive
    <2>2. r \in Grants => r # g
      BY <1>3, HeldRows
    <2>3. r \in Codes => codes'[r] = codes[r]
      BY <1>0, <1>4, <2>1 DEF TypeOK
    <2> QED BY <1>3, <1>6, <2>1, <2>2, <2>3
  <1>9. codes' = codes \/ op[o].held \cap LiveCodes # {}
    BY <1>2, <1>4 DEF LiveCodes
  <1>10. /\ OpsOK' /\ LocksExclusive' /\ UserRowOK' /\ FindingsHold'
         /\ Cardinality(Generating') <= Cardinality(Generating)
    BY <1>2, <1>6, <1>8, <1>9, CommitKeeps DEF LockMoves
  <1>11. SetsOK'
    BY <1>0, <1>2, <1>4, <1>10, SetsKept DEF TypeOK
  <1>12. PasskeysLimited'
    BY <1>6 DEF IInv, PasskeysLimited
  <1>13. NothingOutlivesReset'
    BY <1>2, <1>3 DEF IInv, NothingOutlivesReset, LiveGrants
  <1> QED BY <1>6, <1>7, <1>10, <1>11, <1>12, <1>13 DEF IInv

LEMMA ResetStep ==
  ASSUME IInv, NEW o \in Ops, ResetPassword(o)
  PROVE  IInv'
  <1>0. TypeOK /\ OpOK(o) /\ SetsOK /\ NothingOutlivesReset
    BY DEF IInv, OpsOK
  <1>1. /\ op[o].pc = "reset" /\ op[o].row \in Grants /\ Ends(o) /\ LockMoves(o) /\ userLock' # o /\ userLock = o
        /\ cut' = cut + 1 /\ resets' = [resets EXCEPT ![op[o].row] = @ + 1]
        /\ UNCHANGED <<active, codes, sets, issues, challenge, passkey, uses, ceremony>>
    BY <1>0, FinishEffect, ReleaseFact DEF ResetPassword, At, OpOK, Redeeming, UnderLock, creds
  <1>2. /\ grant' \in [Grants -> GrantType]
        /\ \A g \in Grants : /\ g \notin LiveGrants \cup {op[o].row} => grant'[g] = grant[g]
                             /\ grant'[g].status \notin {"live", "lapsed"}
    <2>1. \A g \in Grants : /\ [grant[g] EXCEPT !.status = "spent"] \in GrantType
                            /\ [grant[g] EXCEPT !.status = "dead"] \in GrantType
                            /\ [grant[g] EXCEPT !.status = "spent"].status = "spent"
                            /\ [grant[g] EXCEPT !.status = "dead"].status = "dead"
      BY <1>0, TypeFacts DEF GrantType
    <2>2. \A g \in Grants : grant'[g] = IF g = op[o].row THEN [grant[g] EXCEPT !.status = "spent"]
                                        ELSE IF g \in LiveGrants THEN [grant[g] EXCEPT !.status = "dead"] ELSE grant[g]
      BY DEF ResetPassword
    <2>3. grant' \in [Grants -> GrantType]
      BY <1>0, <2>1, TypeFacts DEF ResetPassword
    <2> QED BY <2>1, <2>2, <2>3 DEF LiveGrants
  <1>3. session' \in [Sessions -> SessionType] /\ \A s \in Sessions : session'[s].status # "OPEN"
    <2>1. \A s \in Sessions : LET new == [session[s] EXCEPT !.status = "REVOKED"]
                              IN new \in SessionType /\ new.status = "REVOKED"
      BY <1>0, TypeFacts DEF SessionType
    <2>2. \A s \in Sessions : session'[s] = IF session[s].status = "OPEN" THEN [session[s] EXCEPT !.status = "REVOKED"] ELSE session[s]
      BY DEF ResetPassword
    <2>3. session' \in [Sessions -> SessionType]
      BY <1>0, <2>1, TypeFacts DEF ResetPassword
    <2> QED BY <2>1, <2>2, <2>3
  <1>4. cut' \in Nat /\ resets' \in [Grants -> Nat]
    BY <1>0, <1>1 DEF TypeOK
  <1>5. TypeOK'
    BY <1>0, <1>1, <1>2, <1>3, <1>4, TypeParts DEF TypeOK, PasskeyType, Ends, Moves, LockMoves
  <1>6. Respects(o)
    <2> SUFFICES ASSUME NEW q \in Ops \ {o}, NEW r \in op[q].held, r \in Grants
                 PROVE  grant'[r].status = grant[r].status
      BY <1>1 DEF Respects
    <2>1. r \in LiveGrants
      BY HeldRows DEF LiveGrants
    <2>2. r \notin LiveGrants
      BY <1>1 DEF ResetPassword, CanWrite, RowsToWrite, Busy, At
    <2> QED BY <2>1, <2>2
  <1>7. Sharing = {}
    BY <1>1, ConstantFacts DEF IInv, UserRowOK
  <1>8. /\ OpsOK' /\ LocksExclusive' /\ UserRowOK' /\ FindingsHold'
        /\ Cardinality(Generating') <= Cardinality(Generating)
    BY <1>1, <1>6, <1>7, CommitKeeps
  <1>9. SetsOK'
    BY <1>0, <1>1, <1>8, SetsKept
  <1>10. CountersOK' /\ PasskeysLimited'
    BY <1>1 DEF IInv, CountersOK, CountersSpentOnce, PasskeysLimited, Registered
  <1>11. NothingOutlivesReset'
    BY <1>2, <1>3 DEF NothingOutlivesReset, LiveGrants
  <1> QED BY <1>5, <1>8, <1>9, <1>10, <1>11 DEF IInv

LEMMA IssueStep ==
  ASSUME IInv, NEW o \in Ops, IssueSession(o)
  PROVE  IInv'
  <1>0. TypeOK /\ OpOK(o) /\ SetsOK /\ op[o] \in OpType
    BY TypeFacts DEF IInv, OpsOK
  <1>1. /\ op[o].pc = "login" /\ Ends(o) /\ userLock = None
        /\ UNCHANGED <<active, userLock, cut, codes, sets, issues, challenge, passkey, uses, ceremony, grant, resets>>
    BY <1>0, FinishEffect DEF IssueSession, At, KeyShareFree, creds
  <1>2. PICK s \in Sessions : session' = [session EXCEPT ![s] = [status |-> "OPEN", seen |-> op[o].seen, born |-> cut]]
    BY DEF IssueSession
  <1>3. PICK new : new = [status |-> "OPEN", seen |-> op[o].seen, born |-> cut]
    OBVIOUS
  <1>4. new \in SessionType /\ new.born = cut
    BY <1>0, <1>3 DEF SessionType, OpType, TypeOK
  <1>5. session' \in [Sessions -> SessionType] /\ session'[s] = new /\ \A t \in Sessions \ {s} : session'[t] = session[t]
    BY <1>0, <1>2, <1>3, <1>4, TypeFacts
  <1>6. TypeOK'
    BY <1>0, <1>1, <1>5, TypeFacts, TypeParts DEF TypeOK, PasskeyType, Ends, Moves
  <1>7. /\ OpsOK' /\ LocksExclusive' /\ UserRowOK' /\ FindingsHold'
        /\ Cardinality(Generating') <= Cardinality(Generating)
    BY <1>1, ConstantFacts, CommitKeeps DEF LockMoves, Respects, Registered
  <1>8. SetsOK'
    BY <1>0, <1>1, <1>7, SetsKept
  <1>9. CountersOK' /\ PasskeysLimited'
    BY <1>1 DEF IInv, CountersOK, CountersSpentOnce, PasskeysLimited, Registered
  <1>10. NothingOutlivesReset'
    BY <1>1, <1>4, <1>5 DEF IInv, NothingOutlivesReset, LiveGrants
  <1> QED BY <1>6, <1>7, <1>8, <1>9, <1>10 DEF IInv

LEMMA OutsideSteps ==
  ASSUME IInv
  PROVE  /\ \A g \in Grants : LapseGrant(g) => IInv'
         /\ Deactivate => IInv'
         /\ UNCHANGED vars => IInv'
  <1>0. TypeOK
    BY DEF IInv
  <1>1. ASSUME NEW g \in Grants, LapseGrant(g) PROVE IInv'
    <2>1. /\ grant[g].status = "live" /\ \A q \in Ops : g \notin op[q].held
          /\ UNCHANGED <<active, userLock, cut, codes, sets, issues, challenge, passkey, uses, ceremony, resets, session, op>>
      BY <1>1 DEF LapseGrant, creds
    <2>2. /\ grant' \in [Grants -> GrantType] /\ grant'[g].status = "lapsed" /\ grant'[g].born = grant[g].born
          /\ \A h \in Grants \ {g} : grant'[h] = grant[h]
      BY <1>0, <1>1, TypeFacts DEF LapseGrant, GrantType
    <2>3. TypeOK'
      BY <1>0, <2>1, <2>2, TypeFacts, TypeParts DEF TypeOK, PasskeyType
    <2>4. OpsOK' /\ LocksExclusive' /\ UserRowOK' /\ FindingsHold' /\ SetsOK'
      BY <2>1, <2>2, AsideStep DEF Registered
    <2>5. CountersOK' /\ PasskeysLimited'
      BY <2>1 DEF IInv, CountersOK, CountersSpentOnce, PasskeysLimited, Registered
    <2>6. NothingOutlivesReset'
      BY <2>1, <2>2 DEF IInv, NothingOutlivesReset, LiveGrants
    <2> QED BY <2>3, <2>4, <2>5, <2>6 DEF IInv
  <1>2. ASSUME UNCHANGED <<op, userLock, cut, creds, grant, resets, session>>, active' \in BOOLEAN PROVE IInv'
    <2>1. TypeOK'
      BY <1>0, <1>2, TypeFacts, TypeParts DEF TypeOK, creds
    <2>2. OpsOK' /\ LocksExclusive' /\ UserRowOK' /\ FindingsHold' /\ SetsOK'
      BY <1>2, AsideStep DEF creds, Registered
    <2>3. CountersOK' /\ PasskeysLimited' /\ NothingOutlivesReset'
      BY <1>2 DEF IInv, CountersOK, CountersSpentOnce, PasskeysLimited, Registered, NothingOutlivesReset, LiveGrants, creds
    <2> QED BY <2>1, <2>2, <2>3 DEF IInv
  <1>3. Deactivate => IInv'
    BY <1>2 DEF Deactivate
  <1>4. UNCHANGED vars => IInv'
    BY <1>0, <1>2 DEF vars, creds, TypeOK
  <1> QED BY <1>1, <1>3, <1>4

LEMMA NextIInv == IInv /\ [Next]_vars => IInv'
  <1> SUFFICES ASSUME IInv, [Next]_vars PROVE IInv'
    OBVIOUS
  <1>1. ASSUME NEW o \in Ops, SecuritySettings(o) PROVE IInv'
    BY <1>1, UserRowSteps, CeremonySteps, StartSteps, RemoveStep DEF SecuritySettings
  <1>2. ASSUME NEW o \in Ops, RecoveryEndpoints(o) PROVE IInv'
    BY <1>2, CeremonySteps, StartSteps DEF RecoveryEndpoints
  <1>3. ASSUME NEW o \in Ops, Step(o) PROVE IInv'
    BY <1>3, UserRowSteps, FindingSteps, GenerateSetStep, CeremonySteps, RegisterStep, GrantSteps, CommitStep, ResetStep, IssueStep DEF Step
  <1>4. ASSUME NEW o \in Ops, AdminLogin(o) \/ Abort(o) PROVE IInv'
    BY <1>4, StartSteps, UserRowSteps
  <1> QED BY <1>1, <1>2, <1>3, <1>4, OutsideSteps DEF Next

\* What an open transaction has written stays as it found it until it ends, the
\* user row and the inserts that refer to it exclude each other, and only the
\* newest set of codes is usable.
THEOREM Invariant == Spec => []IInv
  BY InitIInv, NextIInv, PTL DEF Spec

\* The type invariant; in particular no generation exceeds the bound.
THEOREM TypeCorrect == Spec => []TypeOK
  <1>1. IInv => TypeOK
    BY DEF IInv
  <1> QED BY <1>1, Invariant, PTL

\* No grant and no session inserted before a reset survives it.
THEOREM ResetIsFinal == Spec => []NothingOutlivesReset
  <1>1. IInv => NothingOutlivesReset
    BY DEF IInv
  <1> QED BY <1>1, Invariant, PTL

\* However generations and registrations overlap, each reading before it
\* writes, the usable codes are of one set and the limit of passkeys is kept:
\* what is found under the user row is still so when the row is given back.
THEOREM LimitsHold == Spec => []LimitsUnderLock
  <1>1. IInv => LimitsUnderLock
    BY DEF IInv, SetsOK, PasskeysLimited, LimitsUnderLock, LiveCodes
  <1> QED BY <1>1, Invariant, PTL

\* Whatever counters authenticators report, none buys a second grant, and the
\* stored counter is never behind one that has bought a grant.
THEOREM CountersSpent == Spec => []CountersSpentOnce
  <1>1. IInv => CountersSpentOnce
    BY DEF IInv, CountersOK
  <1> QED BY <1>1, Invariant, PTL

-----------------------------------------------------------------------------
(* Codes and grants are one-time secrets.                                  *)

Secrets == Codes \cup Grants

\* How the rows change when no secret is redeemed: new codes and grants
\* appear, live ones are revoked, replaced or lapse.
CodeTurn(c) ==
  \/ codes'[c] = codes[c]
  \/ codes[c] = "none" /\ codes'[c] = "live"
  \/ codes[c] = "live" /\ codes'[c] = "revoked"

GrantTurn(g) ==
  \/ grant'[g].status = grant[g].status
  \/ grant[g].status = "none" /\ grant'[g].status = "live"
  \/ grant[g].status = "live" /\ grant'[g].status = "lapsed"

Turn ==
  /\ issues' = issues /\ resets' = resets
  /\ \A c \in Codes : CodeTurn(c)
  /\ \A g \in Grants : GrantTurn(g)

\* Every step is a turnover, the spending of a code or a reset.
LEMMA TurnSteps ==
  ASSUME IInv, [Next]_vars
  PROVE  Turn \/ \E o \in Ops : ResetPassword(o) \/ (CommitGrant(o) /\ op[o].row \in Codes)
  <1>0. TypeOK /\ SetsOK /\ OpsOK
    BY DEF IInv
  <1>1. ASSUME UNCHANGED <<codes, issues, grant, resets>> PROVE Turn
    BY <1>1 DEF Turn, CodeTurn, GrantTurn
  <1>2. ASSUME NEW o \in Ops, GenerateRecoveryCodeSet(o) PROVE Turn
    <2>1. /\ codes' = [c \in Codes |-> IF c[1] = sets + 1 THEN "live" ELSE IF codes[c] = "live" THEN "revoked" ELSE codes[c]]
          /\ UNCHANGED <<issues, grant, resets>>
      BY <1>2 DEF GenerateRecoveryCodeSet, IInv, FindingsHold, FindingsOK, LiveCodes, At
    <2>2. \A c \in Codes : c[1] = sets + 1 => codes[c] = "none"
      BY <1>0 DEF SetsOK, TypeOK
    <2> QED BY <2>1, <2>2 DEF Turn, CodeTurn, GrantTurn
  <1>3. ASSUME NEW o \in Ops, CommitGrant(o), op[o].row \notin Codes PROVE Turn
    <2>1. /\ UNCHANGED <<resets, codes, issues>>
          /\ \E g \in Grants : grant[g].status = "none" /\ grant'[g].status = "live" /\ \A h \in Grants \ {g} : grant'[h] = grant[h]
      BY <1>3, CommitEffect
    <2> QED BY <2>1 DEF Turn, CodeTurn, GrantTurn
  <1>4. ASSUME NEW g \in Grants, LapseGrant(g) PROVE Turn
    <2>1. UNCHANGED <<resets, codes, issues>> /\ grant[g].status = "live" /\ grant' = [grant EXCEPT ![g].status = "lapsed"]
      BY <1>4 DEF LapseGrant, creds
    <2>2. grant'[g].status = "lapsed" /\ \A h \in Grants \ {g} : grant'[h] = grant[h]
      BY <1>0, <2>1, TypeFacts DEF GrantType
    <2> QED BY <2>1, <2>2 DEF Turn, CodeTurn, GrantTurn
  <1>5. ASSUME NEW o \in Ops, SecuritySettings(o) PROVE Turn
    BY <1>1, <1>5 DEF SecuritySettings, Generate, CreateRegistrationOptions, CompleteRegistration, RemovePasskey, creds
  <1>6. ASSUME NEW o \in Ops, RecoveryEndpoints(o) PROVE Turn
    BY <1>1, <1>6 DEF RecoveryEndpoints, VerifyRecoveryCode, CreateChallenge, VerifyPasskeyRecovery, ResetPasswordWithGrant, creds
  <1>7. ASSUME NEW o \in Ops, \/ AdminLogin(o) \/ Abort(o) \/ LockUser(o) \/ RevokeLiveCodes(o) \/ CreateCeremony(o)
                              \/ CountPasskeys(o) \/ RegisterPasskey(o)
                              \/ ConsumeRecoveryCode(o) \/ ReadPasskey(o) \/ AdvanceCounter(o) \/ IssueRecoveryGrant(o)
                              \/ ConsumeRecoveryGrant(o) \/ IssueSession(o)
        PROVE  Turn
    BY <1>1, <1>7
    DEF AdminLogin, Abort, LockUser, RevokeLiveCodes, CreateCeremony, CountPasskeys, RegisterPasskey, ConsumeRecoveryCode,
        ReadPasskey, AdvanceCounter, IssueRecoveryGrant, ConsumeRecoveryGrant, IssueSession, creds
  <1>8. ASSUME Deactivate \/ UNCHANGED vars PROVE Turn
    BY <1>1, <1>8 DEF Deactivate, vars, creds
  <1> QED BY <1>2, <1>3, <1>4, <1>5, <1>6, <1>7, <1>8 DEF Next, Step

LEMMA SecretStates ==
  ASSUME TypeOK
  PROVE  /\ \A c \in Codes : /\ SecretState(c) \in Secret!States
                             /\ SecretState(c) = "none" <=> codes[c] = "none"
                             /\ SecretState(c) = "live" <=> codes[c] = "live"
                             /\ SecretState(c) = "spent" <=> codes[c] = "used"
                             /\ SecretState(c) = "dead" <=> codes[c] = "revoked"
         /\ \A g \in Grants : /\ SecretState(g) \in Secret!States
                              /\ SecretState(g) = "none" <=> grant[g].status = "none"
                              /\ SecretState(g) = "live" <=> grant[g].status = "live"
                              /\ SecretState(g) = "spent" <=> grant[g].status = "spent"
                              /\ SecretState(g) = "dead" <=> grant[g].status \in {"lapsed", "dead"}
  <1>1. \A c \in Codes : codes[c] \in {"none", "live", "used", "revoked"}
    BY DEF TypeOK
  <1>2. \A g \in Grants : g \notin Codes /\ grant[g].status \in {"none", "live", "lapsed", "spent", "dead"}
    BY TypeFacts, ConstantFacts DEF GrantType
  <1> QED BY <1>1, <1>2 DEF SecretState, Secret!States

LEMMA SecretStatesNext ==
  ASSUME TypeOK'
  PROVE  /\ \A c \in Codes : /\ SecretState(c)' \in Secret!States
                             /\ SecretState(c)' = "none" <=> codes'[c] = "none"
                             /\ SecretState(c)' = "live" <=> codes'[c] = "live"
                             /\ SecretState(c)' = "spent" <=> codes'[c] = "used"
                             /\ SecretState(c)' = "dead" <=> codes'[c] = "revoked"
         /\ \A g \in Grants : /\ SecretState(g)' \in Secret!States
                              /\ SecretState(g)' = "none" <=> grant'[g].status = "none"
                              /\ SecretState(g)' = "live" <=> grant'[g].status = "live"
                              /\ SecretState(g)' = "spent" <=> grant'[g].status = "spent"
                              /\ SecretState(g)' = "dead" <=> grant'[g].status \in {"lapsed", "dead"}
  <1>1. \A c \in Codes : codes'[c] \in {"none", "live", "used", "revoked"}
    BY DEF TypeOK
  <1>2. \A g \in Grants : g \notin Codes /\ grant'[g].status \in {"none", "live", "lapsed", "spent", "dead"}
    BY ConstantFacts DEF TypeOK
  <1> QED BY <1>1, <1>2 DEF SecretState, Secret!States

LEMMA TurnIsTurnover ==
  ASSUME TypeOK, TypeOK', Turn
  PROVE  Secret!Turnover
  <1>1. \A s \in Secrets : \/ SecretState(s)' = SecretState(s)
                           \/ SecretState(s) = "none" /\ SecretState(s)' \in {"live", "dead"}
                           \/ SecretState(s) = "live" /\ SecretState(s)' = "dead"
    <2>1. ASSUME NEW c \in Codes
          PROVE  \/ SecretState(c)' = SecretState(c)
                 \/ SecretState(c) = "none" /\ SecretState(c)' \in {"live", "dead"}
                 \/ SecretState(c) = "live" /\ SecretState(c)' = "dead"
      <3>1. CodeTurn(c)
        BY DEF Turn
      <3> QED BY <3>1, SecretStates, SecretStatesNext DEF CodeTurn, SecretState
    <2>2. ASSUME NEW g \in Grants
          PROVE  \/ SecretState(g)' = SecretState(g)
                 \/ SecretState(g) = "none" /\ SecretState(g)' \in {"live", "dead"}
                 \/ SecretState(g) = "live" /\ SecretState(g)' = "dead"
      <3>1. GrantTurn(g) /\ g \notin Codes
        BY ConstantFacts DEF Turn
      <3> QED BY <3>1, SecretStates, SecretStatesNext DEF GrantTurn, SecretState
    <2> QED BY <2>1, <2>2 DEF Secrets
  <1>2. \A s \in Secrets : SecretState(s)' \in Secret!States
    BY SecretStatesNext DEF Secrets
  <1> QED BY <1>1, <1>2 DEF Secret!Turnover, Secrets, Turn

LEMMA CommitIsRedeem ==
  ASSUME IInv, TypeOK', NEW o \in Ops, CommitGrant(o), op[o].row \in Codes
  PROVE  \E s \in Secrets : Secret!Redeem(s)
  <1>0. TypeOK
    BY DEF IInv
  <1>1. PICK row : row = op[o].row
    OBVIOUS
  <1>2. /\ row \in Codes /\ codes[row] = "live" /\ codes' = [codes EXCEPT ![row] = "used"]
        /\ issues' = [issues EXCEPT ![row] = @ + 1] /\ resets' = resets
        /\ \E g \in Grants : grant[g].status = "none" /\ grant'[g].status = "live" /\ \A h \in Grants \ {g} : grant'[h] = grant[h]
    BY <1>1, CommitEffect, ConstantFacts
  <1>3. codes'[row] = "used" /\ \A c \in Codes \ {row} : codes'[c] = codes[c]
    BY <1>0, <1>2 DEF TypeOK
  <1>4. SecretState(row) = "live" /\ (SecretState(row))' = "spent" /\ row \in Secrets
    BY <1>0, <1>2, <1>3, SecretStates, SecretStatesNext DEF Secrets, SecretState
  <1>5. \A s \in Secrets \ {row} : \/ SecretState(s)' = SecretState(s)
                                   \/ SecretState(s) = "none" /\ SecretState(s)' = "live"
    <2>1. \A c \in Codes \ {row} : SecretState(c)' = SecretState(c)
      BY <1>3 DEF SecretState
    <2>2. ASSUME NEW g \in Grants
          PROVE  SecretState(g)' = SecretState(g) \/ (SecretState(g) = "none" /\ SecretState(g)' = "live")
      <3>1. grant'[g] = grant[g] \/ (grant[g].status = "none" /\ grant'[g].status = "live")
        BY <1>2
      <3> QED BY <1>0, <3>1, SecretStates, SecretStatesNext, ConstantFacts DEF SecretState
    <2> QED BY <2>1, <2>2 DEF Secrets
  <1>6. \A s \in Secrets : SecretState(s)' \in Secret!States
    BY SecretStatesNext DEF Secrets
  <1>7. Secret!Redeem(row)
    <2> DEFINE B == [s \in Codes \cup Grants |-> IF s \in Codes THEN issues[s] ELSE resets[s]]
    <2>1. \A s \in Codes \cup Grants : B[s] = (IF s \in Codes THEN issues[s] ELSE resets[s])
                                  /\ B'[s] = (IF s \in Codes THEN issues'[s] ELSE resets'[s])
      OBVIOUS
    <2>2. \A s \in Codes \cup Grants : B'[s] = IF s = row THEN B[s] + 1 ELSE B[s]
      <3>1. \A c \in Codes : issues'[c] = IF c = row THEN issues[c] + 1 ELSE issues[c]
        BY <1>0, <1>2 DEF TypeOK
      <3> HIDE DEF B
      <3> QED BY <1>2, <2>1, <3>1
    <2>3. B' = [B EXCEPT ![row] = @ + 1]
      BY <1>2, <2>2, ZenonT(60)
    <2> QED BY <1>2, <1>4, <1>5, <1>6, <2>3 DEF Secret!Redeem, Secrets
  <1> QED BY <1>4, <1>7

LEMMA ResetIsRedeem ==
  ASSUME IInv, TypeOK', NEW o \in Ops, ResetPassword(o)
  PROVE  \E s \in Secrets : Secret!Redeem(s)
  <1>0. TypeOK
    BY DEF IInv
  <1>1. PICK row : row = op[o].row
    OBVIOUS
  <1>2. /\ row \in Grants /\ row \notin Codes /\ grant[row].status = "live" /\ UNCHANGED <<codes, issues>>
        /\ resets' = [resets EXCEPT ![row] = @ + 1]
    BY <1>1, ConstantFacts DEF IInv, OpsOK, OpOK, Redeeming, ResetPassword, At, creds
  <1>3. \A g \in Grants : grant'[g] = IF g = row THEN [grant[g] EXCEPT !.status = "spent"]
                                      ELSE IF g \in LiveGrants THEN [grant[g] EXCEPT !.status = "dead"] ELSE grant[g]
    BY <1>1 DEF ResetPassword
  <1>4. \A g \in Grants : /\ [grant[g] EXCEPT !.status = "spent"].status = "spent"
                          /\ [grant[g] EXCEPT !.status = "dead"].status = "dead"
    BY <1>0, TypeFacts DEF GrantType
  <1>5. grant'[row].status = "spent"
    BY <1>2, <1>3, <1>4
  <1>6. \A g \in Grants \ {row} : \/ grant'[g] = grant[g]
                                  \/ grant[g].status \in {"live", "lapsed"} /\ grant'[g].status = "dead"
    BY <1>3, <1>4 DEF LiveGrants
  <1>7. SecretState(row) = "live" /\ (SecretState(row))' = "spent" /\ row \in Secrets
    BY <1>0, <1>2, <1>5, SecretStates, SecretStatesNext DEF Secrets, SecretState
  <1>8. \A s \in Secrets \ {row} : \/ SecretState(s)' = SecretState(s)
                                   \/ SecretState(s) = "live" /\ SecretState(s)' = "dead"
    <2>1. \A c \in Codes : SecretState(c)' = SecretState(c)
      BY <1>2 DEF SecretState
    <2>2. ASSUME NEW g \in Grants \ {row}
          PROVE  SecretState(g)' = SecretState(g) \/ (SecretState(g) = "live" /\ SecretState(g)' = "dead")
      <3>1. CASE grant'[g] = grant[g]
        BY <3>1, ConstantFacts DEF SecretState
      <3>2. CASE grant[g].status \in {"live", "lapsed"} /\ grant'[g].status = "dead"
        BY <1>0, <3>2, SecretStates, SecretStatesNext
      <3> QED BY <1>6, <3>1, <3>2
    <2> QED BY <2>1, <2>2 DEF Secrets
  <1>9. \A s \in Secrets : SecretState(s)' \in Secret!States
    BY SecretStatesNext DEF Secrets
  <1>10. Secret!Redeem(row)
    <2> DEFINE B == [s \in Codes \cup Grants |-> IF s \in Codes THEN issues[s] ELSE resets[s]]
    <2>1. \A s \in Codes \cup Grants : B[s] = (IF s \in Codes THEN issues[s] ELSE resets[s])
                                  /\ B'[s] = (IF s \in Codes THEN issues'[s] ELSE resets'[s])
      OBVIOUS
    <2>2. \A s \in Codes \cup Grants : B'[s] = IF s = row THEN B[s] + 1 ELSE B[s]
      BY <1>0, <1>2, <2>1, SMTT(30) DEF TypeOK
    <2>3. B' = [B EXCEPT ![row] = @ + 1]
      BY <1>2, <2>2
    <2> QED BY <1>2, <1>7, <1>8, <1>9, <2>3 DEF Secret!Redeem, Secrets
  <1> QED BY <1>7, <1>10

\* Recovery implements OneTimeSecret: a code buys one grant and a grant one
\* password, each in the step that spends it, and nothing spent or dead returns.
THEOREM SecretsSpentOnce == Spec => SecretsAreOneTime
  <1>1. Init => Secret!Init
    BY DEF Init, NoGrant, SecretState, Secret!Init
  <1>2. IInv /\ IInv' /\ [Next]_vars => [Secret!Next]_(Secret!secretVars)
    <2> SUFFICES ASSUME IInv, IInv', [Next]_vars PROVE Secret!Next
      OBVIOUS
    <2>1. TypeOK /\ TypeOK'
      BY DEF IInv
    <2> QED BY <2>1, TurnSteps, TurnIsTurnover, CommitIsRedeem, ResetIsRedeem DEF Secret!Next, Secrets
  <1> QED BY <1>1, <1>2, Invariant, PTL DEF Spec, SecretsAreOneTime, Secret!Spec

-----------------------------------------------------------------------------
(* Handlers that wait for each other.                                      *)

\* The holder of the user row and a handler it waits for: only a new set of
\* codes against a verification, or one reset against another.
THEOREM DeadlocksKnown == Spec => []OnlyKnownDeadlocks
  <1>1. IInv => OnlyKnownDeadlocks
    <2> SUFFICES ASSUME IInv, NEW o \in Ops, NEW q \in Ops, WaitsFor(o, q), WaitsFor(q, o), userLock = o
                 PROVE  \/ At(o, "generate") /\ At(q, "insert") /\ op[q].row \in Codes
                        \/ At(o, "reset") /\ At(q, "lock") /\ op[q].next = "reset"
      BY DEF OnlyKnownDeadlocks
    <2>1. OpOK(o) /\ OpOK(q) /\ o # q
      BY DEF IInv, OpsOK, WaitsFor
    <2>2. op[o].pc \in UnderLock /\ op[q].pc \notin UnderLock
      BY <2>1 DEF OpOK
    <2>3. PICK r : r \in RowsToWrite(o) /\ r \in op[q].held
      BY <2>2 DEF WaitsFor, UnderLock, At
    <2>4. op[q].pc # "issued"
      BY <2>2, ConstantFacts DEF IInv, UserRowOK, Sharing
    <2>5. CASE op[o].pc = "generate"
      <3>1. r \in Codes
        BY <2>3, <2>5 DEF RowsToWrite, LiveCodes, At
      <3>2. r = op[q].row /\ op[q].pc \in {"insert", "issued"}
        BY <2>2, <2>3, <3>1, HeldRows DEF UnderLock
      <3> QED BY <2>2, <2>4, <2>5, <3>1, <3>2 DEF UnderLock, At
    <2>6. CASE op[o].pc = "reset"
      <3>1. r \in Grants
        BY <2>3, <2>6 DEF RowsToWrite, LiveGrants, At
      <3>2. Redeeming(q)
        BY <2>3, <3>1, HeldRows
      <3> QED BY <2>2, <2>6, <3>2 DEF Redeeming, UnderLock, At
    <2> QED BY <2>3, <2>5, <2>6 DEF RowsToWrite, At
  <1> QED BY <1>1, Invariant, PTL

-----------------------------------------------------------------------------
(* RecoveryThrottle: the budget of failures and the announced waiting time, *)
(* for every window, delay and limit.                                      *)

Ordered(ledger) == \A m, n \in 1..Len(ledger) : m <= n => ledger[m] <= ledger[n]

\* A ledger is in the order of the clock, which it does not run ahead of.
LedgerOK(ledger) ==
  /\ ledger \in Seq(Nat) /\ Ordered(ledger)
  /\ \A n \in 1..Len(ledger) : ledger[n] <= now

\* A handler that has passed the check may turn into a failure: the two are
\* budgeted together.
ThrottleInv ==
  /\ now \in Nat /\ LedgerOK(account) /\ LedgerOK(ip)
  /\ checked \in [Kinds -> Nat]
  /\ checked["both"] + checked["elsewhere"] + checked["neighbour"] <= Overlap
  /\ Cardinality(Within(account, Window - 1, now)) + checked["both"] + checked["elsewhere"]
       <= Free + Doublings + Overlap

\* A nonempty set of numbers up to N has a first.
LEMMA FirstOf ==
  ASSUME NEW N \in Nat, NEW S, \A n \in S : n \in 0..N, S # {}
  PROVE  \E n \in S : \A m \in S : n <= m
  <1> DEFINE Below(n) == {m \in S : m < n}
  <1> DEFINE F == {T \in SUBSET S : \E n \in S : T = Below(n)}
  <1>0. IsFiniteSet(S)
    <2>1. IsFiniteSet(0..N)
      BY FS_Interval
    <2>2. S \in SUBSET (0..N)
      OBVIOUS
    <2> QED BY <2>1, <2>2, FS_Subset
  <1>1. IsWellFoundedOn(StrictSubsetOrdering(S), FiniteSubsetsOf(S))
    BY FS_StrictSubsetOrderingWellFounded
  <1>2. F \subseteq FiniteSubsetsOf(S)
    BY <1>0, FS_FiniteSubsetsOfFinite
  <1>3. \A n \in S : Below(n) \in F
    OBVIOUS
  <1>4. PICK T \in F : \A U \in F : ~ (<<U, T>> \in StrictSubsetOrdering(S))
    <2>1. F # {}
      BY <1>3
    <2> HIDE DEF F
    <2> QED BY <1>1, <1>2, <2>1, WFMin
  <1>5. PICK n \in S : T = Below(n)
    OBVIOUS
  <1>6. ASSUME NEW m \in S, m < n PROVE FALSE
    <2>1. Below(m) \subseteq T /\ m \in T /\ m \notin Below(m)
      BY <1>5, <1>6
    <2>2. <<Below(m), T>> \in StrictSubsetOrdering(S)
      BY <2>1 DEF StrictSubsetOrdering
    <2> QED BY <1>3, <1>4, <2>2
  <1> QED BY <1>6

-----------------------------------------------------------------------------
(* The delay.                                                              *)

Powers == <<1, 2, 4, 8, 16, 32, 64, 128, 256, 512, 1024, 2048, 4096, 8192, 16384, 32768,
            65536, 131072, 262144, 524288, 1048576>>

\* The recursion has a solution.
LEMMA DoubledUnfolded == Doubled = [e \in 0..20 |-> IF e = 0 THEN Base ELSE 2 * Doubled[e - 1]]
  <1> DEFINE f == [e \in 0..20 |-> Base * Powers[e + 1]]
  <1>0. Base \in Nat
    BY ThrottleAssumption
  <1>1. Powers \in [1..21 -> Nat] /\ Powers[1] = 1 /\ \A e \in 1..20 : Powers[e + 1] = 2 * Powers[e]
    BY DEF Powers
  <1>2. ASSUME NEW e \in 0..20
        PROVE  f[e] = IF e = 0 THEN Base ELSE 2 * f[e - 1]
    <2>1. CASE e = 0
      BY <1>0, <1>1, <2>1
    <2>2. CASE e # 0
      <3>1. e \in 1..20 /\ e - 1 \in 0..20 /\ Powers[e] \in Nat /\ f[e - 1] = Base * Powers[e]
        BY <1>1, <2>2
      <3>2. f[e] = Base * (2 * Powers[e])
        BY <1>1, <3>1
      <3> HIDE DEF f
      <3> QED BY <1>0, <2>2, <3>1, <3>2
    <2> QED BY <2>1, <2>2
  <1>3. f = [e \in 0..20 |-> IF e = 0 THEN Base ELSE 2 * f[e - 1]]
    BY <1>2
  <1>4. \E g : g = [e \in 0..20 |-> IF e = 0 THEN Base ELSE 2 * g[e - 1]]
    <2> HIDE DEF f
    <2> QED BY <1>3
  <1> QED BY <1>4 DEF Doubled

LEMMA DoubledFacts ==
  /\ \A e \in 0..20 : Doubled[e] \in Nat
  /\ \A d, e \in 0..20 : d <= e => Doubled[d] <= Doubled[e]
  /\ Doublings \in 0..19 /\ Doubled[Doublings + 1] >= Window
  <1>0. Base \in Nat /\ Window \in Nat /\ Base < Window
    BY ThrottleAssumption
  <1>1. Doubled[0] = Base /\ \A e \in 1..20 : Doubled[e] = 2 * Doubled[e - 1]
    BY DoubledUnfolded
  <1>2. \A e \in 0..20 : Doubled[e] \in Nat
    <2> DEFINE S == {e \in 0..20 : Doubled[e] \notin Nat}
    <2> SUFFICES ASSUME S # {} PROVE FALSE
      OBVIOUS
    <2>1. PICK n \in S : \A m \in S : n <= m
      <3>1. \A n \in S : n \in 0..20
        OBVIOUS
      <3> HIDE DEF S
      <3> QED BY <3>1, FirstOf
    <2>2. n # 0 /\ n - 1 \in 0..20 /\ n - 1 \notin S
      BY <1>0, <1>1, <2>1
    <2> QED BY <1>1, <2>1, <2>2
  <1>3. ASSUME NEW d \in 0..20
        PROVE  \A e \in 0..20 : d <= e => Doubled[d] <= Doubled[e]
    <2> DEFINE S == {e \in d..20 : ~ Doubled[d] <= Doubled[e]}
    <2> SUFFICES ASSUME S # {} PROVE FALSE
      OBVIOUS
    <2>1. PICK n \in S : \A m \in S : n <= m
      <3>1. \A n \in S : n \in 0..20
        OBVIOUS
      <3> HIDE DEF S
      <3> QED BY <3>1, FirstOf
    <2>2. n \in 1..20 /\ n # d /\ n - 1 \in d..20 /\ n - 1 \notin S
      BY <1>2, <2>1
    <2>3. Doubled[d] <= Doubled[n - 1] /\ Doubled[n] = 2 * Doubled[n - 1]
      BY <1>1, <2>2
    <2> QED BY <1>2, <2>1, <2>2, <2>3
  <1>4. \E e \in 0..19 : Doubled[e] < Window /\ Doubled[e + 1] >= Window
    <2> DEFINE S == {e \in 0..20 : Doubled[e] >= Window}
    <2>1. PICK n \in S : \A m \in S : n <= m
      <3>1. (\A n \in S : n \in 0..20) /\ 20 \in S
        BY ExponentAssumption
      <3> HIDE DEF S
      <3> QED BY <3>1, FirstOf
    <2>2. n # 0
      BY <1>0, <1>1
    <2>3. n - 1 \in 0..19 /\ n - 1 \notin S
      BY <2>1, <2>2
    <2>4. Doubled[n - 1] < Window
      BY <1>0, <1>2, <2>3
    <2> QED BY <2>1, <2>3, <2>4
  <1> QED BY <1>2, <1>3, <1>4 DEF Doublings

\* The delay grows with the failures, and past the doublings that fit in a
\* window it is no shorter than one.
LEMMA DelayFacts ==
  ASSUME NEW f \in Nat, f >= Free
  PROVE  /\ DelayAfter(f) \in Nat
         /\ \A g \in Nat : g >= f => DelayAfter(f) <= DelayAfter(g)
         /\ f > Free + Doublings => DelayAfter(f) >= Window
  <1>0. Free \in Nat /\ Window \in Nat /\ MaxDelay \in Nat /\ Window <= MaxDelay
    BY ThrottleAssumption
  <1>1. ASSUME NEW g \in Nat, g >= Free
        PROVE  /\ Least(g - Free, 20) \in 0..20
               /\ Doubled[Least(g - Free, 20)] \in Nat
    BY <1>0, <1>1, DoubledFacts DEF Least
  <1>2. DelayAfter(f) \in Nat
    BY <1>0, <1>1 DEF DelayAfter, Least
  <1>3. ASSUME NEW g \in Nat, g >= f
        PROVE  DelayAfter(f) <= DelayAfter(g)
    <2>1. g >= Free /\ Least(f - Free, 20) <= Least(g - Free, 20)
      BY <1>0, <1>3 DEF Least
    <2>2. Doubled[Least(f - Free, 20)] <= Doubled[Least(g - Free, 20)]
      BY <1>1, <2>1, DoubledFacts
    <2>3. \A a, b \in Nat : a <= b => Least(a, MaxDelay) <= Least(b, MaxDelay)
      BY <1>0 DEF Least
    <2> QED BY <1>1, <2>1, <2>2, <2>3 DEF DelayAfter
  <1>4. ASSUME f > Free + Doublings
        PROVE  DelayAfter(f) >= Window
    <2>1. Doublings + 1 \in 0..20 /\ Doublings + 1 <= Least(f - Free, 20)
      BY <1>0, <1>4, DoubledFacts DEF Least
    <2>2. Doubled[Least(f - Free, 20)] >= Window
      <3>1. Doubled[Doublings + 1] <= Doubled[Least(f - Free, 20)]
        BY <1>1, <2>1, DoubledFacts
      <3>2. Doubled[Doublings + 1] \in Nat /\ Doubled[Doublings + 1] >= Window
        BY <2>1, DoubledFacts
      <3>3. Doubled[Least(f - Free, 20)] \in Nat
        BY <1>1
      <3> QED BY <1>0, <3>1, <3>2, <3>3
    <2>3. \A a \in Nat : a >= Window => Least(a, MaxDelay) >= Window
      BY <1>0 DEF Least
    <2> QED BY <1>1, <2>2, <2>3 DEF DelayAfter
  <1> QED BY <1>2, <1>3, <1>4

\* Waiting for the announced seconds is waiting long enough.
LEMMA BlockedFacts ==
  ASSUME NEW a \in Int
  PROVE  /\ BlockedFor(a).blocked \in BOOLEAN /\ BlockedFor(a).retryAfter \in Nat
         /\ BlockedFor(a).blocked <=> a > 0
         /\ a <= Second * BlockedFor(a).retryAfter
  <1>0. Second \in Nat \ {0}
    BY ThrottleAssumption
  <1>1. CASE a > 0
    <2> DEFINE n == a + Second - 1
               q == n \div Second
    <2>1. n \in Nat /\ n >= Second
      BY <1>0, <1>1
    <2>2. q \in Nat /\ n % Second \in 0..(Second - 1) /\ n = Second * q + (n % Second)
      BY <1>0, <2>1
    <2>3. Second * q >= a
      BY <1>0, <2>2
    <2>4. BlockedFor(a) = [blocked |-> TRUE, retryAfter |-> q]
      BY <1>1 DEF BlockedFor
    <2> HIDE DEF q, n
    <2> QED BY <1>1, <2>2, <2>3, <2>4
  <1>2. CASE ~ a > 0
    <2>1. BlockedFor(a) = ALLOWED
      BY <1>2 DEF BlockedFor
    <2> QED BY <1>0, <1>2, <2>1 DEF ALLOWED
  <1> QED BY <1>1, <1>2

-----------------------------------------------------------------------------
(* The window over a ledger.                                               *)

LEMMA WithinFacts ==
  ASSUME NEW ledger \in Seq(Nat), NEW w \in Nat, NEW at \in Nat
  PROVE  /\ IsFiniteSet(Within(ledger, w, at)) /\ Within(ledger, w, at) \in SUBSET (1..Len(ledger))
         /\ Cardinality(Within(ledger, w, at)) \in Nat
         /\ Cardinality(Within(ledger, w, at)) <= Len(ledger)
         /\ Cardinality(Within(ledger, w, at)) > 0 => Within(ledger, w, at) # {}
  <1>1. Within(ledger, w, at) \in SUBSET (1..Len(ledger))
    BY DEF Within
  <1>2. IsFiniteSet(1..Len(ledger)) /\ Cardinality(1..Len(ledger)) = Len(ledger)
    <2>1. 1 \in Int /\ Len(ledger) \in Nat
      OBVIOUS
    <2>2. /\ IsFiniteSet(1..Len(ledger))
          /\ Cardinality(1..Len(ledger)) = IF 1 > Len(ledger) THEN 0 ELSE Len(ledger) - 1 + 1
      <3>1. Len(ledger) \in Int
        BY <2>1
      <3> QED BY <2>1, <3>1, FS_Interval, Zenon
    <2> QED BY <2>1, <2>2
  <1>3. IsFiniteSet(Within(ledger, w, at)) /\ Cardinality(Within(ledger, w, at)) <= Len(ledger)
    BY <1>1, <1>2, FS_Subset
  <1> QED BY <1>1, <1>3, FS_CardinalityType, FS_EmptySet

\* A later, shorter window holds no more.
LEMMA WithinShrinks ==
  ASSUME NEW ledger \in Seq(Nat), NEW v \in Nat, NEW w \in Nat, NEW at \in Nat, NEW later \in Nat,
         v <= w, at <= later
  PROVE  /\ Within(ledger, v, later) \in SUBSET Within(ledger, w, at)
         /\ Cardinality(Within(ledger, v, later)) <= Cardinality(Within(ledger, w, at))
  <1>1. Within(ledger, v, later) \in SUBSET Within(ledger, w, at)
    BY DEF Within
  <1> QED BY <1>1, WithinFacts, FS_Subset

\* The latest failure of an ordered ledger is its last.
LEMMA LatestIsLast ==
  ASSUME NEW ledger \in Seq(Nat), Ordered(ledger), NEW w \in Nat, NEW at \in Nat,
         Within(ledger, w, at) # {}
  PROVE  Max(Within(ledger, w, at)) = Len(ledger) /\ Len(ledger) \in Within(ledger, w, at)
  <1>1. PICK n \in Within(ledger, w, at) : TRUE
    OBVIOUS
  <1>2. n \in 1..Len(ledger) /\ Len(ledger) \in 1..Len(ledger) /\ ledger[n] \in Nat /\ ledger[Len(ledger)] \in Nat
    BY <1>1 DEF Within
  <1>3. Len(ledger) \in Within(ledger, w, at)
    BY <1>1, <1>2 DEF Within, Ordered
  <1>4. \A m \in Within(ledger, w, at) : m \in Nat /\ m <= Len(ledger)
    BY DEF Within
  <1> QED BY <1>3, <1>4 DEF Max

\* An appended failure of this instant adds itself to the window.
LEMMA WithinAppend ==
  ASSUME NEW ledger \in Seq(Nat), NEW w \in Nat, NEW at \in Nat
  PROVE  Cardinality(Within(Append(ledger, at), w, at)) = Cardinality(Within(ledger, w, at)) + 1
  <1>1. Within(Append(ledger, at), w, at) = Within(ledger, w, at) \cup {Len(ledger) + 1}
    <2>1. Len(Append(ledger, at)) = Len(ledger) + 1
      OBVIOUS
    <2>2. \A n \in 1..Len(ledger) : Append(ledger, at)[n] = ledger[n]
      OBVIOUS
    <2>3. Append(ledger, at)[Len(ledger) + 1] = at /\ at >= at - w
      OBVIOUS
    <2> HIDE DEF Within
    <2>4. 1..(Len(ledger) + 1) = 1..Len(ledger) \cup {Len(ledger) + 1}
      OBVIOUS
    <2> QED BY <2>1, <2>2, <2>3, <2>4 DEF Within
  <1>2. Len(ledger) + 1 \notin Within(ledger, w, at)
    BY DEF Within
  <1> QED BY <1>1, <1>2, WithinFacts, FS_AddElement

LEMMA OrderedAppend ==
  ASSUME now \in Nat, NEW ledger, LedgerOK(ledger)
  PROVE  LedgerOK(Append(ledger, now))
  <1>1. /\ ledger \in Seq(Nat) /\ Len(Append(ledger, now)) = Len(ledger) + 1 /\ Append(ledger, now) \in Seq(Nat)
        /\ \A n \in 1..Len(ledger) : Append(ledger, now)[n] = ledger[n] /\ ledger[n] \in Nat /\ ledger[n] <= now
        /\ Append(ledger, now)[Len(ledger) + 1] = now
    BY DEF LedgerOK
  <1>2. \A n \in 1..(Len(ledger) + 1) : n \in 1..Len(ledger) \/ n = Len(ledger) + 1
    BY <1>1
  <1> QED BY <1>1, <1>2 DEF LedgerOK, Ordered

-----------------------------------------------------------------------------
(* What an attempt is told, at this instant or a later one.                *)

LEMMA AccountDecisionFacts ==
  ASSUME now \in Nat, LedgerOK(account), NEW at \in Nat, at >= now
  PROVE  LET count == Cardinality(Within(account, Window, at))
         IN  /\ count < Free => accountDecision(at) = ALLOWED
             /\ count >= Free =>
                  /\ account[Len(account)] \in 0..now
                  /\ accountDecision(at) = BlockedFor(account[Len(account)] + DelayAfter(count) - at)
  <1> DEFINE recent == Within(account, Window, at)
             count == Cardinality(recent)
             last == account[Len(account)]
  <1>0. Window \in Nat /\ Free \in Nat \ {0}
    BY ThrottleAssumption
  <1>1. account \in Seq(Nat) /\ Ordered(account) /\ \A n \in 1..Len(account) : account[n] \in 0..now
    BY DEF LedgerOK
  <1>2. count \in Nat
    BY <1>0, <1>1, WithinFacts
  <1>3. CASE count < Free
    BY <1>0, <1>2, <1>3 DEF accountDecision, accountThrottleDecision
  <1>4. CASE count >= Free
    <2>1. recent # {}
      <3>1. count > 0
        BY <1>0, <1>2, <1>4
      <3> QED BY <1>0, <1>1, <3>1, WithinFacts
    <2>2. Max(recent) = Len(account) /\ Len(account) \in 1..Len(account)
      BY <1>0, <1>1, <2>1, LatestIsLast, WithinFacts
    <2>3. last \in 0..now
      BY <1>1, <2>2
    <2>4. DelayAfter(count) \in Nat
      BY <1>2, <1>4, DelayFacts
    <2>5. Least(last + DelayAfter(count) - at, DelayAfter(count)) = last + DelayAfter(count) - at
      BY <2>3, <2>4 DEF Least
    <2>6. accountDecision(at) = accountThrottleDecision(count, last, at)
      BY <2>1, <2>2 DEF accountDecision
    <2> HIDE DEF recent, count, last
    <2>7. accountDecision(at) = BlockedFor(last + DelayAfter(count) - at)
      BY <1>0, <1>2, <1>4, <2>5, <2>6 DEF accountThrottleDecision
    <2> QED BY <1>0, <1>2, <1>4, <2>3, <2>7 DEF count, recent, last
  <1> QED BY <1>0, <1>2, <1>3, <1>4

LEMMA IpDecisionFacts ==
  ASSUME now \in Nat, LedgerOK(ip), NEW at \in Nat, at >= now
  PROVE  LET count == Cardinality(Within(ip, IpWindow, at))
             releasing == ip[Len(ip) - IpMax + 1]
         IN  /\ count < IpMax => ipDecision(at) = ALLOWED
             /\ count >= IpMax => releasing \in 0..now /\ ipDecision(at) = BlockedFor(releasing + IpWindow - at)
  <1> DEFINE recent == Within(ip, IpWindow, at)
             count == Cardinality(recent)
             releasing == ip[Len(ip) - IpMax + 1]
  <1>0. IpWindow \in Nat /\ IpMax \in Nat \ {0}
    BY ThrottleAssumption
  <1>1. ip \in Seq(Nat) /\ Ordered(ip) /\ \A n \in 1..Len(ip) : ip[n] \in 0..now
    BY DEF LedgerOK
  <1>2. count \in Nat /\ count <= Len(ip)
    BY <1>0, <1>1, WithinFacts
  <1>3. CASE count < IpMax
    BY <1>0, <1>2, <1>3 DEF ipDecision, ipThrottleDecision
  <1>4. CASE count >= IpMax
    <2>1. recent # {}
      <3>1. count > 0
        BY <1>0, <1>2, <1>4
      <3> QED BY <1>0, <1>1, <3>1, WithinFacts
    <2>2. Max(recent) = Len(ip)
      BY <1>0, <1>1, <2>1, LatestIsLast
    <2>3. Len(ip) - IpMax + 1 \in 1..Len(ip)
      BY <1>0, <1>1, <1>2, <1>4
    <2>4. releasing \in 0..now
      BY <1>1, <2>3
    <2>5. Least(releasing + IpWindow - at, IpWindow) = releasing + IpWindow - at
      BY <1>0, <2>4 DEF Least
    <2>6. ipDecision(at) = ipThrottleDecision(count, releasing, at)
      BY <1>4, <2>2 DEF ipDecision, Releasing
    <2> HIDE DEF recent, count, releasing
    <2>7. ipDecision(at) = BlockedFor(releasing + IpWindow - at)
      BY <1>0, <1>2, <1>4, <2>5, <2>6 DEF ipThrottleDecision
    <2> QED BY <1>0, <1>2, <1>4, <2>4, <2>7 DEF count, recent, releasing
  <1> QED BY <1>0, <1>2, <1>3, <1>4

-----------------------------------------------------------------------------
(* No refusal lasts longer than announced.                                 *)

\* What the wait outlasts now, it outlasts then: the failures in the window are
\* no more, the latest is the same, and so the delay is no longer.
LEMMA AccountWait ==
  ASSUME now \in Nat, LedgerOK(account), NEW at \in Nat, at >= now,
         accountDecision(now).blocked => at >= now + Second * accountDecision(now).retryAfter
  PROVE  ~accountDecision(at).blocked
  <1> DEFINE count(t) == Cardinality(Within(account, Window, t))
             last == account[Len(account)]
  <1>0. Window \in Nat /\ Free \in Nat \ {0} /\ Second \in Nat /\ account \in Seq(Nat)
    BY ThrottleAssumption DEF LedgerOK
  <1>1. count(now) \in Nat /\ count(at) \in Nat /\ count(at) <= count(now)
    <2>1. now <= at /\ Window <= Window
      BY <1>0
    <2> QED BY <1>0, <2>1, WithinFacts, WithinShrinks
  <1>2. /\ count(at) < Free => accountDecision(at) = ALLOWED
        /\ count(at) >= Free => accountDecision(at) = BlockedFor(last + DelayAfter(count(at)) - at)
    BY AccountDecisionFacts
  <1>3. count(now) >= Free => last \in 0..now /\ accountDecision(now) = BlockedFor(last + DelayAfter(count(now)) - now)
    BY AccountDecisionFacts
  <1> HIDE DEF count, last
  <1>4. CASE count(at) < Free
    BY <1>2, <1>4 DEF ALLOWED
  <1>5. CASE count(at) >= Free
    <2>1. count(now) >= Free
      BY <1>0, <1>1, <1>5
    <2>2. DelayAfter(count(at)) \in Nat /\ DelayAfter(count(now)) \in Nat /\ DelayAfter(count(at)) <= DelayAfter(count(now))
      BY <1>1, <1>5, <2>1, DelayFacts
    <2> DEFINE rest == last + DelayAfter(count(now)) - now
    <2>3. rest \in Int /\ last \in 0..now
      BY <1>3, <2>1, <2>2
    <2>4. at >= now + rest
      <3>1. /\ accountDecision(now).blocked <=> rest > 0
            /\ rest <= Second * accountDecision(now).retryAfter /\ accountDecision(now).retryAfter \in Nat
        <4> HIDE DEF rest
        <4> QED BY <1>3, <2>1, <2>3, BlockedFacts DEF rest
      <3>2. Second * accountDecision(now).retryAfter \in Nat
        BY <1>0, <3>1
      <3> HIDE DEF rest
      <3>3. CASE rest > 0
        BY <2>3, <3>1, <3>2, <3>3
      <3>4. CASE ~ rest > 0
        BY <2>3, <3>4
      <3> QED BY <3>3, <3>4
    <2>5. last + DelayAfter(count(at)) - at \in Int /\ ~ last + DelayAfter(count(at)) - at > 0
      BY <2>2, <2>3, <2>4
    <2> QED BY <1>2, <1>5, <2>5, BlockedFacts
  <1> QED BY <1>0, <1>1, <1>4, <1>5

LEMMA IpWait ==
  ASSUME now \in Nat, LedgerOK(ip), NEW at \in Nat, at >= now,
         ipDecision(now).blocked => at >= now + Second * ipDecision(now).retryAfter
  PROVE  ~ipDecision(at).blocked
  <1> DEFINE count(t) == Cardinality(Within(ip, IpWindow, t))
             releasing == ip[Len(ip) - IpMax + 1]
  <1>0. IpWindow \in Nat /\ IpMax \in Nat /\ Second \in Nat /\ ip \in Seq(Nat)
    BY ThrottleAssumption DEF LedgerOK
  <1>1. count(now) \in Nat /\ count(at) \in Nat /\ count(at) <= count(now)
    <2>1. now <= at /\ IpWindow <= IpWindow
      BY <1>0
    <2> QED BY <1>0, <2>1, WithinFacts, WithinShrinks
  <1>2. /\ count(at) < IpMax => ipDecision(at) = ALLOWED
        /\ count(at) >= IpMax => ipDecision(at) = BlockedFor(releasing + IpWindow - at)
    BY IpDecisionFacts
  <1>3. count(now) >= IpMax => releasing \in 0..now /\ ipDecision(now) = BlockedFor(releasing + IpWindow - now)
    BY IpDecisionFacts
  <1> HIDE DEF count, releasing
  <1>4. CASE count(at) < IpMax
    BY <1>2, <1>4 DEF ALLOWED
  <1>5. CASE count(at) >= IpMax
    <2>1. count(now) >= IpMax
      BY <1>0, <1>1, <1>5
    <2> DEFINE rest == releasing + IpWindow - now
    <2>2. rest \in Int /\ releasing \in 0..now
      BY <1>0, <1>3, <2>1
    <2>3. at >= now + rest
      <3>1. /\ ipDecision(now).blocked <=> rest > 0
            /\ rest <= Second * ipDecision(now).retryAfter /\ ipDecision(now).retryAfter \in Nat
        <4> HIDE DEF rest
        <4> QED BY <1>3, <2>1, <2>2, BlockedFacts DEF rest
      <3>2. Second * ipDecision(now).retryAfter \in Nat
        BY <1>0, <3>1
      <3> HIDE DEF rest
      <3>3. CASE rest > 0
        BY <2>2, <3>1, <3>2, <3>3
      <3>4. CASE ~ rest > 0
        BY <2>2, <3>4
      <3> QED BY <3>3, <3>4
    <2>4. releasing + IpWindow - at \in Int /\ ~ releasing + IpWindow - at > 0
      BY <1>0, <2>2, <2>3
    <2> QED BY <1>2, <1>5, <2>4, BlockedFacts
  <1> QED BY <1>0, <1>1, <1>4, <1>5

LEMMA DecisionTypes ==
  ASSUME now \in Nat, LedgerOK(account), LedgerOK(ip), NEW at \in Nat, at >= now
  PROVE  /\ accountDecision(at).blocked \in BOOLEAN /\ accountDecision(at).retryAfter \in Nat
         /\ ipDecision(at).blocked \in BOOLEAN /\ ipDecision(at).retryAfter \in Nat
  <1>0. /\ Window \in Nat /\ IpWindow \in Nat /\ Free \in Nat /\ IpMax \in Nat
        /\ account \in Seq(Nat) /\ ip \in Seq(Nat)
    BY ThrottleAssumption DEF LedgerOK
  <1>1. accountDecision(at).blocked \in BOOLEAN /\ accountDecision(at).retryAfter \in Nat
    <2> DEFINE count == Cardinality(Within(account, Window, at))
    <2>1. count \in Nat
      BY <1>0, WithinFacts
    <2>2. CASE count < Free
      <3>1. accountDecision(at) = ALLOWED
        BY <2>2, AccountDecisionFacts
      <3> QED BY <3>1 DEF ALLOWED
    <2>3. CASE count >= Free
      <3>1. account[Len(account)] + DelayAfter(count) - at \in Int
        BY <2>1, <2>3, AccountDecisionFacts, DelayFacts
      <3> QED BY <2>3, <3>1, AccountDecisionFacts, BlockedFacts
    <2> QED BY <1>0, <2>1, <2>2, <2>3
  <1>2. ipDecision(at).blocked \in BOOLEAN /\ ipDecision(at).retryAfter \in Nat
    <2> DEFINE count == Cardinality(Within(ip, IpWindow, at))
    <2>1. count \in Nat
      BY <1>0, WithinFacts
    <2>2. CASE count < IpMax
      <3>1. ipDecision(at) = ALLOWED
        BY <2>2, IpDecisionFacts
      <3> QED BY <3>1 DEF ALLOWED
    <2>3. CASE count >= IpMax
      <3>1. ip[Len(ip) - IpMax + 1] + IpWindow - at \in Int
        BY <1>0, <2>3, IpDecisionFacts
      <3> QED BY <2>3, <3>1, IpDecisionFacts, BlockedFacts
    <2> QED BY <1>0, <2>1, <2>2, <2>3
  <1> QED BY <1>1, <1>2

\* The combined answer blocks as soon as one scope does, for as long as the
\* longer of the two.
LEMMA CombinedFacts ==
  ASSUME NEW a, NEW b, a.blocked \in BOOLEAN, b.blocked \in BOOLEAN, a.retryAfter \in Nat, b.retryAfter \in Nat
  PROVE  LET c == combineThrottleDecisions(a, b)
         IN  /\ c.blocked <=> a.blocked \/ b.blocked
             /\ c.retryAfter \in Nat
             /\ a.blocked => c.retryAfter >= a.retryAfter
             /\ b.blocked => c.retryAfter >= b.retryAfter
  BY DEF combineThrottleDecisions

LEMMA WaitingIsEnough ==
  ASSUME ThrottleInv
  PROVE  WaitingSuffices
  <1> SUFFICES ASSUME NEW k \in Kinds, checkRecoveryThrottle(k, now).blocked
               PROVE  ~checkRecoveryThrottle(k, now + Second * checkRecoveryThrottle(k, now).retryAfter).blocked
    BY DEF WaitingSuffices
  <1> DEFINE a(t) == IF k \in OfAccount THEN accountDecision(t) ELSE ALLOWED
             b(t) == IF k \in OfAddress THEN ipDecision(t) ELSE ALLOWED
             c(t) == checkRecoveryThrottle(k, t)
             at == now + Second * c(now).retryAfter
  <1>0. now \in Nat /\ LedgerOK(account) /\ LedgerOK(ip) /\ Second \in Nat
    BY ThrottleAssumption DEF ThrottleInv
  <1>1. ASSUME NEW t \in Nat, t >= now
        PROVE  /\ a(t).blocked \in BOOLEAN /\ a(t).retryAfter \in Nat
               /\ b(t).blocked \in BOOLEAN /\ b(t).retryAfter \in Nat
    BY <1>0, <1>1, DecisionTypes DEF ALLOWED
  <1>2. \A t : c(t) = combineThrottleDecisions(a(t), b(t))
    BY DEF checkRecoveryThrottle
  <1>3. /\ c(now).retryAfter \in Nat
        /\ a(now).blocked => c(now).retryAfter >= a(now).retryAfter
        /\ b(now).blocked => c(now).retryAfter >= b(now).retryAfter
    <2> HIDE DEF a, b, c
    <2> QED BY <1>0, <1>1, <1>2, CombinedFacts
  <1>4. \A m, n \in Nat : m <= n => Second * m \in Nat /\ Second * n \in Nat /\ Second * m <= Second * n
    BY <1>0
  <1>5. at \in Nat /\ at >= now
    <2> HIDE DEF c
    <2> QED BY <1>0, <1>3, <1>4
  <1>6. ~a(at).blocked
    <2>1. CASE k \in OfAccount
      <3>1. accountDecision(now).blocked => at >= now + Second * accountDecision(now).retryAfter
        <4>1. a(now) = accountDecision(now)
          BY <2>1
        <4> HIDE DEF a, c
        <4> QED BY <1>0, <1>1, <1>3, <1>4, <4>1
      <3> HIDE DEF at
      <3> QED BY <1>0, <1>5, <2>1, <3>1, AccountWait
    <2>2. CASE k \notin OfAccount
      BY <2>2 DEF ALLOWED
    <2> QED BY <2>1, <2>2
  <1>7. ~b(at).blocked
    <2>1. CASE k \in OfAddress
      <3>1. ipDecision(now).blocked => at >= now + Second * ipDecision(now).retryAfter
        <4>1. b(now) = ipDecision(now)
          BY <2>1
        <4> HIDE DEF b, c
        <4> QED BY <1>0, <1>1, <1>3, <1>4, <4>1
      <3> HIDE DEF at
      <3> QED BY <1>0, <1>5, <2>1, <3>1, IpWait
    <2>2. CASE k \notin OfAddress
      BY <2>2 DEF ALLOWED
    <2> QED BY <2>1, <2>2
  <1>8. ~c(at).blocked
    <2> HIDE DEF a, b, c, at
    <2> QED BY <1>1, <1>2, <1>5, <1>6, <1>7, CombinedFacts
  <1> QED BY <1>8

-----------------------------------------------------------------------------
(* The budget.                                                             *)

LEMMA BudgetConstants ==
  Free \in Nat /\ Overlap \in Nat /\ Window \in Nat /\ Window - 1 \in Nat /\ Doublings \in Nat
  <1>1. Free \in Nat /\ Overlap \in Nat /\ Window \in Nat \ {0}
    BY ThrottleAssumption
  <1>2. Window - 1 \in Nat
    BY <1>1
  <1> QED BY <1>1, <1>2, DoubledFacts

LEMMA LedgerFacts ==
  ASSUME ThrottleInv
  PROVE  /\ now \in Nat /\ LedgerOK(account) /\ LedgerOK(ip)
         /\ account \in Seq(Nat) /\ Ordered(account)
  BY DEF ThrottleInv, LedgerOK

\* Past the budget without the handlers under way, the check refuses.
LEMMA CheckBounds ==
  ASSUME ThrottleInv, NEW k \in OfAccount, ~checkRecoveryThrottle(k, now).blocked
  PROVE  Cardinality(Within(account, Window - 1, now)) <= Free + Doublings
  <1> DEFINE inner == Within(account, Window - 1, now)
             count == Cardinality(Within(account, Window, now))
             last == account[Len(account)]
  <1>0. /\ Free \in Nat /\ Window \in Nat /\ Window - 1 \in Nat /\ Doublings \in Nat
        /\ now \in Nat /\ LedgerOK(account) /\ LedgerOK(ip)
        /\ account \in Seq(Nat) /\ Ordered(account)
    BY BudgetConstants, LedgerFacts
  <1>1. ~accountDecision(now).blocked
    <2>1. /\ accountDecision(now).blocked \in BOOLEAN /\ accountDecision(now).retryAfter \in Nat
          /\ ipDecision(now).blocked \in BOOLEAN /\ ipDecision(now).retryAfter \in Nat
      BY <1>0, DecisionTypes
    <2>2. ALLOWED.blocked \in BOOLEAN /\ ALLOWED.retryAfter \in Nat
      BY DEF ALLOWED
    <2>3. PICK b \in {ipDecision(now), ALLOWED} :
            checkRecoveryThrottle(k, now) = combineThrottleDecisions(accountDecision(now), b)
      BY DEF checkRecoveryThrottle
    <2> QED BY <2>1, <2>2, <2>3, CombinedFacts
  <1>2. count \in Nat /\ Cardinality(inner) \in Nat /\ Cardinality(inner) <= count
    <2>1. Window - 1 <= Window /\ now <= now
      BY <1>0
    <2> QED BY <1>0, <2>1, WithinFacts, WithinShrinks
  <1> SUFFICES ASSUME Cardinality(inner) > Free + Doublings
               PROVE  FALSE
    BY <1>0, <1>2
  <1>3. count > Free + Doublings /\ count >= Free
    BY <1>0, <1>2
  <1>4. DelayAfter(count) \in Nat /\ DelayAfter(count) >= Window
    BY <1>2, <1>3, DelayFacts
  <1>5. last \in 0..now /\ last >= now - (Window - 1)
    <2>1. inner # {}
      <3>1. Cardinality(inner) > 0
        <4> HIDE DEF inner
        <4> QED BY <1>0, <1>2
      <3> QED BY <1>0, <3>1, WithinFacts
    <2>2. Len(account) \in inner
      BY <1>0, <2>1, LatestIsLast
    <2> QED BY <1>0, <2>2 DEF Within, LedgerOK
  <1>6. accountDecision(now) = BlockedFor(last + DelayAfter(count) - now)
    BY <1>0, <1>3, AccountDecisionFacts
  <1>7. last + DelayAfter(count) - now \in Int /\ last + DelayAfter(count) - now > 0
    <2> HIDE DEF last, count
    <2> QED BY <1>0, <1>4, <1>5
  <1>8. accountDecision(now).blocked
    <2> HIDE DEF last, count
    <2> QED BY <1>6, <1>7, BlockedFacts
  <1> QED BY <1>1, <1>8

LEMMA KindFacts ==
  /\ Kinds = {"both", "elsewhere", "neighbour"}
  /\ OfAccount = {"both", "elsewhere"} /\ OfAddress = {"both", "neighbour"}
  BY DEF Kinds, OfAccount, OfAddress

LEMMA ThrottleStart ==
  ASSUME ThrottleInit PROVE ThrottleInv
  <1>1. Free \in Nat /\ Overlap \in Nat /\ Window - 1 \in Nat /\ Doublings \in Nat
    BY BudgetConstants
  <1>2. LedgerOK(account) /\ LedgerOK(ip)
    BY DEF ThrottleInit, LedgerOK, Ordered
  <1>3. Cardinality(Within(account, Window - 1, now)) = 0
    <2>1. Within(account, Window - 1, now) = {}
      BY DEF ThrottleInit, Within
    <2> QED BY <2>1, FS_EmptySet
  <1> QED BY <1>1, <1>2, <1>3, KindFacts DEF ThrottleInit, ThrottleInv

LEMMA ThrottleTick ==
  ASSUME ThrottleInv, Tick PROVE ThrottleInv'
  <1>1. /\ Free \in Nat /\ Overlap \in Nat /\ Window - 1 \in Nat /\ Doublings \in Nat
        /\ now \in Nat /\ now' = now + 1 /\ account \in Seq(Nat)
    BY BudgetConstants, LedgerFacts DEF Tick
  <1>2. LedgerOK(account)' /\ LedgerOK(ip)'
    <2>1. ASSUME NEW ledger, LedgerOK(ledger), NEW n \in 1..Len(ledger) PROVE ledger[n] <= now + 1
      BY <1>1, <2>1 DEF LedgerOK
    <2>2. account' = account /\ ip' = ip /\ LedgerOK(account) /\ LedgerOK(ip)
      BY LedgerFacts DEF Tick
    <2> QED BY <1>1, <2>1, <2>2 DEF LedgerOK, Ordered
  <1>3. /\ Cardinality(Within(account, Window - 1, now + 1)) \in Nat /\ Cardinality(Within(account, Window - 1, now)) \in Nat
        /\ Cardinality(Within(account, Window - 1, now + 1)) <= Cardinality(Within(account, Window - 1, now))
    <2>1. now <= now + 1 /\ Window - 1 <= Window - 1 /\ now + 1 \in Nat
      BY <1>1
    <2> QED BY <1>1, <2>1, WithinFacts, WithinShrinks
  <1>4. Within(account, Window - 1, now)' = Within(account, Window - 1, now + 1)
    BY DEF Within, Tick
  <1>5. checked \in [Kinds -> Nat] /\ checked' = checked /\ checked["both"] \in Nat /\ checked["elsewhere"] \in Nat
    BY KindFacts DEF ThrottleInv, Tick
  <1> QED BY <1>1, <1>2, <1>3, <1>4, <1>5, SMTT(30) DEF ThrottleInv

LEMMA ThrottleEnforce ==
  ASSUME ThrottleInv, NEW k \in Kinds, EnforceThrottle(k) PROVE ThrottleInv'
  <1> DEFINE n == Cardinality(Within(account, Window - 1, now))
  <1>1. /\ Free \in Nat /\ Overlap \in Nat /\ Window - 1 \in Nat /\ Doublings \in Nat
        /\ now \in Nat /\ account \in Seq(Nat)
    BY BudgetConstants, LedgerFacts
  <1>2. n \in Nat
    BY <1>1, WithinFacts
  <1>3. /\ checked \in [Kinds -> Nat] /\ checked' \in [Kinds -> Nat]
        /\ \A q \in Kinds : checked[q] \in Nat /\ checked'[q] = IF q = k THEN checked[q] + 1 ELSE checked[q]
    BY DEF ThrottleInv, EnforceThrottle
  <1>4. checked'["both"] + checked'["elsewhere"] + checked'["neighbour"] <= Overlap
    BY <1>1, <1>3, KindFacts DEF EnforceThrottle
  <1>5. n + checked'["both"] + checked'["elsewhere"] <= Free + Doublings + Overlap
    <2>1. CASE k \in OfAccount
      <3>1. n <= Free + Doublings
        BY <2>1, CheckBounds DEF EnforceThrottle
      <3> HIDE DEF n
      <3> QED BY <1>1, <1>2, <1>3, <1>4, <3>1, KindFacts
    <2>2. CASE k \notin OfAccount
      <3>1. checked'["both"] = checked["both"] /\ checked'["elsewhere"] = checked["elsewhere"]
        BY <1>3, <2>2, KindFacts
      <3> QED BY <3>1 DEF ThrottleInv
    <2> QED BY <2>1, <2>2
  <1>6. LedgerOK(account)' /\ LedgerOK(ip)' /\ now' = now /\ Within(account, Window - 1, now)' = Within(account, Window - 1, now)
    BY DEF ThrottleInv, LedgerOK, Ordered, Within, EnforceThrottle
  <1> QED BY <1>1, <1>3, <1>4, <1>5, <1>6 DEF ThrottleInv

LEMMA ThrottleNotRecorded ==
  ASSUME ThrottleInv, NEW k \in Kinds, NotRecorded(k) PROVE ThrottleInv'
  <1> DEFINE n == Cardinality(Within(account, Window - 1, now))
  <1>1. /\ Free \in Nat /\ Overlap \in Nat /\ Window - 1 \in Nat /\ Doublings \in Nat
        /\ now \in Nat /\ account \in Seq(Nat)
    BY BudgetConstants, LedgerFacts
  <1>2. n \in Nat
    BY <1>1, WithinFacts
  <1>3. /\ checked \in [Kinds -> Nat] /\ checked' \in [Kinds -> Nat]
        /\ \A q \in Kinds : checked[q] \in Nat /\ checked'[q] \in Nat /\ checked'[q] <= checked[q]
    BY DEF ThrottleInv, NotRecorded
  <1>4. /\ checked'["both"] + checked'["elsewhere"] + checked'["neighbour"] <= Overlap
        /\ n + checked'["both"] + checked'["elsewhere"] <= Free + Doublings + Overlap
    <2> HIDE DEF n
    <2>1. /\ checked["both"] + checked["elsewhere"] + checked["neighbour"] <= Overlap
          /\ n + checked["both"] + checked["elsewhere"] <= Free + Doublings + Overlap
      BY DEF ThrottleInv, n
    <2> QED BY <1>1, <1>2, <1>3, <2>1, KindFacts, SMTT(30)
  <1>5. LedgerOK(account)' /\ LedgerOK(ip)' /\ now' = now /\ Within(account, Window - 1, now)' = Within(account, Window - 1, now)
    BY DEF ThrottleInv, LedgerOK, Ordered, Within, NotRecorded
  <1> QED BY <1>1, <1>3, <1>4, <1>5 DEF ThrottleInv

LEMMA ThrottleRecord ==
  ASSUME ThrottleInv, NEW k \in Kinds, RecordFailure(k) PROVE ThrottleInv'
  <1> DEFINE n == Cardinality(Within(account, Window - 1, now))
             m == Cardinality(Within(account', Window - 1, now))
  <1>1. /\ Free \in Nat /\ Overlap \in Nat /\ Window - 1 \in Nat /\ Doublings \in Nat
        /\ now \in Nat /\ now' = now /\ account \in Seq(Nat) /\ LedgerOK(account) /\ LedgerOK(ip)
    BY BudgetConstants, LedgerFacts DEF RecordFailure
  <1>2. n \in Nat
    BY <1>1, WithinFacts
  <1>3. m = IF k \in OfAccount THEN n + 1 ELSE n
    BY <1>1, WithinAppend DEF RecordFailure
  <1>4. /\ checked \in [Kinds -> Nat] /\ checked' \in [Kinds -> Nat]
        /\ \A q \in Kinds : checked[q] \in Nat /\ checked'[q] = IF q = k THEN checked[q] - 1 ELSE checked[q]
    BY DEF ThrottleInv, RecordFailure
  <1>5. /\ checked'["both"] + checked'["elsewhere"] + checked'["neighbour"] <= Overlap
        /\ m + checked'["both"] + checked'["elsewhere"] <= Free + Doublings + Overlap
    <2> HIDE DEF n, m
    <2>1. /\ checked["both"] + checked["elsewhere"] + checked["neighbour"] <= Overlap
          /\ n + checked["both"] + checked["elsewhere"] <= Free + Doublings + Overlap
      BY DEF ThrottleInv, n
    <2>2. checked["both"] \in Nat /\ checked["elsewhere"] \in Nat /\ checked["neighbour"] \in Nat
      BY <1>4, KindFacts
    <2>3. CASE k = "both"
      BY <1>1, <1>2, <1>3, <1>4, <2>1, <2>2, <2>3, KindFacts, SMTT(30)
    <2>4. CASE k = "elsewhere"
      BY <1>1, <1>2, <1>3, <1>4, <2>1, <2>2, <2>4, KindFacts, SMTT(30)
    <2>5. CASE k = "neighbour"
      BY <1>1, <1>2, <1>3, <1>4, <2>1, <2>2, <2>5, KindFacts
    <2> QED BY <2>3, <2>4, <2>5, KindFacts
  <1>6. LedgerOK(account)' /\ LedgerOK(ip)'
    <2>1. LedgerOK(Append(account, now)) /\ LedgerOK(Append(ip, now))
      BY <1>1, OrderedAppend
    <2> QED BY <1>1, <2>1 DEF RecordFailure, LedgerOK, Ordered
  <1>7. Within(account, Window - 1, now)' = Within(account', Window - 1, now)
    BY <1>1 DEF Within
  <1> QED BY <1>1, <1>4, <1>5, <1>6, <1>7 DEF ThrottleInv

\* The ledgers are ordered, and the failures of the last window and the
\* handlers that may still add one stay within the budget.
THEOREM ThrottleInvariant == ThrottleSpec => []ThrottleInv
  <1>1. ThrottleInit => ThrottleInv
    BY ThrottleStart
  <1>2. ThrottleInv /\ [ThrottleNext]_throttleVars => ThrottleInv'
    <2> SUFFICES ASSUME ThrottleInv, [ThrottleNext]_throttleVars
                 PROVE  ThrottleInv'
      OBVIOUS
    <2>1. CASE UNCHANGED throttleVars
      BY <2>1 DEF throttleVars, ThrottleInv, LedgerOK, Ordered, Within
    <2>2. CASE ThrottleNext
      BY <2>2, ThrottleTick, ThrottleEnforce, ThrottleNotRecorded, ThrottleRecord DEF ThrottleNext
    <2> QED BY <2>1, <2>2
  <1> QED BY <1>1, <1>2, PTL DEF ThrottleSpec

\* The budget of AttemptBudget: less than a window's time sees at most the free
\* failures, the doublings of the delay and the handlers under way.
THEOREM GuessingBounded == ThrottleSpec => []AttemptBudget
  <1>1. ThrottleInv => AttemptBudget
    <2> SUFFICES ASSUME ThrottleInv PROVE AttemptBudget
      OBVIOUS
    <2> DEFINE n == Cardinality(Within(account, Window - 1, now))
    <2>1. /\ Free \in Nat /\ Overlap \in Nat /\ Window - 1 \in Nat /\ Doublings \in Nat
          /\ now \in Nat /\ account \in Seq(Nat)
      BY BudgetConstants, LedgerFacts
    <2>2. n \in Nat
      BY <2>1, WithinFacts
    <2>3. checked["both"] \in Nat /\ checked["elsewhere"] \in Nat
      BY KindFacts DEF ThrottleInv
    <2>4. n + checked["both"] + checked["elsewhere"] <= Free + Doublings + Overlap
      BY DEF ThrottleInv
    <2> HIDE DEF n
    <2>5. n <= Free + Doublings + Overlap
      BY <2>1, <2>2, <2>3, <2>4
    <2> QED BY <2>5 DEF n, AttemptBudget
  <1> QED BY <1>1, ThrottleInvariant, PTL

\* No lockout: after the announced wait without further failures both scopes
\* let the attempt in, whatever the ledgers hold.
THEOREM NoLockout == ThrottleSpec => []WaitingSuffices
  <1>1. ThrottleInv => WaitingSuffices
    BY WaitingIsEnough
  <1> QED BY <1>1, ThrottleInvariant, PTL

===============================================================================
