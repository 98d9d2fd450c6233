-------------------------- MODULE GroupRoster_proofs --------------------------
(***************************************************************************)
(* The roster's safety for any accounts, invites, lifetimes and bounds,    *)
(* and with it that of the group's state, whose steps are roster steps.    *)
(*                                                                         *)
(* Every step changes a row in one of six ways (RowMove), each with its    *)
(* justification; the row invariants and the ban on resurrection follow    *)
(* from the moves alone. What remains, per action, is that its deposits    *)
(* are true (WireIsTrue).                                                  *)
(***************************************************************************)
EXTENDS GroupState, TLAPS

-----------------------------------------------------------------------------
(* Rows.                                                                   *)

Proofs == {"none", "signed"}

\* ensureMembership makes a row or adds a proof; it changes nothing else.
LEMMA EnsuredRow ==
  ASSUME NEW r \in Row, NEW role \in Roles, NEW p \in Proofs
  PROVE  /\ Ensured(r, role, p) \in Row
         /\ Ensured(r, role, p).state = IF r.state = "none" THEN "active" ELSE r.state
         /\ Ensured(r, role, p).role = IF r.state = "none" THEN role ELSE r.role
         /\ Ensured(r, role, p).proof = IF r.state = "none" \/ r.proof = "none" THEN p ELSE r.proof
  BY DEF Ensured, Row, Roles, Proofs

\* reviveMembership ends a removal and takes a role away; a proof stays.
LEMMA RevivedRow ==
  ASSUME NEW r \in Row, NEW p \in Proofs
  PROVE  /\ Revived(r, p) \in Row
         /\ Revived(r, p).state = IF r.state = "removed" THEN "active" ELSE r.state
         /\ Revived(r, p).role = IF r.state = "removed" THEN "member" ELSE r.role
         /\ Revived(r, p).proof =
              IF r.state = "removed" /\ p = "signed" THEN "signed" ELSE r.proof
  BY DEF Revived, Row, Roles, Proofs

\* removeMember keeps role and proof, and removes only a row there is.
LEMMA RemovedRow ==
  ASSUME NEW r \in Row, NEW t \in Nat
  PROVE  /\ Removed(r, t) \in Row
         /\ Removed(r, t).state = IF r.state = "none" THEN "none" ELSE "removed"
         /\ Removed(r, t).role = r.role
         /\ Removed(r, t).proof = r.proof
         /\ r.state = "none" => Removed(r, t) = r
  BY DEF Removed, Row

\* setMemberRole keeps state and proof.
LEMMA RoledRow ==
  ASSUME NEW r \in Row, NEW role \in Roles, NEW t \in Nat
  PROVE  /\ WithRole(r, role, t) \in Row
         /\ WithRole(r, role, t).state = r.state
         /\ WithRole(r, role, t).role \in {role, r.role}
         /\ WithRole(r, role, t).proof = r.proof
         /\ r.state = "none" => WithRole(r, role, t) = r
  BY DEF WithRole, Row, Roles

\* A join leaves an active or a kept row, signed, and never an admin by itself.
LEMMA JoinedRowFacts ==
  ASSUME NEW r \in Row
  PROVE  /\ JoinedRow(r) \in Row
         /\ JoinedRow(r).state = "active"
         /\ JoinedRow(r).role \in {"member", r.role}
         /\ JoinedRow(r).proof = "signed"
  <1> DEFINE v == Revived(r, "signed")
  <1>1. /\ v \in Row
        /\ v.state = IF r.state = "removed" THEN "active" ELSE r.state
        /\ v.role = IF r.state = "removed" THEN "member" ELSE r.role
    BY RevivedRow DEF Proofs
  <1>2. /\ Ensured(v, "member", "signed") \in Row
        /\ Ensured(v, "member", "signed").state = IF v.state = "none" THEN "active" ELSE v.state
        /\ Ensured(v, "member", "signed").role = IF v.state = "none" THEN "member" ELSE v.role
        /\ Ensured(v, "member", "signed").proof =
             IF v.state = "none" \/ v.proof = "none" THEN "signed" ELSE v.proof
    <2> HIDE DEF v
    <2> QED BY <1>1, EnsuredRow DEF Proofs, Roles
  <1>3. r.state \in {"none", "active", "removed"} /\ v.proof \in {"none", "signed"}
    BY <1>1 DEF Row
  <1> HIDE DEF v
  <1>4. JoinedRow(r) = Ensured(v, "member", "signed")
    BY DEF JoinedRow, v
  <1> QED BY <1>1, <1>2, <1>3, <1>4

\* The node's own row on entering a group.
Entered(r, p) == Ensured(Revived(Ensured(r, "member", "none"), "none"), "member", p)

\* Entering makes the node's own row active and keeps its proof.
LEMMA EnteredRow ==
  ASSUME NEW r \in Row, NEW p \in Proofs
  PROVE  /\ Entered(r, p) \in Row
         /\ Entered(r, p).state = "active"
         /\ Entered(r, p).role \in {"member", r.role}
         /\ r.state # "none" /\ r.proof = "signed" => Entered(r, p).proof = "signed"
         /\ p = "signed" => Entered(r, p).proof = "signed"
  <1> DEFINE e == Ensured(r, "member", "none")
             v == Revived(e, "none")
  <1>1. /\ e \in Row
        /\ e.state = IF r.state = "none" THEN "active" ELSE r.state
        /\ e.role = IF r.state = "none" THEN "member" ELSE r.role
        /\ e.proof = IF r.state = "none" \/ r.proof = "none" THEN "none" ELSE r.proof
    BY EnsuredRow DEF Proofs, Roles
  <1> HIDE DEF e
  <1>2. /\ v \in Row
        /\ v.state = IF e.state = "removed" THEN "active" ELSE e.state
        /\ v.role = IF e.state = "removed" THEN "member" ELSE e.role
        /\ v.proof = IF e.state = "removed" /\ "none" = "signed" THEN "signed" ELSE e.proof
    BY <1>1, RevivedRow DEF Proofs
  <1> HIDE DEF v
  <1>3. /\ Ensured(v, "member", p) \in Row
        /\ Ensured(v, "member", p).state = IF v.state = "none" THEN "active" ELSE v.state
        /\ Ensured(v, "member", p).role = IF v.state = "none" THEN "member" ELSE v.role
        /\ Ensured(v, "member", p).proof = IF v.state = "none" \/ v.proof = "none" THEN p ELSE v.proof
    BY <1>2, EnsuredRow DEF Proofs, Roles
  <1>4. Entered(r, p) = Ensured(v, "member", p)
    BY DEF Entered, v, e
  <1>5. /\ r.state \in {"none", "active", "removed"}
        /\ r.proof \in {"none", "signed"} /\ v.proof \in {"none", "signed"}
    BY <1>2 DEF Row
  <1> QED BY <1>1, <1>2, <1>3, <1>4, <1>5

-----------------------------------------------------------------------------
(* Moves: the ways a step may change a row.                                *)

ByRemoval(n, a) ==
  /\ a = Creator => Creator \in leavers'
  /\ \E t \in Nat : rows'[n][a] = Removed(rows[n][a], t)

ByRole(n, a) ==
  \E role \in {"member", "admin"}, t \in Nat :
    /\ rows'[n][a] = WithRole(rows[n][a], role, t)
    /\ role = "admin" => a \in granted'

ByJoin(n, a) ==
  /\ n # a /\ Consents(a)
  /\ rows'[n][a] = JoinedRow(rows[n][a])
  /\ rows[n][a].state = "removed" => NewInvite(n, a)

ByWord(n, a) ==
  \/ Consents(a) /\ rows'[n][a] = Ensured(rows[n][a], "member", "signed")
  \/ /\ a = Creator \/ HasInvited(a)
     /\ rows'[n][a] = Ensured(rows[n][a], "member", "none")

ByEntry(n, a) ==
  /\ n = a
  /\ \E p \in Proofs : \/ rows'[n][n] = Entered(rows[n][n], p)
                        \/ rows'[n][n] = Ensured(rows[n][n], "member", p)

RowMove(n, a) ==
  \/ rows'[n][a] = rows[n][a]
  \/ ByRemoval(n, a) \/ ByRole(n, a) \/ ByJoin(n, a)
  \/ ByWord(n, a) \/ ByEntry(n, a)

\* What a step may do to the rosters and to what they rest on.
Moves ==
  /\ \A n, a \in Accounts : RowMove(n, a)
  /\ \A a \in Accounts : HasInvited(a) => HasInvited(a)'
  /\ leavers \subseteq leavers' /\ granted \subseteq granted'

\* The row invariants.
RowsFine ==
  /\ rows \in [Accounts -> [Accounts -> Row]]
  /\ RosterIsConsented /\ CreatorStays /\ AdminsAreGranted /\ BlankRows
  /\ rows[Creator][Creator].state # "none"

\* A move keeps a row typed, its proof, and its being there.
LEMMA MovedRow ==
  ASSUME RowsFine, Moves, NEW n \in Accounts, NEW a \in Accounts
  PROVE  /\ rows'[n][a] \in Row
         /\ rows[n][a].proof = "signed" => rows'[n][a].proof = "signed"
         /\ rows[n][a].state # "none" => rows'[n][a].state # "none"
         /\ rows'[n][a].state = "none" => rows'[n][a] = rows[n][a]
  <1>1. rows[n][a] \in Row /\ (rows[n][a].proof = "signed" => rows[n][a].state # "none")
    BY DEF RowsFine, BlankRows, NoRow
  <1>2. RowMove(n, a)
    BY DEF Moves
  <1>3. CASE rows'[n][a] = rows[n][a]
    BY <1>1, <1>3
  <1>4. CASE ByRemoval(n, a)
    BY <1>1, <1>4, RemovedRow DEF ByRemoval
  <1>5. CASE ByRole(n, a)
    <2>1. PICK role \in Roles, t \in Nat : rows'[n][a] = WithRole(rows[n][a], role, t)
      BY <1>5 DEF ByRole, Roles
    <2> QED BY <1>1, <2>1, RoledRow
  <1>6. CASE ByJoin(n, a)
    BY <1>1, <1>6, JoinedRowFacts DEF ByJoin
  <1>7. CASE ByWord(n, a)
    BY <1>1, <1>7, EnsuredRow DEF ByWord, Roles, Proofs
  <1>8. CASE ByEntry(n, a)
    BY <1>1, <1>8, EnteredRow, EnsuredRow DEF ByEntry, Roles, Proofs
  <1> QED BY <1>2, <1>3, <1>4, <1>5, <1>6, <1>7, <1>8 DEF RowMove

\* A consent, once given, stands.
LEMMA ConsentStands ==
  ASSUME RowsFine, Moves, NEW a \in Accounts, Consents(a)
  PROVE  Consents(a)'
  BY MovedRow DEF Consents

\* The moves preserve the row invariants.
LEMMA MovesKeepRows ==
  ASSUME RowsFine, Moves, rows' \in [Accounts -> [Accounts -> Row]]
  PROVE  RowsFine'
  <1>1. ASSUME NEW n \in Accounts, NEW a \in Accounts,
               rows'[n][a].state # "none", a \notin {n, Creator}
        PROVE  IF rows'[n][a].proof = "signed" THEN Consents(a)' ELSE HasInvited(a)'
    <2>1. rows[n][a] \in Row /\ rows'[n][a] \in Row /\ RowMove(n, a)
      BY DEF Moves, RowsFine
    <2>2. Consents(a) => Consents(a)'
      BY ConsentStands
    <2>3. HasInvited(a) => HasInvited(a)'
      BY DEF Moves
    <2>4. rows[n][a].state # "none" =>
            IF rows[n][a].proof = "signed" THEN Consents(a) ELSE HasInvited(a)
      BY <1>1 DEF RowsFine, RosterIsConsented
    <2>5. CASE rows'[n][a] = rows[n][a]
      BY <1>1, <2>2, <2>3, <2>4, <2>5
    <2>6. CASE ByRemoval(n, a)
      BY <1>1, <2>1, <2>2, <2>3, <2>4, <2>6, RemovedRow DEF ByRemoval
    <2>7. CASE ByRole(n, a)
      <3>1. PICK role \in Roles, t \in Nat : rows'[n][a] = WithRole(rows[n][a], role, t)
        BY <2>7 DEF ByRole, Roles
      <3> QED BY <1>1, <2>1, <2>2, <2>3, <2>4, <3>1, RoledRow
    <2>8. CASE ByJoin(n, a)
      BY <2>1, <2>2, <2>8, JoinedRowFacts DEF ByJoin
    <2>9. CASE ByWord(n, a)
      <3>1. CASE Consents(a) /\ rows'[n][a] = Ensured(rows[n][a], "member", "signed")
        <4>1. rows'[n][a].proof = "signed"
          BY <2>1, <3>1, EnsuredRow DEF Roles, Proofs, Row
        <4> QED BY <2>2, <3>1, <4>1
      <3>2. CASE HasInvited(a) /\ rows'[n][a] = Ensured(rows[n][a], "member", "none")
        <4>1. rows'[n][a].proof = "signed" => rows[n][a].state # "none" /\ rows[n][a].proof = "signed"
          BY <2>1, <3>2, EnsuredRow DEF Roles, Proofs, Row
        <4> QED BY <2>2, <2>3, <2>4, <3>2, <4>1
      <3> QED BY <1>1, <2>9, <3>1, <3>2 DEF ByWord
    <2> QED BY <1>1, <2>1, <2>5, <2>6, <2>7, <2>8, <2>9 DEF RowMove, ByEntry
  <1>2. RosterIsConsented'
    BY <1>1 DEF RosterIsConsented
  <1>3. ASSUME NEW n \in Accounts, NEW a \in Accounts
        PROVE  /\ a = Creator /\ rows'[n][a].state = "removed" => Creator \in leavers'
               /\ rows'[n][a].role = "admin" => a \in granted'
               /\ rows'[n][a].role = "creator" => a = Creator
    <2>1. rows[n][a] \in Row /\ rows'[n][a] \in Row /\ RowMove(n, a)
      BY DEF Moves, RowsFine
    <2>2. /\ a = Creator /\ rows[n][a].state = "removed" => Creator \in leavers
          /\ rows[n][a].role = "admin" => a \in granted
          /\ rows[n][a].role = "creator" => a = Creator
      BY DEF RowsFine, CreatorStays, AdminsAreGranted
    <2>3. leavers \subseteq leavers' /\ granted \subseteq granted'
      BY DEF Moves
    <2>4. CASE rows'[n][a] = rows[n][a]
      BY <2>2, <2>3, <2>4
    <2>5. CASE ByRemoval(n, a)
      BY <2>1, <2>2, <2>3, <2>5, RemovedRow DEF ByRemoval
    <2>6. CASE ByRole(n, a)
      <3>1. PICK role \in {"member", "admin"}, t \in Nat :
              /\ rows'[n][a] = WithRole(rows[n][a], role, t)
              /\ role = "admin" => a \in granted'
        BY <2>6 DEF ByRole
      <3>2. role \in Roles
        BY DEF Roles
      <3> QED BY <2>1, <2>2, <2>3, <3>1, <3>2, RoledRow
    <2>7. CASE ByJoin(n, a)
      BY <2>1, <2>2, <2>3, <2>7, JoinedRowFacts DEF ByJoin
    <2>8. CASE ByWord(n, a)
      BY <2>1, <2>2, <2>3, <2>8, EnsuredRow DEF ByWord, Roles, Proofs
    <2>9. CASE ByEntry(n, a)
      BY <2>1, <2>2, <2>3, <2>9, EnteredRow, EnsuredRow DEF ByEntry, Roles, Proofs
    <2> QED BY <2>1, <2>4, <2>5, <2>6, <2>7, <2>8, <2>9 DEF RowMove
  <1>4. CreatorStays' /\ AdminsAreGranted'
    BY <1>3, CreatorAssumption DEF CreatorStays, AdminsAreGranted
  <1>5. BlankRows'
    BY MovedRow DEF BlankRows, RowsFine
  <1>6. rows'[Creator][Creator].state # "none"
    BY MovedRow, CreatorAssumption DEF RowsFine
  <1> QED BY <1>2, <1>4, <1>5, <1>6 DEF RowsFine

\* The moves bring nobody back without a new invite.
LEMMA MovesReturnInvited ==
  ASSUME RowsFine, Moves
  PROVE  ReturnsInvited
  <1> SUFFICES ASSUME NEW n \in Accounts, NEW a \in Accounts, n # a,
                      rows[n][a].state = "removed", rows'[n][a].state # "removed"
               PROVE  NewInvite(n, a)
    BY DEF ReturnsInvited
  <1>1. rows[n][a] \in Row /\ RowMove(n, a)
    BY DEF Moves, RowsFine
  <1>2. ~ ByRemoval(n, a)
    BY <1>1, RemovedRow DEF ByRemoval
  <1>3. ASSUME ByRole(n, a) PROVE FALSE
    <2>1. PICK role \in Roles, t \in Nat : rows'[n][a] = WithRole(rows[n][a], role, t)
      BY <1>3 DEF ByRole, Roles
    <2> QED BY <1>1, <2>1, RoledRow
  <1>4. ~ ByWord(n, a)
    BY <1>1, EnsuredRow DEF ByWord, Roles, Proofs
  <1> QED BY <1>1, <1>2, <1>3, <1>4 DEF RowMove, ByJoin, ByEntry

-----------------------------------------------------------------------------
(* Deposits.                                                               *)

\* What WireIsTrue says of one operation.
Truthful(op) ==
  /\ op.kind = "join" => Consents(op.about)
  /\ op.kind = "contact" => \A a \in op.known : a = Creator \/ Consents(a)
  /\ op.kind = "leave" => op.about \in leavers
  /\ op.kind = "setRole" /\ op.role = "admin" => op.about \in granted

\* The form of an operation follows from its kind.
LEMMA OpForms ==
  ASSUME NEW op \in Ops
  PROVE  /\ op.kind \in {"leave", "kick"} => op.about \in Accounts
         /\ op.kind = "setRole" => op.about \in Accounts /\ op.role \in {"member", "admin"}
         /\ op.kind = "join" => op.about \in Accounts /\ op.invite \in Invites
         /\ op.kind = "contact" => op.known \subseteq Accounts
         /\ op.kind \in {"hello", "reject"} => op.invite \in Invites
  BY DEF Ops

LEMMA DepositForm ==
  ASSUME TypeOK, NEW m \in net
  PROVE  m.to \in Accounts /\ m.from \in Accounts /\ m.op \in Ops
  BY DEF TypeOK, Deposit

LEMMA MailForm ==
  ASSUME NEW n \in Accounts, NEW t \in Accounts, NEW op \in Ops
  PROVE  Mail(n, t, op) \in Deposit /\ Mail(n, t, op).op = op
  BY DEF Mail, Deposit

LEMMA FanOutForm ==
  ASSUME NEW n \in Accounts, NEW T \in SUBSET Accounts, NEW op \in Ops,
         NEW m \in FanOut(n, T, op)
  PROVE  m \in Deposit /\ m.op = op
  <1>1. PICK t \in T : m = Mail(n, t, op)
    BY DEF FanOut
  <1> QED BY <1>1, MailForm

\* A contact list names active members, each the creator or with a proof.
LEMMA ContactsForm ==
  ASSUME NEW n \in Accounts, NEW roster \in [Accounts -> Row],
         NEW m \in Contacts(n, roster)
  PROVE  /\ m \in Deposit
         /\ m.op.kind = "contact"
         /\ m.op.known \subseteq Accounts
         /\ \A a \in m.op.known : /\ roster[a].state = "active"
                                  /\ a = Creator \/ roster[a].proof = "signed"
  <1> DEFINE op == [kind |-> "contact", known |-> Known(n, roster)]
  <1>1. /\ Known(n, roster) \subseteq Accounts
        /\ \A a \in Known(n, roster) : /\ roster[a].state = "active"
                                       /\ a = Creator \/ roster[a].proof = "signed"
    BY DEF Known, Active
  <1>2. op \in Ops
    BY <1>1 DEF Ops
  <1>3. m \in FanOut(n, Active(roster) \ {n}, op)
    BY DEF Contacts
  <1>4. Active(roster) \ {n} \in SUBSET Accounts
    BY DEF Active
  <1>5. m \in Deposit /\ m.op = op
    <2> HIDE DEF op
    <2> QED BY <1>2, <1>3, <1>4, FanOutForm
  <1> QED BY <1>1, <1>5

LEMMA Consumed ==
  ASSUME TypeOK, NEW m, NEW sent, Consume(m, sent)
  PROVE  net' \subseteq net \cup sent /\ left' \in [Bounds -> Nat]
  BY DEF Consume, Spend, TypeOK, Bounds

LEMMA Spent ==
  ASSUME TypeOK, NEW b \in Bounds, Spend(b)
  PROVE  left' \in [Bounds -> Nat]
  BY DEF Spend, TypeOK

LEMMA SpentBoth ==
  ASSUME TypeOK, NEW b \in Bounds, NEW c \in Bounds, b # c, SpendBoth(b, c)
  PROVE  left' \in [Bounds -> Nat]
  BY DEF SpendBoth, TypeOK

-----------------------------------------------------------------------------
(* Steps.                                                                  *)

\* The types of everything but the rosters and the wire.
Others ==
  /\ via \in [Accounts -> Invites \cup {NoInvite}] /\ via[Creator] = NoInvite
  /\ invite \in [Invites -> [by : Accounts \cup {Nobody}, at : Nat, uses : SUBSET Accounts]]
  /\ link \in [Accounts -> [Accounts -> {"none", "up"} \cup Invites]]
  /\ now \in Nat
  /\ leavers \subseteq Accounts /\ granted \subseteq Accounts
  /\ left \in [Bounds -> Nat]

RowsTyped == rows \in [Accounts -> [Accounts -> Row]]

\* A deposit the step sends is well formed and true.
Sent(m) == m \in Deposit /\ Truthful(m.op)
WireSent == \A m \in net : Sent(m)
WireGrows == \A m \in net' : m \in net \/ Sent(m)'

\* What every step does.
Step == Moves /\ RowsTyped' /\ Others' /\ WireGrows

LEMMA Parts ==
  IInv <=> RowsFine /\ Others /\ WireSent
  <1>1. WireIsTrue <=> \A m \in net : Truthful(m.op)
    BY DEF WireIsTrue, Truthful
  <1>2. net \subseteq Deposit <=> \A m \in net : m \in Deposit
    OBVIOUS
  <1> QED BY <1>1, <1>2, CreatorAssumption DEF IInv, TypeOK, RowsFine, Others,
    WireSent, Sent, CreatorFounded

\* What was true stays true: consents, leaving and grants are never undone.
LEMMA TruthStands ==
  ASSUME IInv, Moves, NEW m \in net
  PROVE  Sent(m)'
  <1>1. RowsFine /\ Sent(m)
    BY Parts DEF WireSent
  <1>2. \A a \in Accounts : Consents(a) => Consents(a)'
    BY <1>1, ConsentStands
  <1>3. m \in Deposit /\ m.op \in Ops /\ Truthful(m.op)
    BY <1>1, DepositForm DEF Sent, IInv
  <1>4. leavers \subseteq leavers' /\ granted \subseteq granted'
    BY DEF Moves
  <1>5. Truthful(m.op)'
    BY <1>2, <1>3, <1>4, OpForms DEF Truthful
  <1> QED BY <1>3, <1>5 DEF Sent

LEMMA StepSafe ==
  ASSUME IInv, Step
  PROVE  IInv'
  <1>1. RowsFine'
    BY Parts, MovesKeepRows DEF Step, RowsTyped
  <1>2. WireSent'
    BY TruthStands DEF Step, WireGrows, WireSent
  <1>3. Others'
    BY DEF Step
  <1> QED BY <1>1, <1>2, <1>3, Parts, PTL

\* An issued invite keeps its issuer.
InvitesKept ==
  \A i \in Invites : invite[i].by # Nobody => invite'[i].by = invite[i].by

LEMMA InvitersStay ==
  ASSUME InvitesKept, NEW a \in Accounts, HasInvited(a)
  PROVE  HasInvited(a)'
  <1>1. PICK i \in Invites : invite[i].by = a
    BY DEF HasInvited
  <1>2. invite'[i].by = a
    BY <1>1, NobodyAssumption DEF InvitesKept
  <1> QED BY <1>2 DEF HasInvited

LEMMA RowsUntouched ==
  ASSUME IInv, rows' = rows, InvitesKept,
         leavers \subseteq leavers', granted \subseteq granted'
  PROVE  Moves /\ RowsTyped'
  BY InvitersStay DEF Moves, RowMove, RowsTyped, IInv, TypeOK

\* A step that changes one row, by a move.
LEMMA OneRow ==
  ASSUME IInv, NEW n \in Accounts, NEW a \in Accounts, NEW row \in Row,
         rows' = [rows EXCEPT ![n][a] = row],
         rows'[n][a] = row => RowMove(n, a),
         InvitesKept, leavers \subseteq leavers', granted \subseteq granted'
  PROVE  Moves /\ RowsTyped'
  <1>1. rows \in [Accounts -> [Accounts -> Row]]
    BY DEF IInv, TypeOK
  <1>2. /\ RowsTyped' /\ rows'[n][a] = row
        /\ \A p, q \in Accounts : p # n \/ q # a => rows'[p][q] = rows[p][q]
    BY <1>1 DEF RowsTyped
  <1>3. \A p, q \in Accounts : RowMove(p, q)
    BY <1>2 DEF RowMove
  <1> QED BY <1>2, <1>3, InvitersStay DEF Moves

LEMMA CreateInviteStep ==
  ASSUME IInv, NEW n \in Accounts, NEW i \in Invites, CreateInvite(n, i)
  PROVE  Step
  <1>0. left' \in [Bounds -> Nat]
    BY Spent DEF CreateInvite, IInv, TypeOK, Bounds
  <1>1. InvitesKept /\ Others'
    BY <1>0 DEF CreateInvite, InvitesKept, Others, IInv, TypeOK, CreatorFounded, history
  <1>2. ASSUME rows' = rows PROVE Moves /\ RowsTyped'
    BY <1>1, <1>2, RowsUntouched DEF CreateInvite, history
  <1>3. ASSUME rows' = SelfProven(n) PROVE Moves /\ RowsTyped'
    <2> DEFINE p == IF n = Creator THEN "none" ELSE "signed"
               row == Ensured(rows[n][n], "member", p)
    <2>1. p \in Proofs /\ rows[n][n] \in Row /\ rows \in [Accounts -> [Accounts -> Row]]
      BY DEF Proofs, IInv, TypeOK
    <2>2. row \in Row
      BY <2>1, EnsuredRow DEF Roles
    <2>3. rows' = [rows EXCEPT ![n][n] = row]
      BY <1>3 DEF SelfProven
    <2>4. rows'[n][n] = row => RowMove(n, n)
      BY <2>1 DEF RowMove, ByEntry
    <2> HIDE DEF row
    <2>5. leavers \subseteq leavers' /\ granted \subseteq granted'
      BY DEF CreateInvite, history
    <2> QED BY <1>1, <2>2, <2>3, <2>4, <2>5, OneRow
  <1>4. Moves /\ RowsTyped'
    BY <1>2, <1>3 DEF CreateInvite
  <1>5. WireGrows
    BY DEF CreateInvite, WireGrows
  <1> QED BY <1>1, <1>4, <1>5 DEF Step

\* Entering a group adds or revives the node's row and adds the inviter's.
LEMMA EnterGroupMoves ==
  ASSUME IInv, NEW n \in Accounts, NEW i \in Invites, NEW p \in Proofs,
         EnterGroup(n, i, p), left' \in [Bounds -> Nat]
  PROVE  /\ Moves /\ RowsTyped' /\ Others'
         /\ invite[i].by \in Accounts
         /\ p = "signed" => Consents(n)'
  <1> DEFINE by == invite[i].by
             own == Entered(rows[n][n], p)
             his == Ensured(rows[n][by], "member", "none")
  <1>1. rows \in [Accounts -> [Accounts -> Row]] /\ by \in Accounts /\ by # n
    BY DEF IInv, TypeOK, EnterGroup
  <1>2. own \in Row /\ his \in Row /\ (p = "signed" => own.proof = "signed")
    BY <1>1, EnteredRow, EnsuredRow DEF Proofs, Roles
  <1>3. rows' = [rows EXCEPT ![n] = [@ EXCEPT ![n] = own, ![by] = his]]
    BY DEF EnterGroup, Entered
  <1>4. HasInvited(by)
    BY DEF HasInvited
  <1> HIDE DEF by, own, his
  <1>5. /\ RowsTyped' /\ rows'[n][n] = own /\ rows'[n][by] = his
        /\ \A q, a \in Accounts : q # n \/ a \notin {n, by} => rows'[q][a] = rows[q][a]
    BY <1>1, <1>2, <1>3 DEF RowsTyped
  <1>6. ByEntry(n, n) /\ ByWord(n, by)
    BY <1>4, <1>5 DEF ByEntry, ByWord, own, his
  <1>7. \A q, a \in Accounts : RowMove(q, a)
    BY <1>5, <1>6 DEF RowMove
  <1>8. InvitesKept /\ leavers \subseteq leavers' /\ granted \subseteq granted'
    BY DEF EnterGroup, InvitesKept, history
  <1>9. Moves
    BY <1>7, <1>8, InvitersStay DEF Moves
  <1>10. link' \in [Accounts -> [Accounts -> {"none", "up"} \cup Invites]]
    BY <1>1 DEF EnterGroup, IInv, TypeOK, by
  <1>11. via' \in [Accounts -> Invites \cup {NoInvite}] /\ via'[Creator] = NoInvite
    BY CreatorAssumption DEF EnterGroup, IInv, TypeOK, CreatorFounded
  <1>12. Others'
    BY <1>10, <1>11 DEF EnterGroup, Others, IInv, TypeOK, history
  <1>13. p = "signed" => Consents(n)'
    BY <1>2, <1>5 DEF Consents
  <1> QED BY <1>1, <1>5, <1>9, <1>12, <1>13 DEF by

LEMMA HelloTrue ==
  ASSUME IInv, NEW n \in Accounts, NEW i \in Invites, invite[i].by \in Accounts,
         NEW m \in Hello(n, i)
  PROVE  Sent(m)'
  <1> DEFINE op == [kind |-> "hello", invite |-> i]
  <1>1. op \in Ops
    BY DEF Ops
  <1>2. m = Mail(n, invite[i].by, op)
    BY DEF Hello
  <1>3. m \in Deposit /\ m.op.kind = "hello"
    BY <1>1, <1>2, MailForm
  <1> QED BY <1>3 DEF Sent, Truthful

LEMMA AcceptInviteStep ==
  ASSUME IInv, NEW n \in Accounts, NEW i \in Invites, AcceptInvite(n, i)
  PROVE  Step
  <1> DEFINE op == [kind |-> "join", about |-> n, invite |-> i]
  <1>1. left' \in [Bounds -> Nat]
    BY Spent DEF AcceptInvite, Bounds, IInv
  <1>2. /\ Moves /\ RowsTyped' /\ Others'
        /\ invite[i].by \in Accounts /\ Consents(n)'
    BY <1>1, EnterGroupMoves DEF AcceptInvite, Proofs
  <1>3. op \in Ops
    BY DEF Ops
  <1>4. ASSUME NEW m \in {Mail(n, invite[i].by, op)}
        PROVE  Sent(m)'
    <2>1. m \in Deposit /\ m.op = op
      <3> HIDE DEF op
      <3> QED BY <1>2, <1>3, <1>4, MailForm
    <2> QED BY <1>2, <2>1 DEF Sent, Truthful
  <1>5. \A m \in net' : m \in net \/ m \in Hello(n, i) \/ m \in {Mail(n, invite[i].by, op)}
    BY DEF AcceptInvite, JoinOp
  <1>6. WireGrows
    BY <1>2, <1>4, <1>5, HelloTrue DEF WireGrows
  <1> QED BY <1>2, <1>6 DEF Step

LEMMA AcceptCutShortStep ==
  ASSUME IInv, NEW n \in Accounts, NEW i \in Invites, AcceptCutShort(n, i)
  PROVE  Step
  <1>1. left' \in [Bounds -> Nat]
    BY SpentBoth DEF AcceptCutShort, Bounds, IInv
  <1>2. Moves /\ RowsTyped' /\ Others' /\ invite[i].by \in Accounts
    BY <1>1, EnterGroupMoves DEF AcceptCutShort, Proofs
  <1>3. \A m \in net' : m \in net \/ m \in Hello(n, i)
    BY DEF AcceptCutShort
  <1>4. WireGrows
    BY <1>2, <1>3, HelloTrue DEF WireGrows
  <1> QED BY <1>2, <1>4 DEF Step

Links == [Accounts -> [Accounts -> {"none", "up"} \cup Invites]]
Ledger == [Invites -> [by : Accounts \cup {Nobody}, at : Nat, uses : SUBSET Accounts]]

LEMMA LinkSet ==
  ASSUME NEW n \in Accounts, NEW a \in Accounts, NEW v \in {"none", "up"}, TypeOK
  PROVE  [link EXCEPT ![n][a] = v] \in Links
  <1>1. link \in Links
    BY DEF TypeOK, Links
  <1> QED BY <1>1 DEF Links

\* Counting a use keeps the issuer.
LEMMA UseCounted ==
  ASSUME NEW i \in Invites, NEW a \in Accounts, TypeOK,
         invite' = [invite EXCEPT ![i].uses = @ \cup {a}]
  PROVE  invite' \in Ledger /\ InvitesKept
  <1>1. invite \in Ledger
    BY DEF TypeOK, Ledger
  <1>2. /\ invite[i] \in [by : Accounts \cup {Nobody}, at : Nat, uses : SUBSET Accounts]
        /\ invite[i].uses \cup {a} \in SUBSET Accounts
    BY <1>1 DEF Ledger
  <1>3. [invite[i] EXCEPT !.uses = @ \cup {a}]
          \in [by : Accounts \cup {Nobody}, at : Nat, uses : SUBSET Accounts]
    BY <1>2
  <1>4. invite' = [invite EXCEPT ![i] = [invite[i] EXCEPT !.uses = @ \cup {a}]]
    OBVIOUS
  <1>5. invite' \in Ledger
    BY <1>1, <1>3, <1>4 DEF Ledger
  <1>6. InvitesKept
    BY <1>1, <1>2, <1>4 DEF InvitesKept, Ledger
  <1> QED BY <1>5, <1>6

LEMMA ReceiveHelloStep ==
  ASSUME IInv, NEW m \in net, ReceiveHello(m)
  PROVE  Step
  <1> DEFINE i == m.op.invite
             op == [kind |-> "reject", invite |-> i]
  <1>1. TypeOK /\ m.to \in Accounts /\ m.from \in Accounts /\ i \in Invites
    BY DepositForm, OpForms DEF IInv, ReceiveHello
  <1>2. op \in Ops
    BY <1>1 DEF Ops
  <1>3. net' \subseteq net \cup {Mail(m.to, m.from, op)} /\ left' \in [Bounds -> Nat]
    BY <1>1, Consumed DEF ReceiveHello
  <1>4. Sent(Mail(m.to, m.from, op))'
    <2>1. op.kind = "reject"
      OBVIOUS
    <2> HIDE DEF op
    <2>2. Mail(m.to, m.from, op) \in Deposit /\ Mail(m.to, m.from, op).op = op
      BY <1>1, <1>2, MailForm
    <2> QED BY <2>1, <2>2 DEF Sent, Truthful
  <1>5. WireGrows
    BY <1>3, <1>4 DEF WireGrows
  <1>6. /\ InvitesKept
        /\ invite' \in [Invites -> [by : Accounts \cup {Nobody}, at : Nat, uses : SUBSET Accounts]]
    <2>1. invite' = invite \/ invite' = [invite EXCEPT ![i].uses = @ \cup {m.from}]
      BY DEF ReceiveHello
    <2> HIDE DEF i
    <2>2. invite' = invite => InvitesKept /\ invite' \in Ledger
      BY <1>1 DEF InvitesKept, TypeOK, Ledger
    <2> QED BY <1>1, <2>1, <2>2, UseCounted DEF Ledger
  <1>7. Moves /\ RowsTyped'
    BY <1>6, RowsUntouched DEF ReceiveHello, history
  <1>8. link' \in [Accounts -> [Accounts -> {"none", "up"} \cup Invites]]
    <2>1. link' = link \/ link' = [link EXCEPT ![m.to][m.from] = "up"]
      BY DEF ReceiveHello
    <2>2. link \in Links
      BY <1>1 DEF TypeOK, Links
    <2>3. [link EXCEPT ![m.to][m.from] = "up"] \in Links
      <3>1. "up" \in {"none", "up"}
        OBVIOUS
      <3> QED BY <1>1, <3>1, LinkSet
    <2> QED BY <2>1, <2>2, <2>3 DEF Links
  <1>9. Others'
    BY <1>3, <1>6, <1>8 DEF ReceiveHello, Others, IInv, TypeOK, CreatorFounded, history
  <1> QED BY <1>5, <1>7, <1>9 DEF Step

LEMMA ReceiveRejectStep ==
  ASSUME IInv, NEW m \in net, ReceiveReject(m)
  PROVE  Step
  <1> DEFINE n == m.to
             i == m.op.invite
             gone == Removed(rows[n][n], now)
  <1>1. TypeOK /\ n \in Accounts /\ m.from \in Accounts /\ i \in Invites
    BY DepositForm, OpForms DEF IInv, ReceiveReject
  <1>2. net' \subseteq net /\ left' \in [Bounds -> Nat]
    BY <1>1, Consumed DEF ReceiveReject
  <1>3. WireGrows
    BY <1>2 DEF WireGrows
  <1>4. InvitesKept /\ leavers \subseteq leavers' /\ granted \subseteq granted'
    BY DEF ReceiveReject, InvitesKept, history
  <1>5. ASSUME rows' = rows
        PROVE  Moves /\ RowsTyped'
    BY <1>4, <1>5, RowsUntouched
  <1>6. ASSUME rows' = [rows EXCEPT ![n][n] = gone], via[n] = i
        PROVE  Moves /\ RowsTyped'
    <2>1. n # Creator
      BY <1>1, <1>6, InvitesAssumption DEF IInv, CreatorFounded
    <2>2. gone \in Row
      BY <1>1, RemovedRow DEF TypeOK
    <2>3. ASSUME rows'[n][n] = gone PROVE RowMove(n, n)
      BY <1>1, <2>1, <2>3 DEF RowMove, ByRemoval, TypeOK
    <2> HIDE DEF gone
    <2> QED BY <1>1, <1>4, <1>6, <2>2, <2>3, OneRow
  <1>7. Moves /\ RowsTyped'
    BY <1>5, <1>6 DEF ReceiveReject
  <1>8. link' \in [Accounts -> [Accounts -> {"none", "up"} \cup Invites]]
    <2>1. link' = link \/ link' = [link EXCEPT ![n][m.from] = "none"]
      BY DEF ReceiveReject
    <2>2. link \in Links
      BY <1>1 DEF TypeOK, Links
    <2>3. [link EXCEPT ![n][m.from] = "none"] \in Links
      <3>1. "none" \in {"none", "up"}
        OBVIOUS
      <3> HIDE DEF n
      <3> QED BY <1>1, <3>1, LinkSet
    <2> QED BY <2>1, <2>2, <2>3 DEF Links
  <1>9. Others'
    BY <1>2, <1>8 DEF ReceiveReject, Others, IInv, TypeOK, CreatorFounded, history
  <1> QED BY <1>3, <1>7, <1>9 DEF Step

\* A user's operation changes one row and fans one operation out.
LEMMA FannedOut ==
  ASSUME NEW n \in Accounts, NEW T \in SUBSET Accounts, NEW op \in Ops,
         Truthful(op)', net' = net \cup FanOut(n, T, op)
  PROVE  WireGrows
  <1>1. \A m \in FanOut(n, T, op) : m \in Deposit /\ m.op = op
    BY FanOutForm
  <1> QED BY <1>1 DEF WireGrows, Sent

LEMMA LeaveGroupStep ==
  ASSUME IInv, NEW n \in Accounts, LeaveGroup(n)
  PROVE  Step
  <1> DEFINE op == [kind |-> "leave", about |-> n]
             gone == Removed(rows[n][n], now)
  <1>1. TypeOK /\ left' \in [Bounds -> Nat]
    BY Spent DEF LeaveGroup, Bounds, IInv
  <1>2. op \in Ops /\ Truthful(op)'
    BY DEF Ops, Truthful, LeaveGroup
  <1>3. Active(rows[n]) \ {n} \in SUBSET Accounts
    BY DEF Active
  <1>4. WireGrows
    <2>1. net' = net \cup FanOut(n, Active(rows[n]) \ {n}, op)
      BY DEF LeaveGroup
    <2> HIDE DEF op
    <2> QED BY <1>2, <1>3, <2>1, FannedOut
  <1>5. gone \in Row
    BY <1>1, RemovedRow DEF TypeOK
  <1>6. ASSUME rows'[n][n] = gone PROVE RowMove(n, n)
    BY <1>1, <1>6 DEF RowMove, ByRemoval, TypeOK, LeaveGroup
  <1>7. /\ rows' = [rows EXCEPT ![n][n] = gone]
        /\ InvitesKept /\ leavers \subseteq leavers' /\ granted \subseteq granted'
    BY DEF LeaveGroup, InvitesKept
  <1>8. Moves /\ RowsTyped'
    <2> HIDE DEF gone
    <2> QED BY <1>5, <1>6, <1>7, OneRow
  <1>9. Others'
    BY <1>1 DEF LeaveGroup, Others, IInv, TypeOK, CreatorFounded
  <1> QED BY <1>4, <1>8, <1>9 DEF Step

LEMMA KickMemberStep ==
  ASSUME IInv, NEW n \in Accounts, NEW a \in Accounts, KickMember(n, a)
  PROVE  Step
  <1> DEFINE op == [kind |-> "kick", about |-> a]
             T == (Active(rows[n]) \cup {a}) \ {n}
             gone == Removed(rows[n][a], now)
  <1>1. TypeOK /\ left' \in [Bounds -> Nat]
    BY Spent DEF KickMember, Bounds, IInv
  <1>2. op \in Ops /\ Truthful(op)'
    BY DEF Ops, Truthful
  <1>3. T \in SUBSET Accounts
    BY DEF Active
  <1>4. WireGrows
    <2>1. net' = net \cup FanOut(n, T, op)
      BY DEF KickMember
    <2> HIDE DEF op, T
    <2> QED BY <1>2, <1>3, <2>1, FannedOut
  <1>5. gone \in Row
    BY <1>1, RemovedRow DEF TypeOK
  <1>6. ASSUME rows'[n][a] = gone PROVE RowMove(n, a)
    BY <1>1, <1>6 DEF RowMove, ByRemoval, TypeOK, KickMember
  <1>7. /\ rows' = [rows EXCEPT ![n][a] = gone]
        /\ InvitesKept /\ leavers \subseteq leavers' /\ granted \subseteq granted'
    BY DEF KickMember, InvitesKept, history
  <1>8. Moves /\ RowsTyped'
    <2> HIDE DEF gone
    <2> QED BY <1>5, <1>6, <1>7, OneRow
  <1>9. Others'
    BY <1>1 DEF KickMember, Others, IInv, TypeOK, CreatorFounded, history
  <1> QED BY <1>4, <1>8, <1>9 DEF Step

\* An admin other than the creator was granted his role, and so may grant it.
LEMMA SetMemberRoleStep ==
  ASSUME IInv, NEW n \in Accounts, NEW a \in Accounts, NEW role \in {"member", "admin"},
         SetMemberRole(n, a, role)
  PROVE  Step
  <1> DEFINE op == [kind |-> "setRole", about |-> a, role |-> role]
             given == WithRole(rows[n][a], role, now)
  <1>1. TypeOK /\ left' \in [Bounds -> Nat]
    BY Spent DEF SetMemberRole, Bounds, IInv
  <1>2. n \in granted \cup {Creator}
    BY DEF SetMemberRole, RequireSelfAdmin, IsEffectiveAdmin, IInv, AdminsAreGranted
  <1>3. role = "admin" => a \in granted'
    BY <1>2 DEF SetMemberRole
  <1>4. op \in Ops /\ Truthful(op)'
    BY <1>3 DEF Ops, Truthful
  <1>5. Active(rows[n]) \ {n} \in SUBSET Accounts
    BY DEF Active
  <1>6. WireGrows
    <2>1. net' = net \cup FanOut(n, Active(rows[n]) \ {n}, op)
      BY DEF SetMemberRole
    <2> HIDE DEF op
    <2> QED BY <1>4, <1>5, <2>1, FannedOut
  <1>7. given \in Row
    BY <1>1, RoledRow DEF TypeOK, Roles
  <1>8. ASSUME rows'[n][a] = given PROVE RowMove(n, a)
    BY <1>1, <1>3, <1>8 DEF RowMove, ByRole, TypeOK
  <1>9. /\ rows' = [rows EXCEPT ![n][a] = given]
        /\ InvitesKept /\ leavers \subseteq leavers' /\ granted \subseteq granted'
    BY DEF SetMemberRole, InvitesKept
  <1>10. Moves /\ RowsTyped'
    <2> HIDE DEF given
    <2> QED BY <1>7, <1>8, <1>9, OneRow
  <1>11. Others'
    BY <1>1 DEF SetMemberRole, Others, IInv, TypeOK, CreatorFounded
  <1> QED BY <1>6, <1>10, <1>11 DEF Step

\* What goes out in a contact list is what the roster, as it then is, shows.
LEMMA ContactsTrue ==
  ASSUME RowsFine', NEW n \in Accounts, NEW roster \in [Accounts -> Row],
         rows'[n] = roster, NEW m \in Contacts(n, roster)
  PROVE  Sent(m)'
  <1>1. /\ m \in Deposit /\ m.op.kind = "contact" /\ m.op.known \subseteq Accounts
        /\ \A a \in m.op.known : /\ roster[a].state = "active"
                                 /\ a = Creator \/ roster[a].proof = "signed"
    BY ContactsForm
  <1>2. ASSUME NEW a \in m.op.known, a # Creator
        PROVE  Consents(a)'
    <2>1. a \in Accounts /\ rows'[n][a].state = "active" /\ rows'[n][a].proof = "signed"
      BY <1>1, <1>2
    <2>2. RosterIsConsented'
      BY DEF RowsFine
    <2>3. CASE a = n
      BY <2>1, <2>3 DEF Consents
    <2>4. CASE a # n
      BY <1>2, <2>1, <2>2, <2>4 DEF RosterIsConsented
    <2> QED BY <2>3, <2>4
  <1>3. Truthful(m.op)'
    BY <1>1, <1>2 DEF Truthful
  <1> QED BY <1>1, <1>3 DEF Sent

LEMMA ReconcileMeshStep ==
  ASSUME IInv, NEW n \in Accounts, ReconcileMesh(n)
  PROVE  Step
  <1>1. Moves /\ RowsTyped'
    BY RowsUntouched DEF ReconcileMesh, InvitesKept, history
  <1>2. RowsFine'
    BY <1>1, Parts, MovesKeepRows DEF RowsTyped
  <1>3. rows[n] \in [Accounts -> Row] /\ rows'[n] = rows[n]
    BY DEF ReconcileMesh, IInv, TypeOK
  <1>4. \A m \in Contacts(n, rows[n]) : Sent(m)'
    BY <1>2, <1>3, ContactsTrue
  <1>5. WireGrows
    BY <1>4 DEF ReconcileMesh, WireGrows
  <1>6. Others'
    BY DEF ReconcileMesh, Others, IInv, TypeOK, CreatorFounded, history
  <1> QED BY <1>1, <1>5, <1>6 DEF Step

-----------------------------------------------------------------------------
(* The receiver's steps.                                                   *)

\* What reading an operation leaves of the other variables.
LEMMA ReadOthers ==
  ASSUME IInv, NEW m \in net, Read(m), invite' \in Ledger, left' \in [Bounds -> Nat],
         via' = via, now' = now, leavers' = leavers, granted' = granted
  PROVE  Others'
  <1>1. m.to \in Accounts /\ m.from \in Accounts
    BY DepositForm DEF IInv
  <1>2. link' = [link EXCEPT ![m.to][m.from] = "up"]
    BY DEF Read
  <1>3. link' \in Links
    BY <1>1, <1>2, LinkSet DEF IInv
  <1> QED BY <1>3 DEF Others, IInv, TypeOK, CreatorFounded, Ledger, Links

LEMMA ReceiveAnnounceStep ==
  ASSUME IInv, NEW m \in net, ReceiveAnnounce(m)
  PROVE  Step
  <1> DEFINE n == m.to
             a == m.op.about
             i == m.op.invite
             joined == JoinedRow(rows[n][a])
             roster == [rows[n] EXCEPT ![a] = joined]
             forward == FanOut(n, Active(roster) \ {n, a}, m.op)
  <1>1. /\ TypeOK /\ n \in Accounts /\ a \in Accounts /\ i \in Invites
        /\ m.op \in Ops /\ m.op.kind = "join" /\ Consents(a)
    BY DepositForm, OpForms DEF IInv, WireIsTrue, ReceiveAnnounce
  <1>2. rows[n] \in [Accounts -> Row] /\ rows[n][a] \in Row
    BY <1>1 DEF TypeOK
  <1>3. joined \in Row
    BY <1>2, JoinedRowFacts
  <1>4. invite' \in Ledger /\ InvitesKept
    BY <1>1, UseCounted DEF ReceiveAnnounce
  <1>5. rows[n][a].state = "removed" => NewInvite(n, a)
    <2>1. invite' = [invite EXCEPT ![i].uses = @ \cup {a}]
      BY DEF ReceiveAnnounce
    <2>2. a \in invite'[i].uses
      <3>1. invite \in Ledger
        BY <1>1 DEF TypeOK, Ledger
      <3> HIDE DEF i, a
      <3> QED BY <1>1, <2>1, <3>1 DEF Ledger
    <2>3. /\ invite[i].by = n
          /\ rows[n][a].state = "removed" => invite[i].at > rows[n][a].at
      BY DEF ReceiveAnnounce, InviteAdmits
    <2> QED BY <1>1, <2>2, <2>3 DEF NewInvite
  <1>6. rows' = [rows EXCEPT ![n] = roster] /\ n # a
    BY DEF ReceiveAnnounce
  <1>7. rows' = [rows EXCEPT ![n][a] = joined] /\ rows'[n] = roster
    <2> HIDE DEF joined, n, a
    <2> QED BY <1>1, <1>6 DEF TypeOK
  <1>8. ASSUME rows'[n][a] = joined PROVE RowMove(n, a)
    BY <1>1, <1>5, <1>6, <1>8 DEF RowMove, ByJoin
  <1>9. leavers' = leavers /\ granted' = granted /\ via' = via /\ now' = now /\ Read(m)
    BY DEF ReceiveAnnounce, history
  <1>10. Moves /\ RowsTyped'
    <2> HIDE DEF joined, n, a
    <2> QED BY <1>1, <1>3, <1>4, <1>7, <1>8, <1>9, OneRow
  <1>11. RowsFine'
    BY <1>10, Parts, MovesKeepRows DEF RowsTyped
  <1>12. net' \subseteq net \cup (forward \cup Contacts(n, roster)) /\ left' \in [Bounds -> Nat]
    BY <1>1, Consumed DEF ReceiveAnnounce
  <1>13. \A d \in Contacts(n, roster) : Sent(d)'
    <2>1. roster \in [Accounts -> Row]
      BY <1>2, <1>3
    <2> HIDE DEF roster
    <2> QED BY <1>1, <1>7, <1>11, <2>1, ContactsTrue
  <1>14. \A d \in forward : Sent(d)'
    <2>1. Sent(m)'
      BY <1>10, TruthStands
    <2>2. Active(roster) \ {n, a} \in SUBSET Accounts
      BY DEF Active
    <2>3. \A d \in forward : d \in Deposit /\ d.op = m.op
      BY <1>1, <2>2, FanOutForm
    <2> HIDE DEF forward
    <2> QED BY <2>1, <2>3 DEF Sent
  <1>15. WireGrows
    BY <1>12, <1>13, <1>14 DEF WireGrows
  <1>16. Others'
    BY <1>4, <1>9, <1>12, ReadOthers
  <1> QED BY <1>10, <1>15, <1>16 DEF Step

\* The handlers that answer nothing and leave the ledger alone: they need only
\* show which row they change, and how.
LEMMA QuietRead ==
  ASSUME IInv, NEW m \in net, Read(m), Consume(m, {}),
         via' = via, invite' = invite, now' = now, leavers' = leavers, granted' = granted,
         \/ rows' = rows
         \/ \E a \in Accounts : \E row \in Row :
              /\ rows' = [rows EXCEPT ![m.to][a] = row]
              /\ rows'[m.to][a] = row => RowMove(m.to, a)
  PROVE  Step
  <1>1. TypeOK /\ m.to \in Accounts
    BY DepositForm DEF IInv
  <1>2. net' \subseteq net /\ left' \in [Bounds -> Nat]
    BY <1>1, Consumed
  <1>3. WireGrows
    BY <1>2 DEF WireGrows
  <1>4. InvitesKept /\ invite' \in Ledger
    BY <1>1 DEF InvitesKept, TypeOK, Ledger
  <1>5. Others'
    BY <1>2, <1>4, ReadOthers
  <1>6. ASSUME rows' = rows
        PROVE  Moves /\ RowsTyped'
    BY <1>4, <1>6, RowsUntouched
  <1>7. ASSUME NEW a \in Accounts, NEW row \in Row,
               rows' = [rows EXCEPT ![m.to][a] = row],
               rows'[m.to][a] = row => RowMove(m.to, a)
        PROVE  Moves /\ RowsTyped'
    BY <1>1, <1>4, <1>7, OneRow
  <1> QED BY <1>3, <1>5, <1>6, <1>7 DEF Step

LEMMA ReceiveForwardStep ==
  ASSUME IInv, NEW m \in net, ReceiveForward(m)
  PROVE  Step
  <1> DEFINE n == m.to
             a == m.op.about
             joined == JoinedRow(rows[n][a])
  <1>1. /\ TypeOK /\ n \in Accounts /\ a \in Accounts /\ Consents(a)
    BY DepositForm, OpForms DEF IInv, WireIsTrue, ReceiveForward
  <1>2. joined \in Row
    BY <1>1, JoinedRowFacts DEF TypeOK
  <1>3. rows[n][a].state # "removed" /\ n # a
    BY DEF ReceiveForward, ForwardAdmits
  <1>4. ASSUME rows'[n][a] = joined PROVE RowMove(n, a)
    BY <1>1, <1>3, <1>4 DEF RowMove, ByJoin
  <1>5. /\ rows' = [rows EXCEPT ![n][a] = joined] /\ Read(m) /\ Consume(m, {})
        /\ via' = via /\ invite' = invite /\ now' = now
        /\ leavers' = leavers /\ granted' = granted
    BY DEF ReceiveForward, history
  <1> HIDE DEF joined, a
  <1> QED BY <1>1, <1>2, <1>4, <1>5, QuietRead

LEMMA ReceiveKickStep ==
  ASSUME IInv, NEW m \in net, ReceiveKick(m)
  PROVE  Step
  <1> DEFINE n == m.to
             a == m.op.about
             gone == Removed(rows[n][a], now)
  <1>1. TypeOK /\ n \in Accounts /\ a \in Accounts
    BY DepositForm, OpForms DEF IInv, ReceiveKick
  <1>2. gone \in Row
    BY <1>1, RemovedRow DEF TypeOK
  <1>3. ASSUME a # Creator, rows'[n][a] = gone PROVE RowMove(n, a)
    BY <1>1, <1>3 DEF RowMove, ByRemoval, TypeOK
  <1>4. /\ rows' = rows \/ (a # Creator /\ rows' = [rows EXCEPT ![n][a] = gone])
        /\ Read(m) /\ Consume(m, {})
        /\ via' = via /\ invite' = invite /\ now' = now
        /\ leavers' = leavers /\ granted' = granted
    BY DEF ReceiveKick, history
  <1> HIDE DEF gone, a
  <1> QED BY <1>1, <1>2, <1>3, <1>4, QuietRead

LEMMA ReceiveSetRoleStep ==
  ASSUME IInv, NEW m \in net, ReceiveSetRole(m)
  PROVE  Step
  <1> DEFINE n == m.to
             a == m.op.about
             role == m.op.role
             given == WithRole(rows[n][a], role, now)
  <1>1. /\ TypeOK /\ n \in Accounts /\ a \in Accounts
        /\ role \in {"member", "admin"} /\ (role = "admin" => a \in granted)
    BY DepositForm, OpForms DEF IInv, WireIsTrue, ReceiveSetRole
  <1>2. given \in Row
    <2>1. rows[n][a] \in Row /\ now \in Nat /\ role \in Roles
      BY <1>1 DEF TypeOK, Roles
    <2> HIDE DEF role, n, a
    <2> QED BY <2>1, RoledRow
  <1>3. /\ rows' = rows \/ rows' = [rows EXCEPT ![n][a] = given]
        /\ Read(m) /\ Consume(m, {})
        /\ via' = via /\ invite' = invite /\ now' = now
        /\ leavers' = leavers /\ granted' = granted
    BY DEF ReceiveSetRole, history
  <1>4. ASSUME rows'[n][a] = given PROVE RowMove(n, a)
    BY <1>1, <1>3, <1>4 DEF RowMove, ByRole, TypeOK
  <1> HIDE DEF given, a
  <1> QED BY <1>1, <1>2, <1>3, <1>4, QuietRead

LEMMA ReceiveLeaveStep ==
  ASSUME IInv, NEW m \in net, ReceiveLeave(m)
  PROVE  Step
  <1> DEFINE n == m.to
             a == m.from
             gone == Removed(rows[n][a], now)
  <1>1. TypeOK /\ n \in Accounts /\ a \in Accounts /\ a \in leavers
    BY DepositForm DEF IInv, WireIsTrue, ReceiveLeave
  <1>2. gone \in Row
    BY <1>1, RemovedRow DEF TypeOK
  <1>3. /\ rows' = [rows EXCEPT ![n][a] = gone]
        /\ Read(m) /\ Consume(m, {})
        /\ via' = via /\ invite' = invite /\ now' = now
        /\ leavers' = leavers /\ granted' = granted
    BY DEF ReceiveLeave, history
  <1>4. ASSUME rows'[n][a] = gone PROVE RowMove(n, a)
    BY <1>1, <1>3, <1>4 DEF RowMove, ByRemoval, TypeOK
  <1> HIDE DEF gone, a
  <1> QED BY <1>1, <1>2, <1>3, <1>4, QuietRead

\* An answer that only introduces is true.
LEMMA IntroTrue ==
  ASSUME NEW n \in Accounts, NEW a \in Accounts
  PROVE  Sent(Mail(n, a, [kind |-> "intro"]))'
  <1> DEFINE op == [kind |-> "intro"]
  <1>1. op \in Ops /\ op.kind = "intro"
    BY DEF Ops
  <1> HIDE DEF op
  <1>2. Mail(n, a, op) \in Deposit /\ Mail(n, a, op).op = op
    BY <1>1, MailForm
  <1>3. Sent(Mail(n, a, op))'
    BY <1>1, <1>2 DEF Sent, Truthful
  <1> QED BY <1>3 DEF op

\* Everybody a contact list names has signed, or is the creator.
LEMMA ReceiveContactStep ==
  ASSUME IInv, NEW m \in net, ReceiveContact(m)
  PROVE  Step
  <1> DEFINE n == m.to
             known == m.op.known \ {n}
             word(a) == Ensured(rows[n][a], "member", IF a = Creator THEN "none" ELSE "signed")
             roster == [a \in Accounts |-> IF a \in known THEN word(a) ELSE rows[n][a]]
             told == {k \in known \cap Active(roster) : link[n][k] = "none"}
             intros == {Mail(n, a, [kind |-> "intro"]) : a \in told}
  <1>1. /\ TypeOK /\ n \in Accounts /\ known \subseteq Accounts
        /\ \A a \in known : a = Creator \/ Consents(a)
    BY DepositForm, OpForms DEF IInv, WireIsTrue, ReceiveContact
  <1>2. \A a \in Accounts : word(a) \in Row /\ rows[n][a] \in Row
    BY <1>1, EnsuredRow DEF TypeOK, Roles, Proofs
  <1>3. \A a \in known : rows'[n][a] = word(a) => ByWord(n, a)
    BY <1>1 DEF ByWord
  <1>4. /\ rows' = [rows EXCEPT ![n] = roster] /\ Read(m) /\ Consume(m, intros)
        /\ via' = via /\ invite' = invite /\ now' = now
        /\ leavers' = leavers /\ granted' = granted
    BY DEF ReceiveContact, history
  <1>5. roster \in [Accounts -> Row]
    <2> HIDE DEF word, known
    <2> QED BY <1>2
  <1>6. /\ RowsTyped' /\ rows'[n] = roster
        /\ \A p \in Accounts : p # n => rows'[p] = rows[p]
    <2> HIDE DEF roster, n
    <2> QED BY <1>1, <1>4, <1>5 DEF RowsTyped, TypeOK
  <1>7. \A a \in Accounts : RowMove(n, a)
    <2>1. \A a \in Accounts : rows'[n][a] = IF a \in known THEN word(a) ELSE rows[n][a]
      BY <1>6
    <2> HIDE DEF word, known, roster
    <2> QED BY <1>3, <2>1 DEF RowMove
  <1>8. \A p, a \in Accounts : RowMove(p, a)
    BY <1>6, <1>7 DEF RowMove
  <1>9. InvitesKept /\ invite' \in Ledger
    BY <1>1, <1>4 DEF InvitesKept, TypeOK, Ledger
  <1>10. Moves
    BY <1>4, <1>8, <1>9, InvitersStay DEF Moves
  <1>11. net' \subseteq net \cup intros /\ left' \in [Bounds -> Nat]
    <2> HIDE DEF intros
    <2> QED BY <1>1, <1>4, Consumed
  <1>12. \A d \in intros : Sent(d)'
    <2>1. \A a \in told : a \in Accounts
      BY <1>1
    <2> HIDE DEF told, n
    <2> QED BY <1>1, <2>1, IntroTrue
  <1>13. WireGrows
    <2> HIDE DEF intros
    <2> QED BY <1>11, <1>12 DEF WireGrows
  <1>14. Others'
    BY <1>4, <1>9, <1>11, ReadOthers
  <1> QED BY <1>6, <1>10, <1>13, <1>14 DEF Step

LEMMA ReceiveIntroStep ==
  ASSUME IInv, NEW m \in net, ReceiveIntro(m)
  PROVE  Step
  <1>1. TypeOK /\ m.to \in Accounts /\ m.from \in Accounts
    BY DepositForm DEF IInv
  <1>2. net' \subseteq net /\ left' \in [Bounds -> Nat]
    BY <1>1, Consumed DEF ReceiveIntro
  <1>3. WireGrows
    BY <1>2 DEF WireGrows
  <1>4. InvitesKept /\ leavers \subseteq leavers' /\ granted \subseteq granted'
    BY DEF ReceiveIntro, InvitesKept, history
  <1>5. Moves /\ RowsTyped'
    BY <1>4, RowsUntouched DEF ReceiveIntro
  <1>6. link' \in Links
    <2> DEFINE one == [link EXCEPT ![m.to][m.from] = "up"]
    <2>1. link' = link \/ link' = [one EXCEPT ![m.from][m.to] = "up"]
      BY DEF ReceiveIntro
    <2>2. link \in Links /\ one \in Links
      BY <1>1, LinkSet DEF TypeOK, Links
    <2>3. [one EXCEPT ![m.from][m.to] = "up"] \in Links
      <3>1. "up" \in {"none", "up"} \cup Invites
        OBVIOUS
      <3> HIDE DEF one
      <3> QED BY <1>1, <2>2, <3>1 DEF Links
    <2> HIDE DEF one
    <2> QED BY <2>1, <2>2, <2>3
  <1>7. Others'
    BY <1>2, <1>6 DEF ReceiveIntro, Others, IInv, TypeOK, CreatorFounded, Links, history
  <1> QED BY <1>3, <1>5, <1>7 DEF Step

LEMMA DropStep ==
  ASSUME IInv, NEW m \in net, Drop(m)
  PROVE  Step
  BY QuietRead DEF Drop, history

LEMMA WorldStep ==
  ASSUME IInv, Tick \/ (\E m \in net : Lose(m)) \/ UNCHANGED vars
  PROVE  Step
  <1>1. /\ rows' = rows /\ InvitesKept /\ leavers' = leavers /\ granted' = granted
        /\ net' \subseteq net
    BY DEF Tick, Lose, vars, history, InvitesKept
  <1>2. TypeOK
    BY DEF IInv
  <1>3. left' \in [Bounds -> Nat] /\ now' \in Nat
    BY <1>2, Spent DEF Tick, Lose, vars, TypeOK, Bounds
  <1>4. Moves /\ RowsTyped'
    BY <1>1, RowsUntouched
  <1>5. Others'
    BY <1>3 DEF Others, IInv, TypeOK, CreatorFounded, Tick, Lose, vars, history
  <1> QED BY <1>1, <1>4, <1>5 DEF Step, WireGrows

LEMMA HearStep ==
  ASSUME IInv, NEW n \in Accounts, NEW s \in Accounts, Hear(n, s)
  PROVE  Step
  <1>1. /\ rows' = rows /\ InvitesKept /\ leavers' = leavers /\ granted' = granted
        /\ net' = net
    BY DEF Hear, history, InvitesKept
  <1>2. Moves /\ RowsTyped'
    BY <1>1, RowsUntouched
  <1>3. link' \in Links
    BY LinkSet DEF Hear, IInv
  <1>4. Others'
    BY <1>3 DEF Others, IInv, TypeOK, CreatorFounded, Hear, history, Links
  <1> QED BY <1>1, <1>2, <1>4 DEF Step, WireGrows

-----------------------------------------------------------------------------
(* The theorems.                                                           *)

LEMMA EveryStep ==
  ASSUME IInv, [Next]_vars
  PROVE  Step
  <1>1. ASSUME NEW n \in Accounts, Local(n)
        PROVE  Step
    BY <1>1, CreateInviteStep, AcceptInviteStep, AcceptCutShortStep, LeaveGroupStep,
       KickMemberStep, SetMemberRoleStep, ReconcileMeshStep DEF Local
  <1>2. ASSUME NEW m \in net, Receive(m)
        PROVE  Step
    BY <1>2, ReceiveHelloStep, ReceiveRejectStep, ReceiveAnnounceStep, ReceiveForwardStep,
       ReceiveKickStep, ReceiveSetRoleStep, ReceiveLeaveStep, ReceiveContactStep,
       ReceiveIntroStep, DropStep DEF Receive
  <1> QED BY <1>1, <1>2, WorldStep, HearStep DEF Next

LEMMA Initially == Init => IInv
  <1> SUFFICES ASSUME Init PROVE IInv
    OBVIOUS
  <1>1. NoRow \in Row /\ CreatorRow \in Row
    BY DEF NoRow, CreatorRow, Row, Roles
  <1>2. rows = [n \in Accounts |-> [a \in Accounts |->
                  IF n = Creator /\ a = Creator THEN CreatorRow ELSE NoRow]]
    BY DEF Init
  <1>3. TypeOK
    <2>1. rows \in [Accounts -> [Accounts -> Row]]
      BY <1>1, <1>2
    <2> QED BY <2>1, LimitsAssumption DEF Init, TypeOK
  <1>4. \A n, a \in Accounts :
          rows[n][a] = IF n = Creator /\ a = Creator THEN CreatorRow ELSE NoRow
    BY <1>2
  <1>5. /\ NoRow.state = "none" /\ NoRow.role = "member"
        /\ CreatorRow.state = "active" /\ CreatorRow.role = "creator"
    BY DEF NoRow, CreatorRow
  <1>6. RosterIsConsented /\ CreatorStays /\ AdminsAreGranted /\ BlankRows
    BY <1>4, <1>5, CreatorAssumption
       DEF RosterIsConsented, CreatorStays, AdminsAreGranted, BlankRows
  <1>7. WireIsTrue /\ CreatorFounded
    BY <1>4, <1>5, CreatorAssumption DEF Init, WireIsTrue, CreatorFounded
  <1> QED BY <1>3, <1>6, <1>7 DEF IInv

\* The inductive invariant holds for any accounts, invites and bounds: rosters
\* and deposits name only accounts that signed, left or were granted what is
\* said of them.
THEOREM Inductive == Spec => []IInv
  <1>1. IInv /\ [Next]_vars => IInv'
    BY EveryStep, StepSafe
  <1> QED BY <1>1, Initially, PTL DEF Spec

\* Nobody is put on a roster unasked (the consent rule of the join and contact
\* handlers).
THEOREM NobodyUnasked == Spec => []RosterIsConsented
  <1>1. IInv => RosterIsConsented
    BY DEF IInv
  <1> QED BY <1>1, Inductive, PTL

\* Neither a kick, a role nor a rejected invite removes the creator (kickMember,
\* #applyIncomingKick, discardGroupForRejectedInvite).
THEOREM CreatorSafe == Spec => []CreatorStays
  <1>1. IInv => CreatorStays
    BY DEF IInv
  <1> QED BY <1>1, Inductive, PTL

\* Every admin was made one by the creator or along a chain of grants from him
\* (requireSelfAdmin, the gate of handle()).
THEOREM AdminsGranted == Spec => []AdminsAreGranted
  <1>1. IInv => AdminsAreGranted
    BY DEF IInv
  <1> QED BY <1>1, Inductive, PTL

\* All three: who is on a roster, who is not and who is what there is as the
\* accounts and the admins willed it.
THEOREM RosterSound == Spec => []RosterIsSound
  <1>1. IInv => RosterIsSound
    BY DEF IInv, RosterIsSound
  <1> QED BY <1>1, Inductive, PTL

\* A removed member returns only on an invite issued after the removal, by the
\* node that removed him (reviveMembership and its one caller).
THEOREM NobodyResurrected == Spec => NoResurrection
  <1>1. IInv /\ [Next]_vars => [ReturnsInvited]_vars
    <2> SUFFICES ASSUME IInv, [Next]_vars PROVE ReturnsInvited
      OBVIOUS
    <2>1. RowsFine /\ Moves
      BY EveryStep, Parts DEF Step
    <2> QED BY <2>1, MovesReturnInvited
  <1> QED BY <1>1, Inductive, PTL DEF Spec, NoResurrection

-----------------------------------------------------------------------------
(* The group's state.                                                      *)

\* What it takes to show that a step is one of the roster, and that an avatar
\* comes with its bytes.
StateInv == StateTypeOK /\ AvatarIsHeld

LEMMA StateDepositForm ==
  ASSUME StateTypeOK, NEW m \in wire
  PROVE  /\ m.to \in Accounts /\ m.from \in Accounts /\ m.op \in StateOps
         /\ m = Mail(m.from, m.to, m.op)
  BY DEF StateTypeOK, StateDeposit, Mail

\* What each kind of operation carries.
LEMMA StateOpForms ==
  ASSUME NEW op \in StateOps
  PROVE  /\ op.kind = "rename" => op.title \in Titles
         /\ op.kind = "setAvatar" => op.avatar \in Avatars \cup {Empty}
         /\ op.kind = "create" => op.channel \in Channels /\ op.label \in {Empty, Label}
         /\ op.kind \in {"delete", "post"} => op.channel \in Channels
         /\ op.kind = "state" => op.title \in Titles /\ op.avatar \in Avatars \cup {Empty}
  BY DEF StateOps

LEMMA FannedState ==
  ASSUME NEW n \in Accounts, NEW targets \in SUBSET Accounts, NEW op \in StateOps
  PROVE  FanOut(n, targets, op) \subseteq StateDeposit
  BY DEF FanOut, Mail, StateDeposit

LEMMA Told ==
  ASSUME StateTypeOK, NEW n \in Accounts, NEW op \in StateOps, Tell(n, op)
  PROVE  wire' \subseteq StateDeposit
  <1>1. Peers(n) \subseteq Accounts
    BY DEF Peers, Active
  <1>2. FanOut(n, Peers(n), op) \subseteq StateDeposit
    BY <1>1, FannedState
  <1> QED BY <1>2 DEF Tell, StateTypeOK

LEMMA Used ==
  ASSUME StateTypeOK, NEW b \in StateBounds, Use(b)
  PROVE  spare' \in [StateBounds -> Nat]
  BY DEF StateTypeOK, Use

LEMMA Finished ==
  ASSUME StateTypeOK, NEW m \in wire, NEW sent \in SUBSET StateDeposit, Finish(m, sent)
  PROVE  wire' \subseteq StateDeposit /\ spare' \in [StateBounds -> Nat]
  <1>1. "fault" \in StateBounds
    BY DEF StateBounds
  <1> QED BY <1>1, Used DEF StateTypeOK, Finish

LEMMA EnsuredChannelForm ==
  ASSUME NEW r \in Channel, NEW l \in {Empty, Label}
  PROVE  EnsuredChannel(r, l) \in Channel /\ Tombstoned(r) \in Channel
  BY DEF EnsuredChannel, Tombstoned, Channel

LEMMA ReplayForm ==
  ASSUME StateTypeOK, NEW n \in Accounts, NEW peer \in Accounts
  PROVE  Replay(n, peer) \subseteq StateDeposit
  <1> SUFFICES ASSUME NEW c \in Channels
               PROVE  FanOut(n, {peer}, [kind |-> "create", channel |-> c,
                                         label |-> channel[n][c].label]) \subseteq StateDeposit
    BY DEF Replay
  <1>1. channel[n][c].label \in {Empty, Label}
    BY DEF StateTypeOK, Channel
  <1>2. [kind |-> "create", channel |-> c, label |-> channel[n][c].label] \in StateOps
    BY <1>1 DEF StateOps
  <1> QED BY <1>2, FannedState

LEMMA AdvertisementForm ==
  ASSUME StateTypeOK, NEW n \in Accounts, NEW peer \in Accounts
  PROVE  Advertisement(n, peer) \subseteq StateDeposit
  <1> DEFINE op == [kind |-> "state", title |-> info[n].title,
                    avatar |-> IF info[n].avatar \in files[n] THEN info[n].avatar ELSE Empty]
  <1>1. info[n] \in Info
    BY DEF StateTypeOK
  <1>2. CASE info[n].title = Empty
    BY <1>2 DEF Advertisement
  <1>3. CASE info[n].title # Empty
    <2>1. op \in StateOps
      BY <1>1, <1>3 DEF StateOps, Info
    <2>2. FanOut(n, {peer}, op) \subseteq StateDeposit
      BY <2>1, FannedState
    <2> QED BY <1>3, <2>2 DEF Advertisement
  <1> QED BY <1>2, <1>3

\* Nobody's avatar or store is touched, or one node's and rightly so.
LEMMA AvatarsKept ==
  ASSUME AvatarIsHeld, info' = info, files' = files
  PROVE  AvatarIsHeld'
  BY DEF AvatarIsHeld

LEMMA TitleSet ==
  ASSUME StateInv, NEW n \in Accounts, NEW t \in Titles \cup {Empty},
         info' = [info EXCEPT ![n].title = t], files' = files
  PROVE  info' \in [Accounts -> Info] /\ AvatarIsHeld'
  <1>1. info \in [Accounts -> Info]
    BY DEF StateInv, StateTypeOK
  <1>2. \A a \in Accounts : info'[a] \in Info /\ info'[a].avatar = info[a].avatar
    BY <1>1 DEF Info
  <1>3. info' \in [Accounts -> Info]
    BY <1>1, <1>2
  <1> QED BY <1>2, <1>3 DEF StateInv, AvatarIsHeld

LEMMA AvatarOnly ==
  ASSUME info \in [Accounts -> Info], NEW n \in Accounts, NEW h
  PROVE  [info EXCEPT ![n].avatar = h] = [info EXCEPT ![n] = [title |-> info[n].title, avatar |-> h]]
  <1>1. info[n] \in Info
    OBVIOUS
  <1>2. [info[n] EXCEPT !.avatar = h] = [title |-> info[n].title, avatar |-> h]
    BY <1>1 DEF Info
  <1>3. [info EXCEPT ![n].avatar = h] = [info EXCEPT ![n] = [info[n] EXCEPT !.avatar = h]]
    OBVIOUS
  <1> QED BY <1>2, <1>3

LEMMA AvatarSet ==
  ASSUME StateInv, NEW n \in Accounts, NEW t \in Titles \cup {Empty},
         NEW h \in Avatars \cup {Empty},
         info' = [info EXCEPT ![n] = [title |-> t, avatar |-> h]],
         \/ files' = [files EXCEPT ![n] = @ \cup ({h} \ {Empty})]
         \/ files' = files /\ h = info[n].avatar
  PROVE  /\ info' \in [Accounts -> Info] /\ files' \in [Accounts -> SUBSET Avatars]
         /\ AvatarIsHeld'
  <1>1. info \in [Accounts -> Info] /\ files \in [Accounts -> SUBSET Avatars]
    BY DEF StateInv, StateTypeOK
  <1>2. [title |-> t, avatar |-> h] \in Info
    BY DEF Info
  <1>3. info' \in [Accounts -> Info]
    BY <1>1, <1>2
  <1>4. files' \in [Accounts -> SUBSET Avatars]
    BY <1>1
  <1>5. ASSUME NEW a \in Accounts, info'[a].avatar # Empty
        PROVE  info'[a].avatar \in files'[a]
    <2>1. CASE a # n
      BY <1>1, <1>5, <2>1 DEF StateInv, AvatarIsHeld
    <2>2. CASE a = n
      <3>1. info'[n].avatar = h
        BY <1>1, <1>2
      <3> QED BY <1>1, <1>5, <2>2, <3>1 DEF StateInv, AvatarIsHeld
    <2> QED BY <2>1, <2>2
  <1> QED BY <1>3, <1>4, <1>5 DEF AvatarIsHeld

LEMMA ChannelSet ==
  ASSUME StateTypeOK, NEW n \in Accounts, NEW c \in Channels, NEW l \in {Empty, Label}
  PROVE  /\ [channel EXCEPT ![n][c] = EnsuredChannel(@, l)] \in [Accounts -> [Channels -> Channel]]
         /\ [channel EXCEPT ![n][c] = Tombstoned(@)] \in [Accounts -> [Channels -> Channel]]
  <1>1. channel \in [Accounts -> [Channels -> Channel]] /\ channel[n][c] \in Channel
    BY DEF StateTypeOK
  <1> QED BY <1>1, EnsuredChannelForm

-----------------------------------------------------------------------------
(* The steps of the group's state.                                         *)

LEMMA UserStep ==
  ASSUME StateInv, NEW n \in Accounts, User(n), invite' = invite
  PROVE  StateInv'
  <1>0. StateTypeOK /\ AvatarIsHeld
    BY DEF StateInv
  <1>1. ASSUME NEW t \in Titles, RenameGroup(n, t)
        PROVE  StateInv'
    <2>1. [kind |-> "rename", title |-> t] \in StateOps
      BY DEF StateOps
    <2>2. wire' \subseteq StateDeposit /\ spare' \in [StateBounds -> Nat]
      BY <1>0, <1>1, <2>1, Told, Used DEF RenameGroup, StateBounds
    <2>3. info' \in [Accounts -> Info] /\ AvatarIsHeld'
      BY <1>1, TitleSet DEF RenameGroup
    <2> QED BY <1>0, <1>1, <2>2, <2>3 DEF RenameGroup, StateInv, StateTypeOK
  <1>2. ASSUME NEW h \in Avatars \cup {Empty}, SetAvatarGroup(n, h)
        PROVE  StateInv'
    <2>1. [kind |-> "setAvatar", avatar |-> h] \in StateOps
      BY DEF StateOps
    <2>2. wire' \subseteq StateDeposit /\ spare' \in [StateBounds -> Nat]
      BY <1>0, <1>2, <2>1, Told, Used DEF SetAvatarGroup, StateBounds
    <2>3. info[n] \in Info /\ info \in [Accounts -> Info]
      BY <1>0 DEF StateTypeOK
    <2>4. info' = [info EXCEPT ![n] = [title |-> info[n].title, avatar |-> h]]
      BY <1>2, <2>3, AvatarOnly DEF SetAvatarGroup
    <2>5. info[n].title \in Titles \cup {Empty}
      BY <2>3 DEF Info
    <2>6. /\ info' \in [Accounts -> Info] /\ files' \in [Accounts -> SUBSET Avatars]
          /\ AvatarIsHeld'
      BY <1>2, <2>4, <2>5, AvatarSet DEF SetAvatarGroup
    <2> QED BY <1>0, <1>2, <2>2, <2>6 DEF SetAvatarGroup, StateInv, StateTypeOK
  <1>3. ASSUME NEW c \in Channels, CreateChannel(n, c)
        PROVE  StateInv'
    <2>1. [kind |-> "create", channel |-> c, label |-> Label] \in StateOps
      BY DEF StateOps
    <2>2. wire' \subseteq StateDeposit /\ spare' \in [StateBounds -> Nat]
      BY <1>0, <1>3, <2>1, Told, Used DEF CreateChannel, StateBounds, StateTypeOK
    <2>3. channel' \in [Accounts -> [Channels -> Channel]]
      BY <1>0, <1>3, ChannelSet DEF CreateChannel
    <2> QED BY <1>0, <1>3, <2>2, <2>3, AvatarsKept DEF CreateChannel, StateInv, StateTypeOK
  <1>4. ASSUME NEW c \in Channels, DeleteChannel(n, c)
        PROVE  StateInv'
    <2>1. [kind |-> "delete", channel |-> c] \in StateOps
      BY DEF StateOps
    <2>2. wire' \subseteq StateDeposit /\ spare' \in [StateBounds -> Nat]
      BY <1>0, <1>4, <2>1, Told, Used DEF DeleteChannel, StateBounds
    <2>3. channel' \in [Accounts -> [Channels -> Channel]]
      BY <1>0, <1>4, ChannelSet DEF DeleteChannel
    <2> QED BY <1>0, <1>4, <2>2, <2>3, AvatarsKept DEF DeleteChannel, StateInv, StateTypeOK
  <1>5. ASSUME NEW c \in Channels, Post(n, c)
        PROVE  StateInv'
    <2>1. [kind |-> "post", channel |-> c] \in StateOps
      BY DEF StateOps
    <2>2. wire' \subseteq StateDeposit /\ spare' \in [StateBounds -> Nat]
      BY <1>0, <1>5, <2>1, Told, Used DEF Post, StateBounds
    <2> QED BY <1>0, <1>5, <2>2, AvatarsKept DEF Post, StateInv, StateTypeOK
  <1>6. ASSUME RequestSync(n)
        PROVE  StateInv'
    <2>1. [kind |-> "sync"] \in StateOps
      BY DEF StateOps
    <2>2. wire' \subseteq StateDeposit
      BY <1>0, <1>6, <2>1, Told DEF RequestSync
    <2> QED BY <1>0, <1>6, <2>2, AvatarsKept DEF RequestSync, StateInv, StateTypeOK
  <1> QED BY <1>1, <1>2, <1>3, <1>4, <1>5, <1>6 DEF User

LEMMA HandleStep ==
  ASSUME StateInv, NEW m \in wire, Handle(m)
  PROVE  StateInv'
  <1>0. StateTypeOK /\ AvatarIsHeld
    BY DEF StateInv
  <1> DEFINE n == m.to
  <1>1. n \in Accounts /\ m.from \in Accounts /\ m.op \in StateOps
    BY <1>0, StateDepositForm
  <1>2. ASSUME Finish(m, {})
        PROVE  wire' \subseteq StateDeposit /\ spare' \in [StateBounds -> Nat]
    BY <1>0, <1>2, Finished
  <1>3. info[n] \in Info /\ info \in [Accounts -> Info] /\ files \in [Accounts -> SUBSET Avatars]
    BY <1>0, <1>1 DEF StateTypeOK
  <1>4. CASE ReceiveRename(m)
    <2>1. m.op.title \in Titles
      BY <1>1, <1>4, StateOpForms DEF ReceiveRename, Heed
    <2>2. info' \in [Accounts -> Info] /\ AvatarIsHeld'
      BY <1>0, <1>1, <1>3, <1>4, <2>1, TitleSet, AvatarsKept DEF ReceiveRename
    <2> QED BY <1>0, <1>2, <1>4, <2>2 DEF ReceiveRename, StateInv, StateTypeOK, Heed, Hear
  <1>5. CASE ReceiveSetAvatar(m)
    <2>1. m.op.avatar \in Avatars \cup {Empty}
      BY <1>1, <1>5, StateOpForms DEF ReceiveSetAvatar, Heed
    <2>2. info[n].title \in Titles \cup {Empty}
      BY <1>3 DEF Info
    <2>3. ASSUME info' = [info EXCEPT ![m.to].avatar = m.op.avatar]
          PROVE  info' = [info EXCEPT ![n] = [title |-> info[n].title, avatar |-> m.op.avatar]]
      BY <1>1, <1>3, <2>3, AvatarOnly
    <2>4. /\ info' \in [Accounts -> Info] /\ files' \in [Accounts -> SUBSET Avatars]
          /\ AvatarIsHeld'
      BY <1>0, <1>1, <1>3, <1>5, <2>1, <2>2, <2>3, AvatarSet, AvatarsKept DEF ReceiveSetAvatar
    <2> QED BY <1>0, <1>2, <1>5, <2>4 DEF ReceiveSetAvatar, StateInv, StateTypeOK, Heed, Hear
  <1>6. CASE ReceiveCreate(m)
    <2>1. m.op.channel \in Channels /\ m.op.label \in {Empty, Label}
      BY <1>1, <1>6, StateOpForms DEF ReceiveCreate, Heed
    <2>2. channel' \in [Accounts -> [Channels -> Channel]]
      BY <1>0, <1>1, <1>6, <2>1, ChannelSet DEF ReceiveCreate
    <2> QED BY <1>0, <1>2, <1>6, <2>2, AvatarsKept
            DEF ReceiveCreate, StateInv, StateTypeOK, Heed, Hear
  <1>7. CASE ReceiveDelete(m)
    <2>1. m.op.channel \in Channels
      BY <1>1, <1>7, StateOpForms DEF ReceiveDelete, Heed
    <2>2. channel' \in [Accounts -> [Channels -> Channel]]
      BY <1>0, <1>1, <1>7, <2>1, ChannelSet DEF ReceiveDelete, StateTypeOK
    <2> QED BY <1>0, <1>2, <1>7, <2>2, AvatarsKept
            DEF ReceiveDelete, StateInv, StateTypeOK, Heed, Hear
  <1>8. CASE ReceivePost(m)
    <2>1. m.op.channel \in Channels
      BY <1>1, <1>8, StateOpForms DEF ReceivePost, Heed
    <2>2. channel' \in [Accounts -> [Channels -> Channel]]
      BY <1>0, <1>1, <1>8, <2>1, ChannelSet DEF ReceivePost
    <2>3. FanOut(n, {m.from}, [kind |-> "sync"]) \subseteq StateDeposit
      BY <1>1, FannedState DEF StateOps
    <2>4. wire' \subseteq StateDeposit /\ spare' \in [StateBounds -> Nat]
      BY <1>0, <1>8, <2>3, Finished DEF ReceivePost
    <2> QED BY <1>0, <1>8, <2>2, <2>4, AvatarsKept
            DEF ReceivePost, StateInv, StateTypeOK, Heed, Hear
  <1>9. CASE ReceiveSync(m)
    <2>1. Replay(n, m.from) \cup Advertisement(n, m.from) \subseteq StateDeposit
      BY <1>0, <1>1, ReplayForm, AdvertisementForm
    <2>2. wire' \subseteq StateDeposit /\ spare' \in [StateBounds -> Nat]
      BY <1>0, <1>9, <2>1, Finished DEF ReceiveSync
    <2> QED BY <1>0, <1>9, <2>2, AvatarsKept
            DEF ReceiveSync, StateInv, StateTypeOK, Heed, Hear
  <1>10. CASE ReceiveState(m)
    <2> DEFINE fits == m.op.avatar # Empty /\ info[n].avatar = Empty
               t == IF info[n].title = Empty THEN m.op.title ELSE info[n].title
               h == IF fits THEN m.op.avatar ELSE info[n].avatar
    <2>1. m.op.title \in Titles /\ m.op.avatar \in Avatars \cup {Empty}
      BY <1>1, <1>10, StateOpForms DEF ReceiveState, Heed
    <2>2. t \in Titles \cup {Empty} /\ h \in Avatars \cup {Empty}
      BY <1>3, <2>1 DEF Info
    <2>3. info' = [info EXCEPT ![n] = [title |-> t, avatar |-> h]]
      BY <1>3, <1>10 DEF ReceiveState
    <2>4. \/ files' = [files EXCEPT ![n] = @ \cup ({h} \ {Empty})]
          \/ files' = files /\ h = info[n].avatar
      BY <1>3, <1>10, <2>1 DEF ReceiveState
    <2>5. /\ info' \in [Accounts -> Info] /\ files' \in [Accounts -> SUBSET Avatars]
          /\ AvatarIsHeld'
      BY <1>1, <2>2, <2>3, <2>4, AvatarSet
    <2> QED BY <1>0, <1>2, <1>10, <2>5 DEF ReceiveState, StateInv, StateTypeOK, Heed, Hear
  <1>11. CASE DropState(m)
    BY <1>0, <1>2, <1>11, AvatarsKept DEF DropState, StateInv, StateTypeOK, Hear
  <1> QED BY <1>4, <1>5, <1>6, <1>7, <1>8, <1>9, <1>10, <1>11 DEF Handle

LEMMA RosterSideStep ==
  ASSUME IInv, StateInv, NEW n \in Accounts, NEW i \in Invites, Issue(n, i) \/ Enter(n, i)
  PROVE  StateInv'
  <1>0. /\ StateTypeOK /\ AvatarIsHeld
        /\ info[n] \in Info /\ offered[i] \in Titles \cup {Empty}
    BY DEF StateInv, StateTypeOK
  <1>1. CASE Issue(n, i)
    BY <1>0, <1>1, AvatarsKept DEF Issue, StateInv, StateTypeOK, Info
  <1>2. CASE Enter(n, i)
    <2>1. info' \in [Accounts -> Info] /\ AvatarIsHeld'
      BY <1>0, <1>2, TitleSet, AvatarsKept DEF Enter, StateTypeOK
    <2> QED BY <1>0, <1>2, <2>1 DEF Enter, StateInv, StateTypeOK
  <1> QED BY <1>1, <1>2

LEMMA StateStep ==
  ASSUME IInv, StateInv, [GroupNext]_allVars
  PROVE  StateInv'
  <1>0. StateTypeOK /\ AvatarIsHeld
    BY DEF StateInv
  <1>1. ASSUME UNCHANGED state PROVE StateInv'
    BY <1>0, <1>1, AvatarsKept DEF state, StateInv, StateTypeOK
  <1>2. ASSUME NEW m \in net, AnswerJoin(m) PROVE StateInv'
    <2>1. m.to \in Accounts /\ m.from \in Accounts
      BY DepositForm DEF IInv
    <2>2. wire' \subseteq StateDeposit
      BY <1>0, <1>2, <2>1, ReplayForm DEF AnswerJoin, StateTypeOK
    <2> QED BY <1>0, <1>2, <2>2, AvatarsKept DEF AnswerJoin, StateInv, StateTypeOK
  <1>3. ASSUME NEW m \in wire, LoseState(m) PROVE StateInv'
    <2>1. spare' \in [StateBounds -> Nat]
      BY <1>0, <1>3, Used DEF LoseState, StateBounds
    <2>2. wire' \subseteq StateDeposit
      BY <1>0, <1>3 DEF LoseState, StateTypeOK
    <2> QED BY <1>0, <1>3, <2>1, <2>2, AvatarsKept DEF LoseState, StateInv, StateTypeOK
  <1>4. ASSUME NEW n \in Accounts, User(n), UNCHANGED vars PROVE StateInv'
    BY <1>4, UserStep DEF vars
  <1>5. CASE UNCHANGED allVars
    BY <1>1, <1>5 DEF allVars
  <1> QED BY <1>1, <1>2, <1>3, <1>4, <1>5, HandleStep, RosterSideStep DEF GroupNext, RosterOnly

\* Every step of the composition is a step of the roster, or none.
LEMMA StateStepIsRosters ==
  ASSUME StateInv, [GroupNext]_allVars
  PROVE  [Next]_vars
  <1>0. StateTypeOK
    BY DEF StateInv
  <1>1. ASSUME NEW n \in Accounts, NEW i \in Invites, Issue(n, i) \/ Enter(n, i) PROVE Next
    BY <1>1 DEF Issue, Enter, Next, Local
  <1>2. ASSUME NEW m \in net, AnswerJoin(m) PROVE Next
    BY <1>2 DEF AnswerJoin, Next, Receive
  <1>3. ASSUME RosterOnly PROVE Next
    BY <1>3 DEF RosterOnly, Next, Local, Receive
  <1>4. ASSUME NEW m \in wire, Handle(m) PROVE Next
    <2>1. m.to \in Accounts /\ m.from \in Accounts
      BY <1>0, StateDepositForm
    <2>2. Hear(m.to, m.from)
      BY <1>4 DEF Handle, Heed, ReceiveRename, ReceiveSetAvatar, ReceiveCreate, ReceiveDelete,
         ReceivePost, ReceiveSync, ReceiveState, DropState
    <2> QED BY <2>1, <2>2 DEF Next
  <1>5. CASE UNCHANGED allVars
    BY <1>5 DEF allVars
  <1> QED BY <1>1, <1>2, <1>3, <1>4, <1>5 DEF GroupNext

LEMMA StateInitially == GroupInit => StateInv
  <1> SUFFICES ASSUME GroupInit PROVE StateInv
    OBVIOUS
  <1>1. spare \in [StateBounds -> Nat]
    BY StateLimitsAssumption DEF GroupInit, Init
  <1> QED BY <1>1 DEF GroupInit, StateInv, StateTypeOK, AvatarIsHeld, Info, NoInfo, Channel, NoChannel

\* With its state beside it a group's roster is what it is alone: whatever is
\* proved of the roster holds while titles, avatars and channels change.
THEOREM RosterImplemented == GroupSpec => Spec /\ []StateInv
  <1>1. GroupInit => Init /\ IInv /\ StateInv
    BY Initially, StateInitially DEF GroupInit
  <1>2. IInv /\ StateInv /\ [GroupNext]_allVars => [Next]_vars /\ IInv' /\ StateInv'
    BY StateStep, StateStepIsRosters, EveryStep, StepSafe
  <1> QED BY <1>1, <1>2, PTL DEF GroupSpec, Spec

\* A node that shows an avatar holds its bytes (setAvatarGroup,
\* #applyIncomingSetAvatar, #applyIncomingGroupState).
THEOREM AvatarHeld == GroupSpec => []AvatarIsHeld
  <1>1. StateInv => AvatarIsHeld
    BY DEF StateInv
  <1> QED BY <1>1, RosterImplemented, PTL
=============================================================================
