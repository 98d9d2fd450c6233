----------------------------- MODULE GroupRoster -----------------------------
(***************************************************************************)
(* Who is in a group, by each member's own reckoning. There is no server   *)
(* that owns the member list: every node keeps a roster of its own         *)
(* (ChatGroupStore), changes it on its user's wish (ServerGroupsService,   *)
(* ServerInvitesService), tells the members it knows, once and without     *)
(* retry (ServerGroupBroadcaster), and judges what it is told              *)
(* (ServerGroupOpApplier).                                                 *)
(*                                                                         *)
(* One group. Every deposit is handled by one run of its handler, and the  *)
(* handlers of one inbox are serial; operations in flight are a set:       *)
(* they arrive in any order, may be lost, and may be applied again after a *)
(* crash. A removed row's stamp and an invite's are compared only on the   *)
(* node that wrote both, so one clock stands for all.                      *)
(***************************************************************************)
EXTENDS Naturals, FiniteSets

CONSTANTS
  Accounts,
  Creator,     \* group.createdBy, which every acceptor verifies against the id
  Nobody,
  Invites,     \* invite ids
  NoInvite,
  MaxUses,     \* how many acceptors an invite admits
  Lifetime,    \* how long it does
  Limits       \* allowances: how often each of Bounds happens

Bounds == {"issue",    \* invites issued
           "accept",   \* invites accepted
           "cut",      \* of these, cut short
           "kick",     \* members kicked
           "role",     \* roles set
           "leave",    \* members leaving
           "fault",    \* deposits lost or applied again
           "tick",     \* steps of the clock
           "reconnect"}    \* whether connections come back at all

ASSUME CreatorAssumption == Creator \in Accounts
ASSUME NobodyAssumption == Nobody \notin Accounts
ASSUME InvitesAssumption == NoInvite \notin Invites /\ "none" \notin Invites /\ "up" \notin Invites
ASSUME UsesAssumption == MaxUses \in Nat \ {0} /\ Lifetime \in Nat
ASSUME LimitsAssumption == Limits \subseteq [Bounds -> Nat]

VARIABLES
  rows,      \* durable: each node's membership rows
  via,       \* durable: the invite the node's group record was made by
  invite,    \* durable: the inviter's ledger of issued invites
  link,      \* durable: each node's peer-links: none, by an invite, or up
  net,       \* deposits on their way
  now,       \* the clock
  leavers,   \* history: accounts that chose to leave
  granted,   \* history: accounts made admin by the creator or by such an admin
  left       \* what remains of each bound

history == <<leavers, granted>>
vars == <<rows, via, invite, link, net, now, leavers, granted, left>>

Spend(b) == left[b] > 0 /\ left' = [left EXCEPT ![b] = @ - 1]

SpendBoth(b, c) ==
  /\ left[b] > 0 /\ left[c] > 0
  /\ left' = [left EXCEPT ![b] = @ - 1, ![c] = @ - 1]

-----------------------------------------------------------------------------
(* Rows of the roster (ChatGroupStore).                                    *)

Roles == {"member", "admin", "creator"}
Row == [state : {"none", "active", "removed"}, role : Roles,
        proof : {"none", "signed"}, at : Nat]

NoRow == [state |-> "none", role |-> "member", proof |-> "none", at |-> 0]

\* ensureMembership: a new row, or a proof for a row that has none.
Ensured(row, role, proof) ==
  IF row.state = "none"
  THEN [state |-> "active", role |-> role, proof |-> proof, at |-> 0]
  ELSE IF row.proof = "none" THEN [row EXCEPT !.proof = proof] ELSE row

\* reviveMembership: the only way back from "removed".
Revived(row, proof) ==
  IF row.state = "removed"
  THEN [state |-> "active", role |-> "member",
        proof |-> IF proof = "signed" THEN proof ELSE row.proof, at |-> 0]
  ELSE row

\* removeMember: also of a row already removed, whose stamp is renewed.
Removed(row, t) ==
  IF row.state = "none" THEN row ELSE [row EXCEPT !.state = "removed", !.at = t]

\* setMemberRole: also of a removed row, and it renews that stamp too. The
\* stamp of an active row is never read.
WithRole(row, role, t) ==
  IF row.state = "none" THEN row
  ELSE [row EXCEPT !.role = role, !.at = IF row.state = "removed" THEN t ELSE @]

Active(roster) == {a \in Accounts : roster[a].state = "active"}

IsEffectiveAdmin(n, a) ==
  rows[n][a].role \in {"admin", "creator"} \/ a = Creator

RequireSelfAdmin(n) == rows[n][n].state = "active" /\ IsEffectiveAdmin(n, n)

-----------------------------------------------------------------------------
(* Deposits.                                                               *)

Ops == [kind : {"leave", "kick"}, about : Accounts]
       \cup [kind : {"setRole"}, about : Accounts, role : {"member", "admin"}]
       \cup [kind : {"join"}, about : Accounts, invite : Invites]
       \cup [kind : {"contact"}, known : SUBSET Accounts]
       \cup [kind : {"hello", "reject"}, invite : Invites]
       \cup [kind : {"intro"}]

Deposit == [to : Accounts, from : Accounts, op : Ops]

Mail(n, target, op) == [to |-> target, from |-> n, op |-> op]

\* ServerGroupBroadcaster.fanOut: sealing needs a peer-link; a target without
\* one is logged and skipped.
FanOut(n, targets, op) ==
  {Mail(n, t, op) : t \in {a \in targets : link[n][a] # "none"}}

\* #broadcastKnownContacts: the active members the node can reach and vouch
\* for (itself included), sent to all active members it can reach.
Known(n, roster) ==
  {a \in Active(roster) : /\ a = n \/ link[n][a] # "none"
                          /\ a = Creator \/ roster[a].proof = "signed"}

Contacts(n, roster) ==
  IF Known(n, roster) = {} THEN {}
  ELSE FanOut(n, Active(roster) \ {n}, [kind |-> "contact", known |-> Known(n, roster)])

\* The deposit is done with, or it is applied and will be applied again.
Consume(m, sent) ==
  \/ net' = (net \ {m}) \cup sent /\ UNCHANGED left
  \/ net' = net \cup sent /\ Spend("fault")

\* A sealed operation can be read once there is a session with its sender; the
\* first one shows that the sender holds it too.
Read(m) ==
  /\ m \in net
  /\ link[m.to][m.from] # "none"
  /\ link' = [link EXCEPT ![m.to][m.from] = "up"]

\* The gate of handle(): whatever is not a join needs a sender who is an active
\* member by the receiver's roster, and kick and setRole need an admin.
Admitted(m) ==
  /\ rows[m.to][m.from].state = "active"
  /\ m.op.kind \in {"kick", "setRole"} => IsEffectiveAdmin(m.to, m.from)

-----------------------------------------------------------------------------
(* createGroup has run on the creator's node; nobody else knows of it.     *)

CreatorRow == [state |-> "active", role |-> "creator", proof |-> "none", at |-> 0]

Init ==
  /\ rows = [n \in Accounts |-> [a \in Accounts |->
               IF n = Creator /\ a = Creator THEN CreatorRow ELSE NoRow]]
  /\ via = [n \in Accounts |-> NoInvite]
  /\ invite = [i \in Invites |-> [by |-> Nobody, at |-> 0, uses |-> {}]]
  /\ link = [n \in Accounts |-> [a \in Accounts |-> "none"]]
  /\ net = {} /\ now = 0
  /\ leavers = {} /\ granted = {}
  /\ left \in Limits

-----------------------------------------------------------------------------
(* Invites (ServerInvitesService) and the handshake they start.            *)

\* ensureSelfMembershipProof: an issuer whose row carries no proof signs one, if
\* the invite names him and signing works. The creator's vouches for his name
\* alone and is left out.
SelfProven(n) ==
  [rows EXCEPT ![n][n] = Ensured(@, "member", IF n = Creator THEN "none" ELSE "signed")]

CreateInvite(n, i) ==
  /\ rows[n][n].state = "active"
  /\ invite[i].by = Nobody
  /\ rows' \in {rows, SelfProven(n)}
  /\ invite' = [invite EXCEPT ![i] = [by |-> n, at |-> now, uses |-> {}]]
  /\ Spend("issue")
  /\ UNCHANGED <<via, link, net, now, history>>

\* acceptInvite up to the join: the handshake (none when the link is up), then
\* ensureGroupThread, which makes the group record if there is none, adds or
\* revives the node's own row, and adds the inviter's.
EnterGroup(n, i, proof) ==
  LET by == invite[i].by
      own == Revived(Ensured(rows[n][n], "member", "none"), "none") IN
  /\ by \notin {Nobody, n}
  /\ rows' = [rows EXCEPT ![n] =
                 [@ EXCEPT ![n] = Ensured(own, "member", proof),
                           ![by] = Ensured(rows[n][by], "member", "none")]]
  /\ via' = IF rows[n][n].state = "none" THEN [via EXCEPT ![n] = i] ELSE via
  /\ link' = IF link[n][by] = "up" THEN link ELSE [link EXCEPT ![n][by] = i]
  /\ UNCHANGED <<invite, now, history>>

Hello(n, i) ==
  LET by == invite[i].by IN
  IF link[n][by] = "up" THEN {} ELSE {Mail(n, by, [kind |-> "hello", invite |-> i])}

\* sendMemberJoinOp: the node signs its consent, keeps it on its own row and
\* tells the inviter.
JoinOp(n, i) == Mail(n, invite[i].by, [kind |-> "join", about |-> n, invite |-> i])

AcceptInvite(n, i) ==
  /\ EnterGroup(n, i, "signed")
  /\ net' = net \cup Hello(n, i) \cup {JoinOp(n, i)}
  /\ Spend("accept")

\* The process dies, or signing fails, in between.
AcceptCutShort(n, i) ==
  /\ EnterGroup(n, i, "none")
  /\ net' = net \cup Hello(n, i)
  /\ SpendBoth("accept", "cut")

\* PeerLinkService.authorizeInviteJoin, also asked by the handshake responder.
Authorizes(i, a) ==
  /\ now <= invite[i].at + Lifetime
  /\ a \in invite[i].uses \/ Cardinality(invite[i].uses) < MaxUses

\* The inviter's handshake responder.
ReceiveHello(m) ==
  LET n == m.to
      i == m.op.invite IN
  /\ m \in net /\ m.op.kind = "hello"
  /\ IF Authorizes(i, m.from)
     THEN /\ invite' = [invite EXCEPT ![i].uses = @ \cup {m.from}]
          /\ link' = [link EXCEPT ![n][m.from] = "up"]
          /\ Consume(m, {})
     ELSE /\ Consume(m, {Mail(n, m.from, [kind |-> "reject", invite |-> i])})
          /\ UNCHANGED <<invite, link>>
  /\ UNCHANGED <<rows, via, now, history>>

\* The peer-link is rolled back if it still rests on that invite, and
\* discardGroupForRejectedInvite undoes the group if its record does.
ReceiveReject(m) ==
  LET n == m.to
      i == m.op.invite IN
  /\ m \in net /\ m.op.kind = "reject"
  /\ IF link[n][m.from] = i
     THEN /\ link' = [link EXCEPT ![n][m.from] = "none"]
          /\ rows' = IF via[n] = i
                     THEN [rows EXCEPT ![n][n] = Removed(@, now)] ELSE rows
     ELSE UNCHANGED <<link, rows>>
  /\ Consume(m, {})
  /\ UNCHANGED <<via, invite, now, history>>

-----------------------------------------------------------------------------
(* The user's operations (ServerGroupsService).                            *)

LeaveGroup(n) ==
  /\ rows[n][n].state # "none"
  /\ rows' = [rows EXCEPT ![n][n] = Removed(@, now)]
  /\ net' = net \cup FanOut(n, Active(rows[n]) \ {n}, [kind |-> "leave", about |-> n])
  /\ leavers' = leavers \cup {n}
  /\ Spend("leave")
  /\ UNCHANGED <<via, invite, link, now, granted>>

(* Wrong variant: without the creator's protection.                        *)
KickAnyone(n, a) ==
  /\ RequireSelfAdmin(n)
  /\ rows[n][a].state # "none"
  /\ rows' = [rows EXCEPT ![n][a] = Removed(@, now)]
  /\ net' = net \cup FanOut(n, (Active(rows[n]) \cup {a}) \ {n}, [kind |-> "kick", about |-> a])
  /\ Spend("kick")
  /\ UNCHANGED <<via, invite, link, now, history>>

\* The one kicked is told as well, whatever the roster says of him.
KickMember(n, a) ==
  /\ RequireSelfAdmin(n)
  /\ a # Creator
  /\ rows[n][a].state # "none"
  /\ rows' = [rows EXCEPT ![n][a] = Removed(@, now)]
  /\ net' = net \cup FanOut(n, (Active(rows[n]) \cup {a}) \ {n}, [kind |-> "kick", about |-> a])
  /\ Spend("kick")
  /\ UNCHANGED <<via, invite, link, now, history>>

SetMemberRole(n, a, role) ==
  /\ RequireSelfAdmin(n)
  /\ a # Creator
  /\ rows[n][a].state # "none"
  /\ rows' = [rows EXCEPT ![n][a] = WithRole(@, role, now)]
  /\ net' = net \cup FanOut(n, Active(rows[n]) \ {n},
                            [kind |-> "setRole", about |-> a, role |-> role])
  /\ granted' = IF role = "admin" /\ n \in granted \cup {Creator}
                THEN granted \cup {a} ELSE granted
  /\ Spend("role")
  /\ UNCHANGED <<via, invite, link, now, leavers>>

\* Bound: a node advertises again once its last advertisement is read or lost.
Advertised(n) ==
  \E m \in net : m.from = n /\ m.op.kind = "contact" /\ link[m.to][n] # "none"

\* reconcileMesh, on start and on every reconnect (where there is any).
ReconcileMesh(n) ==
  /\ left["reconnect"] > 0 /\ ~ Advertised(n)
  /\ net' = net \cup Contacts(n, rows[n])
  /\ UNCHANGED <<rows, via, invite, link, now, history, left>>

-----------------------------------------------------------------------------
(* What a node makes of an operation (ServerGroupOpApplier).               *)

\* The joiner's own announcement, on the inviter's node: the invite must be the
\* node's own, later than a removal, and still good.
InviteAdmits(n, a, i) ==
  /\ invite[i].by = n
  /\ rows[n][a].state = "removed" => invite[i].at > rows[n][a].at
  /\ Authorizes(i, a)

JoinedRow(row) == Ensured(Revived(row, "signed"), "member", "signed")

ReceiveAnnounce(m) ==
  LET n == m.to
      a == m.op.about
      i == m.op.invite
      roster == [rows[n] EXCEPT ![a] = JoinedRow(@)] IN
  /\ Read(m) /\ m.op.kind = "join" /\ a = m.from /\ a # n
  /\ InviteAdmits(n, a, i)
  /\ rows' = [rows EXCEPT ![n] = roster]
  /\ invite' = [invite EXCEPT ![i].uses = @ \cup {a}]
  /\ Consume(m, FanOut(n, Active(roster) \ {n, a}, m.op) \cup Contacts(n, roster))
  /\ UNCHANGED <<via, now, history>>

(* Wrong variant: the forwarder's membership is enough.                    *)
ForwardRevives(m) == rows[m.to][m.from].state = "active"

\* Forwarded by the inviter: it may add a member, never bring one back.
ForwardAdmits(m) ==
  /\ rows[m.to][m.from].state = "active"
  /\ rows[m.to][m.op.about].state # "removed"

ReceiveForward(m) ==
  LET n == m.to
      a == m.op.about IN
  /\ Read(m) /\ m.op.kind = "join" /\ a # m.from /\ a # n
  /\ ForwardAdmits(m)
  /\ rows' = [rows EXCEPT ![n][a] = JoinedRow(@)]
  /\ Consume(m, {})
  /\ UNCHANGED <<via, invite, now, history>>

ReceiveKick(m) ==
  /\ Read(m) /\ m.op.kind = "kick" /\ Admitted(m)
  /\ rows' = IF m.op.about = Creator THEN rows
             ELSE [rows EXCEPT ![m.to][m.op.about] = Removed(@, now)]
  /\ Consume(m, {})
  /\ UNCHANGED <<via, invite, now, history>>

ReceiveSetRole(m) ==
  /\ Read(m) /\ m.op.kind = "setRole" /\ Admitted(m)
  /\ rows' = IF m.op.about = Creator THEN rows
             ELSE [rows EXCEPT ![m.to][m.op.about] = WithRole(@, m.op.role, now)]
  /\ Consume(m, {})
  /\ UNCHANGED <<via, invite, now, history>>

ReceiveLeave(m) ==
  /\ Read(m) /\ m.op.kind = "leave" /\ Admitted(m) /\ m.op.about = m.from
  /\ rows' = [rows EXCEPT ![m.to][m.from] = Removed(@, now)]
  /\ Consume(m, {})
  /\ UNCHANGED <<via, invite, now, history>>

(* Wrong variant: a contact list is routing and confers no membership.     *)
ContactRoutes(m) ==
  LET n == m.to IN
  /\ Read(m) /\ m.op.kind = "contact" /\ Admitted(m)
  /\ Consume(m, {Mail(n, a, [kind |-> "intro"]) :
                   a \in {k \in m.op.known \cap Active(rows[n]) : k # n /\ link[n][k] = "none"}})
  /\ UNCHANGED <<rows, via, invite, now, history>>

\* Adds the members vouched for, never brings one back, and starts a peer-link
\* with each active one it has none with (bootstrapCoMemberLink).
ReceiveContact(m) ==
  LET n == m.to
      known == m.op.known \ {n}
      roster == [a \in Accounts |->
                   IF a \in known
                   THEN Ensured(rows[n][a], "member", IF a = Creator THEN "none" ELSE "signed")
                   ELSE rows[n][a]] IN
  /\ Read(m) /\ m.op.kind = "contact" /\ Admitted(m)
  /\ rows' = [rows EXCEPT ![n] = roster]
  /\ Consume(m, {Mail(n, a, [kind |-> "intro"]) :
                   a \in {k \in known \cap Active(roster) : link[n][k] = "none"}})
  /\ UNCHANGED <<via, invite, now, history>>

\* The peer accepts the introduction of a co-member; the handshake that follows
\* is not modelled.
ReceiveIntro(m) ==
  /\ m \in net /\ m.op.kind = "intro"
  /\ link' = IF rows[m.to][m.from].state = "active"
             THEN [link EXCEPT ![m.to][m.from] = "up", ![m.from][m.to] = "up"]
             ELSE link
  /\ Consume(m, {})
  /\ UNCHANGED <<rows, via, invite, now, history>>

\* Refused operations are dropped for good.
Refused(m) ==
  \/ m.op.kind \in {"kick", "setRole", "leave", "contact"} /\ ~ Admitted(m)
  \/ /\ m.op.kind = "join"
     /\ \/ m.op.about = m.to
        \/ m.op.about = m.from /\ ~ InviteAdmits(m.to, m.from, m.op.invite)
        \/ m.op.about # m.from /\ ~ ForwardAdmits(m)

Drop(m) ==
  /\ Read(m) /\ Refused(m)
  /\ Consume(m, {})
  /\ UNCHANGED <<rows, via, invite, now, history>>

-----------------------------------------------------------------------------
(* The network and the clock.                                              *)

\* Another sealed deposit of the sender's is opened: a message, or an operation
\* on the group's state (GroupState).
Hear(n, s) ==
  /\ link[n][s] # "none" /\ link[s][n] # "none"
  /\ link' = [link EXCEPT ![n][s] = "up"]
  /\ UNCHANGED <<rows, via, invite, net, now, history, left>>

Lose(m) ==
  /\ net' = net \ {m}
  /\ Spend("fault")
  /\ UNCHANGED <<rows, via, invite, link, now, history>>

Tick ==
  /\ now' = now + 1
  /\ Spend("tick")
  /\ UNCHANGED <<rows, via, invite, link, net, history>>

Receive(m) ==
  \/ ReceiveHello(m) \/ ReceiveReject(m)
  \/ ReceiveAnnounce(m) \/ ReceiveForward(m)
  \/ ReceiveKick(m) \/ ReceiveSetRole(m) \/ ReceiveLeave(m)
  \/ ReceiveContact(m) \/ ReceiveIntro(m)
  \/ Drop(m)

Local(n) ==
  \/ \E i \in Invites : CreateInvite(n, i) \/ AcceptInvite(n, i) \/ AcceptCutShort(n, i)
  \/ LeaveGroup(n)
  \/ \E a \in Accounts : KickMember(n, a)
  \/ \E a \in Accounts, role \in {"member", "admin"} : SetMemberRole(n, a, role)
  \/ ReconcileMesh(n)

Next ==
  \/ \E n \in Accounts : Local(n)
  \/ \E m \in net : Receive(m) \/ Lose(m)
  \/ \E n, s \in Accounts : Hear(n, s)
  \/ Tick

Spec == Init /\ [][Next]_vars

\* A connection comes back again and again, and an inbox is drained in the end.
ReceiveContactFrom(n, s) ==
  \E m \in net : /\ m.to = n /\ m.from = s /\ m.op.kind = "contact"
                 /\ ReceiveContact(m) \/ Drop(m)

FairSpec ==
  /\ Spec
  /\ \A n \in Accounts : WF_vars(ReconcileMesh(n))
  /\ \A n \in Accounts : \A s \in Accounts \ {n} : WF_vars(ReceiveContactFrom(n, s))

-----------------------------------------------------------------------------
(* Properties.                                                             *)

\* Every variable has its type.
TypeOK ==
  /\ rows \in [Accounts -> [Accounts -> Row]]
  /\ via \in [Accounts -> Invites \cup {NoInvite}]
  /\ invite \in [Invites -> [by : Accounts \cup {Nobody}, at : Nat, uses : SUBSET Accounts]]
  /\ link \in [Accounts -> [Accounts -> {"none", "up"} \cup Invites]]
  /\ net \subseteq Deposit
  /\ now \in Nat
  /\ leavers \subseteq Accounts /\ granted \subseteq Accounts
  /\ left \in [Bounds -> Nat]

\* The account has signed its own entry into the group.
Consents(a) == rows[a][a].proof = "signed"
HasInvited(a) == \E i \in Invites : invite[i].by = a

\* Nobody is put on a roster unasked: through joins, forwards and contact lists
\* of third parties, a row that carries a proof is of an account that signed
\* it, and one that carries none is the node's own, the creator's or that of
\* somebody who invites (the consent rule of #applyIncomingMemberJoin and
\* #applyIncomingMemberContact).
RosterIsConsented ==
  \A n, a \in Accounts :
    rows[n][a].state # "none" /\ a \notin {n, Creator} =>
      IF rows[n][a].proof = "signed" THEN Consents(a) ELSE HasInvited(a)

\* No node ever holds the creator removed unless he left: neither a kick, nor
\* a role, nor the teardown of a rejected invite removes him (kickMember and
\* #applyIncomingKick).
CreatorStays ==
  \A n \in Accounts : rows[n][Creator].state = "removed" => Creator \in leavers

\* Whoever a node takes for an admin was made one by the creator or by an admin
\* who was: no order of promotions, kicks, leaves and returns yields another
\* (requireSelfAdmin and the gate of handle()). Nobody but the creator has his
\* role.
AdminsAreGranted ==
  \A n, a \in Accounts :
    /\ rows[n][a].role = "admin" => a \in granted
    /\ rows[n][a].role = "creator" => a = Creator

\* Who is on a roster, who is not and who is what there is as the accounts and
\* the admins themselves willed it (ServerGroupOpApplier).
RosterIsSound == RosterIsConsented /\ CreatorStays /\ AdminsAreGranted

\* An invite the node issued itself, after it removed the member.
NewInvite(n, a) ==
  \E i \in Invites : /\ invite[i].by = n
                     /\ invite[i].at > rows[n][a].at
                     /\ a \in invite'[i].uses

ReturnsInvited ==
  \A n, a \in Accounts :
    /\ n # a
    /\ rows[n][a].state = "removed"
    /\ rows'[n][a].state # "removed"
    => NewInvite(n, a)

\* A member a node holds removed comes back there only on an invite that node
\* issued after the removal, never by a forward, a contact list, an old invite
\* or by being somebody's inviter (the anti-resurrection rule of
\* #applyIncomingMemberJoin and ChatGroupStore.ensureMembership).
NoResurrection == [][ReturnsInvited]_vars

\* The two hold each other for active members and have a session.
Linked(n, s) ==
  /\ n \in Active(rows[s]) /\ link[s][n] # "none"
  /\ s \in Active(rows[n]) /\ link[n][s] # "none"

Introduces(s, n, a) ==
  /\ Linked(s, n) /\ Linked(s, a)
  /\ a \in Active(rows[a])
  /\ a = Creator \/ Consents(a)

\* If s remains a linked co-member of both n and a, then n hears of a in the
\* end, whatever announcement, forward or contact list was lost: the mesh heals
\* on reconnect (reconcileMesh, #applyIncomingMemberContact).
MembersMeet ==
  []<>(left["reconnect"] > 0 =>
         \A n, s, a \in Accounts :
           Cardinality({n, s, a}) = 3 /\ Introduces(s, n, a) =>
             rows[n][a].state # "none")

-----------------------------------------------------------------------------
(* The inductive invariant.                                                *)

\* What is on its way is as good as what is on the rosters.
WireIsTrue ==
  \A m \in net :
    /\ m.op.kind = "join" => Consents(m.op.about)
    /\ m.op.kind = "contact" => \A a \in m.op.known : a = Creator \/ Consents(a)
    /\ m.op.kind = "leave" => m.op.about \in leavers
    /\ m.op.kind = "setRole" /\ m.op.role = "admin" => m.op.about \in granted

\* A row that was never made carries neither a proof nor a role.
BlankRows ==
  \A n, a \in Accounts : rows[n][a].state = "none" => rows[n][a] = NoRow

\* The creator's group record rests on no invite.
CreatorFounded == rows[Creator][Creator].state # "none" /\ via[Creator] = NoInvite

\* The roster's safety invariants with what makes them inductive.
IInv ==
  /\ TypeOK
  /\ RosterIsConsented /\ CreatorStays /\ AdminsAreGranted
  /\ WireIsTrue /\ BlankRows /\ CreatorFounded
=============================================================================
