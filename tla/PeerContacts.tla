---------------------------- MODULE PeerContacts ----------------------------
(***************************************************************************)
(* Two accounts that share a group: the peer link between them, its repair  *)
(* by recovery invites, and the contact that only their users' consent may  *)
(* make of it (ServerContactsService, ServerInvitesService,                 *)
(* ServerPeerLinkProtocolService, the peer-link handler and the direct       *)
(* content gate of ServerEventService, ConnectRequestStore,                 *)
(* AutoMintedInviteStore).                                                  *)
(*                                                                         *)
(* External: the peer links of the SDK.  An accepted invite keys a link; the *)
(* handshake keys the other end; what is sealed under a key opens only at an *)
(* end that has it.  A link keeps the invite that first made it.            *)
(***************************************************************************)
EXTENDS Naturals, Sequences, FiniteSets

CONSTANTS Accounts,
          Smaller,      \* the account whose id compares smaller
          MaxInvites,   \* bound: invites of a kind that an account has out
          MaxQueue,     \* bound: deposits under way to whom a user writes
          Scenes        \* bounds, one choice of them is made: what the users do
                        \* ("acts"), the invites that may be out ("invites"),
                        \* calls that fail and deadlines that are missed
                        \* ("faults"), and "crashes"

ASSUME AccountsAssumption ==
    /\ IsFiniteSet(Accounts) /\ Cardinality(Accounts) = 2
    /\ Smaller \in Accounts /\ "none" \notin Accounts
    /\ {MaxInvites, MaxQueue} \subseteq Nat \ {0}
    /\ \A s \in Scenes :
          {s.acts, s.faults, s.crashes} \subseteq Nat /\ s.invites \in 1 .. MaxInvites

VARIABLES
    contact, request,    \* [Accounts -> the contact row, the connect request]
    link,                \* [Accounts -> the key of its end and its first invite]
    open,                \* invites that are neither used nor expired
    codes,               \* invites that were handed over by hand
    channel,             \* [Accounts -> the deposits in its inbox, in order]
    task,                \* [Accounts -> what its user's call has left to do]
    minted, rekeyed,     \* in memory: an own recovery invite is out, a
                         \* recovery invite was accepted a short while ago
    consents,            \* history: accounts whose user asked for the contact
    acts, failures, crashes,
    scene                \* the bounds of this behaviour

rowVars == <<contact, request>>
linkVars == <<link, open>>
memVars == <<task, minted, rekeyed>>
boundVars == <<acts, failures, crashes, scene>>
contactsVars == <<rowVars, linkVars, codes, channel, memVars, consents, boundVars>>

Other(a) == CHOOSE b \in Accounts : b # a
\* Who made an invite, and whether its user did or the machinery.
Ids == {i \in [by : Accounts, auto : BOOLEAN, n : 0 .. MaxInvites] :
            i.n > 1 => i.auto}
NoId == [by |-> "none", auto |-> FALSE, n |-> 0]
Keys == Ids \cup {NoId}
Origin(i) == [by |-> i.by, auto |-> i.auto]
NoOrigin == Origin(NoId)
NoLink == [key |-> NoId, first |-> NoOrigin]
NoRequest == [dir |-> "none", invite |-> NoId]
NoTask == [step |-> "none", invite |-> NoId]
Rows == {"none", "invited", "active", "blocked"}   \* "none": or a known name
Deposits == [kind : {"handshake", "ack", "reject", "recovery", "request",
                     "accepted"}, invite : Keys, key : Keys]

ContactsTypeOK ==
    /\ contact \in [Accounts -> Rows]
    /\ request \in [Accounts -> [dir : {"none", "incoming", "outgoing"},
                                 invite : Keys]]
    /\ link \in [Accounts -> [key : Keys, first : {Origin(i) : i \in Keys}]]
    /\ open \subseteq Ids /\ codes \subseteq Ids
    /\ channel \in [Accounts -> Seq(Deposits)]
    /\ task \in [Accounts -> [step : {"none", "record", "conclude"}, invite : Keys]]
    /\ minted \in [Accounts -> {"no", "cooling", "out"}]
    /\ rekeyed \in [Accounts -> BOOLEAN]
    /\ consents \subseteq Accounts
    /\ scene \in Scenes /\ acts \in 0 .. scene.acts /\ failures \in 0 .. scene.faults
    /\ crashes \in 0 .. scene.crashes

\* They have met in a group, and one made the link with an invite of the mesh.
ContactsInit ==
    /\ contact = [a \in Accounts |-> "none"]
    /\ request = [a \in Accounts |-> NoRequest]
    /\ LET i == [by |-> Smaller, auto |-> TRUE, n |-> 0]
       IN  link = [a \in Accounts |-> [key |-> i, first |-> Origin(i)]]
    /\ open = {} /\ codes = {}
    /\ channel = [a \in Accounts |-> <<>>]
    /\ task = [a \in Accounts |-> NoTask]
    /\ minted = [a \in Accounts |-> "no"]
    /\ rekeyed = [a \in Accounts |-> FALSE]
    /\ consents = {} /\ acts = 0 /\ failures = 0 /\ crashes = 0
    /\ scene \in Scenes

Act == acts < scene.acts /\ acts' = acts + 1 /\ UNCHANGED scene
CallFails == failures < scene.faults /\ failures' = failures + 1
CallWorks == UNCHANGED failures
Room(a) == Len(channel[a]) < MaxQueue
Put(a, d) == channel' = [channel EXCEPT ![a] = Append(@, d)]
Deposit(kind, i, k) == [kind |-> kind, invite |-> i, key |-> k]

\* A new invite of a kind: one that nothing refers to any more.
Unused(i) ==
    /\ i \notin codes
    /\ \A a \in Accounts :
          /\ i \notin {link[a].key, request[a].invite, task[a].invite}
          /\ \A n \in DOMAIN channel[a] :
                i \notin {channel[a][n].invite, channel[a][n].key}
News(a, auto) ==
    LET free == {i \in Ids : i.by = a /\ i.auto = auto /\ i.n \in 1 .. scene.invites
                              /\ Unused(i)}
    IN  {i \in free : \A j \in free : i.n <= j.n}

-----------------------------------------------------------------------------
(* Rows.                                                                    *)

SetContact(a, s) == contact' = [contact EXCEPT ![a] = s]
SetRequest(a, r) == request' = [request EXCEPT ![a] = r]
\* A relationship is never downgraded to an invitation.
Invited(a) == IF contact[a] \in {"active", "blocked"} THEN contact[a] ELSE "invited"

\* Mutant: what the envelope says, and nothing of who made it.
EnvelopeIsDirect(a, i) == i.by = a
\* isDirectContactInvite: made here by the user, and not by the machinery.
IsDirect(a, i) == i.by = a /\ ~i.auto

\* A link that is established shows only for a contact, or a direct invite.
Materialize(a, first) ==
    IF contact[a] = "active" \/ IsDirect(a, first) THEN SetContact(a, "active")
    ELSE UNCHANGED contact

-----------------------------------------------------------------------------
(* The SDK accepts an invite: the end is keyed and a handshake is sent.     *)

Keyed(a, i) ==
    [key |-> i,
     first |-> IF link[a].first = NoOrigin THEN Origin(i) ELSE link[a].first]

\* Without force, a link that is there stays as it is, and nothing is sent.
AcceptInvite(a, i, force) ==
    IF link[a].key # NoId /\ ~force THEN UNCHANGED <<link, channel>>
    ELSE /\ link' = [link EXCEPT ![a] = Keyed(a, i)]
         /\ Put(Other(a), Deposit("handshake", i, NoId))

\* ensureActiveContact; acceptInvite only logs that it failed.
Activates(a) == \/ SetContact(a, "active") /\ CallWorks
                \/ UNCHANGED contact /\ CallFails

-----------------------------------------------------------------------------
(* What the users do.                                                       *)

Idle(a) == task[a] = NoTask
TaskOf(a, step, i) == task' = [task EXCEPT ![a] = [step |-> step, invite |-> i]]
Consents(a) == consents' = consents \cup {a}

\* requestConnect: a direct invite is made and sealed to the peer ...
RequestConnect(a) ==
    /\ Act /\ Idle(a) /\ contact[a] # "active" /\ link[a].key # NoId
    /\ Room(Other(a)) /\ Consents(a)
    /\ \E i \in News(a, FALSE) :
          /\ open' = open \cup {i}
          /\ Put(Other(a), Deposit("request", i, link[a].key))
          /\ TaskOf(a, "record", i)
    /\ UNCHANGED <<rowVars, link, codes, minted, rekeyed, failures, crashes>>

\* ... and then the request is recorded; there is one row for a peer.
RecordRequest(a) ==
    /\ task[a].step = "record"
    /\ SetRequest(a, [dir |-> "outgoing", invite |-> task[a].invite])
    /\ SetContact(a, Invited(a))
    /\ TaskOf(a, "none", NoId)
    /\ UNCHANGED <<linkVars, codes, channel, minted, rekeyed, consents,
                   boundVars>>

\* approveConnectRequest: the peer's invite is accepted, the row goes, and the
\* peer is told, if it can be.
Approve(a) ==
    /\ Act /\ Idle(a) /\ request[a].dir = "incoming" /\ Consents(a)
    /\ AcceptInvite(a, request[a].invite, FALSE)
    /\ Activates(a)
    /\ TaskOf(a, "conclude", NoId)
    /\ UNCHANGED <<request, open, codes, minted, rekeyed, crashes>>

Conclude(a) ==
    /\ task[a].step = "conclude"
    /\ SetRequest(a, NoRequest) /\ TaskOf(a, "none", NoId)
    /\ \/ /\ link[a].key # NoId /\ CallWorks
          /\ Put(Other(a), Deposit("accepted", NoId, link[a].key))
       \/ link[a].key = NoId /\ CallWorks /\ UNCHANGED channel
       \/ CallFails /\ UNCHANGED channel
    /\ UNCHANGED <<contact, linkVars, codes, minted, rekeyed, consents,
                   acts, crashes, scene>>

\* denyConnectRequest: the row and the placeholder; the peer is not told.
Deny(a) ==
    /\ Act /\ request[a] # NoRequest
    /\ SetRequest(a, NoRequest)
    /\ SetContact(a, IF contact[a] = "invited" THEN "none" ELSE contact[a])
    /\ UNCHANGED <<linkVars, codes, channel, memVars, consents, failures, crashes>>

\* deleteContact, blockContact and unblockContact leave the link and the request
\* alone; who is unblocked is an active contact, whatever it was before.
Rerow(a, s) ==
    /\ Act /\ contact[a] # s
    /\ s = "active" => contact[a] = "blocked"
    /\ SetContact(a, s)
    /\ consents' = IF s = "active" THEN consents \cup {a} ELSE consents
    /\ UNCHANGED <<request, linkVars, codes, channel, memVars, failures, crashes>>

\* createInvite, a code that is handed over; acceptInvite by the other.
HandOver(a) ==
    /\ Act /\ Consents(a)
    /\ \E i \in News(a, FALSE) : open' = open \cup {i} /\ codes' = codes \cup {i}
    /\ UNCHANGED <<rowVars, link, channel, memVars, failures, crashes>>
EnterCode(a) ==
    /\ Act /\ Consents(a)
    /\ \E i \in codes :
          /\ i.by = Other(a) /\ AcceptInvite(a, i, FALSE)
          /\ codes' = codes \ {i}
    /\ Activates(a)
    /\ UNCHANGED <<request, open, memVars, crashes>>

-----------------------------------------------------------------------------
(* Recovery: an end that sees that the link is broken invites the other.    *)

SetMinted(a, s) == minted' = [minted EXCEPT ![a] = s]

\* _triggerRecoveryInvite: one in a while; the invite is marked as made by the
\* machinery before it leaves.  boxes: the inboxes without it.
TriggerRecovery(a, boxes) ==
    IF minted[a] = "cooling"
    THEN channel' = boxes /\ CallWorks /\ UNCHANGED <<open, minted>>
    ELSE /\ SetMinted(a, "cooling")
         /\ \E i \in News(a, TRUE) :
               /\ open' = open \cup {i}
               /\ \/ /\ channel' = [boxes EXCEPT ![Other(a)] =
                                         Append(@, Deposit("recovery", i, NoId))]
                     /\ CallWorks
                  \/ channel' = boxes /\ CallFails

LinkWorks ==
    \A a \in Accounts : link[a].key = link[Other(a)].key /\ link[a].key # NoId
\* _sweepStaleDeliveries: a member writes to the group all the time, and nobody
\* acks what is sealed under a key that the other end has not.
Sweep(a) ==
    /\ ~LinkWorks /\ link[a].key # NoId /\ minted[a] # "cooling"
    /\ TriggerRecovery(a, channel)
    /\ UNCHANGED <<rowVars, link, codes, task, rekeyed, consents, acts, crashes, scene>>

\* bootstrapCoMemberLink: a member announces one with whom there is no link.
Bootstrap(a) ==
    /\ link[a].key = NoId /\ minted[a] # "cooling"
    /\ TriggerRecovery(a, channel)
    /\ UNCHANGED <<rowVars, link, codes, task, rekeyed, consents, acts,
                   crashes, scene>>

\* Its own invite, or the answer to it, is still under way.
UnderWay(a) ==
    \E b \in Accounts : \E n \in DOMAIN channel[b] :
        /\ channel[b][n].kind \in {"recovery", "handshake"}
        /\ Origin(channel[b][n].invite) = [by |-> a, auto |-> TRUE]
\* The invite outlives a round trip, except when one is very late.
Elapse(a) ==
    /\ \/ minted[a] = "cooling" /\ SetMinted(a, "out") /\ CallWorks /\ UNCHANGED open
       \/ /\ minted[a] = "out" /\ SetMinted(a, "no")
          /\ IF UnderWay(a) THEN CallFails ELSE CallWorks
          /\ open' = {i \in open : Origin(i) # [by |-> a, auto |-> TRUE]}
    /\ UNCHANGED <<rowVars, link, codes, channel, task, rekeyed, consents,
                   acts, crashes, scene>>
Settle(a) ==
    /\ rekeyed[a] /\ rekeyed' = [rekeyed EXCEPT ![a] = FALSE]
    /\ UNCHANGED <<rowVars, linkVars, codes, channel, task, minted,
                   consents, boundVars>>

-----------------------------------------------------------------------------
(* processDeposit: one deposit after the other.                             *)

Sealed == {"request", "accepted"}
Receives(a, kinds) ==
    /\ channel[a] # <<>> /\ Head(channel[a]).kind \in kinds
    /\ Head(channel[a]).kind \in Sealed => Head(channel[a]).key = link[a].key
Rest(a) == [channel EXCEPT ![a] = Tail(@)]
Consume(a) == channel' = Rest(a)
Answer(a, d) == channel' = [Rest(a) EXCEPT ![Other(a)] = Append(@, d)]
Invite(a) == Head(channel[a]).invite

\* What does not open: the recipient may see which link is to blame.
Miss(a) ==
    /\ channel[a] # <<>>
    /\ Head(channel[a]).kind \in Sealed /\ Head(channel[a]).key # link[a].key
    /\ \/ TriggerRecovery(a, Rest(a))
       \/ Consume(a) /\ CallWorks /\ UNCHANGED <<open, minted>>
    /\ UNCHANGED <<rowVars, link, codes, task, rekeyed, consents, acts,
                   crashes, scene>>

\* Mutant: an account with an invite out ignores the other's, whichever it is.
BothDefer(a) == minted[a] # "no"
\* Of two crossing invites, that of the smaller account stands.
Defers(a) == minted[a] # "no" /\ a = Smaller

HandleRecovery(a) ==
    /\ Receives(a, {"recovery"})
    /\ IF rekeyed[a] \/ Defers(a)
       THEN Consume(a) /\ CallWorks /\ UNCHANGED <<contact, link, rekeyed>>
       ELSE /\ rekeyed' = [rekeyed EXCEPT ![a] = TRUE]
            /\ IF Invite(a) \notin open
               THEN Consume(a) /\ CallWorks /\ UNCHANGED <<contact, link>>
               ELSE \/ /\ CallWorks
                       /\ Answer(a, Deposit("handshake", Invite(a), NoId))
                       /\ link' = [link EXCEPT ![a] = Keyed(a, Invite(a))]
                       /\ Materialize(a, link'[a].first)
                    \/ CallFails /\ UNCHANGED <<channel, contact, link>>
    /\ UNCHANGED <<request, open, codes, task, minted, consents, acts,
                   crashes, scene>>

\* The inviter completes; an invite that is used up or expired is declined.
HandleHandshake(a) ==
    /\ Receives(a, {"handshake"})
    /\ LET i == Invite(a) IN
       \/ /\ i \in open /\ open' = open \ {i}
          /\ link' = [link EXCEPT ![a] = Keyed(a, i)]
          /\ Materialize(a, link'[a].first)
          /\ \/ Answer(a, Deposit("ack", i, NoId)) /\ CallWorks
             \/ Consume(a) /\ CallFails
       \/ /\ i \notin open
          /\ \/ Answer(a, Deposit("reject", i, NoId)) /\ CallWorks
             \/ Consume(a) /\ CallFails
          /\ UNCHANGED <<contact, linkVars>>
    /\ UNCHANGED <<request, codes, memVars, consents, acts, crashes, scene>>

HandleAck(a) ==
    /\ Receives(a, {"ack"}) /\ Consume(a)
    /\ IF link[a].key = Invite(a) THEN Materialize(a, link[a].first)
       ELSE UNCHANGED contact
    /\ UNCHANGED <<request, linkVars, codes, memVars, consents, boundVars>>

\* A link that was rejected is rolled back, and the contact with it.
HandleReject(a) ==
    /\ Receives(a, {"reject"}) /\ Consume(a)
    /\ IF link[a].key = Invite(a)
       THEN link' = [link EXCEPT ![a] = NoLink] /\ SetContact(a, "none")
       ELSE UNCHANGED <<contact, link>>
    /\ UNCHANGED <<request, open, codes, memVars, consents, boundVars>>

\* handleIncomingConnectRequest.
HandleRequest(a) ==
    /\ Receives(a, {"request"})
    /\ \/ /\ contact[a] = "blocked" /\ Consume(a) /\ UNCHANGED rowVars
       \/ /\ contact[a] \in {"none", "invited"} /\ Consume(a)
          /\ SetRequest(a, [dir |-> "incoming", invite |-> Invite(a)])
          /\ SetContact(a, Invited(a))
    /\ UNCHANGED <<linkVars, codes, memVars, consents, boundVars>>

\* #autoReconnectActiveRequester: the requester lost us; no prompt, but a new
\* key and the signal, if it can be sent.
AutoReconnect(a) ==
    /\ Receives(a, {"request"}) /\ contact[a] = "active"
    /\ LET shaken == Append(channel[Other(a)], Deposit("handshake", Invite(a), NoId))
           signal == Deposit("accepted", NoId, Invite(a))
       IN  \/ /\ link' = [link EXCEPT ![a] = Keyed(a, Invite(a))]
              /\ \/ /\ channel' = [Rest(a) EXCEPT ![Other(a)] = Append(shaken, signal)]
                    /\ CallWorks
                 \/ channel' = [Rest(a) EXCEPT ![Other(a)] = shaken] /\ CallFails
           \/ CallFails /\ UNCHANGED <<link, channel>>
    /\ UNCHANGED <<rowVars, open, codes, memVars, consents, acts, crashes, scene>>

\* The signal, like any direct content, counts from a contact, and from one who
\* was asked: it is the answer.
Answers(a) == request[a].dir = "outgoing"
HandleAccepted(a) ==
    /\ Receives(a, {"accepted"}) /\ Consume(a)
    /\ IF contact[a] # "active" /\ Answers(a)
       THEN SetContact(a, "active") /\ SetRequest(a, NoRequest)
       ELSE UNCHANGED rowVars
    /\ UNCHANGED <<linkVars, codes, memVars, consents, boundVars>>

\* The process of an account dies.
Crash(a) ==
    /\ crashes < scene.crashes /\ crashes' = crashes + 1
    /\ TaskOf(a, "none", NoId) /\ SetMinted(a, "no")
    /\ rekeyed' = [rekeyed EXCEPT ![a] = FALSE]
    /\ UNCHANGED <<rowVars, linkVars, codes, channel, consents, acts,
                   failures, scene>>

\* An end of the link is gone, with a disk or with a restored backup.
LoseLink(a) ==
    /\ CallFails /\ link[a].key # NoId
    /\ link' = [link EXCEPT ![a] = NoLink]
    /\ UNCHANGED <<rowVars, open, codes, channel, memVars, consents, acts,
                   crashes, scene>>

-----------------------------------------------------------------------------
Users(a) ==
    \/ RequestConnect(a) \/ Approve(a) \/ Deny(a) \/ HandOver(a)
    \/ EnterCode(a)
    \/ \E s \in {"none", "blocked", "active"} : Rerow(a, s)
Tasks(a) == RecordRequest(a) \/ Conclude(a)
Deposited(a) ==
    \/ Miss(a) \/ HandleRecovery(a) \/ HandleHandshake(a) \/ HandleAck(a)
    \/ HandleReject(a) \/ HandleRequest(a) \/ AutoReconnect(a)
    \/ HandleAccepted(a)

ContactsNext ==
    \E a \in Accounts :
        \/ Users(a) \/ Tasks(a) \/ Deposited(a) \/ Sweep(a)
        \/ Bootstrap(a) \/ Elapse(a) \/ Settle(a) \/ Crash(a) \/ LoseLink(a)

ContactsSpec == ContactsInit /\ [][ContactsNext]_contactsVars

\* Inboxes drain, calls return, timers run out, and the members of the group
\* go on writing while a link is broken; what the users do is up to them.
FairContactsSpec ==
    /\ ContactsSpec
    /\ \A a \in Accounts :
          /\ WF_contactsVars(Tasks(a)) /\ WF_contactsVars(Deposited(a))
          /\ WF_contactsVars(Sweep(a)) /\ WF_contactsVars(Bootstrap(a))
          /\ WF_contactsVars(Elapse(a))
          /\ WF_contactsVars(Settle(a))

-----------------------------------------------------------------------------
(* Properties.                                                              *)

\* Whoever merely shares a group is never made a contact, however the link was
\* made, repaired or rolled back: the user asked for it, approved it, or handed
\* out or entered a code.
MadeByConsent == \A a \in Accounts : contact[a] = "active" => a \in consents

\* Whoever detected the break first, the link has one key at both ends again,
\* unless what the users do about their contact undoes it.
LinkHeals == []<>(LinkWorks \/ scene.acts > 0)
=============================================================================
