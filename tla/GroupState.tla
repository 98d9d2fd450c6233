------------------------------ MODULE GroupState ------------------------------
(***************************************************************************)
(* What a group shows, by each member's own reckoning: its title, its      *)
(* avatar and its channels. They change by the wish of an admin, are told  *)
(* once to the members of the sender's roster (GroupRoster), and whatever  *)
(* was missed is asked for on every connect: a member requests a sync of   *)
(* each other one, who replays every channel he has and advertises title   *)
(* and avatar (ServerChannelsService, ServerGroupOpApplier).               *)
(*                                                                         *)
(* Composed with GroupRoster: the sender of an operation must be a member  *)
(* by the receiver's roster, a join is answered with a replay, and a new   *)
(* group record takes the title its invite carried. Handlers are atomic.   *)
(* Whether an operation is newer than what a node holds is left open: it   *)
(* compares the sender's clock with the receiver's.                        *)
(***************************************************************************)
EXTENDS GroupRoster

CONSTANTS
  Channels,
  Titles,
  Avatars,      \* content hashes of photos
  Empty,        \* no title, no avatar, no label
  Label,        \* a channel's display name
  StateLimits   \* allowances, as Limits and beside each of them

StateBounds == {"create", "delete", "rename", "avatar", "post", "fault", "connect"}

ASSUME EmptyAssumption == Empty \notin Titles \cup Avatars \cup {Label}
ASSUME StateLimitsAssumption == StateLimits \in [Limits -> SUBSET [StateBounds -> Nat]]

VARIABLES
  info,     \* durable: each node's title and avatar of the group
  channel,  \* durable: each node's channel rows
  files,    \* durable: the photos each node's file store holds
  offered,  \* durable: the title an issued invite carries
  wire,     \* deposits on their way
  spare     \* what remains of each bound

state == <<info, channel, files, offered, wire, spare>>
allVars == <<vars, state>>

Use(b) == spare[b] > 0 /\ spare' = [spare EXCEPT ![b] = @ - 1]

Info == [title : Titles \cup {Empty}, avatar : Avatars \cup {Empty}]
Channel == [state : {"none", "live", "deleted"}, label : {Empty, Label}]

NoInfo == [title |-> Empty, avatar |-> Empty]
NoChannel == [state |-> "none", label |-> Empty]

-----------------------------------------------------------------------------
(* Channel rows (ChannelStore).                                            *)

(* Wrong variant: a row without a label stays without.                     *)
KeptChannel(row, label) ==
  IF row.state = "live" THEN row
  ELSE [state |-> "live", label |-> IF label = Empty THEN row.label ELSE label]

\* ensureChannel: a new row, a deleted one revived, or a label for a row that
\* has none.
EnsuredChannel(row, label) ==
  [state |-> "live",
   label |-> IF row.label = Empty \/ (row.state = "deleted" /\ label # Empty)
             THEN label ELSE row.label]

\* tombstoneChannel: the row stays, for the messages that carry its id.
Tombstoned(row) == IF row.state = "live" THEN [row EXCEPT !.state = "deleted"] ELSE row

-----------------------------------------------------------------------------
(* Deposits.                                                               *)

StateOps ==
  [kind : {"rename"}, title : Titles]
  \cup [kind : {"setAvatar"}, avatar : Avatars \cup {Empty}]
  \cup [kind : {"create"}, channel : Channels, label : {Empty, Label}]
  \cup [kind : {"delete", "post"}, channel : Channels]
  \cup [kind : {"sync"}]
  \cup [kind : {"state"}, title : Titles, avatar : Avatars \cup {Empty}]

StateDeposit == [to : Accounts, from : Accounts, op : StateOps]

Peers(n) == Active(rows[n]) \ {n}

Tell(n, op) == wire' = wire \cup FanOut(n, Peers(n), op)

\* fanoutChannelsToPeer: every channel that is not deleted, one by one.
Replay(n, peer) ==
  UNION {FanOut(n, {peer}, [kind |-> "create", channel |-> c, label |-> channel[n][c].label]) :
           c \in {c \in Channels : channel[n][c].state = "live"}}

\* #advertiseGroupStateToPeer: nothing without a title; the avatar only with its
\* bytes.
Advertisement(n, peer) ==
  IF info[n].title = Empty THEN {}
  ELSE FanOut(n, {peer}, [kind |-> "state", title |-> info[n].title,
                          avatar |-> IF info[n].avatar \in files[n] THEN info[n].avatar ELSE Empty])

\* The deposit is done with, or it is applied and will be applied again.
Finish(m, sent) ==
  \/ wire' = (wire \ {m}) \cup sent /\ UNCHANGED spare
  \/ wire' = wire \cup sent /\ Use("fault")

-----------------------------------------------------------------------------
(* The group has no title yet, and nobody but its creator knows of it.     *)

GroupInit ==
  /\ Init
  /\ info = [n \in Accounts |-> NoInfo]
  /\ channel = [n \in Accounts |-> [c \in Channels |-> NoChannel]]
  /\ files = [n \in Accounts |-> {}]
  /\ offered = [i \in Invites |-> Empty]
  /\ wire = {}
  /\ spare \in StateLimits[left]

-----------------------------------------------------------------------------
(* The user's operations (ServerGroupsService, ServerChannelsService).     *)

RenameGroup(n, t) ==
  /\ RequireSelfAdmin(n)
  /\ info' = [info EXCEPT ![n].title = t]
  /\ Tell(n, [kind |-> "rename", title |-> t])
  /\ Use("rename")
  /\ UNCHANGED <<channel, files, offered>>

\* The photo is stored before its hash becomes the group's avatar; an empty one
\* clears it.
SetAvatarGroup(n, h) ==
  /\ RequireSelfAdmin(n)
  /\ files' = [files EXCEPT ![n] = @ \cup ({h} \ {Empty})]
  /\ info' = [info EXCEPT ![n].avatar = h]
  /\ Tell(n, [kind |-> "setAvatar", avatar |-> h])
  /\ Use("avatar")
  /\ UNCHANGED <<channel, offered>>

\* Only a channel that is new, or was deleted, is told to others.
CreateChannel(n, c) ==
  /\ RequireSelfAdmin(n)
  /\ channel' = [channel EXCEPT ![n][c] = EnsuredChannel(@, Label)]
  /\ IF channel[n][c].state = "live" THEN UNCHANGED wire
     ELSE Tell(n, [kind |-> "create", channel |-> c, label |-> Label])
  /\ Use("create")
  /\ UNCHANGED <<info, files, offered>>

DeleteChannel(n, c) ==
  /\ RequireSelfAdmin(n)
  /\ channel[n][c].state = "live"
  /\ channel' = [channel EXCEPT ![n][c] = Tombstoned(@)]
  /\ Tell(n, [kind |-> "delete", channel |-> c])
  /\ Use("delete")
  /\ UNCHANGED <<info, files, offered>>

\* A message written in a channel carries its id.
Post(n, c) ==
  /\ rows[n][n].state = "active"
  /\ channel[n][c].state = "live"
  /\ Tell(n, [kind |-> "post", channel |-> c])
  /\ Use("post")
  /\ UNCHANGED <<info, channel, files, offered>>

\* requestSyncForAllMyGroups, on every connect (where there is any).
RequestSync(n) ==
  /\ spare["connect"] > 0
  /\ Tell(n, [kind |-> "sync"])
  /\ UNCHANGED <<info, channel, files, offered, spare>>

User(n) ==
  \/ \E t \in Titles : RenameGroup(n, t)
  \/ \E h \in Avatars \cup {Empty} : SetAvatarGroup(n, h)
  \/ \E c \in Channels : CreateChannel(n, c) \/ DeleteChannel(n, c) \/ Post(n, c)
  \/ RequestSync(n)

-----------------------------------------------------------------------------
(* What a node makes of an operation (ServerGroupOpApplier,                *)
(* ServerChannelsService). Each handler runs for a sender who is an active *)
(* member by the receiver's roster.                                        *)

Heed(m, kind) ==
  /\ m \in wire /\ m.op.kind = kind
  /\ rows[m.to][m.from].state = "active"
  /\ Hear(m.to, m.from)

\* Applied if the sender's stamp is later than the node's own of the record.
ReceiveRename(m) ==
  /\ Heed(m, "rename")
  /\ \/ info' = [info EXCEPT ![m.to].title = m.op.title]
     \/ UNCHANGED info
  /\ Finish(m, {})
  /\ UNCHANGED <<channel, files, offered>>

(* Wrong variant: bytes that could not be stored do not stop the hash.     *)
AvatarUnstored(m) ==
  /\ Heed(m, "setAvatar")
  /\ \/ files' = [files EXCEPT ![m.to] = @ \cup ({m.op.avatar} \ {Empty})]
     \/ UNCHANGED files
  /\ \/ info' = [info EXCEPT ![m.to].avatar = m.op.avatar]
     \/ UNCHANGED info
  /\ Finish(m, {})
  /\ UNCHANGED <<channel, offered>>

\* Bytes that do not match the hash, or cannot be stored, drop the operation.
ReceiveSetAvatar(m) ==
  /\ Heed(m, "setAvatar")
  /\ \/ /\ files' = [files EXCEPT ![m.to] = @ \cup ({m.op.avatar} \ {Empty})]
        /\ info' = [info EXCEPT ![m.to].avatar = m.op.avatar]
     \/ UNCHANGED <<info, files>>
  /\ Finish(m, {})
  /\ UNCHANGED <<channel, offered>>

ReceiveCreate(m) ==
  /\ Heed(m, "create")
  /\ channel' = [channel EXCEPT ![m.to][m.op.channel] = EnsuredChannel(@, m.op.label)]
  /\ Finish(m, {})
  /\ UNCHANGED <<info, files, offered>>

ReceiveDelete(m) ==
  /\ Heed(m, "delete")
  /\ channel' = IF IsEffectiveAdmin(m.to, m.from)
                THEN [channel EXCEPT ![m.to][m.op.channel] = Tombstoned(@)] ELSE channel
  /\ Finish(m, {})
  /\ UNCHANGED <<info, files, offered>>

\* ensureFromObservedMessage: a channel first met in a message is kept, and the
\* author asked for all he has.
ReceivePost(m) ==
  LET n == m.to
      c == m.op.channel IN
  /\ Heed(m, "post")
  /\ channel' = [channel EXCEPT ![n][c] = EnsuredChannel(@, Empty)]
  /\ Finish(m, IF channel[n][c].state = "live" THEN {}
               ELSE FanOut(n, {m.from}, [kind |-> "sync"]))
  /\ UNCHANGED <<info, files, offered>>

ReceiveSync(m) ==
  /\ Heed(m, "sync")
  /\ Finish(m, Replay(m.to, m.from) \cup Advertisement(m.to, m.from))
  /\ UNCHANGED <<info, channel, files, offered>>

\* Fills what is empty and overwrites nothing; each of the two by itself.
ReceiveState(m) ==
  LET n == m.to
      fits == m.op.avatar # Empty /\ info[n].avatar = Empty IN
  /\ Heed(m, "state")
  /\ files' = IF fits THEN [files EXCEPT ![n] = @ \cup {m.op.avatar}] ELSE files
  /\ info' = [info EXCEPT ![n] =
                [title |-> IF @.title = Empty THEN m.op.title ELSE @.title,
                 avatar |-> IF fits THEN m.op.avatar ELSE @.avatar]]
  /\ Finish(m, {})
  /\ UNCHANGED <<channel, offered>>

\* An operation of a sender who is no member, by the receiver's roster, is
\* dropped for good (a message is held for a while, see DurableInbox).
DropState(m) ==
  /\ m \in wire
  /\ rows[m.to][m.from].state # "active"
  /\ Hear(m.to, m.from)
  /\ Finish(m, {})
  /\ UNCHANGED <<info, channel, files, offered>>

LoseState(m) ==
  /\ wire' = wire \ {m}
  /\ Use("fault")
  /\ UNCHANGED <<info, channel, files, offered>>

Handle(m) ==
  \/ ReceiveRename(m) \/ ReceiveSetAvatar(m)
  \/ ReceiveCreate(m) \/ ReceiveDelete(m) \/ ReceivePost(m)
  \/ ReceiveSync(m) \/ ReceiveState(m) \/ DropState(m)

-----------------------------------------------------------------------------
(* Steps of the roster, with what they do to the group's state.            *)

\* An invite carries the title its issuer shows, or none.
Issue(n, i) ==
  /\ CreateInvite(n, i)
  /\ \E t \in {info[n].title, Empty} : offered' = [offered EXCEPT ![i] = t]
  /\ UNCHANGED <<info, channel, files, wire, spare>>

\* ensureGroup: the title counts only if there is no record yet.
Enter(n, i) ==
  /\ AcceptInvite(n, i) \/ AcceptCutShort(n, i)
  /\ info' = IF rows[n][n].state = "none" THEN [info EXCEPT ![n].title = offered[i]] ELSE info
  /\ UNCHANGED <<channel, files, offered, wire, spare>>

\* The inviter replays its channels to whoever joins.
AnswerJoin(m) ==
  /\ ReceiveAnnounce(m)
  /\ wire' = wire \cup Replay(m.to, m.from)
  /\ UNCHANGED <<info, channel, files, offered, spare>>

RosterOnly ==
  /\ \/ \E n \in Accounts :
          \/ LeaveGroup(n) \/ ReconcileMesh(n)
          \/ \E a \in Accounts : KickMember(n, a)
          \/ \E a \in Accounts, role \in {"member", "admin"} : SetMemberRole(n, a, role)
     \/ \E m \in net :
          \/ ReceiveHello(m) \/ ReceiveReject(m) \/ ReceiveForward(m)
          \/ ReceiveKick(m) \/ ReceiveSetRole(m) \/ ReceiveLeave(m)
          \/ ReceiveContact(m) \/ ReceiveIntro(m) \/ Drop(m) \/ Lose(m)
     \/ Tick
  /\ UNCHANGED state

GroupNext ==
  \/ \E n \in Accounts, i \in Invites : Issue(n, i) \/ Enter(n, i)
  \/ \E m \in net : AnswerJoin(m)
  \/ RosterOnly
  \/ \E n \in Accounts : User(n) /\ UNCHANGED vars
  \/ \E m \in wire : Handle(m)
  \/ \E m \in wire : LoseState(m) /\ UNCHANGED vars

GroupSpec == GroupInit /\ [][GroupNext]_allVars

\* Connections come back again and again, an inbox is drained in the end.
HandleFrom(n, s, kind) ==
  \E m \in wire : m.to = n /\ m.from = s /\ m.op.kind = kind /\ Handle(m)

FairGroupSpec ==
  /\ GroupSpec
  /\ \A n \in Accounts : /\ WF_allVars(ReconcileMesh(n) /\ UNCHANGED state)
                         /\ WF_allVars(RequestSync(n) /\ UNCHANGED vars)
  /\ \A n \in Accounts : \A s \in Accounts \ {n} :
       /\ WF_allVars(ReceiveContactFrom(n, s) /\ UNCHANGED state)
       /\ \A kind \in {"sync", "create", "state"} : WF_allVars(HandleFrom(n, s, kind))

-----------------------------------------------------------------------------
(* Properties.                                                             *)

\* Every variable has its type.
StateTypeOK ==
  /\ info \in [Accounts -> Info]
  /\ channel \in [Accounts -> [Channels -> Channel]]
  /\ files \in [Accounts -> SUBSET Avatars]
  /\ offered \in [Invites -> Titles \cup {Empty}]
  /\ wire \subseteq StateDeposit
  /\ spare \in [StateBounds -> Nat]

\* Whichever way an avatar came, by the user, by an operation or by catch-up, a
\* node that shows it holds its bytes, and nobody is offered one without
\* (setAvatarGroup, #applyIncomingSetAvatar, #applyIncomingGroupState).
AvatarIsHeld ==
  \A n \in Accounts : info[n].avatar # Empty => info[n].avatar \in files[n]

\* n shows whatever s does: each channel, with a label if s has one, a title and
\* an avatar if s has them.
CaughtUp(n, s) ==
  /\ \A c \in Channels :
       channel[s][c].state = "live" =>
         /\ channel[n][c].state = "live"
         /\ channel[s][c].label # Empty => channel[n][c].label # Empty
  /\ info[s].title # Empty =>
       /\ info[n].title # Empty
       /\ info[s].avatar # Empty => info[n].avatar # Empty

\* Whatever operation was lost, came twice or was dropped because its sender
\* was not known yet: as long as connections come back, linked members in the
\* end show the same channels, labelled, and a title and an avatar if any of
\* them does (requestSyncForAllMyGroups, fanoutChannelsToPeer, group.state). A
\* channel one of them still has returns to those who deleted it.
StateSpreads ==
  []<>(spare["connect"] > 0 =>
         \A n, s \in Accounts : n # s /\ Linked(n, s) => CaughtUp(n, s))
=============================================================================
