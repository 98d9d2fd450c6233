----------------------------- MODULE ChatServer -----------------------------
(***************************************************************************)
(* The running chat server: the session with the home node (HomeSession),  *)
(* the conversation list (ThreadList), and the window that shows both over *)
(* one socket (ChatUplink, ChatWindow).  The host that starts and stops    *)
(* the server attaches it to the uplink once it has started and detaches   *)
(* it before it stops (src/server/host/ChatShellHost.js).                  *)
(***************************************************************************)
EXTENDS HomeSession, ThreadList

serverVars == <<uplinkVars, homeVars, threadVars>>

ServerInit == UplinkInit /\ HomeInit /\ ThreadInit

\* Only the session can be attached; only a lock or a quit detaches it.
AttachServer == boot = "on" /\ Attach
DetachServer == left["stop"] > 0 /\ Detach

HostStep == (AttachServer \/ DetachServer \/ UplinkStep) /\ UNCHANGED <<homeVars, threadVars>>
SessionStep == HomeStep /\ UNCHANGED threadVars
\* The pipeline that takes messages in runs while the services do (bound: not
\* before the window's login).
Receives == boot = "on" /\ win.bound /\ \E m \in Msgs : Persist(m)
ListStep == (Receives \/ ThreadStep) /\ UNCHANGED homeVars

ServerNext == HostStep \/ SessionStep \/ ListStep

\* Everything that is begun goes on: the pool dials on, the node answers or
\* the transport is lost, timers fire, writes end, the host attaches what it
\* has started.  Failures, losses, wake-ups and users are under no obligation.
HomeFairness ==
  /\ WF_serverVars(SessionStep /\ (Start \/ StartServices \/ Started))
  /\ WF_serverVars(SessionStep /\ (DialSucceeds \/ ClaimAccepted \/ ClaimReminted
                                   \/ DeviceBound \/ ConnectDone))
  /\ WF_serverVars(SessionStep /\ RestoreDone)
  /\ WF_serverVars(SessionStep /\ PoolReconnects)
  /\ WF_serverVars(SessionStep /\ PeriodicDrain)
  /\ WF_serverVars(SessionStep /\ DrainEnds)
  /\ WF_serverVars(SessionStep /\ (EnsureLive \/ LiveAnswered \/ RenewLease \/ PassDrains \/ PassRepairs))
WireFairness ==
  /\ WF_serverVars(HostStep /\ AttachServer)
  /\ WF_serverVars(HostStep /\ (TakeHello \/ Refuse))
  /\ WF_serverVars(HostStep /\ AnswerHello)
  /\ WF_serverVars(HostStep /\ HelloTimeout)
  /\ WF_serverVars(HostStep /\ (Connect \/ Reconnect))
  /\ WF_serverVars(HostStep /\ (ReceiveHello \/ ReceiveAnswer \/ ReceiveEvent))
  /\ WF_serverVars(ListStep /\ \E id \in CallIds : TakeList(id) \/ TakeRead(id))

ServerSpec == ServerInit /\ [][ServerNext]_serverVars /\ HomeFairness /\ WireFairness

ServerTypeOK == UplinkTypeOK /\ ThreadTypeOK

\* ---- the session with the home ----

Bound == "claimed" \in sess /\ (gate => "cursor" \in sess)

\* When the app is told it is connected, and the transport is up, the node
\* has this transport's session bound to the inbox, and to the device where
\* it wants one: a session that is up but not bound would take messages and
\* receive none (ServerRuntimeService.js:174-178).  "gap" names the two
\* windows where the code does not keep this.
OnlineIsBound == Online /\ pool = "up" /\ ~gap => Bound

\* An app that has started without its home, or lost it, gets back to a bound
\* session, whatever failed before (ChatServerApp.js:191-195).
HomeHeals == <>[](boot = "stopped" \/ gap \/ (Online /\ Bound))

\* The account session never stays open with nothing to do and no timer to
\* close it (AccountControlChannel.js:107-133).
ClientIsTimed == acct.client /\ InFlight(acct) = 0 => acct.timer

\* ---- the window ----

\* A window that is open while the server is attached ends up ready, also one
\* whose hello came while no server was there (ChatWebsocketUplink.js:257-292).
WindowReattaches == <>[](attached => win.link = "ready")

\* The wait for the mailbox to be caught up ends in every window, also one
\* that connects after the drain that began at start (RuntimeService.js:48-60).
SyncEnds == <>[](left["periodic"] > 0 /\ attached /\ "claimed" \in sess => win.synced)

\* ---- the conversation list ----

Settling(t) == lock[t] # <<>> \/ \E m \in due : ThreadOf[m] = t

\* When nothing of a thread is under way, its record counts exactly what is
\* stored beyond its read markers, whatever the order in which messages,
\* marks and deletions came in (ChatThreadIndex.js:173-185).
CountIsExact ==
  \A t \in Threads : ~Settling(t) /\ rec[t] # NoRec =>
    rec[t].unread \cap stored = Unread(MessagesOf(t), rec[t])

Quiet == /\ wire = <<>> /\ win.open = [i \in CallIds |-> NoCall] /\ win.held = <<>>
         /\ \A t \in Threads : ~Settling(t)

\* A window that has missed nothing shows every conversation with the badge
\* its record has (ThreadsService.js:236-302), unless a list was built while a
\* row changed or a change was said while no server was attached: the window
\* is never told of that one again (ChatWebsocketUplink.js:257-292).
BadgeMatches ==
  Quiet /\ win.link = "ready" /\ ~win.lost /\ ~mixed =>
    \A t \in Threads : win.rows[t] # NoRow => win.rows[t] = rec[t].unread

\* What the server keeps is right: its sessions with the home and with the
\* account are as what the app was told and what there is to do want them, and
\* its records count what is stored.
ServerIsSound == OnlineIsBound /\ ClientIsTimed /\ CountIsExact

\* Whatever broke, the home's session and the window's come back, and no window
\* waits for its mailbox for ever.
SessionsHeal == HomeHeals /\ WindowReattaches /\ SyncEnds
=============================================================================
