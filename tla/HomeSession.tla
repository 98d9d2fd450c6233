----------------------------- MODULE HomeSession -----------------------------
(***************************************************************************)
(* The chat server's session with its home node: connect, bind, rebind and *)
(* disconnect (src/server/services/ServerRuntimeService.js), boot and stop *)
(* (src/server/app/ChatServerApp.js), the inbox claim and its lease        *)
(* (src/server/inbox/inboxClaimWire.js), when the catch-up drains          *)
(* (InboxCatchupService.js), the passes a phone's wake-ups run             *)
(* (MobileLifecycleAdapter.js) and the account session that is opened on   *)
(* demand (AccountControlChannel.js).                                      *)
(*                                                                         *)
(* The SDK's connection pool is outside the repository.  It is used as     *)
(* follows: connect() dials once and, if the home cannot be reached, fails *)
(* with a retryable error and goes on dialling by itself; a connection     *)
(* that is dialled by itself is up once the onReconnected hooks have       *)
(* returned, and is given up if one throws; losing the transport rejects   *)
(* the requests that are open on it.                                       *)
(***************************************************************************)
EXTENDS ChatUplink

VARIABLES
  gate,     \* the home's multi-device gate is open: it wants a proven device
  boot,     \* the app: "off", "connect", "services", "on", "stopped"
  pool,     \* the pool: "idle", "up", "down", "hook", "closed"
  sess,     \* what this transport's session has: "claimed", "cursor"
  inbox,    \* the mailbox at the home: "open", "reclaimed", "reminted"
  lease,    \* "fresh", or "due" for renewal
  con,      \* connectInFlight: "none", "dial", "claim", "bind", "publish"
  res,      \* reconnectPromise: the same, without "dial"
  up,       \* connected
  owed,     \* connectPending
  status,   \* lastStatus
  drain,    \* the catch-up: "no", "run", "again"
  pass,     \* the wake pass: "no", "live", "wait", "renew", "drain", "repair"
  rerun,    \* the pass is to run once more
  acct,     \* the account-control channel
  gap       \* history: a first connect that nothing will run again has failed, or
            \* a bind went on without the transport it had begun on

bindVars == <<sess, inbox, con, res, up, owed, status, gap>>
wakeVars == <<drain, pass, rerun>>
homeVars == <<gate, boot, pool, lease, bindVars, wakeVars, acct>>
\* The home's own steps reach the rest of the server only through the wire.
uplinkRest == <<attached, greeting, authed, retry, win>>

NoAcct == [client |-> FALSE, dialing |-> FALSE, waiting |-> 0, working |-> 0,
           timer |-> FALSE, closed |-> FALSE]

HomeInit ==
  /\ gate = (left["gated"] > 0) /\ boot = "off" /\ pool = "idle" /\ sess = {} /\ inbox = "open"
  /\ lease = "due" /\ con = "none" /\ res = "none" /\ up = FALSE /\ owed = FALSE
  /\ status = "" /\ drain = "no" /\ pass = "no" /\ rerun = FALSE
  /\ acct = NoAcct /\ gap = FALSE

Live == pool \in {"up", "hook"}
Say(s) == status' = s /\ Broadcast(StateEvent(s))
\* What the pool reports reaches the app as long as the runtime listens, once.
PoolSays(s) == IF boot = "stopped" \/ status = s THEN UNCHANGED <<status, wire>> ELSE Say(s)

\* ---- the first connect, shared by everyone who asks for it ----

StartConnect == con' = IF con = "none" THEN "dial" ELSE con

\* Wrong variant: an unreachable home leaves nothing behind.
DialFailsForGood ==
  /\ con = "dial" /\ pool \in {"idle", "down"} /\ Spend("fail")
  /\ con' = "none" /\ pool' = "down" /\ PoolSays("offline")
  /\ UNCHANGED <<gate, boot, lease, sess, inbox, res, up, owed, gap, wakeVars, acct, uplinkRest>>

\* An unreachable home leaves the connect owed; the pool dials on.
DialFails ==
  /\ con = "dial" /\ pool \in {"idle", "down"} /\ Spend("fail")
  /\ con' = "none" /\ owed' = TRUE /\ pool' = "down" /\ PoolSays("offline")
  /\ UNCHANGED <<gate, boot, lease, sess, inbox, res, up, gap, wakeVars, acct, uplinkRest>>

DialSucceeds ==
  /\ con = "dial" /\ pool # "closed"
  /\ con' = "claim" /\ pool' = IF pool = "hook" THEN "hook" ELSE "up"
  /\ sess' = IF Live THEN sess ELSE {}
  /\ UNCHANGED <<gate, boot, lease, inbox, res, up, owed, status, gap, wakeVars, acct>>
  /\ UNCHANGED <<left, uplinkRest, wire>>

\* A bind that throws ends the connect.  Only a failed dial makes it owed, and
\* only inside the hook does the pool dial again for it.
ConnectThrows ==
  /\ con' = "none" /\ gap' = (gap \/ ~(owed /\ pool = "hook"))
  /\ IF pool = "hook" THEN pool' = "down" /\ sess' = {} ELSE UNCHANGED <<pool, sess>>
  /\ UNCHANGED <<inbox, res, up, owed, status, wire>>

\* A rebind that throws makes the pool give the connection up.
RestoreThrows ==
  /\ res' = "none" /\ pool' = "down" /\ sess' = {} /\ Say("offline")
  /\ UNCHANGED <<inbox, con, up, owed, gap>>

\* ---- binding the session: claim, device, publication ----

\* The two that can be in flight: the first connect and a restore.
ConnectAt(s) == con = s /\ con' = (CASE s = "claim" -> "bind" [] OTHER -> "publish")
                /\ UNCHANGED res
RestoreAt(s) == res = s /\ res' = (CASE s = "claim" -> "bind" [] OTHER -> "publish")
                /\ UNCHANGED con
Advance(s) == ConnectAt(s) \/ RestoreAt(s)

BindRest == /\ UNCHANGED <<gate, boot, wakeVars, acct, uplinkRest>>

\* The home accepts the claim, and the accepted lease is recorded.
ClaimAccepted ==
  /\ Live /\ inbox # "reclaimed" /\ Advance("claim")
  /\ sess' = sess \cup {"claimed"} /\ lease' = "fresh" /\ inbox' = "open"
  /\ UNCHANGED <<pool, up, owed, status, gap, left, wire>> /\ BindRest

\* An inbox the home has reclaimed is minted again, and claimed once more.
ClaimReminted ==
  /\ Live /\ inbox = "reclaimed" /\ "claim" \in {con, res} /\ inbox' = "reminted"
  /\ UNCHANGED <<pool, lease, sess, con, res, up, owed, status, gap, left, wire>> /\ BindRest

\* The device's key is presented to a home that wants it.
DeviceBound ==
  /\ Live /\ Advance("bind") /\ sess' = sess \cup {"cursor"}
  /\ UNCHANGED <<pool, lease, inbox, up, owed, status, gap, left, wire>> /\ BindRest

\* Wrong variant: a failed device bind is only logged, whatever the gate.
DeviceUnboundAnyway ==
  /\ Spend("fail") /\ Advance("bind")
  /\ UNCHANGED <<pool, lease, sess, inbox, up, owed, status, gap, wire>> /\ BindRest

\* With the gate closed a failed device bind is only logged.
DeviceUnbound ==
  /\ ~gate /\ Spend("fail") /\ Advance("bind")
  /\ UNCHANGED <<pool, lease, sess, inbox, up, owed, status, gap, wire>> /\ BindRest

\* The stages whose failure is the failure of the bind.
Fatal(stage) == stage = "claim" \/ (stage = "bind" /\ gate)

\* A request of the bind is refused in a way that may be tried again.
BindFails ==
  /\ Spend("fail") /\ UNCHANGED lease
  /\ \/ Fatal(con) /\ ConnectThrows
     \/ Fatal(res) /\ RestoreThrows
  /\ BindRest

\* Publication, the sweep of pending commits and the home's capabilities come
\* last; a failure of the first two is logged.  Only then is the runtime
\* connected, and the push bridge attached.
ConnectDone ==
  /\ con = "publish" /\ con' = "none" /\ up' = TRUE /\ owed' = FALSE /\ Say("connected")
  /\ pool' = IF pool = "hook" THEN "up" ELSE pool
  /\ UNCHANGED <<lease, sess, inbox, res, gap, left>> /\ BindRest

RestoreDone ==
  /\ res = "publish" /\ res' = "none" /\ Say("connected")
  /\ pool' = IF pool = "hook" THEN "up" ELSE pool
  /\ UNCHANGED <<lease, sess, inbox, con, up, owed, gap, left>> /\ BindRest

\* ---- the transport ----

\* What a lost transport does to a bind that is in flight on it: an open
\* claim is rejected, a device bind too, which matters with the gate open.
After(stage) == IF Fatal(stage) THEN "none" ELSE IF stage = "bind" THEN "publish" ELSE stage

LoseTransport ==
  /\ Live /\ Spend("lose") /\ pool' = "down" /\ sess' = {}
  /\ con' = After(con) /\ res' = After(res)
  /\ gap' = \/ gap
            \/ res # "none" /\ ~Fatal(res)
            \/ con \notin {"none", "dial"} /\ ~(Fatal(con) /\ owed)
  /\ IF Fatal(res) THEN Say("offline") ELSE PoolSays("reconnecting")
  /\ UNCHANGED <<gate, boot, lease, inbox, up, owed, wakeVars, acct, uplinkRest>>

\* The pool reaches the home again: the hook of the runtime binds the fresh
\* session, or completes a first connect that is owed, or has nothing to do.
\* The catch-up's own hook asks for a drain; drains that are asked for while
\* one runs become one more round of it.
AskDrain == drain' = IF drain = "no" THEN "run" ELSE "again"
PoolReconnects ==
  /\ pool = "down" /\ boot \notin {"off", "stopped"}
  /\ IF up THEN /\ pool' = "hook" /\ UNCHANGED con
                /\ res' = IF res = "none" THEN "claim" ELSE res
     ELSE /\ UNCHANGED res
          /\ IF owed THEN pool' = "hook" /\ StartConnect ELSE pool' = "up" /\ UNCHANGED con
  /\ sess' = {} /\ IF boot \in {"services", "on"} THEN AskDrain ELSE UNCHANGED drain
  /\ UNCHANGED <<gate, boot, lease, inbox, up, owed, status, gap, pass, rerun, acct>>
  /\ UNCHANGED <<left, uplinkRest, wire>>

\* ---- boot and stop ----

\* An unlock makes a new server, of which the old one knows nothing.
Start ==
  /\ boot \in {"off", "stopped"} /\ boot' = "connect" /\ con' = "dial"
  /\ pool' = "idle" /\ sess' = {} /\ res' = "none" /\ up' = FALSE /\ owed' = FALSE
  /\ status' = "" /\ gap' = FALSE /\ drain' = "no" /\ pass' = "no" /\ rerun' = FALSE
  /\ acct' = NoAcct /\ UNCHANGED <<gate, lease, inbox>>
  /\ UNCHANGED <<left, uplinkRest, wire>>

\* Whether it is connected or the home was out of reach, the services start:
\* the catch-up registers its hook and its timer and drains.
StartServices ==
  /\ boot = "connect" /\ con = "none" /\ boot' = "services" /\ AskDrain
  /\ UNCHANGED <<gate, pool, lease, bindVars, pass, rerun, acct, left, uplinkRest, wire>>

\* The start waits for the first drain, so nobody is there to hear of its end.
Started ==
  /\ boot = "services" /\ drain = "no" /\ boot' = "on"
  /\ UNCHANGED <<gate, pool, lease, bindVars, wakeVars, acct, left, uplinkRest, wire>>

\* The services stop in reverse.  A runtime that is not connected only
\* forgets that a connect is owed.
Stop ==
  /\ boot = "on" /\ ~attached /\ Spend("stop") /\ boot' = "stopped"
  /\ owed' = FALSE
  /\ IF up THEN up' = FALSE /\ pool' = "closed" /\ status' = "disconnected"
               /\ sess' = {} /\ res' = After(res)
     ELSE UNCHANGED <<up, pool, status, sess, res>>
  /\ UNCHANGED <<gate, lease, inbox, con, gap, wakeVars, acct, uplinkRest, wire>>

\* ---- the catch-up ----

\* Wrong variant: the catch-up has no timer of its own.
NoPeriodicDrain == FALSE

\* A low-frequency timer asks again while the app runs.
PeriodicDrain ==
  /\ boot = "on" /\ left["periodic"] > 0
  /\ drain = "no" /\ wire = <<>> /\ win.held = <<>> /\ AskDrain  \* bound: one frame at a time
  /\ UNCHANGED <<gate, boot, pool, lease, bindVars, pass, rerun, acct, left, uplinkRest, wire>>

\* One round; a request that came in during it makes another one.  The end
\* of a catch-up is announced when a round has completed and none is asked.
DrainEnds ==
  /\ drain # "no"
  /\ IF "claimed" \notin sess THEN drain' = "no" /\ UNCHANGED wire
     ELSE IF drain = "again" THEN drain' = "run" /\ UNCHANGED wire
     ELSE drain' = "no" /\ Broadcast(CaughtUp)
  /\ UNCHANGED <<gate, boot, pool, lease, bindVars, pass, rerun, acct, left, uplinkRest>>

\* ---- a phone's wake-ups ----

\* A wake starts a pass, or has the one that runs followed by another.
Wake ==
  /\ boot = "on" /\ Spend("wake")
  /\ IF pass = "no" THEN pass' = "live" /\ UNCHANGED rerun ELSE rerun' = TRUE /\ UNCHANGED pass
  /\ UNCHANGED <<gate, boot, pool, lease, bindVars, drain, acct, uplinkRest, wire>>

PassRest == UNCHANGED <<gate, boot, acct, left, uplinkRest>>
Online == up /\ status = "connected"
PassEnds == pass' = (IF rerun THEN "live" ELSE "no") /\ rerun' = FALSE

\* ensureLive: nothing to do, or the first connect, or a kick for the pool.
EnsureLive ==
  /\ pass = "live" /\ boot = "on"
  /\ IF Online THEN pass' = "renew" /\ UNCHANGED con
     ELSE pass' = "wait" /\ IF up THEN UNCHANGED con ELSE StartConnect
  /\ UNCHANGED <<pool, lease, sess, inbox, res, up, owed, status, gap, drain, rerun, wire>>
  /\ PassRest

\* It has succeeded, or the home is out of reach and the pass is over.
LiveAnswered ==
  /\ pass = "wait" /\ con = "none"
  /\ \/ Online /\ pass' = "renew" /\ UNCHANGED rerun
     \/ ~Online /\ PassEnds
  /\ UNCHANGED <<pool, lease, bindVars, drain, wire>> /\ PassRest

\* renewLeaseIfDue is the claim again; its failure is recorded in the report.
RenewLease ==
  /\ pass = "renew" /\ pass' = "drain" /\ UNCHANGED <<sess, rerun>>
  /\ lease' = IF up /\ "claimed" \in sess THEN "fresh" ELSE lease
  /\ UNCHANGED <<pool, inbox, con, res, up, owed, status, gap, drain, wire>> /\ PassRest

PassDrains ==
  /\ pass = "drain" /\ pass' = "repair" /\ AskDrain
  /\ UNCHANGED <<pool, lease, bindVars, rerun, wire>> /\ PassRest

\* The commit sweep and the sibling sync, then the next pass if one is asked.
PassRepairs ==
  /\ pass = "repair" /\ drain = "no" /\ PassEnds
  /\ UNCHANGED <<pool, lease, bindVars, drain, wire>> /\ PassRest

\* Time: half the lease has gone; the home takes back an inbox whose lease
\* ran out while nobody held it.
LeaseAges ==
  /\ lease = "fresh" /\ Spend("reclaim") /\ lease' = "due"
  /\ UNCHANGED <<gate, boot, pool, bindVars, wakeVars, acct, uplinkRest, wire>>

Reclaim ==
  /\ lease = "due" /\ sess = {} /\ inbox = "open" /\ Spend("reclaim") /\ inbox' = "reclaimed"
  /\ UNCHANGED <<gate, boot, pool, lease, sess, con, res, up, owed, status, gap, wakeVars, acct>>
  /\ UNCHANGED <<uplinkRest, wire>>

\* ---- the account session on demand ----

InFlight(a) == a.waiting + a.working

\* The end of a piece of work: the last one arms the idle close.
Armed(a) == IF InFlight(a) = 0 /\ a.client THEN [a EXCEPT !.timer = TRUE] ELSE a
AcctRest == /\ UNCHANGED <<gate, boot, pool, lease, bindVars, wakeVars, uplinkRest, wire>>

Execute ==
  /\ ~acct.closed /\ Spend("work")
  /\ acct' = IF acct.client THEN [acct EXCEPT !.timer = FALSE, !.working = @ + 1]
             ELSE [acct EXCEPT !.timer = FALSE, !.waiting = @ + 1, !.dialing = TRUE]
  /\ AcctRest

AccountDialed ==
  /\ acct.dialing
  /\ \/ acct' = [acct EXCEPT !.dialing = FALSE, !.client = TRUE,
                             !.working = @ + acct.waiting, !.waiting = 0]
     \/ acct' = Armed([acct EXCEPT !.dialing = FALSE, !.waiting = 0])
  /\ UNCHANGED left /\ AcctRest

WorkDone ==
  /\ acct.working > 0 /\ acct' = Armed([acct EXCEPT !.working = @ - 1])
  /\ UNCHANGED left /\ AcctRest

\* The idle timer fires; the app goes to the background with no work open;
\* the channel is closed for good, whatever is open.
IdleCloses ==
  /\ acct.timer /\ acct' = [acct EXCEPT !.timer = FALSE, !.client = FALSE]
  /\ UNCHANGED left /\ AcctRest

Suspend ==
  /\ ~acct.closed /\ InFlight(acct) = 0 /\ acct.client
  /\ acct' = [acct EXCEPT !.timer = FALSE, !.client = FALSE]
  /\ UNCHANGED left /\ AcctRest

CloseChannel ==
  /\ ~acct.closed /\ Spend("stop")
  /\ acct' = [acct EXCEPT !.timer = FALSE, !.client = FALSE, !.closed = TRUE]
  /\ AcctRest

HomeStep ==
  \/ DialFails \/ DialSucceeds \/ ClaimAccepted \/ ClaimReminted \/ DeviceBound
  \/ DeviceUnbound \/ BindFails \/ ConnectDone \/ RestoreDone
  \/ LoseTransport \/ PoolReconnects \/ Start \/ StartServices \/ Started \/ Stop
  \/ PeriodicDrain \/ DrainEnds \/ Wake \/ EnsureLive \/ LiveAnswered \/ RenewLease
  \/ PassDrains \/ PassRepairs \/ LeaseAges \/ Reclaim
  \/ Execute \/ AccountDialed \/ WorkDone \/ IdleCloses \/ Suspend \/ CloseChannel
=============================================================================
