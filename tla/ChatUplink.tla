----------------------------- MODULE ChatUplink -----------------------------
(***************************************************************************)
(* The socket between a window and the chat server:                        *)
(* src/client/transport/ChatBridgeClient.js and                            *)
(* src/client/runtime/ChatRuntimeClient.js at one end,                     *)
(* src/server/transport/ChatWebsocketUplink.js, BridgeClient.js and        *)
(* ChatBridge.js at the other.                                             *)
(*                                                                         *)
(* The uplink outlives the chat server: a lock detaches the server and     *)
(* leaves the sockets open, an unlock attaches another one.  A socket      *)
(* carries frames in order both ways, may be lost at any moment with all   *)
(* that is on it, and is opened again after a pause.                       *)
(***************************************************************************)
EXTENDS ChatWindow

CONSTANT Scenes  \* the allowances a behaviour may begin with

VARIABLES
  left,      \* what is left of each allowance
  attached,  \* a chat server is attached: the bridge is ready
  greeting,  \* session.hello is being answered by the attached server
  authed,    \* the open socket has said hello
  retry,     \* the window's reconnect timer is armed
  wire,      \* frames on their way to the window
  win        \* the window

uplinkVars == <<left, attached, greeting, authed, retry, wire, win>>

Allowances == {"drop", "attach", "logout", "timeout",                         \* the uplink
               "lose", "fail", "reclaim", "wake", "stop", "work", "periodic", "gated",  \* the home
               "opened", "user", "inbound"}                                            \* the threads
\* Bounds: how often each of them may happen in one behaviour ("periodic" is
\* only whether the timer runs, "gated" whether the home wants a proven device,
\* "opened" how many conversations there are).
Spend(a) == left[a] > 0 /\ left' = [left EXCEPT ![a] = @ - 1]

UplinkInit ==
  /\ left \in Scenes
  /\ attached = FALSE /\ greeting = FALSE /\ authed = FALSE /\ retry = FALSE
  /\ wire = <<>> /\ win = NewWindow

SocketOpen == win.link # "off"
Pending(id) == SocketOpen /\ Len(win.up) > 0 /\ Head(win.up) = id

\* ---- the server's end ----

\* An event goes to every authenticated socket of an attached server.
Heard(event) == IF attached /\ authed THEN wire \o <<event>> ELSE wire
Broadcast(event) == wire' = Heard(event)
\* An answer goes to the socket it was asked on, if that is still open.
Sent(frames) == IF SocketOpen THEN wire \o frames ELSE wire

Took == win' = [win EXCEPT !.up = Tail(@)]

\* A fresh router, the event subscriptions, ready.
Attach ==
  /\ Spend("attach") /\ ~attached /\ attached' = TRUE
  /\ UNCHANGED <<greeting, authed, retry, wire, win>>

\* The sockets stay open, and authenticated.
Detach ==
  /\ attached /\ attached' = FALSE
  /\ UNCHANGED <<left, greeting, authed, retry, wire, win>>

\* Hello is the one request that needs neither authentication nor a ready
\* bridge, but it does need a handler.  The handler marks the socket before
\* it waits for the session service, so events may overtake its answer.
TakeHello ==
  /\ Pending(0) /\ Took
  /\ IF attached THEN authed' = TRUE /\ greeting' = TRUE /\ UNCHANGED wire
     ELSE wire' = Append(wire, HelloAnswer("refused")) /\ UNCHANGED <<authed, greeting>>
  /\ UNCHANGED <<left, attached, retry>>

AnswerHello ==
  /\ greeting /\ greeting' = FALSE
  /\ wire' = Append(wire, HelloAnswer("ok"))
  /\ UNCHANGED <<left, attached, authed, retry, win>>

\* Any other request of a socket that has not said hello, or that comes
\* while no server is attached, is refused.
Refuse ==
  /\ SocketOpen /\ win.up # <<>> /\ Head(win.up) # 0 /\ ~(authed /\ attached)
  /\ Took /\ wire' = Append(wire, Refusal(Head(win.up)))
  /\ UNCHANGED <<left, attached, greeting, authed, retry>>

\* ---- the end of a socket ----

Closed(again, w) ==
  /\ authed' = FALSE /\ greeting' = FALSE /\ wire' = <<>>
  /\ retry' = again /\ win' = w
  /\ UNCHANGED attached

\* The server closes a socket that has not said hello in time.
HelloTimeout ==
  /\ SocketOpen /\ ~authed /\ win.link = "refused"
  /\ Closed(TRUE, SocketGone(win)) /\ UNCHANGED left

Drop == SocketOpen /\ Spend("drop") /\ Closed(TRUE, SocketGone(win))

\* The window closes its client on purpose: no reconnect, no listeners.
Logout == /\ win.bound \/ SocketOpen \/ retry
          /\ Spend("logout") /\ Closed(FALSE, LoggedOut(win))

\* ---- the window's end ----

Opens == /\ win' = SocketOpened(win) /\ retry' = FALSE
         /\ UNCHANGED <<left, attached, greeting, authed, wire>>

\* An unlock starts the server, and attaches it, before the window connects;
\* a connect that failed leaves a client the next one closes first.
Connect == ~SocketOpen /\ ~retry /\ ~win.bound /\ attached /\ Opens
Reconnect == ~SocketOpen /\ retry /\ Opens

ReceiveHello ==
  /\ wire # <<>> /\ Head(wire).k = "hello"
  /\ win' = HelloAnswered(win, Head(wire)) /\ wire' = Tail(wire)
  /\ UNCHANGED <<left, attached, greeting, authed, retry>>

ReceiveAnswer ==
  /\ wire # <<>> /\ Head(wire).k = "answer"
  /\ win' = Settled(win, Head(wire)) /\ wire' = Tail(wire)
  /\ UNCHANGED <<left, attached, greeting, authed, retry>>

ReceiveEvent ==
  /\ wire # <<>> /\ Head(wire).k \notin {"hello", "answer"}
  /\ win' = Deliver(win, Head(wire)) /\ wire' = Tail(wire)
  /\ UNCHANGED <<left, attached, greeting, authed, retry>>

\* REQUEST_TIMEOUT_MS; the answer may still come (bound: the server has the
\* request already).
RequestTimeout(id) ==
  /\ win.open[id] # NoCall /\ id \notin ToSet(win.up) /\ Spend("timeout")
  /\ win' = Expired(win, id)
  /\ UNCHANGED <<attached, greeting, authed, retry, wire>>

UplinkStep ==
  \/ TakeHello \/ AnswerHello \/ Refuse \/ HelloTimeout \/ Drop \/ Logout
  \/ Connect \/ Reconnect \/ ReceiveHello \/ ReceiveAnswer \/ ReceiveEvent
  \/ \E id \in OpenCalls(win) : RequestTimeout(id)

UplinkTypeOK ==
  /\ left \in [Allowances -> Nat]
  /\ {attached, greeting, authed, retry} \subseteq BOOLEAN
  /\ win \in Window
=============================================================================
