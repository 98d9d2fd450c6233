----------------------------- MODULE ChatWindow -----------------------------
(***************************************************************************)
(* What one window of the app keeps and how it changes: the conversation   *)
(* rows with their unread badges (src/ui/services/bus/ThreadsService.js,   *)
(* src/ui/stores/ThreadStore.js), the connection banner                    *)
(* (ConnectionService.js, ConnectionStore.js, RuntimeService.js) and the   *)
(* calls it has open (src/client/transport/ChatBridgeClient.js).           *)
(*                                                                         *)
(* JavaScript runs a callback to its end, so everything the window does    *)
(* with one frame, one click or one rejection is one operator from the     *)
(* window before to the window after.  An unread count is kept as the set  *)
(* of messages that are counted: its size is the badge.                    *)
(***************************************************************************)
EXTENDS Integers, Sequences, FiniteSets, SequencesExt

CONSTANTS
  Threads, Channels, Msgs,
  ThreadOf, ChanOf,  \* where a message belongs
  General,           \* the channel of messages that name none
  MaxCall,           \* bound: calls one behaviour may make
  NoThread, NoRow

CallIds == 1 .. MaxCall

ASSUME WindowAssumption ==
  /\ MaxCall \in Nat /\ General \in Channels /\ NoThread \notin Threads
  /\ ThreadOf \in [Msgs -> Threads] /\ ChanOf \in [Msgs -> Channels]

Methods == {"list", "read", "chread", "state", "delete", "create"}
Call == [m : Methods, t : Threads \cup {NoThread}, c : Channels]
NoCall == [m |-> "none", t |-> NoThread, c |-> General]
TheCall(m, t, c) == [m |-> m, t |-> t, c |-> c]
List == TheCall("list", NoThread, General)

\* What the server sends: events, the answer to a hello, answers to calls.
NoRows == [t \in Threads |-> NoRow]
Frame(k, t, set) == [k |-> k, id |-> 0, t |-> t, unread |-> set, word |-> "", rows |-> NoRows]
IndexEvent(t, set) == Frame("index", t, set)   \* thread.index.updated
RowEvent(t, set)   == Frame("row", t, set)     \* thread.updated
RemovedEvent(t)    == Frame("removed", t, {})  \* thread.removed
StateEvent(s) == [Frame("state", NoThread, {}) EXCEPT !.word = s]
CaughtUp      == Frame("caughtup", NoThread, {})
HelloAnswer(s) == [Frame("hello", NoThread, {}) EXCEPT !.word = s]
Answer(id, t, set) == [Frame("answer", t, set) EXCEPT !.id = id, !.word = "ok"]
AnswerRows(id, rows) == [Answer(id, NoThread, {}) EXCEPT !.rows = rows]
Refusal(id)    == [Frame("answer", NoThread, {}) EXCEPT !.id = id, !.word = "refused"]

Links == {"off",      \* no socket that is open
          "auth",     \* an open one, session.hello is under way
          "refused",  \* an open one whose hello was refused
          "ready"}    \* events flow
Statuses == {"disconnected", "connecting", "connected", "reconnecting", "offline"}

\* made: the calls made so far; open: those without an outcome; up: what is
\* on the socket towards the server, 0 being session.hello.
Window == [link : Links, bound : BOOLEAN, made : 0 .. MaxCall,
           open : [CallIds -> Call \cup {NoCall}], up : Seq(0 .. MaxCall),
           held : Seq([k : {"index", "row", "removed", "state", "caughtup"}, id : {0},
                       t : Threads \cup {NoThread}, unread : SUBSET Msgs,
                       word : Statuses \cup {""}, rows : {NoRows}]),
           rows : [Threads -> (SUBSET Msgs) \cup {NoRow}],
           sel : Threads \cup {NoThread}, chan : Channels, focus : BOOLEAN,
           status : Statuses, synced : BOOLEAN, lost : BOOLEAN]

NewWindow ==
  [link |-> "off", bound |-> FALSE, made |-> 0, open |-> [i \in CallIds |-> NoCall],
   up |-> <<>>, held |-> <<>>, rows |-> NoRows, sel |-> NoThread, chan |-> General,
   focus |-> TRUE, status |-> "disconnected", synced |-> FALSE, lost |-> FALSE]

InChannel(set, c) == {x \in set : ChanOf[x] = c}
OpenCalls(w) == {i \in CallIds : w.open[i] # NoCall}
Row(w, t, set) == [w EXCEPT !.rows[t] = set]

\* ---- calls: the promise of a call, and what its caller does when it settles ----

\* The channel's bucket leaves the row, if the row is still there.
DropBucket(w, t, c) ==
  IF w.rows[t] = NoRow THEN w ELSE Row(w, t, w.rows[t] \ InChannel(w.rows[t], c))

\* A call that fails: the two that mark as read swallow the error and patch
\* the row all the same, the others only report it.
CallFails(w, call) ==
  LET v == [w EXCEPT !.lost = TRUE] IN
  CASE call.m = "chread" -> DropBucket(v, call.t, call.c)
    [] call.m = "read" /\ v.rows[call.t] # NoRow -> Row(v, call.t, {})
    [] OTHER -> v

\* A call that is answered.
CallEnds(w, call, f) ==
  CASE call.m = "list"   -> [w EXCEPT !.rows = f.rows]
    [] call.m = "chread" -> DropBucket(w, call.t, call.c)
    [] call.m = "read" /\ w.rows[call.t] # NoRow -> Row(w, call.t, {})
    [] call.m = "state" /\ f.t # NoThread -> Row(w, call.t, f.unread)
    [] call.m = "create" -> [Row(w, call.t, f.unread) EXCEPT !.sel = call.t]
    [] OTHER -> w

\* Without an open socket a call is rejected where it is made.  Beyond
\* MaxCall nothing is sent, which the ghost records.
Request(w, call) ==
  IF w.link = "off" THEN CallFails(w, call)
  ELSE IF w.made = MaxCall THEN [w EXCEPT !.lost = TRUE]
  ELSE [w EXCEPT !.made = @ + 1, !.open[w.made + 1] = call,
                 !.up = Append(@, w.made + 1)]

\* An answer nobody waits for is dropped.
Settled(w, f) ==
  IF w.open[f.id] = NoCall THEN w
  ELSE LET call == w.open[f.id]
           v    == [w EXCEPT !.open[f.id] = NoCall]
       IN IF f.word = "ok" THEN CallEnds(v, call, f) ELSE CallFails(v, call)

Expired(w, id) == Settled(w, Refusal(id))

RejectAll(w) == FoldFunctionOnSet(LAMBDA call, v : CallFails(v, call),
                  [w EXCEPT !.open = [i \in CallIds |-> NoCall]], w.open, OpenCalls(w))

\* ---- events of the server ----

\* A row that is on screen in a focused window shows nothing of its open
\* channel, and what has just come in there is marked as read at once.
IndexUpdated(w, f) ==
  LET viewed == w.sel = f.t /\ w.focus
      seen   == IF viewed THEN InChannel(f.unread, w.chan) ELSE {}
      v      == Row(w, f.t, f.unread \ seen)
  IN IF w.rows[f.t] = NoRow THEN Request(w, List)
     ELSE IF seen = {} THEN v ELSE Request(v, TheCall("chread", f.t, w.chan))

ThreadUpdated(w, f) == [Row(w, f.t, f.unread) EXCEPT !.lost = TRUE]

ThreadRemoved(w, f) ==
  [Row(w, f.t, NoRow) EXCEPT !.sel = IF @ = f.t THEN NoThread ELSE @]

\* The banner: a state of the home session, the end of a catch-up.
ConnectionEvent(w, f) ==
  IF f.k = "state" THEN [w EXCEPT !.status = f.word] ELSE [w EXCEPT !.synced = TRUE]

OnEvent(w, f) ==
  CASE f.k = "index"   -> IndexUpdated(w, f)
    [] f.k = "row"     -> ThreadUpdated(w, f)
    [] f.k = "removed" -> ThreadRemoved(w, f)
    [] OTHER           -> ConnectionEvent(w, f)

\* Nobody listens before the first connect has returned; after that, events
\* that come before the runtime is ready again wait for it.
Deliver(w, f) ==
  IF ~w.bound THEN [w EXCEPT !.lost = TRUE]
  ELSE IF w.link = "ready" THEN OnEvent(w, f)
  ELSE [w EXCEPT !.held = Append(@, f)]

\* ---- the runtime of the window ----

\* The waiting events are handled before runtime.connected is announced, and
\* the announcement starts the wait for a catch-up from the beginning.
BecomeReady(w) ==
  LET v == FoldLeft(OnEvent,
             [w EXCEPT !.link = "ready", !.status = "connected", !.held = <<>>], w.held)
  IN [v EXCEPT !.status = "connected", !.synced = FALSE]

\* The first connect of a login also fetches the list.
LoggedIn(w) == Request([BecomeReady(w) EXCEPT !.bound = TRUE], List)

HelloAnswered(w, f) ==
  IF f.word = "ok" THEN (IF w.bound THEN BecomeReady(w) ELSE LoggedIn(w))
  ELSE [w EXCEPT !.link = "refused", !.held = <<>>, !.status = "disconnected",
                 !.synced = FALSE]

\* The socket has gone: every open call is rejected, the runtime steps down.
SocketGone(w) ==
  [RejectAll([w EXCEPT !.link = "off", !.up = <<>>])
     EXCEPT !.held = <<>>, !.status = "disconnected", !.synced = FALSE, !.lost = TRUE]

SocketOpened(w) == [w EXCEPT !.link = "auth", !.up = <<0>>]

\* RuntimeService.disconnect: the listeners go before the socket does.
LoggedOut(w) == [SocketGone(w) EXCEPT !.bound = FALSE]

\* ---- what the user does ----

Select(w, t, c) ==
  Request([w EXCEPT !.sel = t, !.chan = c], TheCall("chread", t, c))
Deselect(w) == [w EXCEPT !.sel = NoThread]
Closing(w, t) == IF w.sel = t THEN Deselect(w) ELSE w

Focus(w) ==
  LET v == [w EXCEPT !.focus = TRUE] IN
  IF w.sel # NoThread /\ w.rows[w.sel] \notin {NoRow, {}}
    THEN Request(v, TheCall("chread", w.sel, w.chan)) ELSE v
Blur(w) == [w EXCEPT !.focus = FALSE]

MarkRead(w, t)  == Request(w, TheCall("read", t, General))
Archive(w, t)   == Request([Closing(w, t) EXCEPT !.lost = TRUE], TheCall("state", t, General))
Delete(w, t)    == Request(Closing(w, t), TheCall("delete", t, General))
CreateDirect(w, t) == Request([w EXCEPT !.lost = TRUE], TheCall("create", t, General))
Refresh(w)      == Request(w, List)
=============================================================================
