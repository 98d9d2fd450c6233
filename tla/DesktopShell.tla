---------------------------- MODULE DesktopShell ----------------------------
(***************************************************************************)
(* The processes of the desktop application and the channels between them: *)
(* the Tauri shell (src-tauri/src/lib.rs, sidecar.rs, updater.rs), the     *)
(* node sidecar it spawns (src/desktop/sidecar-main.js) with its instance  *)
(* lock and its two detectors of a dead parent, the control channel from   *)
(* the window to the sidecar (ControlChannelClient, DesktopControlUplink)  *)
(* and the host channel from the sidecar to the shell (HostChannel).       *)
(*                                                                         *)
(* Every launch of the shell spawns at most one sidecar; nothing keeps two *)
(* launches apart but the node's fixed port.  A sidecar is wedged when its *)
(* event loop is blocked: it can only be killed.                           *)
(***************************************************************************)
EXTENDS Naturals, Sequences, SequencesExt, FiniteSets

CONSTANTS
  Launches,   \* launches of the shell, and the sidecars they spawn
  Ids,        \* the ids of control calls and host requests, 1 .. n
  NoOne,      \* no launch
  Limits      \* how often: see Bounds

Bounds == {"launch", "quit", "crash", "wedge", "slow", "late", "call", "drop", "close", "ask"}

ASSUME ShellAssumption ==
  /\ NoOne \notin Launches
  /\ IsFiniteSet(Ids) /\ Ids = 1 .. Cardinality(Ids)
  /\ Limits \subseteq [Bounds -> Nat]

VARIABLES
  host,     \* where each launch of the shell is
  late,     \* launches whose update gate timed out over a download
  side,     \* where each launch's sidecar is
  seen,     \* the owner of the lock a sidecar has read and is verifying
  report,   \* the frame of its boot that the shell has not read
  wedged,   \* sidecars whose event loop is blocked
  lock,     \* the owner named by sidecar.lock, or NoOne
  reaped,   \* history: launches that ended by a shutdown of their sidecar
  doubted,  \* history: sidecars whose lock another one's clean-up removed
  page,     \* the launch whose window is modelled
  sock,     \* its control socket: "none", "opening", "open", "ready"
  authed,   \* the uplink has accepted the hello of that socket
  queue,    \* calls that wait for the hello to be answered
  sent,     \* frames on their way to the uplink: 0 is the hello
  running,  \* calls whose handler is under way
  back,     \* frames on their way to the page: 0 is hello.ok
  pending,  \* calls the page waits for
  rejected, \* calls that ended with the transport's error
  made,     \* the number of calls the page has made
  started,  \* history: the calls the uplink has begun, in order
  closed,   \* the page has closed its client
  asked,    \* the number of host requests made
  waiting,  \* host requests the sidecar waits for
  line,     \* host requests the shell has not read
  dialog,   \* the request whose dialog is on the screen, or 0
  answers,  \* answers on their way to the sidecar
  granted,  \* requests the sidecar took as confirmed
  said,     \* history: requests the user confirmed
  left      \* what is left of the bounds

processes == <<host, late, side, seen, report, wedged, lock, reaped, doubted>>
channel   == <<sock, authed, queue, sent, running, back, pending, rejected, made, started, closed>>
asks      == <<asked, waiting, line, dialog, answers, granted, said>>
vars      == <<processes, page, channel, asks, left>>

Spend(k) == left[k] > 0 /\ left' = [left EXCEPT ![k] = @ - 1]

Init ==
  /\ host = [h \in Launches |-> "none"] /\ late = {}
  /\ side = [h \in Launches |-> "none"] /\ seen = [h \in Launches |-> NoOne]
  /\ report = [h \in Launches |-> "none"] /\ wedged = {}
  /\ lock = NoOne /\ reaped = {} /\ doubted = {}
  /\ page = NoOne /\ sock = "none" /\ authed = FALSE
  /\ queue = <<>> /\ sent = <<>> /\ running = {} /\ back = <<>>
  /\ pending = {} /\ rejected = {} /\ made = 0 /\ started = <<>> /\ closed = FALSE
  /\ asked = 0 /\ waiting = {} /\ line = <<>> /\ dialog = 0 /\ answers = <<>>
  /\ granted = {} /\ said = {}
  /\ left \in Limits

-----------------------------------------------------------------------------
(* The sidecar. *)

Alive(s)   == side[s] \notin {"none", "dead"}
Working(s) == Alive(s) /\ s \notin wedged
Ending(s)  == side[s] \in {"stop", "unbound"}
\* The node's port is taken from its start until its stop.
Bound(s)   == side[s] \in {"app", "ready", "stop"}
PipeOpen(s) == host[s] \in {"await", "up", "alarm"}

\* release: only the lock that names this instance is removed.
Release(s) == IF lock = s THEN NoOne ELSE lock

\* shutdown, from whichever caller is first.  Before there is a supervisor
\* there is nothing to await, and the process ends at once.
Shut(s) ==
  \/ side[s] \in {"born", "verify", "kill", "boot", "app"}
     /\ side' = [side EXCEPT ![s] = "dead"] /\ lock' = Release(s)
  \/ side[s] \in {"app", "ready"}
     /\ side' = [side EXCEPT ![s] = "stop"] /\ UNCHANGED lock

\* Both detectors of a dead parent come up before the rest of the boot.
\* Wrong variant: they watch the boot only.
GoneWhileBooting(s) ==
  /\ Working(s) /\ ~Ending(s) /\ ~PipeOpen(s) /\ side[s] # "ready"
  /\ Shut(s)
  /\ UNCHANGED <<host, late, seen, report, wedged, reaped, doubted, page, channel, asks, left>>
ParentGone(s) ==
  /\ Working(s) /\ ~Ending(s) /\ ~PipeOpen(s) /\ Shut(s)
  /\ UNCHANGED <<host, late, seen, report, wedged, reaped, doubted, page, channel, asks, left>>

\* cleanupStale reads the lock and, if its process lives, goes on to verify.
CleanupStale(s) ==
  /\ Working(s) /\ side[s] = "born"
  /\ IF lock # NoOne /\ Alive(lock)
     THEN side' = [side EXCEPT ![s] = "verify"] /\ seen' = [seen EXCEPT ![s] = lock] /\ UNCHANGED lock
     ELSE side' = [side EXCEPT ![s] = "boot"] /\ lock' = NoOne /\ UNCHANGED seen
  /\ UNCHANGED <<host, late, report, wedged, reaped, doubted, page, channel, asks, left>>

\* The file that is removed is the one of now, whoever was read and verified.
RemoveLock == lock' = NoOne /\ doubted' = doubted \cup ({lock} \ {NoOne})

\* The one who is named must answer on the port that is named: then SIGTERM.
Answering(o) == side[o] \in {"ready", "stop"} /\ o \notin wedged
Verify(s) ==
  /\ Working(s) /\ side[s] = "verify"
  /\ LET o == seen[s] IN
     \/ /\ Answering(o)
        /\ side' = [side EXCEPT ![s] = "kill", ![o] = "stop"]
        /\ UNCHANGED <<lock, doubted, left>>
     \/ /\ IF Answering(o) THEN Spend("slow") ELSE UNCHANGED left
        /\ side' = [side EXCEPT ![s] = "boot"] /\ RemoveLock
  /\ UNCHANGED <<host, late, seen, report, wedged, reaped, page, channel, asks>>

\* Bounded wait, then SIGKILL.
Terminate(s) ==
  /\ Working(s) /\ side[s] = "kill"
  /\ side' = [side EXCEPT ![s] = "boot", ![seen[s]] = "dead"] /\ RemoveLock
  /\ UNCHANGED <<host, late, seen, report, wedged, reaped, page, channel, asks, left>>

\* startRezChat: a taken port is a failed boot, reported before the exit.
Boot(s) ==
  /\ Working(s) /\ side[s] = "boot"
  /\ IF \E o \in Launches : Bound(o)
     THEN /\ side' = [side EXCEPT ![s] = "dead"]
          /\ report' = IF PipeOpen(s) THEN [report EXCEPT ![s] = "failed"] ELSE report
     ELSE side' = [side EXCEPT ![s] = "app"] /\ UNCHANGED report
  /\ UNCHANGED <<host, late, seen, wedged, lock, reaped, doubted, page, channel, asks, left>>

\* The vault, the supervisor and the uplink are up; the lock is written and
\* the shell is told.
Serve(s) ==
  /\ Working(s) /\ side[s] = "app"
  /\ side' = [side EXCEPT ![s] = "ready"] /\ lock' = s
  /\ report' = IF PipeOpen(s) THEN [report EXCEPT ![s] = "ready"] ELSE report
  /\ UNCHANGED <<host, late, seen, wedged, reaped, doubted, page, channel, asks, left>>

\* The supervisor has stopped the node and the shell server.
Unbind(s) ==
  /\ Working(s) /\ side[s] = "stop"
  /\ side' = [side EXCEPT ![s] = "unbound"]
  /\ UNCHANGED <<host, late, seen, report, wedged, lock, reaped, doubted, page, channel, asks, left>>

\* The graceful end, or the deadline over a teardown that hangs.
End(s) ==
  /\ Working(s) /\ Ending(s)
  /\ side' = [side EXCEPT ![s] = "dead"] /\ lock' = Release(s)
  /\ UNCHANGED <<host, late, seen, report, wedged, reaped, doubted, page, channel, asks, left>>

Wedge(s) ==
  /\ Working(s) /\ side[s] # "born" /\ Spend("wedge")
  /\ wedged' = wedged \cup {s}
  /\ UNCHANGED <<host, late, side, seen, report, lock, reaped, doubted, page, channel, asks>>

-----------------------------------------------------------------------------
(* The shell. *)

Launch(h) ==
  /\ host[h] = "none" /\ Spend("launch")
  /\ host' = [host EXCEPT ![h] = "gate"]
  /\ UNCHANGED <<late, side, seen, report, wedged, lock, reaped, doubted, page, channel, asks>>

\* The update gate: nothing to do, an update applied, or a gate that gives up
\* over a download that goes on.
UpdateGate(h) ==
  /\ host[h] = "gate"
  /\ \/ host' = [host EXCEPT ![h] = "spawn"] /\ UNCHANGED <<late, left>>
     \/ host' = [host EXCEPT ![h] = "gone"] /\ UNCHANGED <<late, left>>
     \/ host' = [host EXCEPT ![h] = "spawn"] /\ late' = late \cup {h} /\ Spend("late")
  /\ UNCHANGED <<side, seen, report, wedged, lock, reaped, doubted, page, channel, asks>>

Spawn(h) ==
  /\ host[h] = "spawn"
  /\ host' = [host EXCEPT ![h] = "await"] /\ side' = [side EXCEPT ![h] = "born"]
  /\ UNCHANGED <<late, seen, report, wedged, lock, reaped, doubted, page, channel, asks, left>>

\* await_ready: the frame that is read first decides; a boot that failed or a
\* process that ended is an error on the splash.
Ready(h) ==
  /\ host[h] = "await" /\ report[h] = "ready"
  /\ host' = [host EXCEPT ![h] = "up"]
  /\ page' = IF page = NoOne THEN h ELSE page
  /\ sock' = IF page = NoOne THEN "opening" ELSE sock
  /\ UNCHANGED <<late, side, seen, report, wedged, lock, reaped, doubted, asks, left,
                 authed, queue, sent, running, back, pending, rejected, made, started, closed>>
BootLost(h) ==
  /\ host[h] = "await" /\ report[h] # "ready" /\ side[h] = "dead"
  /\ host' = [host EXCEPT ![h] = "failed"]
  /\ UNCHANGED <<late, side, seen, report, wedged, lock, reaped, doubted, page, channel, asks, left>>

BootTimeout(h) ==
  /\ host[h] = "await" /\ report[h] = "none" /\ Alive(h)
  /\ side' = [side EXCEPT ![h] = "dead"] /\ host' = [host EXCEPT ![h] = "failed"]
  /\ UNCHANGED <<late, seen, report, wedged, lock, reaped, doubted, page, channel, asks, left>>

\* RunEvent::Exit: a sidecar that is managed is shut down and waited for, any
\* other is left to its pipe.
Exit(h) ==
  /\ host' = [host EXCEPT ![h] = IF @ \in {"up", "alarm"} THEN "closing" ELSE "gone"]
  /\ UNCHANGED <<side, seen, report, wedged, lock, reaped, doubted, page, channel, asks>>
Quit(h) ==
  /\ host[h] \in {"gate", "spawn", "await", "failed", "up"} /\ Spend("quit")
  /\ UNCHANGED late /\ Exit(h)
LateUpdate(h) ==
  /\ h \in late /\ host[h] \in {"spawn", "await", "failed", "up"}
  /\ late' = late \ {h} /\ UNCHANGED left /\ Exit(h)

\* The crash monitor asks whether to restart; either answer is an exit.
Monitor(h) ==
  /\ host[h] = "up" /\ ~Alive(h)
  /\ host' = [host EXCEPT ![h] = "alarm"]
  /\ UNCHANGED <<late, side, seen, report, wedged, lock, reaped, doubted, page, channel, asks, left>>
AnswerAlarm(h) == host[h] = "alarm" /\ UNCHANGED <<late, left>> /\ Exit(h)

\* SidecarHandle::shutdown: what has not ended by itself is killed.
\* Wrong variant: the shell asks, waits and leaves.
AskAndLeave(h) ==
  /\ host[h] = "closing"
  /\ host' = [host EXCEPT ![h] = "gone"] /\ reaped' = reaped \cup {h}
  /\ UNCHANGED <<late, side, seen, report, wedged, lock, doubted, page, channel, asks, left>>
Shutdown(h) ==
  /\ host[h] = "closing"
  /\ side' = [side EXCEPT ![h] = "dead"]
  /\ host' = [host EXCEPT ![h] = "gone"] /\ reaped' = reaped \cup {h}
  /\ UNCHANGED <<late, seen, report, wedged, lock, doubted, page, channel, asks, left>>

Crash(h) ==
  /\ host[h] \notin {"none", "gone"} /\ Spend("crash")
  /\ host' = [host EXCEPT ![h] = "gone"]
  /\ UNCHANGED <<late, side, seen, report, wedged, lock, reaped, doubted, page, channel, asks>>

-----------------------------------------------------------------------------
(* The control channel. *)

Serving == page # NoOne /\ side[page] = "ready" /\ page \notin wedged
Shown   == page # NoOne /\ host[page] \in {"up", "alarm"}

Call ==
  /\ Shown /\ ~closed /\ made + 1 \in Ids /\ Spend("call")
  /\ made' = made + 1
  /\ LET id == made + 1 IN
     /\ pending' = pending \cup {id}
     /\ IF sock = "ready" THEN sent' = Append(sent, id) /\ UNCHANGED queue
        ELSE queue' = Append(queue, id) /\ UNCHANGED sent
  /\ UNCHANGED <<processes, page, sock, authed, running, back, rejected, started, closed, asks>>

Opened ==
  /\ Shown /\ sock = "opening" /\ Serving
  /\ sock' = "open" /\ sent' = <<0>>
  /\ UNCHANGED <<processes, page, authed, queue, running, back, pending, rejected, made, started, closed, asks, left>>

\* onclose: whoever waits is rejected and what was queued is forgotten.
\* Wrong variant: the queue waits for the next socket.
RejectKeepingQueue == pending' = {} /\ rejected' = rejected \cup pending /\ UNCHANGED queue
RejectAllPending == pending' = {} /\ rejected' = rejected \cup pending /\ queue' = <<>>
\* The first n frames that were on their way may still have arrived.
Lose(n) ==
  /\ sock' = "none" /\ authed' = FALSE /\ sent' = <<>> /\ back' = <<>>
  /\ RejectAllPending
  /\ started' = started \o SubSeq(sent, 1, n) /\ running' = running \cup ToSet(SubSeq(sent, 1, n))
  /\ UNCHANGED <<processes, page, made, asks>>
Arrived == IF Serving /\ authed THEN 0 .. Len(sent) ELSE {0}

\* No one is there, or the connection breaks, or the uplink gives up on a hello.
Refused == Shown /\ sock # "none" /\ side[page] # "ready" /\ Lose(0) /\ UNCHANGED <<closed, left>>
Drop    == Shown /\ sock # "none" /\ Spend("drop") /\ UNCHANGED closed /\ \E n \in Arrived : Lose(n)

Reconnect ==
  /\ Shown /\ sock = "none" /\ ~closed
  /\ sock' = "opening"
  /\ UNCHANGED <<processes, page, authed, queue, sent, running, back, pending, rejected, made, started, closed, asks, left>>

CloseClient ==
  /\ Shown /\ ~closed /\ Spend("close") /\ closed' = TRUE /\ \E n \in Arrived : Lose(n)

\* The uplink's first frame must be the hello; a call starts its handler.
HandleHello ==
  /\ Serving /\ sent # <<>> /\ Head(sent) = 0 /\ ~authed
  /\ authed' = TRUE /\ sent' = Tail(sent) /\ back' = Append(back, 0)
  /\ UNCHANGED <<processes, page, sock, queue, running, pending, rejected, made, started, closed, asks, left>>
HandleCall ==
  /\ Serving /\ sent # <<>> /\ Head(sent) # 0 /\ authed
  /\ sent' = Tail(sent) /\ running' = running \cup {Head(sent)}
  /\ started' = Append(started, Head(sent))
  /\ UNCHANGED <<processes, page, sock, authed, queue, back, pending, rejected, made, closed, asks, left>>

\* The result goes to the socket the call came from, if it is still there.
Finish(id) ==
  /\ Serving /\ id \in running
  /\ running' = running \ {id}
  /\ back' = IF id \in pending THEN Append(back, id) ELSE back
  /\ UNCHANGED <<processes, page, sock, authed, queue, sent, pending, rejected, made, started, closed, asks, left>>

\* hello.ok flushes the queue; a result settles its call.
Flush == queue
Receive ==
  /\ Shown /\ back # <<>> /\ back' = Tail(back)
  /\ IF Head(back) = 0
     THEN sock' = "ready" /\ sent' = sent \o Flush /\ queue' = <<>> /\ UNCHANGED pending
     ELSE pending' = pending \ {Head(back)} /\ UNCHANGED <<sock, sent, queue>>
  /\ UNCHANGED <<processes, page, authed, running, rejected, made, started, closed, asks, left>>

-----------------------------------------------------------------------------
(* The host channel: device unlock asks the shell for the user's word. *)

Ask ==
  /\ Serving /\ PipeOpen(page) /\ Spend("ask") /\ asked + 1 \in Ids
  /\ asked' = asked + 1
  /\ waiting' = waiting \cup {asked + 1} /\ line' = Append(line, asked + 1)
  /\ UNCHANGED <<processes, page, channel, dialog, answers, granted, said>>

\* The shell's reader thread shows one dialog and reads on when it is closed.
ShowDialog ==
  /\ Shown /\ dialog = 0 /\ line # <<>>
  /\ dialog' = Head(line) /\ line' = Tail(line)
  /\ UNCHANGED <<processes, page, channel, asked, waiting, answers, granted, said, left>>
UserAnswers ==
  /\ Shown /\ dialog # 0
  /\ \E yes \in BOOLEAN : /\ answers' = Append(answers, <<dialog, yes>>)
                          /\ said' = IF yes THEN said \cup {dialog} ELSE said
  /\ dialog' = 0
  /\ UNCHANGED <<processes, page, channel, asked, waiting, line, granted, left>>

\* The answer finds its request by its id; one that came too late is dropped.
\* Wrong variant: the answer goes to whoever waits.
AnswerAny(id)  == waiting
AnswerFor(id) == waiting \cap {id}
TakeAnswer ==
  /\ Serving /\ answers # <<>> /\ answers' = Tail(answers)
  /\ LET a == Head(answers) IN
     /\ waiting' = waiting \ AnswerFor(a[1])
     /\ granted' = IF a[2] THEN granted \cup AnswerFor(a[1]) ELSE granted
  /\ UNCHANGED <<processes, page, channel, asked, line, dialog, said, left>>
RequestTimeout(id) ==
  /\ Serving /\ id \in waiting /\ waiting' = waiting \ {id}
  /\ UNCHANGED <<processes, page, channel, asked, line, dialog, answers, granted, said, left>>
\* stop and #fireParentGone reject whoever waits.
ChannelGone ==
  /\ waiting # {} /\ ~Serving /\ waiting' = {}
  /\ UNCHANGED <<processes, page, channel, asked, line, dialog, answers, granted, said, left>>

-----------------------------------------------------------------------------
(* The specification. *)

SidecarStep(s) ==
  \/ ParentGone(s) \/ CleanupStale(s) \/ Verify(s) \/ Terminate(s)
  \/ Boot(s) \/ Serve(s) \/ Unbind(s) \/ End(s)
ShellStep(h) ==
  \/ UpdateGate(h) \/ Spawn(h) \/ Ready(h) \/ BootLost(h) \/ BootTimeout(h)
  \/ Monitor(h) \/ AnswerAlarm(h) \/ Shutdown(h)
Chance(h) == Launch(h) \/ Quit(h) \/ LateUpdate(h) \/ Crash(h) \/ Wedge(h)
PageStep  == Call \/ Opened \/ Drop \/ Refused \/ Reconnect \/ CloseClient \/ Receive
UplinkStep == HandleHello \/ HandleCall \/ \E id \in Ids : Finish(id)
AskStep ==
  \/ Ask \/ ShowDialog \/ UserAnswers \/ TakeAnswer \/ ChannelGone
  \/ \E id \in Ids : RequestTimeout(id)

Next ==
  \/ \E h \in Launches : SidecarStep(h) \/ ShellStep(h) \/ Chance(h)
  \/ PageStep \/ UplinkStep \/ AskStep

\* Whoever is scheduled runs; the user's word, the user's calls and the
\* failures are free, but a dialog of the crash monitor is answered.
Fairness ==
  /\ \A h \in Launches :
     /\ WF_vars(ParentGone(h)) /\ WF_vars(CleanupStale(h)) /\ WF_vars(Verify(h))
     /\ WF_vars(Terminate(h)) /\ WF_vars(Boot(h)) /\ WF_vars(Serve(h))
     /\ WF_vars(Unbind(h)) /\ WF_vars(End(h))
     /\ WF_vars(UpdateGate(h)) /\ WF_vars(Spawn(h)) /\ WF_vars(Ready(h))
     /\ WF_vars(BootLost(h)) /\ WF_vars(BootTimeout(h)) /\ WF_vars(Monitor(h))
     /\ WF_vars(AnswerAlarm(h)) /\ WF_vars(Shutdown(h))
  /\ WF_vars(Opened) /\ WF_vars(Refused) /\ WF_vars(Reconnect) /\ WF_vars(Receive)
  /\ WF_vars(HandleHello) /\ WF_vars(HandleCall)
  /\ \A id \in Ids : WF_vars(Finish(id))

Spec == Init /\ [][Next]_vars /\ Fairness

-----------------------------------------------------------------------------
(* Properties. *)

\* Every variable stays in its range.
ProcessTypes ==
  /\ host \in [Launches -> {"none", "gate", "spawn", "await", "failed", "up", "alarm", "closing", "gone"}]
  /\ side \in [Launches -> {"none", "born", "verify", "kill", "boot", "app", "ready", "stop", "unbound", "dead"}]
  /\ seen \in [Launches -> Launches \cup {NoOne}]
  /\ \A s \in Launches : side[s] \in {"verify", "kill"} => seen[s] \in Launches
  /\ report \in [Launches -> {"none", "ready", "failed"}]
  /\ late \cup wedged \cup reaped \cup doubted \subseteq Launches
  /\ lock \in Launches \cup {NoOne} /\ page \in Launches \cup {NoOne}
ChannelTypes ==
  /\ sock \in {"none", "opening", "open", "ready"} /\ authed \in BOOLEAN /\ closed \in BOOLEAN
  /\ made \in Nat /\ running \cup pending \cup rejected \subseteq Ids
  /\ queue \in Seq(Ids) /\ started \in Seq(Ids)
  /\ sent \in Seq(Ids \cup {0}) /\ back \in Seq(Ids \cup {0})
AskTypes ==
  /\ asked \in Nat /\ waiting \cup granted \cup said \subseteq Ids
  /\ dialog \in Ids \cup {0} /\ line \in Seq(Ids) /\ answers \in Seq(Ids \X BOOLEAN)
TypeOK == ProcessTypes /\ ChannelTypes /\ AskTypes

\* A sidecar does not outlive its shell, whenever in its own boot the shell
\* goes, unless its event loop is blocked (ParentWatchdog.js, HostChannel.js).
NoOrphan == \A h \in Launches : []<>(host[h] # "gone" \/ ~Alive(h) \/ h \in wedged)

\* A shell that ended by a shutdown left no sidecar behind, wedged or not
\* (SidecarHandle::shutdown).
QuitReaps == \A h \in reaped : ~Alive(h)

\* The lock names the sidecar that serves, for as long as it serves and no
\* other one's clean-up took it (InstanceLock.js).
LockIsKept == \A s \in Launches : side[s] = "ready" /\ s \notin doubted => lock = s

\* A call the page was told had failed is not sent after that
\* (ControlChannelClient.js).
RejectedIsNotSent == rejected \cap (ToSet(queue) \cup ToSet(sent)) = {}

\* The uplink begins the calls in the order in which the page made them.
CallsInOrder == \A i, j \in DOMAIN started : i < j => started[i] < started[j]

\* The vault is unlocked with the device's key only after the user said yes to
\* that very request, however late other answers come (HostChannel.js).
UnlockIsConfirmed == granted \subseteq said

\* The lock and the processes agree (InstanceLock.js, SidecarHandle::shutdown).
LaunchesAreExclusive == QuitReaps /\ LockIsKept

\* A call is made in its turn or, once it was refused, not at all.
CallsAreKept == RejectedIsNotSent /\ CallsInOrder

(* Why the lock is kept: one sidecar at a time holds the node's port, and  *)
(* one that was shut down stays down.                                      *)
OneServer == \A s, o \in Launches : Bound(s) /\ Bound(o) => s = o
DeadStay  == \A h \in reaped : host[h] = "gone" /\ side[h] = "dead"
LaunchInv == ProcessTypes /\ OneServer /\ DeadStay /\ LockIsKept

(* Why a call keeps its turn: what waits or is on its way is pending, made *)
(* after whatever has begun; one hello is answered on each socket, before  *)
(* the first call leaves.                                                  *)
Rises(s)     == \A i, j \in DOMAIN s : i < j => s[i] < s[j]
Before(s, t) == \A i \in DOMAIN s, j \in DOMAIN t : s[i] < t[j]
Within(s, S) == \A i \in DOMAIN s : s[i] \in S
Greeted ==
  /\ page = NoOne => sock = "none"
  /\ sock \in {"none", "opening"} => sent = <<>> /\ back = <<>> /\ ~authed
  /\ sock = "open" /\ ~authed => sent = <<0>> /\ back = <<>>
  /\ sock = "open" /\ authed  => sent = <<>> /\ back = <<0>>
  /\ sock = "ready" => /\ authed /\ queue = <<>>
                       /\ Within(sent, Ids) /\ Within(back, Ids)
Begun == /\ Within(started, 1 .. made) /\ running \subseteq ToSet(started)
         /\ sock = "ready" => Within(back, ToSet(started))
Waits ==
  /\ pending \cup rejected \subseteq 1 .. made /\ pending \cap rejected = {}
  /\ Within(queue, pending) /\ Within(sent, pending \cup {0})
  /\ sock # "ready" => pending \subseteq ToSet(queue)
InTurn ==
  /\ Rises(started) /\ Rises(queue) /\ Rises(sent)
  /\ Before(started, queue) /\ (authed => Before(started, sent))
CallInv == ChannelTypes /\ Greeted /\ Begun /\ Waits /\ InTurn

(* Why an unlock is confirmed: a yes on its way was said to its request.   *)
AskInv == AskTypes /\ UnlockIsConfirmed /\ \A a \in ToSet(answers) : a[2] => a[1] \in said
IInv == LaunchInv /\ CallInv /\ AskInv

=============================================================================
