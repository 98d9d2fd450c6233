-------------------------- MODULE OutboundMessages --------------------------
(***************************************************************************)
(* The sender side of a one-to-one thread: sendMessage, the delivery       *)
(* status of the row, the node's outbound queue and its status frames, the *)
(* two kinds of acknowledgement, the durable pending-commit rows and the   *)
(* sweep that retries them (ServerMessagesService).                        *)
(*                                                                         *)
(* One peer, one inbox, the single-device path (the fan-out gate closed).  *)
(* A send, a sweep and the handlers of acks and frames are separate        *)
(* asynchronous calls: each of their awaits that another call can overtake *)
(* is a step of its own.                                                   *)
(***************************************************************************)
EXTENDS Naturals

CONSTANTS
  Messages,      \* message ids the user sends on the thread
  Signed,        \* those sent with the account-authority signer
  NoMessage,
  Limits         \* allowances: how often each of Bounds happens

Bounds == {"new",      \* the user sends a new message
           "loss",     \* a copy, an ack or a frame is lost
           "throw",    \* a dispatch rejects
           "expiry",   \* the node's queue gives up on a deposit
           "legacy",   \* a signed message gets a legacy delivery ack
           "unknown",  \* a commit ack's revocation state is unavailable
           "fault",    \* the write of the sender's own fact fails
           "resend",   \* the user taps a failed bubble
           "crash"}

ASSUME SignedAssumption == Signed \subseteq Messages
ASSUME NoMessageAssumption == NoMessage \notin Messages
ASSUME LimitsAssumption == Limits \subseteq [Bounds -> Nat]

VARIABLES
  row,         \* durable: status of the thread store's row ("none": no row)
  fact,        \* durable: messages whose signed fact is in the originals log
  commit,      \* durable: messages with a pending-commit row
  call,        \* the sendMessage call of each message, by its next step
  ackPending,  \* memory: #ackPending
  queued,      \* memory: #queuedMessages
  tracked,     \* memory: #queueTracking and #queuedByInbox
  checked,     \* legacy acks past the pending-commit check
  sweep,       \* the running sweep: rows still to retry, row being sent
  ack,         \* the commit ack being handled
  ui,          \* the status the bubble shows ("new": not sent yet)
  wire,        \* copies on their way to the recipient
  nodeQueue,   \* the node's PersistentOutboundQueue
  frames,      \* EVT_OUTBOUND_STATUS frames on their way
  committed,   \* messages the recipient has stored
  acks,        \* commit acks on their way, or staged and not yet applied
  legacyAcks,  \* legacy delivery acks on their way
  left,        \* what remains of the allowance
  crashed      \* history: the process has died

durable == <<row, fact, commit>>
memory == <<ackPending, queued, tracked>>
network == <<wire, nodeQueue, frames, committed, acks, legacyAcks>>
vars == <<durable, call, memory, checked, sweep, ack, ui, network, left, crashed>>

Statuses == {"none", "pending", "queued", "sent", "failed", "delivered"}
Steps == {"idle", "deliver", "sent", "queued", "settleSent", "settleQueued", "open"}

Spend(b) == left[b] > 0 /\ left' = [left EXCEPT ![b] = @ - 1]

Spend2(b, c) ==
  /\ left[b] > 0 /\ left[c] > 0
  /\ left' = [left EXCEPT ![b] = @ - 1, ![c] = @ - 1]

NoSweep == [todo |-> {}, at |-> NoMessage]
NoAck == [of |-> NoMessage, at |-> "idle"]

Init ==
  /\ row = [m \in Messages |-> "none"]
  /\ fact = {} /\ commit = {}
  /\ call = [m \in Messages |-> "idle"]
  /\ ackPending = {} /\ queued = {} /\ tracked = {} /\ checked = {}
  /\ sweep = NoSweep /\ ack = NoAck
  /\ ui = [m \in Messages |-> "new"]
  /\ wire = {} /\ nodeQueue = {} /\ frames = {}
  /\ committed = {} /\ acks = {} /\ legacyAcks = {}
  /\ left \in Limits /\ crashed = FALSE

-----------------------------------------------------------------------------
(* The thread store's status column.                                       *)

CanTransitionStatus(from, to) ==
  \/ from = to
  \/ from = "pending" /\ to \in {"queued", "sent", "failed", "delivered"}
  \/ from = "queued" /\ to \in {"sent", "failed", "delivered"}
  \/ from = "sent" /\ to \in {"delivered", "failed"}

(* Wrong variant: the store without its transition check.                  *)
SetMessageStatusUnchecked(r, m, to) ==
  IF r[m] # "none" THEN [r EXCEPT ![m] = to] ELSE r

(* A missing row is left missing; an invalid transition throws and every   *)
(* caller swallows it.                                                     *)
SetMessageStatus(r, m, to) ==
  IF r[m] # "none" /\ CanTransitionStatus(r[m], to) THEN [r EXCEPT ![m] = to] ELSE r

(* The bubble: events about a removed message are dropped.                 *)
Show(m, s) == ui' = [ui EXCEPT ![m] = IF @ = "none" THEN @ ELSE s]

(* The maps a terminal ack, or a fresh send, clears.                       *)
Forget(m) ==
  /\ ackPending' = ackPending \ {m}
  /\ queued' = queued \ {m}
  /\ tracked' = tracked \ {m}

-----------------------------------------------------------------------------
(* sendMessage.                                                            *)

(* The row a send starts with, whatever was there.                         *)
RecordPending(m) == row' = [row EXCEPT ![m] = "pending"]

(* The signed original enters the log of facts.                            *)
RecordFact(m) == fact' = fact \cup ({m} \cap Signed)

(* A new message, or a tap on a failed bubble. The row is overwritten as   *)
(* pending; a failed write of the fact does not stop the send.             *)
Send(m) ==
  /\ call[m] = "idle"
  /\ \/ ui[m] = "new" /\ Spend("new") /\ RecordFact(m)
     \/ ui[m] = "new" /\ m \in Signed /\ Spend2("new", "fault") /\ UNCHANGED fact
     \/ ui[m] = "failed" /\ Spend("resend") /\ RecordFact(m)
  /\ Forget(m)
  /\ RecordPending(m)
  /\ ui' = [ui EXCEPT ![m] = "pending"]
  /\ call' = [call EXCEPT ![m] = "deliver"]
  /\ UNCHANGED <<commit, checked, sweep, ack, network, crashed>>

(* #deliverToThread: the mesh takes the copy, the node queues it, or the   *)
(* dispatch rejects (before or after the mesh took the copy).              *)
Dispatched(m) == wire' = wire \cup {m} /\ UNCHANGED nodeQueue
NodeQueued(m) == nodeQueue' = nodeQueue \cup {m} /\ UNCHANGED wire
DispatchThrows(m) ==
  /\ Spend("throw")
  /\ wire' \in {wire, wire \cup {m}} /\ UNCHANGED nodeQueue

(* A rejected dispatch rejects the whole call: no status is written and    *)
(* only the bubble learns of it.                                           *)
Deliver(m) ==
  /\ call[m] = "deliver"
  /\ \/ /\ Dispatched(m) /\ call' = [call EXCEPT ![m] = "sent"]
        /\ UNCHANGED <<ui, left>>
     \/ /\ NodeQueued(m) /\ call' = [call EXCEPT ![m] = "queued"]
        /\ UNCHANGED <<ui, left>>
     \/ /\ DispatchThrows(m) /\ call' = [call EXCEPT ![m] = "idle"]
        /\ Show(m, "failed")
  /\ UNCHANGED <<durable, memory, checked, sweep, ack, frames, committed,
                 acks, legacyAcks, crashed>>

(* The outcome enters the in-memory maps before the status is written.     *)
Track(m) ==
  /\ \/ /\ call[m] = "sent"
        /\ call' = [call EXCEPT ![m] = "settleSent"]
        /\ ackPending' = ackPending \cup {m}
        /\ UNCHANGED <<queued, tracked>>
     \/ /\ call[m] = "queued"
        /\ call' = [call EXCEPT ![m] = "settleQueued"]
        /\ queued' = queued \cup {m} /\ tracked' = tracked \cup {m}
        /\ UNCHANGED ackPending
  /\ UNCHANGED <<durable, checked, sweep, ack, ui, network, left, crashed>>

Settle(m) ==
  /\ call[m] \in {"settleSent", "settleQueued"}
  /\ LET s == IF call[m] = "settleSent" THEN "sent" ELSE "queued" IN
       /\ row' = SetMessageStatus(row, m, s)
       /\ Show(m, s)
  /\ call' = [call EXCEPT ![m] = "open"]
  /\ UNCHANGED <<fact, commit, memory, checked, sweep, ack, network, left, crashed>>

PutPendingCommit(m) == commit' = commit \cup {m}

(* Wrong variant: the reply comes and no pending-commit row was opened.    *)
OpenNothing(m) ==
  /\ call[m] = "open"
  /\ Show(m, "sent")
  /\ call' = [call EXCEPT ![m] = "idle"]
  /\ UNCHANGED <<durable, memory, checked, sweep, ack, network, left, crashed>>

(* #openPendingCommit, then the reply, on which the UI shows "sent".       *)
OpenPendingCommit(m) ==
  /\ call[m] = "open"
  /\ IF m \in Signed THEN PutPendingCommit(m) ELSE UNCHANGED commit
  /\ Show(m, "sent")
  /\ call' = [call EXCEPT ![m] = "idle"]
  /\ UNCHANGED <<row, fact, memory, checked, sweep, ack, network, left, crashed>>

(* deleteLocalMessage: the row goes, nothing else does.                    *)
DeleteLocal(m) ==
  /\ row[m] # "none"
  /\ row' = [row EXCEPT ![m] = "none"]
  /\ ui' = [ui EXCEPT ![m] = "none"]
  /\ UNCHANGED <<fact, commit, call, memory, checked, sweep, ack, network, left, crashed>>

-----------------------------------------------------------------------------
(* The pending-commit sweep: boot, reconnect and an advisory timer start   *)
(* it; it works from the rows it listed.                                   *)

SweepStart(due) ==
  /\ sweep.todo = {} /\ due # {} /\ due \subseteq commit
  /\ sweep' = [todo |-> due, at |-> NoMessage]
  /\ UNCHANGED <<durable, call, memory, checked, ack, ui, network, left, crashed>>

SweepNext(m) == [todo |-> sweep.todo \ {m}, at |-> NoMessage]

(* #retryPendingCommit: the next schedule step is written, from the listed *)
(* row, before anything is sent; a row without its fact is dropped.        *)
RetryRow(m) ==
  /\ sweep.at = NoMessage /\ m \in sweep.todo
  /\ IF m \in fact
       THEN /\ PutPendingCommit(m)
            /\ sweep' = [sweep EXCEPT !.at = m]
       ELSE /\ commit' = commit \ {m}
            /\ sweep' = SweepNext(m)
  /\ UNCHANGED <<row, fact, call, memory, checked, ack, ui, network, left, crashed>>

(* The outcome of the re-send is not looked at: status and maps stay.      *)
RetryDeliver(m) ==
  /\ sweep.at = m
  /\ \/ (Dispatched(m) \/ NodeQueued(m)) /\ UNCHANGED left
     \/ DispatchThrows(m)
  /\ sweep' = SweepNext(m)
  /\ UNCHANGED <<durable, call, memory, checked, ack, ui, frames, committed,
                 acks, legacyAcks, crashed>>

-----------------------------------------------------------------------------
(* The network, the node's queue and the recipient.                        *)

Lose ==
  /\ Spend("loss")
  /\ \/ \E m \in wire : wire' = wire \ {m} /\ UNCHANGED <<acks, legacyAcks, frames>>
     \/ \E m \in acks \ {ack.of} : acks' = acks \ {m} /\ UNCHANGED <<wire, legacyAcks, frames>>
     \/ \E m \in legacyAcks : legacyAcks' = legacyAcks \ {m} /\ UNCHANGED <<wire, acks, frames>>
     \/ \E f \in frames : frames' = frames \ {f} /\ UNCHANGED <<wire, acks, legacyAcks>>
  /\ UNCHANGED <<durable, call, memory, checked, sweep, ack, ui, nodeQueue,
                 committed, crashed>>

NodeSettles(m) ==
  /\ m \in nodeQueue
  /\ nodeQueue' = nodeQueue \ {m}
  /\ \/ wire' = wire \cup {m} /\ frames' = frames \cup {"delivered"} /\ UNCHANGED left
     \/ Spend("expiry") /\ frames' = frames \cup {"expired"} /\ UNCHANGED wire
  /\ UNCHANGED <<durable, call, memory, checked, sweep, ack, ui, committed,
                 acks, legacyAcks, crashed>>

CommitAcked(m) == m \in Signed /\ acks' = acks \cup {m}

(* The answer: a commit ack for a signed message, a legacy ack for an      *)
(* unsigned one or when the recipient's own signer is absent or broken.    *)
Acknowledge(m) ==
  \/ CommitAcked(m) /\ UNCHANGED <<legacyAcks, left>>
  \/ m \in Signed /\ Spend("legacy") /\ legacyAcks' = legacyAcks \cup {m} /\ UNCHANGED acks
  \/ m \notin Signed /\ legacyAcks' = legacyAcks \cup {m} /\ UNCHANGED <<acks, left>>

(* The recipient stores the message, or finds it already held, and answers *)
(* either way.                                                             *)
Receive(m) ==
  /\ m \in wire
  /\ wire' = wire \ {m}
  /\ committed' = committed \cup {m}
  /\ Acknowledge(m)
  /\ UNCHANGED <<durable, call, memory, checked, sweep, ack, ui, nodeQueue, frames, crashed>>

-----------------------------------------------------------------------------
(* #applyOutboundStatusToMessage, for every message tracked for the inbox. *)
SettleTracked(f, s) ==
  /\ f \in frames
  /\ frames' = frames \ {f}
  /\ row' = [m \in Messages |->
                IF m \in tracked THEN SetMessageStatus(row, m, s)[m] ELSE row[m]]
  /\ ui' = [m \in Messages |-> IF m \in tracked /\ ui[m] # "none" THEN s ELSE ui[m]]
  /\ ackPending' = IF f = "delivered" THEN ackPending \cup tracked ELSE ackPending
  /\ queued' = queued \ tracked
  /\ tracked' = {}
  /\ UNCHANGED <<fact, commit, call, checked, sweep, ack, wire, nodeQueue,
                 committed, acks, legacyAcks, left, crashed>>

(* Wrong variant: the node's word taken for the message's status.          *)
OutboundStatusVerbatim(f) == SettleTracked(f, f)

(* #handleOutboundStatus: a frame names only the inbox. The node's         *)
(* "delivered" means handed on, so the message is "sent".                  *)
HandleOutboundStatus(f) == SettleTracked(f, IF f = "delivered" THEN "sent" ELSE "failed")

(* handleDeliveryAck. The ack carries no thread, so the maps must know the *)
(* message; then an open pending-commit row makes it transport evidence    *)
(* only; then the status is written.                                       *)
DeliveryAckCheck(m) ==
  /\ m \in legacyAcks
  /\ legacyAcks' = legacyAcks \ {m}
  /\ checked' = IF m \in queued \cup ackPending /\ m \notin commit
                  THEN checked \cup {m} ELSE checked
  /\ UNCHANGED <<durable, call, memory, sweep, ack, ui, wire, nodeQueue, frames,
                 committed, acks, left, crashed>>

DeliveryAckSettle(m) ==
  /\ m \in checked
  /\ checked' = checked \ {m}
  /\ row' = SetMessageStatus(row, m, "delivered")
  /\ Forget(m)
  /\ Show(m, "delivered")
  /\ UNCHANGED <<fact, commit, call, sweep, ack, network, left, crashed>>

(* #peerRevocationStateFor could not establish whether the acking device   *)
(* is revoked.                                                             *)
Unestablished == Spend("unknown")

(* handleCommitAck. The ack is a staged deposit: it is applied again after *)
(* a crash. The claim must match the pending row or, without one, a fact   *)
(* of ours; an unavailable revocation source leaves it unconsumed.         *)
CommitAckBegin(m) ==
  /\ ack = NoAck /\ m \in acks
  /\ \/ /\ m \in commit \cup fact
        /\ ack' = [of |-> m, at |-> IF m \in commit THEN "pending" ELSE "factOnly"]
        /\ UNCHANGED <<acks, left>>
     \/ m \notin commit \cup fact /\ acks' = acks \ {m} /\ UNCHANGED <<ack, left>>
     \/ m \in commit \cup fact /\ Unestablished /\ acks' = acks \ {m} /\ UNCHANGED ack
  /\ UNCHANGED <<durable, call, memory, checked, sweep, ui, wire, nodeQueue, frames,
                 committed, legacyAcks, crashed>>

CommitAckConsume ==
  /\ ack.at \in {"pending", "factOnly"}
  /\ ack' = [ack EXCEPT !.at = "consumed"]
  /\ commit' = IF ack.at = "pending" THEN commit \ {ack.of} ELSE commit
  /\ UNCHANGED <<row, fact, call, memory, checked, sweep, ui, network, left, crashed>>

CommitAckSettle ==
  /\ ack.at = "consumed"
  /\ row' = SetMessageStatus(row, ack.of, "delivered")
  /\ Forget(ack.of)
  /\ Show(ack.of, "delivered")
  /\ acks' = acks \ {ack.of}
  /\ ack' = NoAck
  /\ UNCHANGED <<fact, commit, call, checked, sweep, wire, nodeQueue, frames,
                 committed, legacyAcks, left, crashed>>

-----------------------------------------------------------------------------
(* The process dies and starts again: memory and the calls in progress are *)
(* gone, the bubbles are read back from the rows, and #recoverQueuedMessages *)
(* fails the rows older than the queue's lifetime and tracks the others.   *)
Restart ==
  /\ Spend("crash")
  /\ \E old \in SUBSET {m \in Messages : row[m] = "queued"} :
       /\ old # {} => left["expiry"] > 0
       /\ row' = [m \in Messages |-> IF m \in old THEN "failed" ELSE row[m]]
       /\ queued' = {m \in Messages : row[m] = "queued"} \ old
       /\ tracked' = {m \in Messages : row[m] = "queued"} \ old
  /\ crashed' = TRUE
  /\ ackPending' = {} /\ checked' = {} /\ frames' = {}
  /\ call' = [m \in Messages |-> "idle"]
  /\ sweep' = NoSweep /\ ack' = NoAck
  /\ ui' = [m \in Messages |-> IF ui[m] = "new" THEN "new" ELSE row'[m]]
  /\ UNCHANGED <<fact, commit, wire, nodeQueue, committed, acks, legacyAcks>>

Next ==
  \/ \E m \in Messages :
       \/ Send(m) \/ Deliver(m) \/ Track(m) \/ Settle(m) \/ OpenPendingCommit(m)
       \/ DeleteLocal(m) \/ RetryRow(m) \/ RetryDeliver(m)
       \/ NodeSettles(m) \/ Receive(m)
       \/ DeliveryAckCheck(m) \/ DeliveryAckSettle(m) \/ CommitAckBegin(m)
  \/ \E due \in SUBSET Messages : SweepStart(due)
  \/ \E f \in {"delivered", "expired"} : HandleOutboundStatus(f)
  \/ CommitAckConsume \/ CommitAckSettle \/ Lose \/ Restart

Spec == Init /\ [][Next]_vars

-----------------------------------------------------------------------------
TypeOK ==
  /\ row \in [Messages -> Statuses]
  /\ fact \subseteq Messages /\ commit \subseteq Messages
  /\ call \in [Messages -> Steps]
  /\ ackPending \subseteq Messages /\ queued \subseteq Messages
  /\ tracked \subseteq Messages /\ checked \subseteq Messages
  /\ sweep \in [todo : SUBSET Messages, at : Messages \cup {NoMessage}]
  /\ ack \in {NoAck} \cup [of : Messages, at : {"pending", "factOnly", "consumed"}]
  /\ ui \in [Messages -> Statuses \cup {"new"}]
  /\ wire \subseteq Messages /\ nodeQueue \subseteq Messages
  /\ frames \subseteq {"delivered", "expired"}
  /\ committed \subseteq Messages /\ acks \subseteq Messages
  /\ legacyAcks \subseteq Messages
  /\ left \in [Bounds -> Nat] /\ crashed \in BOOLEAN

(* A row says "delivered" only when the recipient has stored the message,  *)
(* whatever frames, acks, resends and crashes came before (the status      *)
(* writes of handleCommitAck, handleDeliveryAck and #handleOutboundStatus). *)
DeliveredIsReal == \A m \in Messages : row[m] = "delivered" => m \in committed

(* Every acknowledgement on its way, checked or being handled is for a     *)
(* message the recipient has stored: why DeliveredIsReal is inductive.     *)
EvidenceIsReal ==
  /\ acks \subseteq committed /\ legacyAcks \subseteq committed
  /\ checked \subseteq committed
  /\ ack # NoAck => ack.of \in committed

(* A bubble not sent yet has no row: why only a failed bubble re-enters    *)
(* sendMessage with an existing row.                                       *)
NewHasNoRow == \A m \in Messages : ui[m] = "new" => row[m] = "none"

IInv == TypeOK /\ DeliveredIsReal /\ EvidenceIsReal /\ NewHasNoRow

StaysDelivered(m) ==
  row[m] = "delivered" /\ row'[m] # "delivered" =>
    row'[m] = "none" \/ (row'[m] = "pending" /\ ui[m] = "failed")

(* A delivered row never goes back: a status written late by the send that *)
(* the ack overtook, or by a frame for the inbox, is refused by the store. *)
(* Only the user deletes it, or resends it from a bubble that says failed. *)
DeliveredIsFinal == [][\A m \in Messages : StaysDelivered(m)]_vars

Unproven(m) == m \in Signed /\ row[m] \in {"sent", "queued"} /\ call[m] = "idle"

(* A signed message that left, whose proof has not come, is on the durable *)
(* retry list (or its proof is being written), unless the write of its own *)
(* fact failed or the process died (#openPendingCommit,                    *)
(* #retryPendingCommit).                                                   *)
SentIsOnRetryList ==
  ~crashed =>
    \A m \in Messages : Unproven(m) /\ m \in fact =>
      m \in commit \/ (ack.of = m /\ ack.at = "consumed")

(* Why: the node's frames reach a row only while or after its own send     *)
(* settles it, and that send opens its pending-commit row next.            *)
InFlight(m) == call[m] \in {"deliver", "sent", "queued"} => m \notin tracked /\ row[m] \notin {"sent", "queued"}
Settling(m) == m \in tracked /\ row[m] = "pending" => call[m] = "settleQueued"

(* No signed message with its fact stays sent or queued for ever: through  *)
(* lost copies, lost acks, rejected retries and unverifiable acks it gets  *)
(* its proof, or the queue fails it (#openPendingCommit,                   *)
(* sweepPendingCommits). A crash may strand a send before its row.         *)
SentIsProven == []<>(crashed \/ \A m \in fact : ~Unproven(m))
=============================================================================
