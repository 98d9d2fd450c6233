---------------------------- MODULE DurableInbox ----------------------------
(***************************************************************************)
(* Delivery from a durable home node: the node keeps the mailbox log and    *)
(* this device's cursor, the live push (MailboxPushBridge) and the catch-up *)
(* drain (InboxCatchupService) both feed the inbound pipeline, and only the *)
(* drain moves the cursor, past deposits that are safe to prune.            *)
(***************************************************************************)
EXTENDS InboundPipeline

CONSTANTS
    PageLimit,           \* items per mailbox.list page (50 in the code)
    MaxDecryptAttempts,  \* failed attempts before quarantine (8)
    BackoffAfter,        \* failed attempts before the retry backoff (3)
    MaxCrashes           \* bound on the faults that are crashes

ASSUME DurableAssumption ==
    /\ PageLimit \in Nat \ {0}
    /\ MaxDecryptAttempts \in Nat \ {0}
    /\ BackoffAfter \in Nat
    /\ MaxCrashes \in Nat

VARIABLES
    arrived,   \* the home log holds deposits 1 .. arrived
    cursor,    \* server-held device cursor: deposits 1 .. cursor may be pruned
    pushable,  \* arrived deposits whose live push has not been delivered
    attempts,  \* attempts[d]: persisted failed-decrypt counter
    notices,   \* deposits surfaced to the user as "couldn't be delivered"
    phase,     \* where the catch-up drain is
    item,      \* its next item of the page
    last,      \* the last item of the page
    through,   \* the watermark: highest gap-free consumed seq of the page (0: none)
    passed,    \* seqs whose dedup marker may go once the cursor has passed them
    gaps,      \* items of the page left for a later drain
    again,     \* a drain was requested while one was running
    backoff,   \* deposits held under the in-memory retry backoff
    crashes    \* crashes so far

drainVars == <<phase, item, last, through, passed, gaps>>
inboxVars == <<arrived, cursor, pushable, attempts, notices, drainVars, again, backoff, crashes>>
vars == <<pipelineVars, inboxVars>>

\* The drain moves to phase p with a fresh page.
Goto(p, first, end) ==
    /\ phase' = p /\ item' = first /\ last' = end
    /\ through' = 0 /\ passed' = {} /\ gaps' = {}

MinOf(a, b) == IF a <= b THEN a ELSE b

-----------------------------------------------------------------------------
(* The home node and the live push.                                         *)

\* A peer's deposit lands in the home log under the next seq.
Deposit ==
    /\ arrived < NumDeposits
    /\ arrived' = arrived + 1
    /\ pushable' = pushable \cup {arrived + 1}
    /\ UNCHANGED <<pipelineVars, cursor, attempts, notices, drainVars, again, backoff, crashes>>

\* The node pushes it, at any later time and in any order, or never.
Push(d) ==
    /\ d \in pushable
    /\ pushable' = pushable \ {d}
    /\ queue' = Append(queue, Job("push", d))
    /\ UNCHANGED <<durableVars, workVars, bufferVars, held, retryVars, replies, historyVars,
                   arrived, cursor, attempts, notices, drainVars, again, backoff, crashes>>

\* requestDrain: start a drain with the outbox retry, or mark one more pass.
RequestDrain ==
    IF phase # "off"
    THEN again' = TRUE /\ UNCHANGED <<queue, drainVars>>
    ELSE /\ Goto("outbox", 1, 0)
         /\ queue' = Append(queue, Job("outbox", 0))
         /\ again' = FALSE

\* The push bridge sees its submit resolve: an ack-safe deposit nudges the drain.
PushSettled(r) ==
    /\ r \in replies /\ r.src = "push"
    /\ replies' = replies \ {r}
    /\ IF r.status = "ok" THEN RequestDrain ELSE UNCHANGED <<queue, drainVars, again>>
    /\ UNCHANGED <<durableVars, workVars, bufferVars, held, retryVars, historyVars,
                   arrived, cursor, pushable, attempts, notices, backoff, crashes>>

-----------------------------------------------------------------------------
(* The catch-up drain.                                                      *)

\* Start, reconnect, the periodic timer or an inbox.drain directive.
Trigger ==
    /\ phase = "off" \/ ~again
    /\ RequestDrain
    /\ UNCHANGED <<durableVars, workVars, bufferVars, held, retryVars, replies, historyVars,
                   arrived, cursor, pushable, attempts, notices, backoff, crashes>>

\* A pass ends: run once more if asked meanwhile, else stop draining.
EndPass ==
    IF again
    THEN /\ Goto("outbox", 1, 0)
         /\ queue' = Append(queue, Job("outbox", 0))
         /\ again' = FALSE
    ELSE Goto("off", 1, 0) /\ UNCHANGED <<queue, again>>

\* The outbox retry is back: surface what it gave up, then list.
DrainSurface(r) ==
    /\ phase = "outbox"
    /\ r \in replies /\ r.src = "outbox"
    /\ replies' = replies \ {r}
    /\ notices' = notices \cup r.gone
    /\ Goto("list", 1, 0)
    /\ UNCHANGED <<durableVars, queue, workVars, bufferVars, held, retryVars, historyVars,
                   arrived, cursor, pushable, attempts, again, backoff, crashes>>

\* mailbox.list from the server cursor; an empty page ends the pass.
DrainList ==
    /\ phase = "list"
    /\ IF cursor = arrived
         THEN EndPass
         ELSE /\ Goto("item", cursor + 1, MinOf(arrived, cursor + PageLimit))
              /\ UNCHANGED <<queue, again>>
    /\ UNCHANGED <<durableVars, workVars, bufferVars, held, retryVars, replies, historyVars,
                   arrived, cursor, pushable, attempts, notices, backoff, crashes>>

\* mailbox.list rejects: requestDrain throws and the drain is over.
DrainListFails ==
    /\ phase = "list"
    /\ Fault
    /\ Goto("off", 1, 0)
    /\ UNCHANGED <<durableVars, memoryVars, gaveUp, mislaid,
                   arrived, cursor, pushable, attempts, notices, again, backoff, crashes>>

\* An item is left as a gap: the watermark stops before it, the pass goes on.
Gap ==
    /\ phase' = "item" /\ item' = item + 1
    /\ gaps' = gaps \cup {item}
    /\ UNCHANGED <<last, through, passed>>

\* The next item: under backoff it is a gap, else it is submitted.
DrainItem ==
    /\ phase = "item" /\ item <= last
    /\ IF item \in backoff
         THEN Gap /\ UNCHANGED queue
         ELSE /\ phase' = "await"
              /\ queue' = Append(queue, Job("drain", item))
              /\ UNCHANGED <<item, last, through, passed, gaps>>
    /\ UNCHANGED <<durableVars, workVars, bufferVars, held, retryVars, replies, historyVars,
                   arrived, cursor, pushable, attempts, notices, again, backoff, crashes>>

\* Wrong variant: the watermark jumps over gaps.
DrainConsumedOverGaps(r) ==
    /\ phase = "await"
    /\ r \in replies /\ r.src = "drain" /\ r.d = item /\ r.status = "ok"
    /\ replies' = replies \ {r}
    /\ phase' = "item" /\ item' = item + 1
    /\ through' = item /\ passed' = passed \cup {item}
    /\ UNCHANGED <<durableVars, queue, workVars, bufferVars, held, retryVars, historyVars, last, gaps,
                   arrived, cursor, pushable, attempts, notices, again, backoff, crashes>>

\* The item is ack-safe: a gap-free run moves the watermark.
DrainConsumed(r) ==
    /\ phase = "await"
    /\ r \in replies /\ r.src = "drain" /\ r.d = item /\ r.status = "ok"
    /\ replies' = replies \ {r}
    /\ phase' = "item" /\ item' = item + 1
    /\ IF gaps = {}
         THEN through' = item /\ passed' = passed \cup {item}
         ELSE UNCHANGED <<through, passed>>
    /\ UNCHANGED <<durableVars, queue, workVars, bufferVars, held, retryVars, historyVars, last, gaps,
                   arrived, cursor, pushable, attempts, notices, again, backoff, crashes>>

\* #handleDurableFailure: the failed attempt is counted (unless that write fails)
\* and the item is left, under backoff if it keeps failing.
DrainFailed(r) ==
    /\ phase = "await"
    /\ r \in replies /\ r.src = "drain" /\ r.d = item /\ r.status = "left"
    /\ replies' = replies \ {r}
    /\ Gap
    /\ \/ Fault /\ UNCHANGED <<attempts, backoff>>
       \/ /\ NoFault
          /\ attempts[item] + 1 < MaxDecryptAttempts
          /\ attempts' = [attempts EXCEPT ![item] = @ + 1]
          /\ backoff' = IF attempts[item] + 1 >= BackoffAfter THEN backoff \cup {item} ELSE backoff
    /\ UNCHANGED <<durableVars, queue, workVars, bufferVars, held, retryVars, gaveUp, mislaid,
                   arrived, cursor, pushable, notices, again, crashes>>

\* #handleDurableFailure at a bound, attempts or age (which needs
\* MinAttemptsForAge attempts): the deposit is surfaced before it is dropped.
DrainQuarantine(r) ==
    /\ phase = "await"
    /\ r \in replies /\ r.src = "drain" /\ r.d = item /\ r.status = "left"
    /\ replies' = replies \ {r}
    /\ \/ attempts[item] + 1 >= MaxDecryptAttempts
       \/ attempts[item] + 1 >= MinAttemptsForAge
    /\ attempts' = [attempts EXCEPT ![item] = @ + 1]
    /\ notices' = notices \cup {item}
    /\ phase' = "skip"
    /\ UNCHANGED <<durableVars, queue, workVars, bufferVars, held, retryVars, historyVars,
                   arrived, cursor, pushable, again, backoff, crashes,
                   item, last, through, passed, gaps>>

\* Wrong variant: the watermark stops at a quarantined deposit.
DrainSkipStops ==
    /\ phase = "skip"
    /\ attempts' = [attempts EXCEPT ![item] = 0]
    /\ processed' = processed \ {item}
    /\ backoff' = backoff \ {item}
    /\ phase' = "item" /\ item' = item + 1
    /\ gaps' = gaps \cup {item}
    /\ UNCHANGED <<sessions, spent, outbox, failures, store, members, memoryVars, historyVars,
                   arrived, cursor, pushable, notices, again, crashes, last, through, passed>>

\* The quarantined deposit's counter, marker and backoff are cleared (a failure
\* of either write is swallowed), and a gap-free watermark passes it.
DrainSkip ==
    /\ phase = "skip"
    /\ \/ /\ NoFault
          /\ attempts' = [attempts EXCEPT ![item] = 0]
          /\ processed' = processed \ {item}
       \/ /\ Fault
          /\ attempts' \in {attempts, [attempts EXCEPT ![item] = 0]}
          /\ processed' \in {processed, processed \ {item}}
    /\ backoff' = backoff \ {item}
    /\ phase' = "item" /\ item' = item + 1
    /\ through' = IF gaps = {} THEN item ELSE through
    /\ UNCHANGED <<sessions, spent, outbox, failures, store, members, memoryVars, gaveUp, mislaid,
                   arrived, cursor, pushable, notices, again, crashes, last, passed, gaps>>

\* After the last item: nothing to ack, or cursorAck through the watermark (the
\* server keeps its cursor monotonic).
DrainAck ==
    /\ phase = "item" /\ item > last
    /\ phase' = "forget"
    /\ cursor' = IF through > cursor THEN through ELSE cursor
    /\ UNCHANGED <<pipelineVars, arrived, pushable, attempts, notices, again, backoff, crashes,
                   item, last, through, passed, gaps>>

\* The dedup markers behind the cursor are forgotten, each failure swallowed;
\* then the pass ends at a gap, or lists the next window.
DrainForget ==
    /\ phase = "forget"
    /\ \/ NoFault /\ processed' = processed \ passed
       \/ Fault /\ \E kept \in passed : processed' = processed \ (passed \ {kept})
    /\ backoff' = backoff \ passed
    /\ IF gaps # {}
         THEN EndPass
         ELSE Goto("list", 1, 0) /\ UNCHANGED <<queue, again>>
    /\ UNCHANGED <<sessions, spent, outbox, failures, store, members, workVars, bufferVars,
                   held, retryVars, replies, gaveUp, mislaid, arrived, cursor, pushable, attempts,
                   notices, crashes>>

\* cursorAck rejects: the markers stay and the pass ends.
DrainAckFails ==
    /\ phase = "item" /\ item > last /\ through > 0
    /\ Fault
    /\ EndPass
    /\ UNCHANGED <<durableVars, workVars, bufferVars, held, retryVars, replies, gaveUp, mislaid,
                   arrived, cursor, pushable, attempts, notices, backoff, crashes>>

\* The retry backoff of a deposit runs out.
BackoffExpires(d) ==
    /\ d \in backoff
    /\ backoff' = backoff \ {d}
    /\ UNCHANGED <<pipelineVars, arrived, cursor, pushable, attempts, notices, drainVars, again, crashes>>

\* The chat server dies and starts again.
Crash ==
    /\ crashes < MaxCrashes
    /\ crashes' = crashes + 1
    /\ LoseMemory
    /\ Goto("off", 1, 0) /\ again' = FALSE /\ backoff' = {}
    /\ UNCHANGED <<arrived, cursor, pushable, attempts, notices>>

-----------------------------------------------------------------------------
Init ==
    /\ PipelineInit
    /\ arrived = 0 /\ cursor = 0 /\ pushable = {}
    /\ attempts = [d \in Deposits |-> 0]
    /\ notices = {} /\ again = FALSE /\ backoff = {} /\ crashes = 0
    /\ phase = "off" /\ item = 1 /\ last = 0 /\ through = 0 /\ passed = {} /\ gaps = {}

PipelineAction == (PipelineStep \/ Sweep) /\ UNCHANGED inboxVars

DrainAction ==
    \/ DrainList \/ DrainListFails \/ DrainItem \/ DrainSkip \/ DrainAck \/ DrainAckFails \/ DrainForget
    \/ \E r \in replies : DrainSurface(r) \/ DrainConsumed(r) \/ DrainFailed(r) \/ DrainQuarantine(r)

Next ==
    \/ Deposit
    \/ \E d \in Deposits : Push(d) \/ BackoffExpires(d)
    \/ \E r \in replies : PushSettled(r)
    \/ Trigger \/ PipelineAction \/ DrainAction \/ Crash

Spec == Init /\ [][Next]_vars

TypeOK ==
    /\ PipelineTypeOK
    /\ arrived \in 0 .. NumDeposits /\ cursor \in 0 .. NumDeposits
    /\ pushable \subseteq Deposits /\ notices \subseteq Deposits /\ backoff \subseteq Deposits
    /\ attempts \in [Deposits -> Nat]
    /\ phase \in {"off", "outbox", "list", "item", "await", "skip", "forget"}
    /\ item \in 1 .. NumDeposits + 1 /\ last \in 0 .. NumDeposits /\ through \in 0 .. NumDeposits
    /\ phase \in {"await", "skip"} => item <= last
    /\ passed \subseteq Deposits /\ gaps \subseteq Deposits
    /\ again \in BOOLEAN
    /\ crashes \in 0 .. MaxCrashes

-----------------------------------------------------------------------------
(* Properties.                                                              *)

\* What must be true of a deposit before its ciphertext may be pruned: a
\* session exists, the receipt was applied, or the content is stored, staged,
\* surfaced to the user, given up by the outbox, or applied without a store
\* write (deferred in memory, or a swallowed dispatch error).
Accounted(d) ==
    \/ d \in notices
    \/ Kind[d] = "control"
    \/ Kind[d] = "handshake" /\ Peer[d] \in sessions
    \/ Kind[d] = "receipt" /\ d \in spent
    \/ Kind[d] \in Content /\ d \in store \cup outbox \cup gaveUp \cup mislaid

\* The cursor never passes a deposit that is not accounted for, whatever the
\* interleaving of push, drain, re-feed, faults and crashes: #drainDurable moves
\* the watermark only through gap-free, durable (staged-or-applied) deposits.
NoSilentPrune == \A d \in 1 .. cursor : Accounted(d)

\* A dedup marker stands only on a deposit that is accounted for: #processOne
\* marks after the deposit is recoverable, so a dedup hit is always ack-safe.
MarkerIsDurable == \A d \in processed : Accounted(d)

\* Whatever the node or this device will never look at again is accounted for:
\* what the cursor has passed, and what a marker stands on.
CoveredIsAccounted == NoSilentPrune /\ MarkerIsDurable

\* The flags of the deposit in hand say what happened to it, and a status that
\* will be reported ack-safe is backed by durable state.
WorkBacked ==
    /\ step \in {"stage", "apply", "reconcile"} => "user" \in flags
    /\ "user" \in flags => Kind[cur] \in Content
    /\ "decryptOk" \in flags => "consumed" \in flags
    /\ step \in {"apply", "reconcile"} /\ "staged" \in flags => cur \in outbox
    /\ step = "reconcile" => "staged" \in flags
    /\ step = "stage" => "staged" \notin flags
    /\ step \in {"stage", "apply"} => "applied" \notin flags
    /\ step \in {"reconcile", "mark"} /\ "applied" \in flags => cur \in store \cup mislaid
    /\ step = "mark" /\ AckSafe => Accounted(cur)
    /\ step = "unstage" => cur \in store \cup mislaid \cup gaveUp

\* The deposit in hand is the head job's unless the buffer is being re-fed, and
\* the result a re-feed holds up, or a caller has yet to see, is backed by
\* durable state.
RepliesBacked ==
    /\ step = "idle" => refeed = {}
    /\ step \in {"lookup", "stage", "apply", "reconcile", "mark"} /\ "on" \notin refeed
         => Head(queue).src \in {"push", "drain"} /\ Head(queue).d = cur
    /\ step = "refeed" => "on" \in refeed /\ Head(queue).src # "outbox"
    /\ step \in {"retry", "unstage"} => refeed = {} /\ Head(queue).src = "outbox"
    /\ "on" \in refeed => Head(queue).src # "outbox"
    /\ "ok" \in refeed => Accounted(Head(queue).d)
    /\ \A r \in replies : r.src \in {"push", "drain"} /\ r.status = "ok" => Accounted(r.d)

\* The drain's watermark, and everything before its next item while no gap has
\* been met, is accounted for.
DrainBacked ==
    /\ \A d \in 1 .. through : Accounted(d)
    /\ phase \in {"item", "await", "skip"} /\ gaps = {} => \A d \in 1 .. item - 1 : Accounted(d)
    /\ phase = "skip" => item \in notices

\* The inductive invariant behind NoSilentPrune.
IInv == NoSilentPrune /\ MarkerIsDurable /\ WorkBacked /\ RepliesBacked /\ DrainBacked

\* Where mail can be: nothing is handled before it has arrived, ...
Here == 1 .. arrived
InTransit ==
    /\ queue \in Seq({j \in Jobs : j.d <= arrived})
    /\ todo \in Seq(Here) /\ retained \in Seq(Here)
    /\ cur <= arrived /\ last <= arrived
    /\ pushable \cup notices \cup spent \subseteq Here
\* ... what is kept anywhere was decrypted, and is staged before anything else
\* is done with it, ...
OpenedOnce ==
    /\ outbox \cup store \cup gaveUp \cup mislaid \cup dropped \subseteq spent
    /\ held \in [Peers -> Seq(spent)]
    /\ \A r \in replies : r.gone \subseteq spent
    /\ step \in {"stage", "apply", "reconcile", "unstage"} => cur \in spent
    /\ step = "stage" => cur \notin outbox \cup store \cup gaveUp \cup mislaid
\* ... and the outbox retry tries again what is still in the outbox.
RetryIsOfOutbox ==
    /\ retryTodo \subseteq outbox
    /\ retryTodo # {} => step \in {"retry", "unstage"}
    /\ step = "unstage" => cur \notin retryTodo
TrailIsTrue == InTransit /\ OpenedOnce /\ RetryIsOfOutbox

\* Without faults and crashes, no message of an established session that is in
\* the store is ever reported to the user as undeliverable, although push and
\* drain both deliver it.  Without a session at the start it can be: the drain
\* has the answer "not readable yet" in hand while a handshake and the re-feed
\* behind it deliver the message, and counts the attempt all the same.
NoFalsePoison ==
    [][\A d \in notices' \ notices :
          faults > 0 \/ crashes > 0 \/ Peer[d] \notin InitSessions \/ d \notin store]_vars

\* Why: the drain submits one item at a time, past the cursor, ...
DrainIsInOrder ==
    /\ phase \in {"item", "await", "skip"} => item > cursor /\ through < item
    /\ phase = "forget" => through <= cursor
    /\ passed \subseteq 1 .. through
    /\ \A i \in 1 .. Len(queue) : queue[i].src = "drain" =>
          /\ phase = "await" /\ queue[i].d = item
          /\ \A j \in 1 .. Len(queue) : queue[j].src = "drain" => j = i
          /\ \A r \in replies : r.src # "drain"
    /\ \A r \in replies : r.src = "drain" =>
          /\ phase = "await" /\ r.d = item
          /\ \A q \in replies : q.src = "drain" => q = r
\* ... and without faults what was decrypted is staged and marked, so that only
\* what no session can read is ever left.
Unfaulted == faults = 0 /\ crashes = 0
InHand == IF step \in {"stage", "apply", "reconcile", "mark"} THEN {cur} ELSE {}
LeftForGood(d) ==
    Kind[d] = "poison" \/ Peer[d] \notin InitSessions \/ d \in notices \/ d <= cursor
NothingGivenUp == gaveUp \cup dropped = {} /\ \A r \in replies : r.gone = {}
WorkIsRead ==
    /\ "user" \in flags => "decryptOk" \in flags /\ (step # "stage" => "staged" \in flags)
    /\ "consumed" \in flags /\ Kind[cur] # "control" => "decryptOk" \in flags
    /\ step = "mark" /\ "consumed" \notin flags =>
          /\ LeftForGood(cur)
          /\ cur \in spent => cur \in processed \cup notices \/ cur <= cursor
SpentIsDone == \A d \in spent : d \in processed \cup InHand \cup notices \/ d <= cursor
DrainIsAnswered ==
    /\ "on" \in refeed /\ Head(queue).src = "drain" => "ok" \in refeed
    /\ \A r \in replies : r.src = "drain" /\ r.status = "left" => LeftForGood(r.d)
OnlyMailIsSpent ==
    /\ InitSessions \subseteq sessions
    /\ \A d \in spent : Kind[d] \in Content \cup {"receipt"}
AllIsRead == NothingGivenUp /\ WorkIsRead /\ SpentIsDone /\ DrainIsAnswered
ReadOnce == OnlyMailIsSpent /\ (Unfaulted => AllIsRead)

\* The fate of a piece of mail, as its recipient sees it.
FateOf(d) ==
    CASE d \in store   -> "delivered"
      [] d \in outbox \ store -> "secured"
      [] d \in notices \ (store \cup outbox) -> "surfaced"
      [] d \in gaveUp \ (store \cup outbox \cup notices) -> "abandoned"
      [] d \in mislaid \ (store \cup outbox \cup notices \cup gaveUp) -> "deferred"
      [] OTHER -> IF d <= arrived THEN "waiting" ELSE "expected"

IsMail == [d \in Deposits |-> Kind[d] \in Content \cup {"poison"}]

Promise == INSTANCE MailPromise WITH
    fate <- [d \in {e \in Deposits : IsMail[e]} |-> FateOf(d)],
    pruned <- cursor

\* The durable inbox keeps the promise: push, drain, re-feed, faults and crashes
\* only ever move mail the way MailPromise allows.
KeepsPromise == Promise!Spec

\* The server's event loop keeps running jobs, the drain keeps stepping, the
\* periodic timer keeps requesting drains, and backoffs run out.
Fairness ==
    /\ WF_vars(PipelineStep /\ UNCHANGED inboxVars)
    /\ WF_vars(DrainAction)
    /\ WF_vars(Trigger)
    /\ \A d \in Deposits : WF_vars(BackoffExpires(d))
    /\ WF_vars(\E r \in replies : PushSettled(r))

FairSpec == Spec /\ Fairness

\* The cursor reaches the end of the home log again and again: no poison
\* deposit, gap, backoff, fault or crash wedges #drainDurable for ever.
CursorCatchesUp == []<>(cursor = arrived)

\* The apply-outbox empties again and again: retryApplyOutbox applies or gives up
\* every payload that #processOne staged.
OutboxDrains == []<>(outbox = {})

\* Both: nothing that was sent stays on its way for ever.
InboxSettles == CursorCatchesUp /\ OutboxDrains
=============================================================================
