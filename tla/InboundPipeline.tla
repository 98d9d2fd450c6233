--------------------------- MODULE InboundPipeline ---------------------------
(***************************************************************************)
(* The serialized inbound path of the chat server: InboundDepositPipeline   *)
(* with its in-memory retry buffer, the durable apply-outbox and the        *)
(* processed-deposit log, and what one deposit does to the peer-link        *)
(* sessions, the group roster and the message store on its way through.     *)
(*                                                                          *)
(* Jobs wait on the promise chain #tail and run one at a time; the process  *)
(* can die between any two awaits.  The submitters (live push, catch-up     *)
(* drain) are modelled by the modules that extend this one: they append to  *)
(* queue and take their results from replies.                               *)
(***************************************************************************)
EXTENDS Naturals, Sequences

CONSTANTS
    NumDeposits,        \* deposits 1 .. NumDeposits, in mailbox order
    Peers,              \* remote accounts
    Peer,               \* Peer[d]: the account deposit d comes from
    Kind,               \* Kind[d]: what deposit d carries
    InitSessions,       \* peers with an established session at start
    MaxPending,         \* retry-buffer entries (256 in the code)
    MaxRetainAttempts,  \* re-feeds before a retained deposit is dropped (12)
    MaxApplyAttempts,   \* outbox attempts before giving up (8)
    MinAttemptsForAge,  \* attempts before the age bound may apply (3)
    MaxHeld,            \* deferred group messages per sender (64)
    MaxFaults           \* bound on storage and dispatch faults and crashes

Deposits == 1 .. NumDeposits

Kinds == {"handshake", "control", "receipt", "message", "join", "group", "poison"}

\* Kinds that surface a user message once decrypted.
Content == {"message", "join", "group"}

ASSUME PipelineAssumption ==
    /\ NumDeposits \in Nat
    /\ Peer \in [Deposits -> Peers]
    /\ Kind \in [Deposits -> Kinds]
    /\ InitSessions \subseteq Peers
    /\ MaxPending \in Nat \ {0}
    /\ MaxRetainAttempts \in Nat \ {0}
    /\ MaxApplyAttempts \in Nat \ {0}
    /\ MinAttemptsForAge \in Nat
    /\ MaxHeld \in Nat \ {0}
    /\ MaxFaults \in Nat

VARIABLES
    \* --- survive a crash (chat-server KV, thread store, SDK ratchet) ---
    sessions,   \* peers with an established session
    spent,      \* deposits whose ratchet key is used up: they decrypt no more
    processed,  \* processed-deposit log: deposits with a dedup marker
    outbox,     \* apply-outbox: staged deposits
    failures,   \* failures[d]: apply attempts recorded on the staged entry
    store,      \* deposits whose content took effect: stored, or on the roster
    members,    \* peers with an active group membership
    \* --- lost in a crash (process memory) ---
    queue,      \* jobs on the promise chain, the running one first
    step,       \* the await the running job is at
    cur,        \* the deposit it is processing
    flags,      \* what #processOne knows about that deposit so far
    refeed,     \* state of the re-drain of the retry buffer, if one is running
    todo,       \* retained deposits left in this pass of the re-drain
    retained,   \* retry buffer: deposits in insertion order
    tries,      \* tries[d]: failed re-feeds of a retained deposit
    held,       \* held[p]: group messages deferred until p's member.join
    retryTodo,  \* outbox entries left in this retry pass
    dropped,    \* outbox entries this retry pass gave up
    replies,    \* resolved submit promises not yet seen by their callers
    \* --- history (what the model remembers and the code does not) ---
    gaveUp,     \* deposits the outbox retry dropped at its poison bound
    mislaid,    \* deposits whose apply returned normally but did not take effect
    faults      \* faults injected so far

durableVars  == <<sessions, spent, processed, outbox, failures, store, members>>
workVars     == <<step, cur, flags>>
bufferVars   == <<refeed, todo, retained, tries>>
retryVars    == <<retryTodo, dropped>>
memoryVars   == <<queue, workVars, bufferVars, held, retryVars, replies>>
historyVars  == <<gaveUp, mislaid, faults>>
pipelineVars == <<durableVars, memoryVars, historyVars>>

Job(src, d) == [src |-> src, d |-> d]

Jobs == [src : {"push", "drain"}, d : Deposits] \cup [src : {"sweep", "outbox"}, d : {0}]

\* A resolved submit: ack-safe ("ok") or not ("left"); for the outbox retry, the
\* entries it gave up.
Reply(src, d, status, gone) == [src |-> src, d |-> d, status |-> status, gone |-> gone]

Replies == [src : {"push", "drain", "outbox"}, d : 0 .. NumDeposits,
            status : {"ok", "left"}, gone : SUBSET Deposits]

Steps == {"idle", "lookup", "stage", "apply", "reconcile", "mark", "refeed", "retry", "unstage"}

Flags == {"consumed", "decryptOk", "user", "staged", "applied"}

At(s, d, f) == step' = s /\ cur' = d /\ flags' = f

-----------------------------------------------------------------------------
(* Faults: any KV, store or dispatch call may reject, and the process may   *)
(* die, MaxFaults times in all.                                            *)

Fault == faults < MaxFaults /\ faults' = faults + 1

NoFault == UNCHANGED faults

-----------------------------------------------------------------------------
(* Sequence helpers of the in-memory maps.                                  *)

Elements(s) == {s[i] : i \in 1 .. Len(s)}

\* Map.delete(key): s without its first d.
Without(s, d) ==
    IF d \notin Elements(s) THEN s
    ELSE LET i == CHOOSE i \in 1 .. Len(s) : s[i] = d
         IN SubSeq(s, 1, i - 1) \o SubSeq(s, i + 1, Len(s))

-----------------------------------------------------------------------------
(* Taking the next job off the promise chain.                               *)

\* submit(frame): the job's turn has come; start processing its frame.
StartSubmit ==
    /\ step = "idle" /\ queue # <<>>
    /\ Head(queue).src \in {"push", "drain"}
    /\ At("lookup", Head(queue).d, {})
    /\ UNCHANGED <<durableVars, queue, bufferVars, held, retryVars, replies, historyVars>>

\* The job resolves: it leaves the chain and its caller gets the result.
Resolve(status) ==
    /\ queue' = Tail(queue)
    /\ At("idle", 0, {})
    /\ refeed' = {} /\ todo' = <<>>
    /\ replies' = IF Head(queue).src = "sweep" THEN replies
                  ELSE replies \cup {Reply(Head(queue).src, Head(queue).d, status, {})}

\* Start a re-drain of the retry buffer; "ok" is the result it holds up.
StartRefeed(result) ==
    /\ At("refeed", 0, {})
    /\ refeed' = {"on"} \cup result
    /\ todo' = retained'
    /\ UNCHANGED <<queue, replies>>

\* A sweep job finds the buffer empty and does nothing, or re-drains it.
StartSweep ==
    /\ step = "idle" /\ queue # <<>> /\ Head(queue).src = "sweep"
    /\ UNCHANGED retained
    /\ IF retained = <<>> THEN Resolve("left") ELSE StartRefeed({})
    /\ UNCHANGED <<durableVars, tries, held, retryVars, historyVars>>

\* The sweep timer.  One queued sweep is modelled: a second would find nothing
\* the first has not tried.
Sweep ==
    /\ retained # <<>> /\ "on" \notin refeed
    /\ \A i \in 1 .. Len(queue) : queue[i].src # "sweep"
    /\ queue' = Append(queue, Job("sweep", 0))
    /\ UNCHANGED <<durableVars, workVars, bufferVars, held, retryVars, replies, historyVars>>

-----------------------------------------------------------------------------
(* #processAndHeal and #redrainPending: what follows #processOne.           *)

\* #updatePending of a frame that was not consumed: retain it, evicting the
\* oldest entry when the buffer is full.
Retain(d) ==
    IF d \in Elements(retained)
    THEN UNCHANGED <<retained, tries>>
    ELSE IF Len(retained) >= MaxPending
    THEN /\ retained' = Append(Tail(retained), d)
         /\ tries' = [tries EXCEPT ![Head(retained)] = 0]
    ELSE retained' = Append(retained, d) /\ UNCHANGED tries

\* pending.delete: the entry goes, and its counter with it.
Release(d) ==
    /\ retained' = Without(retained, d)
    /\ tries' = [tries EXCEPT ![d] = 0]

\* The submitted frame is done: update the buffer, and if it was freshly
\* consumed let the deposits that waited for it try again before resolving.
ConcludeSubmit(d, consumed, already, status) ==
    /\ IF consumed THEN Release(d) ELSE Retain(d)
    /\ IF consumed /\ ~already /\ retained' # <<>>
         THEN StartRefeed(IF status = "ok" THEN {"ok"} ELSE {})
         ELSE Resolve(status)

\* A re-fed deposit is done: drop it if consumed, else count the failure and
\* drop it at the bound.
ConcludeRefeed(d, consumed) ==
    /\ At("refeed", 0, {})
    /\ IF consumed
         THEN Release(d) /\ refeed' = refeed \cup {"progress"}
         ELSE /\ IF tries[d] + 1 >= MaxRetainAttempts
                   THEN Release(d)
                   ELSE tries' = [tries EXCEPT ![d] = @ + 1] /\ UNCHANGED retained
              /\ UNCHANGED refeed
    /\ UNCHANGED <<queue, replies, todo>>

Conclude(d, consumed, already, status) ==
    IF "on" \in refeed THEN ConcludeRefeed(d, consumed)
    ELSE ConcludeSubmit(d, consumed, already, status)

\* One turn of the re-drain loop: the next entry, another pass after progress,
\* or the end of the loop.
RefeedEntry ==
    /\ step = "refeed" /\ todo # <<>>
    /\ At("lookup", Head(todo), {})
    /\ todo' = Tail(todo)
    /\ UNCHANGED <<durableVars, queue, refeed, retained, tries, held, retryVars, replies, historyVars>>

RefeedPass ==
    /\ step = "refeed" /\ todo = <<>> /\ "progress" \in refeed
    /\ todo' = retained
    /\ refeed' = refeed \ {"progress"}
    /\ UNCHANGED <<durableVars, queue, workVars, retained, tries, held, retryVars, replies, historyVars>>

RefeedDone ==
    /\ step = "refeed" /\ todo = <<>> /\ "progress" \notin refeed
    /\ Resolve(IF "ok" \in refeed THEN "ok" ELSE "left")
    /\ UNCHANGED <<durableVars, retained, tries, held, retryVars, historyVars>>

-----------------------------------------------------------------------------
(* #processOne, one action per awaited step.                                *)

\* A ratchet-encrypted deposit opens once, and only inside a session.
Decryptable(d) ==
    /\ Kind[d] \in Content \cup {"receipt"}
    /\ Peer[d] \in sessions
    /\ d \notin spent

\* The dedup marker is found: never decrypt again.
SkipProcessed ==
    /\ step = "lookup" /\ cur \in processed
    /\ Conclude(cur, TRUE, TRUE, "ok")
    /\ UNCHANGED <<durableVars, held, retryVars, historyVars>>

\* peerLinkProtocol.processDeposit: handshakes establish, acks and rejects are
\* applied, ratchet messages open; what cannot be opened is not consumed.
\* A marker lookup that fails counts as "not processed".
ProcessDeposit ==
    /\ step = "lookup"
    /\ \/ cur \notin processed /\ NoFault
       \/ cur \in processed /\ Fault
    /\ \/ /\ Kind[cur] = "handshake"
          /\ sessions' = sessions \cup {Peer[cur]}
          /\ At("mark", cur, {"consumed", "decryptOk"})
          /\ UNCHANGED spent
       \/ /\ Kind[cur] = "control"
          /\ At("mark", cur, {"consumed"})
          /\ UNCHANGED <<sessions, spent>>
       \/ /\ Decryptable(cur)
          /\ spent' = spent \cup {cur}
          /\ IF Kind[cur] \in Content
               THEN At("stage", cur, {"consumed", "decryptOk", "user"})
               ELSE At("mark", cur, {"consumed", "decryptOk"})
          /\ UNCHANGED sessions
       \/ /\ Kind[cur] \notin {"handshake", "control"} /\ ~Decryptable(cur)
          /\ At("mark", cur, {})
          /\ UNCHANGED <<sessions, spent>>
    /\ UNCHANGED <<processed, outbox, failures, store, members, queue, bufferVars, held, retryVars,
                   replies, gaveUp, mislaid>>

\* processDeposit throws (SDK or storage error): nothing is committed.
ProtocolThrows ==
    /\ step = "lookup" /\ cur \notin processed
    /\ Fault
    /\ At("mark", cur, {})
    /\ UNCHANGED <<durableVars, queue, bufferVars, held, retryVars, replies, gaveUp, mislaid>>

\* outbox.stage: keep the plaintext before anything can prune the ciphertext.
\* Staging an existing entry keeps its attempt counter; a new one starts at 0,
\* where the removal of an entry leaves the counter.
Stage ==
    /\ step = "stage"
    /\ \/ /\ outbox' = outbox \cup {cur}
          /\ At("apply", cur, flags \cup {"staged"})
          /\ NoFault
       \/ /\ Fault
          /\ At("apply", cur, flags)
          /\ UNCHANGED outbox
    /\ UNCHANGED <<sessions, spent, processed, failures, store, members, queue, bufferVars, held,
                   retryVars, replies, gaveUp, mislaid>>

\* ServerDeferredMessageBuffer.defer: in memory only, oldest evicted.
Defer(d) ==
    held' = [held EXCEPT ![Peer[d]] = Append(IF Len(@) >= MaxHeld THEN Tail(@) ELSE @, d)]

\* events.applyUserMessage returns without throwing.
\* A direct message: the store write.
ApplyMessage(d) ==
    /\ Kind[d] = "message"
    /\ store' = store \cup {d}
    /\ NoFault
    /\ UNCHANGED <<members, held, mislaid>>

\* A member.join: the roster write, then the sender's deferred messages are
\* applied one by one, each failure swallowed.
ApplyJoin(d) ==
    /\ Kind[d] = "join"
    /\ members' = members \cup {Peer[d]}
    /\ held' = [held EXCEPT ![Peer[d]] = <<>>]
    /\ \/ /\ NoFault
          /\ store' = store \cup {d} \cup Elements(held[Peer[d]])
       \/ /\ Fault
          /\ \E lost \in Elements(held[Peer[d]]) :
                store' = store \cup {d} \cup (Elements(held[Peer[d]]) \ {lost})
    /\ UNCHANGED mislaid

\* A member.join whose dispatch rejects: the error is swallowed, and what falls
\* through to the message path is a row in the thread, not a roster change.
SwallowJoin(d) ==
    /\ Kind[d] = "join"
    /\ Fault
    /\ mislaid' = mislaid \cup {d}
    /\ UNCHANGED <<store, members, held>>

\* A group message: stored for a member; a sender without a membership record,
\* or whose lookup failed, is deferred.
ApplyGroup(d) ==
    /\ Kind[d] = "group"
    /\ \/ /\ Peer[d] \in members
          /\ store' = store \cup {d}
          /\ NoFault
          /\ UNCHANGED <<held, mislaid>>
       \/ /\ IF Peer[d] \in members THEN Fault ELSE NoFault
          /\ Defer(d)
          /\ mislaid' = mislaid \cup {d}
          /\ UNCHANGED store
    /\ UNCHANGED members

ApplyReturns(d) == ApplyMessage(d) \/ ApplyJoin(d) \/ SwallowJoin(d) \/ ApplyGroup(d)

\* events.applyUserMessage throws: the message-of-record write failed.
ApplyThrows(d) ==
    /\ Kind[d] \in {"message", "group"}
    /\ Fault
    /\ UNCHANGED <<store, members, held, mislaid>>

AfterApply == IF "staged" \in flags THEN "reconcile" ELSE "mark"

Apply ==
    /\ step = "apply"
    /\ \/ ApplyReturns(cur) /\ At(AfterApply, cur, flags \cup {"applied"})
       \/ ApplyThrows(cur) /\ At(AfterApply, cur, flags)
    /\ UNCHANGED <<sessions, spent, processed, outbox, failures, queue, bufferVars, retryVars,
                   replies, gaveUp>>

\* Wrong variant: the staged copy goes whether or not the apply succeeded.
ReconcileAlwaysDrops ==
    /\ step = "reconcile"
    /\ At("mark", cur, flags)
    /\ NoFault
    /\ outbox' = outbox \ {cur}
    /\ failures' = [failures EXCEPT ![cur] = 0]
    /\ UNCHANGED <<sessions, spent, processed, store, members, queue, bufferVars, held, retryVars,
                   replies, gaveUp, mislaid>>

\* The staged copy after the apply: drop it once applied, else count the
\* failure.  Errors of either write are swallowed.
Reconcile ==
    /\ step = "reconcile"
    /\ At("mark", cur, flags)
    /\ \/ /\ NoFault
          /\ outbox' = IF "applied" \in flags THEN outbox \ {cur} ELSE outbox
          /\ failures' = [failures EXCEPT ![cur] = IF "applied" \in flags THEN 0 ELSE @ + 1]
       \/ Fault /\ UNCHANGED <<outbox, failures>>
    /\ UNCHANGED <<sessions, spent, processed, store, members, queue, bufferVars, held, retryVars,
                   replies, gaveUp, mislaid>>

\* A user message is recoverable once staged or applied.
DurableUserMessage == "staged" \in flags \/ "applied" \in flags

\* Wrong variant: a user message is never marked.
MarkOnlyControl == "decryptOk" \in flags /\ "user" \notin flags

ShouldMark == "decryptOk" \in flags /\ ("user" \notin flags \/ DurableUserMessage)

\* The ack-safe signal: durable.
AckSafe == IF "user" \in flags THEN DurableUserMessage ELSE "consumed" \in flags

\* processedLog.mark, only for what was decrypted and is recoverable; then the
\* status is returned.  A failed mark is swallowed.
MarkAndReturn ==
    /\ step = "mark"
    /\ \/ processed' = (IF ShouldMark THEN processed \cup {cur} ELSE processed) /\ NoFault
       \/ ShouldMark /\ Fault /\ UNCHANGED processed
    /\ Conclude(cur, "consumed" \in flags, FALSE, IF AckSafe THEN "ok" ELSE "left")
    /\ UNCHANGED <<sessions, spent, outbox, failures, store, members, held, retryVars, gaveUp, mislaid>>

-----------------------------------------------------------------------------
(* retryApplyOutbox: re-apply what is staged, give up at the poison bound.  *)

\* The retry job reads the staged entries; a failed read retries nothing.
StartRetry ==
    /\ step = "idle" /\ queue # <<>> /\ Head(queue).src = "outbox"
    /\ At("retry", 0, {})
    /\ dropped' = {}
    /\ \/ retryTodo' = outbox /\ NoFault
       \/ retryTodo' = {} /\ Fault
    /\ UNCHANGED <<durableVars, queue, bufferVars, held, replies, gaveUp, mislaid>>

\* The entry applies.
RetryApplies(d) ==
    /\ step = "retry" /\ d \in retryTodo
    /\ ApplyReturns(d)
    /\ At("unstage", d, {})
    /\ retryTodo' = retryTodo \ {d}
    /\ UNCHANGED <<sessions, spent, processed, outbox, failures, queue, bufferVars, dropped,
                   replies, gaveUp>>

\* The entry fails again.  The failure is counted, unless that write fails too.
RetryFails(d) ==
    /\ step = "retry" /\ d \in retryTodo
    /\ ApplyThrows(d)
    /\ retryTodo' = retryTodo \ {d}
    /\ \/ UNCHANGED failures
       \/ /\ failures[d] + 1 < MaxApplyAttempts
          /\ failures' = [failures EXCEPT ![d] = @ + 1]
    /\ UNCHANGED <<sessions, spent, processed, outbox, queue, workVars, bufferVars, dropped,
                   replies, gaveUp>>

\* The entry fails once too often, or is too old after MinAttemptsForAge
\* attempts: it is dropped and reported to the drain.
RetryGivesUp(d) ==
    /\ step = "retry" /\ d \in retryTodo
    /\ ApplyThrows(d)
    /\ \/ failures[d] + 1 >= MaxApplyAttempts
       \/ failures[d] + 1 >= MinAttemptsForAge
    /\ retryTodo' = retryTodo \ {d}
    /\ failures' = [failures EXCEPT ![d] = @ + 1]
    /\ At("unstage", d, {})
    /\ gaveUp' = gaveUp \cup {d}
    /\ dropped' = dropped \cup {d}
    /\ UNCHANGED <<sessions, spent, processed, outbox, queue, bufferVars, replies>>

\* markApplied: the entry leaves the outbox; an error is swallowed.
Unstage ==
    /\ step = "unstage"
    /\ At("retry", 0, {})
    /\ \/ /\ outbox' = outbox \ {cur}
          /\ failures' = [failures EXCEPT ![cur] = 0]
          /\ NoFault
       \/ Fault /\ UNCHANGED <<outbox, failures>>
    /\ UNCHANGED <<sessions, spent, processed, store, members, queue, bufferVars, held, retryVars,
                   replies, gaveUp, mislaid>>

RetryDone ==
    /\ step = "retry" /\ retryTodo = {}
    /\ queue' = Tail(queue)
    /\ At("idle", 0, {})
    /\ replies' = replies \cup {Reply("outbox", 0, "ok", dropped)}
    /\ dropped' = {}
    /\ UNCHANGED <<durableVars, bufferVars, held, retryTodo, historyVars>>

-----------------------------------------------------------------------------
PipelineInit ==
    /\ sessions = InitSessions
    /\ spent = {} /\ processed = {} /\ outbox = {} /\ store = {} /\ members = {}
    /\ failures = [d \in Deposits |-> 0]
    /\ queue = <<>> /\ step = "idle" /\ cur = 0 /\ flags = {}
    /\ refeed = {} /\ todo = <<>> /\ retained = <<>> /\ tries = [d \in Deposits |-> 0]
    /\ held = [p \in Peers |-> <<>>]
    /\ retryTodo = {} /\ dropped = {} /\ replies = {}
    /\ gaveUp = {} /\ mislaid = {} /\ faults = 0

PipelineStep ==
    \/ StartSubmit \/ StartSweep \/ RefeedEntry \/ RefeedPass \/ RefeedDone
    \/ SkipProcessed \/ ProcessDeposit \/ ProtocolThrows
    \/ Stage \/ Apply \/ Reconcile \/ MarkAndReturn
    \/ StartRetry \/ Unstage \/ RetryDone
    \/ \E d \in Deposits : RetryApplies(d) \/ RetryFails(d) \/ RetryGivesUp(d)

\* The process dies: everything in memory is gone.
LoseMemory ==
    /\ queue' = <<>> /\ At("idle", 0, {})
    /\ refeed' = {} /\ todo' = <<>> /\ retained' = <<>> /\ tries' = [d \in Deposits |-> 0]
    /\ held' = [p \in Peers |-> <<>>]
    /\ retryTodo' = {} /\ dropped' = {} /\ replies' = {}
    /\ Fault
    /\ UNCHANGED <<durableVars, gaveUp, mislaid>>

\* What is on disk, what is deferred, and the history.
DataTypeOK ==
    /\ sessions \subseteq Peers /\ members \subseteq Peers
    /\ spent \subseteq Deposits /\ processed \subseteq Deposits
    /\ outbox \subseteq Deposits /\ store \subseteq Deposits
    /\ gaveUp \subseteq Deposits /\ mislaid \subseteq Deposits
    /\ failures \in [Deposits -> Nat]
    /\ held \in [Peers -> Seq(Deposits)]
    /\ retryTodo \subseteq Deposits /\ dropped \subseteq Deposits
    /\ faults \in 0 .. MaxFaults

\* The running job and the retry buffer.
WorkerTypeOK ==
    /\ queue \in Seq(Jobs) /\ (step # "idle" => queue # <<>>)
    /\ step \in Steps /\ cur \in 0 .. NumDeposits
    /\ step \notin {"idle", "refeed", "retry"} => cur \in Deposits
    /\ flags \subseteq Flags
    /\ refeed \subseteq {"on", "progress", "ok"}
    /\ todo \in Seq(Deposits) /\ retained \in Seq(Deposits)
    /\ tries \in [Deposits -> Nat]
    /\ replies \subseteq Replies

PipelineTypeOK == DataTypeOK /\ WorkerTypeOK
=============================================================================
