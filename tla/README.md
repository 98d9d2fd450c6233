# Verification of rez-chat

TLA+ models of the rez-chat server, desktop shell and client transport, checked
with TLC on small instances, with TLAPS proofs of the properties that matter
most. Every definition is translated from the code; `PROJECT.json` maps it to
the lines it models and lists the hazards of the code with the properties that
watch them.

## The system

rez-chat is an end-to-end encrypted chat application. One chat server process
per account (in the desktop sidecar, on mobile, or in the browser runtime) sits
between the user interface and a home node that stores mailboxes. Encryption,
peer-link sessions and the node itself are external packages.

| Component | State it keeps | Operations | Interacts with |
|---|---|---|---|
| Inbound deposit pipeline | promise chain, in-memory retry buffer | submit, re-drain, sweep, outbox retry | peer-link protocol, event service, outbox, processed log |
| Apply-outbox, processed-deposit log | key-value tables on disk | stage, markApplied, recordApplyFailure; has, mark, forget, attempts | pipeline, drain |
| Inbox catch-up drain | draining and pending flags, backoff map | requestDrain, durable drain, legacy drain, quarantine | home node, pipeline, UI events |
| Push bridge | none | push to submit, then ack or nudge the drain | SDK subscription, pipeline, drain |
| Event application | deferred group messages in memory | apply user message, gate, dispatch, persist, flush | stores, group applier, UI |
| Peer-link protocol | recovery cooldowns and windows, auto-minted invite marks | processDeposit, handshake, ack, reject, recovery invites, bootstrap of co-member links | SDK peer links, invites, groups |
| Outbound messages | rows with delivery status, pending-commit rows, tracked inboxes | send, resend, acks, frames, sweep, delete, recovery | peer links, device sets, node queue, UI |
| Device fan-out | resolved device sets, durable cache of sealed copies | publish, resolve, invalidate, seal, dispatch, mark delivered | outbound messages, home, durable records |
| Thread store | message rows, buffered mutations, immutable facts | append, upsert, fold, conflict marks, local delete | message and event services |
| Thread index and list | one index record per thread, unread counts, read markers | recompute, list, mark read, states, delete | thread store, windows |
| Groups | one roster per member; title, avatar, channels | create, invite, join, leave, kick, roles, contact lists, rename, avatar, channels, catch-up | peer links, invites, thread store |
| Contacts, invites, links | contact rows, invites, connect requests | create, accept, revoke, block, request, answer | peer links |
| Device link and recovery | ceremony, journal of pending ceremonies | issue code, approve, cancel, expire, sweep, revoke | home node, new device |
| Device activation | activation journal, claimed inbox | ask for the baseline, apply it, claim, publish, restart | siblings, home node |
| Account mutation and publication | epoch, obligations, lease, device sets | register, revoke, drain, publish | home node, peers |
| Account state sync, sibling sync | per-origin counters, queue of failed sends; fact inventories | replicate, apply, reconcile; digest, inventory, transfer, admit | contacts, thread store |
| Runtime, connection and session services | connection, binding, claim, account session | boot, connect, bind, restore, wake up, stop | SDK, catch-up |
| Chat bridge, uplink, client | sockets, pending calls, attached server | hello, call, answer, event, reconnect, attach, detach | server, windows |
| Desktop vault and supervisor | sealed rows, open account, running server | create, import, unlock, lock, passwords, restore, purge | keychain, chat runtime |
| Desktop processes | shell, sidecar, instance lock, control and host channels | launch, spawn, ready, quit, update, calls, prompts | operating system |
| File transfer, profile, diagnostics, link adapter, views, packaging | | | not modelled |

### What makes each component correct, and what is hard about it

- **Inbound.** No ciphertext is pruned at the home node before its content is
  safe; a dedup marker is never a lie; no poisoned deposit wedges the mailbox.
  Hard because the double ratchet makes the decrypt of a deposit a step that can
  never be repeated, while every step around it (push, drain, re-feed from
  memory, staging, apply, mark, cursor ack, marker cleanup) is an await of its
  own that can fail, be overtaken or be cut short by a crash.
- **Outbound messages and device fan-out.** "Delivered" means that a device of
  the recipient has the message; whatever was sent is retried until proved; a
  success covers every device of the set; what leaves for a device is one
  sealing. Hard because a send, a sweep, two kinds of acks and the node's queue
  frames write the same row, and because two fan-outs of one message share a
  cache with awaits in between.
- **Thread store.** The rows are what the signed facts say, in whatever order
  and however often they came; nobody changes another author's row; two
  messages under one id are flagged. Hard because mutations can precede their
  message and each key-value write can be the last before a crash.
- **Groups.** No server owns a roster: every member keeps one, changes it by the
  user's wish, tells the others once, and judges what it is told. Nobody may be
  added unasked, nobody but an admin's choice may remove or promote, a removed
  member must not come back by old mail, members must find each other and see
  the same channels.
- **Contacts and links.** A contact needs both users' consent; a broken link
  heals by recovery invites, whichever end notices first.
- **Devices and account.** A ceremony is completed or undone after a crash at any
  point of its journal; what is published about an account is what its home
  decided; sibling devices converge; a device is visible only when it is ready.
- **Desktop.** One instance owns the vault; the server that runs is the unlocked
  account's; a lock reaches it; a call is begun once and in order.
- **Server and windows.** The server finds its home again; a window that
  reattaches shows what the index holds.

## Modules

| Module | What it is |
|---|---|
| `InboundPipeline` | the serialized pipeline, its retry buffer, the outbox and the processed log, and what a deposit does to sessions, roster and store |
| `DurableInbox` | extends it with the home node's log and cursor, the push and the durable drain, crashes |
| `MailPromise` | abstract: the fates a piece of mail may go through, and what the home node may prune |
| `OutboundMessages` | the sender with one copy per message: `sendMessage`, status writes, acks, the pending-commit sweep, the node's queue, restart |
| `DeviceFanout` | extends it: with the gate open each send and sweep is a fan-out to the devices of the peer's set |
| `ThreadStore` | the recipient: facts log and index, rows, buffered mutations, conflict marks |
| `GroupRoster` | one group on all its members' nodes: rosters, invites, operations in flight |
| `GroupState` | extends it with title, avatar, channels and their catch-up |
| `PeerContacts` | two accounts of one group: peer link, recovery invites, contact by consent |
| `DeviceLink` | the ceremony that links a device, its journal and the recovery sweep |
| `DeviceActivation` | from linked to visible: baseline, own inbox, publication |
| `AccountAuthority` | registrations and revocations at the home, and their publication |
| `AccountSync`, `SiblingSync`, `AccountDevices` | contacts kept alike; facts kept alike; both together, one gating the other |
| `DesktopSession` | vault, supervisor, chat runtime and screens of the desktop |
| `DesktopShell` | the desktop's processes and the channels between them |
| `HomeSession` | the server's session with its home and the account session |
| `ThreadList`, `ChatUplink`, `ChatWindow` | the conversation index, the socket, what a window keeps |
| `ChatServer` | composes those four |
| `MC*` | instances for TLC |
| `*_proofs` | theorems and their proofs |

Modules compose by extension (`DurableInbox` over `InboundPipeline`,
`DeviceFanout` over `OutboundMessages`, `GroupState` over `GroupRoster`,
`ChatServer` over `HomeSession` and `ThreadList`, which uses `ChatUplink` and
`ChatWindow`), by instance (`AccountDevices` takes `SiblingSync`), and by
refinement: `DurableInbox` implements `MailPromise` by the mapping `FateOf`, and
`GroupState` implements `GroupRoster`, every step being a step of the roster or
a stutter. `OutboundMessages`, `ThreadStore` and `GroupRoster` take the inbox's
promise as their environment: mail may be lost before it is deposited, comes in
any order, and is applied again after a crash.

A comment that begins with "Wrong variant" marks an operator no specification
uses: the mutated form of the one after it, kept to show that the property that
watches it can fail. `PROJECT.json` lists the pairs.

### How state and actions correspond to the code

**InboundPipeline, DurableInbox.** `queue` is the promise chain `#tail`, its
first element the running job; `step`, `cur` and `flags` are the await at which
`#processOne` stands and what it has learnt; `retained` and `tries` the retry
buffer; `refeed`, `todo`, `retryTodo`, `dropped` the loops over it and over the
outbox. `outbox`, `failures`, `processed`, `store`, `members`, `sessions` and
`spent` are on disk and survive `Crash`. Deposits are numbers in mailbox order
with a kind and a sender. Each await that can fail or be overtaken is an action;
the drain has its own program counter. Injected storage and dispatch faults take
the code's catch branches.

**OutboundMessages, DeviceFanout.** One row per message with the status column of
the store and its transition table (`CanTransitionStatus`). A `sendMessage` call
is `Send`, `Deliver`, `Track`, `Settle`, `OpenPendingCommit`, so that acks,
frames and the sweep come in between; the handlers of the two acks are two and
three steps for the same reason. `wire`, `nodeQueue`, `frames`, `acks`,
`legacyAcks` are outside the process; `Restart` is `#recoverQueuedMessages`.
`spare["gate"]` is `multiDeviceFanout`. With the gate open `fan[c]` stands where
`Deliver` or the sweep's retry stood: `c` is a message that a user sends or the
sweep; a fan-out resolves the set (`ResolveCached`, `ResolveBegin`,
`ResolveEnd`), runs one part per device at the same time (`DeviceGet`,
`DeviceSeal`, `DeviceDispatch`, each an await of `#fanOutToPeerDevices`), and
ends (`FanEnd`, `LegacyEnd`, `FanThrows`). `resolved` is the in-memory map of
`ServerDeviceSetService`, `cache` the rows of `DeviceFanoutCacheStore`. `handed`
and `sealings` are history variables.

**ThreadStore.** The application of a fact is `Deliver`, `AppendFact`,
`AppendIndex`, `FlagConflict`, `UpsertDepositedMessage`, `DrainOne`...,
`DrainDone`, or `ApplyMutation`: one step per key-value write. A row keeps what
the properties tell apart: author, text, fingerprint, stamps, reactions. An id
`<<m, a>>` stands for the derived id `m@a` that a second author's message gets.

**GroupRoster, GroupState.** `rows[n][a]` is what node `n` holds of account `a`,
`via[n]` the stamp `joinedViaInviteId`, `invite` the issuers' ledgers, `link`
the peer-links, `net` and `wire` the deposits under way; `info`, `channel`,
`files` are the group record, its channels and the avatar bytes a node keeps.
Each user operation and each handler is one action that changes the node's state
and adds what it sends. Operations that a handler refuses are consumed by `Drop`
and `DropState`. `leavers` and `granted` are history.

**PeerContacts.** Per account: the contact row, the stored request, the end of the
link with its key and its first invite, the inbox, and what its user's call has
left to do; `minted` and `rekeyed` are the cooldown and the window of recovery.
`Tasks` are the continuations of those calls; `Deposited` is the event service
reading the inbox.

**Devices.** `DeviceLink`: `journal` is `PendingCeremonyStore`, `pc` the await of
each ceremony's driver, `bound` and `revoked` are at the home, and `sweep` works
from records it read (`CeremonyRecoveryWorker`). `DeviceActivation`: `activation`
is the journal row, with the code's states; `sync` and `commit` are the awaits at which the two
asynchronous calls stand. `AccountAuthority`: `epoch`, `revokedAt`, `done`,
`lease` and `backing` are the home's, `work` and `drain` the awaits of mutations
and of the publications that share the lease. `AccountSync` and `SiblingSync`:
one inbox per device, in order, whose head is applied again after a crash.

**Desktop.** `DesktopSession`: `op` is the one operation of the screens under
way, at its await; `conn` the connects left running behind an unlock; a row is
the sealed password, the machine-bound copy and the saved password of an
account. `DesktopShell`: `host` and `side` are the program counters of each
launch's shell and sidecar, `lock` the lock file; `queue`, `sent`, `running`,
`back` and `pending` are where a call is; `line`, `dialog` and `answers` where a
prompt is.

**ChatServer.** `HomeSession`'s `con`, `res`, `up` and `owed` are the single-flight
promises and flags of `ServerRuntimeService`, `pool` and `sess` the SDK's side of
the connection; `gap` is history and names the two windows listed below in
which the code calls itself connected without a bind. In `ThreadList`, `lock[t]`
is the queue of the index's writes of one thread, its first element the running
one, `due` the stored messages whose write is not queued yet, `rec` the records,
`tips` the list beside them, `jobs` the calls under way. A window is a record
that each frame, click or rejection maps to another; `mixed` is history of what
a window cannot know: a list built while a row changed, an event said while no
server was attached.

## Runs

Each run checks all safety and liveness properties of its component on one set
of constants. Where a component needs several mixes of misfortunes, the run
starts from several *scenes*: each scene is a set of allowances (how often each
fault, crash, loss or wish may happen), the initial state chooses one, and
within it everything interleaves freely.

| Run | Asks | Bounds |
|---|---|---|
| `durable` | Is everything the cursor passes, and every marker, accounted for; is the inbox a `MailPromise`; is there no false report of an undeliverable message; does everything settle? | a group message in front of its sender's join, 1 fault, 1 crash; retry buffer 1, pages of 2 |
| `outbound` | Is "delivered" true and final, is what is sent on the retry list and proven in the end, is a copy sealed once, does a success cover the set? | gate closed: two messages and no fault, one with expiry, fault and crash, one with loss, throw, legacy ack, unverifiable ack and re-send; gate open: the first publication, an older set served, a crash while a device joins, a failed device and a re-send, a loss with the 72 hours over, an expiry; device sets {d1}, {d1,d2}, {d2} |
| `group` | Are rosters as willed, avatars held, removals final; do members meet and see the same? | 3 accounts, 2 invites; five roster scenes (a kick and a newer invite; one of two leaves; an admin is made and kicks; a cut-short member invites; cut, fault and reconnect), four of titles, avatars and channels, two of them with a kick |
| `peer_contacts` | Is a contact made by consent only, and does a broken link heal? | 2 accounts; four scenes: acts with an invite, a fault and a crash; acts alone; repair from both ends under a fault and a crash, or two faults |
| `device_link` | Does the journal tell the truth, does a confirmed link stand, is an abandoned one revoked? | 1 device, 2 ceremonies, 1 fault, 1 crash |
| `device_activation` | Is a visible device ready, and does it catch up? | 1 contact, 1 edit, 2 faults, 1 crash |
| `account_authority` | Is what is published what the home decided, and is every revocation published? | epoch up to 2, 2 lease cycles, 1 fault |
| `account_sync` | Is what a device takes over sound, and do devices converge? | 2 devices, 1 contact, 2 facts, inventories of 1; one misfortune of each kind at a time |
| `desktop` | Are credentials an account's own, does the server follow the vault, does a timer's lock reach it? | 3 accounts, 2 passwords, 2 connects; 3 scenes from 3 vaults (keychain user, older shell, linked device) |
| `desktop_shell` | Are launches exclusive, calls kept, unlocks confirmed, and is no sidecar orphaned? | 2 launches, 3 calls; scenes of processes, of the channel, of prompts |
| `thread_onethread` | Do all orders of seven facts under one id give the reference projection, with flags, authorship and tombstones right? | 7 facts, 1 repeat, 1 delete, 1 crash, buffer of 5 |
| `chat_server` | Is what the server keeps sound (its sessions with home and account, the counts), do a window's badges match, do sessions heal? | 2 threads, 2 channels, 3 messages; 12 scenes |

The instances are small because the hazards are orders of few things: two
deposits suffice for a gap, a dependency and a page boundary; two messages for
one frame that settles both; two devices for one that fails while the other is
reached, three sets for a device that joins and one that goes; seven facts for
every pair of mutation kinds and both kinds of shared id; three accounts for an
inviter, a forwarder and one who is told. A module takes the code's limits
scaled down, so that they are reached. Counts of faults are spent from bounds
declared as constants; the theorems hold for every value of them. In
`thread_onethread` buffers never fill up, and neither does any in the code
short of 64 early mutations of one message: the eviction is in the model and
covered by the proofs only. `CHECK_DEADLOCK FALSE` appears where the bounds let
the system come to rest. Mixes beyond a scene are covered by the proofs where
there are any.

### Fairness

Weak fairness is assumed of what the event loop or a timer runs: continuations
of awaits, queued jobs, drains, sweeps, the catch-up timer, backoffs, leases,
redials. Nothing is assumed of arrivals of new work, of faults, crashes, losses
or users. The exceptions, each with its reason:

- Strong fairness only where an event recurs but may find the process busy:
  `DeviceFanout` (a sweep begins for each due row, a copy on the network arrives
  and its ack is handled, the network being lossy within the bound but not
  closed), `SiblingSync.Announce` (a digest on each connect),
  `DeviceActivation.SyncAgain` (each connect).
- `DeviceFanout` also assumes that time passes: a cached copy ages out after 72
  hours. Without it a device marked as delivered is never retried.
- `GroupRoster`, `GroupState`: connections come back, so `ReconcileMesh` and
  `RequestSync` recur; an inbox is drained, so what comes from a given sender is
  read in the end.
- `AttendedSpec` of `DeviceLink`: the new device answers. What is left
  unattended expires.

## Proofs

All theorems are for any values of the constants and unbounded behaviours. Each
rests on an inductive invariant that TLC checked first.

- `DurableInbox_proofs`. `Inductive`: `NoSilentPrune` and `MarkerIsDurable` are
  the purpose; `WorkBacked` (what a running job believes is durable),
  `RepliesBacked` (an ack-safe result under way rests on durable state) and
  `DrainBacked` (the watermark covers only such deposits) are why: the cursor
  trusts a result computed several awaits earlier. Hence `PruneSafe`,
  `MarkerSafe`, `CoveredSafe`. `Refines` proves `KeepsPromise`: `TrailIsTrue`
  ties the fate of each deposit to the pipeline's step, and each action moves a
  fate along or not at all. `PoisonIsTrue` proves `NoFalsePoison` by counting
  where a readable deposit can be between push and drain (`DrainIsInOrder`,
  `ReadOnce`, `AllIsRead`).
  About `ChatServer`: `ServerInv` has a part per module. Of the home: a first
  connect and a restore are never in flight together (`OneBinds`), a bind past
  its claim or its device has done it on this transport (`BindsInOrder`), and
  none outlives its transport (`NoneIsStranded`), so that what the app is told at
  the end of a bind is true. Of the index: a record is exact about every stored
  message but those whose write is still to come (`RowsAreExact`); for that one
  write of a thread runs at a time (`OneRuns`) and the running one has read every
  message that no later write brings (`ReadsAreWhole`). At rest nothing is to
  come, and the counts are exact: `ServerAlways`, `ServerSound`.
- `OutboundMessages_proofs`, about `FanSpec`, gate open or closed, any number of
  devices and sets. The steps of an open gate are of five kinds (`Kinds`): a
  step of the one-copy sender; one that leaves its variables alone but for the
  allowances; a report to the caller; a store at a recipient; a frame of an
  inbox. Whatever the five preserve is therefore proved once for both. The
  fan-outs have an invariant of their own (`FanInductive`): a fan-out runs for a
  call or a sweep that waits for it (`FansAreCalled`), what it calls done was
  handed over (`DoneIsHanded`), what was sealed is in the cache and nobody seals
  it again (`SealedIsCached`); from it `SealedOnceAlways` and `WholeSuccess`.
  `Inductive` with `EvidenceIsReal` (each ack under way, checked or half handled
  is of a message a device stored) makes `DeliveredReal`; `DeliveredFinal` is an
  action property; `OnRetryList` rests on `InFlight` and `Settling`: frames reach
  a row only while or after its own send settles it, and that send opens its
  pending-commit row next.
- `ThreadStore_proofs`. `AuthorsOwnRows` and `DeletedForGood` from the keyed
  buffer; `ConflictsAreFlagged` from `FlagInv`, for fingerprints that differ when
  the texts do (`FingerprintAssumption`); `RowsConverge` from `FoldInv`, which
  says what a row and its buffer show at each of the writes of an operation. It
  rests on two conditions: no buffer fills up (`BuffersHaveRoom`) and an author's
  edits of one message bear distinct stamps (`StampsTellEdits`).
- `GroupRoster_proofs`. Every step changes a row by one of five moves or not at all, each with
  its justification (`RowMove`); the moves alone keep the row invariants
  (`MovesKeepRows`) and bring nobody back uninvited (`MovesReturnInvited`). Per
  action it remains to name the move and to show that what it sends is true
  (`WireIsTrue`), since rows are written from the wire. Theorems `Inductive`,
  `NobodyUnasked`, `CreatorSafe`, `AdminsGranted`, `RosterSound`,
  `NobodyResurrected`; for `GroupState`, `RosterImplemented` (the refinement, by
  which all of these hold of the composition) and `AvatarHeld`.
- `DeviceLink_proofs`. One invariant per ceremony relates journal row, request,
  the sweep's copy and the home's registration; hence `JournalTrue` and the
  action-by-action `ConfirmedStandsAlways`.
  About `DeviceActivation`: a commit writes in one order (claim, pointer, bundle,
  activity), and `ActivationInv` says which of these stand at each of its awaits
  (`CommitStands`), and that a device set lists the device only after its bundle;
  whatever a crash leaves is therefore fit to start from: `ActivationInductive`,
  `SeenWhenReady`.
- `AccountAuthority_proofs`. What a drain read, at which epoch, under which
  lease, and what it may therefore put: `Inductive`, `PublicationSound`.
  About `PeerContacts`: an invite travels through codes, links, requests, tasks
  and inboxes before it may make a contact, so `ConsentInv` follows it through
  all of them (`InvitesAsked`: it is one the mesh minted, or its user consented)
  and ties an outgoing request to its user's wish (`Intents`):
  `ConsentInductive`, `ContactsTyped`, `ConsentAlways`.
  About `AccountDevices`: an event keeps in the call, the retry queue and the
  inbox what its user asked for (`CallsAreAsked`), and waits at the head of the
  box until it is applied whole, the relationship before the contact
  (`HeadIsDecryptable`); a fact is appended only after its own check
  (`CheckedIsVetted`), though the checks of a message's facts go on while others
  arrive: `DevicesAlways`, `TakenOverSound`.
- `DesktopSession_proofs`. `Inductive` and `CredentialsOwn` about the vault;
  `ServerInductive` with `RunInv` (what an open connect will boot is the unlocked
  account or awaits the timer's handler) for `ServerIsTheirs`.
- `DesktopShell_proofs`. `LaunchInv`, `CallInv` and `AskInv` are independent
  parts, one per theorem: `LaunchesExclusive`, `CallsKept`, `UnlockConfirmed`.

Assumptions are the named `ASSUME`s on constants in the modules; TLC evaluates
them in every run.

Only model-checked:

- Liveness, which TLAPS cannot do: `InboxSettles`, `SentIsProven`,
  `MembersMeet`, `StateSpreads`, `AbandonedIsRevoked`, `RevocationsArePublished`,
  `DevicesConverge`, `DeviceCatchesUp`, `LinkHeals`, `LockReachesServer`,
  `NoOrphan`, `SessionsHeal`.
- `BadgeMatches`, the one safety property without a theorem: a window makes its
  rows by folding the events it held back over a list and taking back rejected
  clicks, and what a fold computes for every sequence is an induction over data,
  which the provers cannot do here. The counts it is compared with are proved.

## Where code and documents differ

Met while modelling. Each model follows the code; none of the properties above
claims what the document says in these places. (Paths are relative to `src/src`
unless they begin with `test`.)

Messages:

- A group message held back for its sender's join is acked while it exists in
  memory only (`ServerEventService.js:362`); a crash before the join loses it,
  against `InboxCatchupService.js:336`. A message given up as undeliverable may
  still be delivered from the held copy.
- While a handshake is late, the drain can count an attempt against a message
  the re-feed has just delivered and report it; `NoFalsePoison` is therefore
  about established sessions.
- A legacy ack handled between the dispatch and the pending-commit write calls
  an unproven signed message delivered (`ServerMessagesService.js:1125`, against
  `:1119`).
- A crash between the "sent" status and the pending-commit row leaves a message
  nothing retries (`:513`); a proof that arrives after the queue gave up is used
  up without settling the row (`:1294`, `:1390`); retries of a pending row have
  no end.
- A crash between a message's insert and the drain of its buffered edit leaves
  the edit in the buffer for ever (`ChatThreadStore.js:662`, against
  `ChatMessageEditPayloadV1.js:5`).
- A failed or missed dedup mark makes a delivered message look undeliverable
  later (`InboundDepositPipeline.js:345`); a poison entry is dropped before its
  notice is emitted (`:428`).

Device fan-out:

- A retry skips devices marked as delivered to, so with the gate open a copy that
  was lost or expired is sent again only when its cache entry is 72 hours old,
  against the comments at `ServerMessagesService.js:1317` and `:1400`.
- The retry's invalidation drops the known revision with the set, so an older
  set is then accepted, against the comment at `ServerDeviceSetService.js:297`.
- A send and the sweep that overlap both miss the cache and seal twice.
- A copy that expires after another inbox delivered is dropped silently; after a
  restart a queued message is tracked under the thread's inbox only.

Groups:

- A rename stores the receiver's clock (`ServerGroupOpApplier.js:218`), against
  `GroupOpPayloadV1.js:20`: of two renames drained late the first wins.
- A kick that arrives before the join of the one kicked changes nothing
  (`ChatGroupStore.js:263`); a re-invited member is revived by the inviter alone
  (`ServerGroupOpApplier.js:586`).
- A deleted channel or a cleared avatar returns from a member that still has it
  (`ChatChannelStore.js:74`), against the comment at
  `ServerChannelsService.js:257` that the replay is a no-op.

Contacts and account:

- Unblocking writes `active` whatever the row was
  (`ServerContactsService.js:145`), so a requester blocked before an answer
  becomes a contact; of two crossing requests the peer's overwrites the row of
  one's own (`:353`). A replicated upsert sets a contact active, so a sibling's
  reconciliation can unblock it (`ServerAccountStateSyncService.js:756`).
- Signed facts of one's own never land on a sibling for direct threads, whose
  gate requires the thread's peer as the sender (`ServerEventService.js:335`,
  against `ServerSiblingSyncService.js:18`).
- The wait for a person's approval has no deadline, and the sweep is deferred as
  long as a ceremony waits (`ServerDeviceLinkService.js:352`); the recovery
  worker publishes the stored response of any pending row, one that was never
  registered included (`CeremonyRecoveryWorker.js:144`, against
  `test/server.device-link.service.test.js:392`).
- The horizon of the baseline marker is compared with the highest number seen,
  not with what was applied (`ServerDeviceActivationService.js:157`, against
  `test/server.device-activation.test.js:141`): a device may be READY without a
  contact whose send or apply failed.

Desktop, server and windows:

- A lock during a connect leaves the server the connect then boots
  (`DesktopSupervisor.js:475`, against `:240` and
  `test/desktop.vault-lock-fail-closed.test.js:9`). `stopChatServer` forgets its
  server before it awaits the stop and swallows a failure (`index.js:228`);
  `purgeAccount` wipes the chat data before the vault verifies the password
  (`DesktopSupervisor.js:437`).
- A first connect whose dial succeeded and whose bind failed is not run again
  before `ensureLive` (`ServerRuntimeService.js:408`, against
  `ChatServerApp.js:191`); a bind may go on over a transport that is lost
  (against the comment at `ServerRuntimeService.js:174`); a disconnect during the
  first connect only clears the pending flag, and the connect goes on (`:635`).
- An event of the index that is said while no server is attached reaches no
  window, and a window that stayed open does not list again when one is
  attached; its badge is old until the next event of the thread.
- Two writes of the list of threads lose one of them
  (`ChatThreadIndex.js:158`); setting a thread's state zeroes its badge
  (`ThreadsService.js:236`); a failed `markRead` leaves the badge cleared.

## What is not modelled

- Encryption, X3DH, the ratchet, the node, the mesh, the keychain and the
  operating system are external; the models say what they do: a ciphertext opens
  once, in a session; the node keeps a log and a monotonic cursor; an invite
  admits so many accounts for so long.
- `InboundPipeline`: the drain's halt on an item without a sequence number. The
  legacy drain and the legacy push branch (nodes without a durable log).
- `OutboundMessages`, `DeviceFanout`: group fan-out, images, the sending of edits
  and reactions; failures of row writes other than the fact's. A sealing that is
  lost before it is cached counts as none: nothing leaves, but the sender's
  ratchet has advanced. The answer to a device handshake and the snapshot of the
  device roster are left out.
- `ThreadStore`: storage faults, the cap of rows per thread, paging. The order of
  adds and removes of one reaction is kept as the code has it and nothing is
  claimed of it.
- `GroupRoster`, `GroupState`: names; the thread's locked state, system messages
  and events; the handshake after an introduction; handlers are atomic, so
  neither the await between the authorisation of a join and its revival nor the
  read-then-write of the catch-up's title is split; each operation is compared
  as a value, so two equal ones under way are one.
- Desktop: ciphers, file formats, the update of the application itself.
- File transfer, profile, diagnostics, the link adapter, views, the mobile and
  Electron shells, packaging: see the notes in `PROJECT.json`.

## Plan

Every safety property that a run checks has a theorem, but for `BadgeMatches`.
Modelled next: the legacy drain on the same pipeline, the eviction of held-back
group messages as a property of its own, and file transfer.
