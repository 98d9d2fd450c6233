--------------------------- MODULE DeviceActivation ---------------------------
(***************************************************************************)
(* The activation of a device that was linked: it stays invisible until an  *)
(* established device has sent it the account's contacts (the baseline) and *)
(* it has an inbox of its own; the publication of its bundle commits         *)
(* (ServerDeviceActivationService, DeviceActivationJournal,                 *)
(* PortableInboxEstablisher, activateDelegatedDevice, the baseline part of  *)
(* ServerAccountStateSyncService).                                          *)
(*                                                                         *)
(* External: the home, which lists the devices whose bundle was published,  *)
(* and the two inboxes of the new device.  What established devices send    *)
(* each other is the subject of AccountSync.                                *)
(***************************************************************************)
EXTENDS Naturals, Sequences, FiniteSets

CONSTANTS Contacts,
          MaxInboxes,   \* bound: inbox claims that are ever made
          MaxEdits,     \* bound: contacts made at the established device
          MaxFailures,  \* bound: calls that fail
          MaxDeaths

ASSUME ActivationBounds ==
    /\ MaxInboxes \in Nat \ {0}
    /\ {MaxEdits, MaxFailures, MaxDeaths} \subseteq Nat

VARIABLES
    contacts, lamport,   \* of the established device
    loop,                \* its baseline: the await at which it stands
    request,             \* a baseline was asked for and not answered
    boot, portable,      \* the inboxes of the new device
    up,                  \* the runtime that runs on the new device
    activation,          \* on its disk: the activation journal,
    got, seen,           \* the contacts, the highest number applied,
    claims, pointer,     \* the inbox claims, the one of them it lives at
    sync, commit,        \* the awaits at which sync and commit stand
    bundle,              \* at the home: the inbox its bundle names, or Boot
    owed,                \* history: the contacts of the baseline it accepted
    edits, failures, deaths

senderVars == <<contacts, lamport, loop>>
inboxVars == <<boot, portable>>
diskVars == <<activation, got, seen, claims, pointer>>
boundVars == <<edits, failures, deaths>>
activationVars == <<senderVars, request, inboxVars, up, diskVars, sync, commit,
                    bundle, owed, boundVars>>

Boot == 0                       \* the inbox of the ceremony
Inboxes == 1 .. MaxInboxes
ActivationStates == {"none", "BOOTSTRAPPING", "READY", "ACTIVE"}
NoLoop == [step |-> "idle", todo |-> {}, of |-> {}, horizon |-> 0]
Upsert(c, lam) == [op |-> "upsert", c |-> c, lam |-> lam, horizon |-> 0, of |-> {}]
Marker(lam, h, of) == [op |-> "marker", c |-> "none", lam |-> lam, horizon |-> h,
                       of |-> of]
IsEvent(e) ==
    /\ e.op \in {"upsert", "marker"} /\ e.lam \in Nat \ {0} /\ e.horizon \in Nat
    /\ e.op = "upsert" => e.c \in Contacts
    /\ e.of \subseteq Contacts

ActivationTypeOK ==
    /\ contacts \subseteq Contacts /\ lamport \in Nat
    /\ loop \in [step : {"idle", "send", "horizon", "marker"},
                 todo : SUBSET Contacts, of : SUBSET Contacts, horizon : Nat]
    /\ request \in BOOLEAN
    /\ \A i \in DOMAIN boot : IsEvent(boot[i])
    /\ \A i \in DOMAIN portable : IsEvent(portable[i])
    /\ up \in {"off", "enrolling", "steady"}
    /\ activation \in ActivationStates /\ got \subseteq Contacts
    /\ seen \in 0 .. lamport
    /\ claims \subseteq Inboxes /\ pointer \in claims \cup {Boot}
    /\ sync \in {"idle", "asked", "listed", "unlisted"}
    /\ commit \in {"no", "establish", "point", "lease", "publish", "republish",
                   "mark"}
    /\ bundle \in Inboxes \cup {Boot}
    /\ owed \subseteq Contacts
    /\ edits \in 0 .. MaxEdits /\ failures \in 0 .. MaxFailures
    /\ deaths \in 0 .. MaxDeaths

\* The ceremony is over, and its approver pushes a baseline.
ActivationInit ==
    /\ contacts \in SUBSET Contacts /\ lamport = 0 /\ loop = NoLoop
    /\ request = TRUE
    /\ boot = <<>> /\ portable = <<>>
    /\ up = "off" /\ activation = "none" /\ got = {} /\ seen = 0
    /\ claims = {} /\ pointer = Boot
    /\ sync = "idle" /\ commit = "no" /\ bundle = Boot
    /\ owed = {} /\ edits = 0 /\ failures = 0 /\ deaths = 0

CallFails == failures < MaxFailures /\ failures' = failures + 1
CallWorks == UNCHANGED failures

-----------------------------------------------------------------------------
(* The established device.                                                  *)

Published == bundle # Boot
ToPortable(es) == portable' = IF Published THEN portable \o es ELSE portable

\* A contact is made: its event goes to the siblings that have a bundle.
NewContact(c) ==
    /\ edits < MaxEdits /\ edits' = edits + 1
    /\ c \notin contacts
    /\ contacts' = contacts \cup {c} /\ lamport' = lamport + 1
    /\ ToPortable(<<Upsert(c, lamport')>>)
    /\ UNCHANGED <<loop, request, boot, up, diskVars, sync, commit, bundle,
                   owed, failures, deaths>>

\* The reconciliation of a later connect.
Reconcile(c) ==
    /\ Published /\ c \in contacts \ got
    /\ portable = <<>>
    /\ lamport' = lamport + 1
    /\ ToPortable(<<Upsert(c, lamport')>>)
    /\ UNCHANGED <<contacts, loop, request, boot, up, diskVars, sync, commit,
                   bundle, owed, boundVars>>

\* sendActivationBaseline: the contacts are listed once; a request that comes
\* while the last baseline is under way is throttled.
AnswerRequest ==
    /\ request /\ request' = FALSE
    /\ loop' = IF loop.step = "idle" /\ boot = <<>>
               THEN [NoLoop EXCEPT !.step = "send", !.todo = contacts,
                                   !.of = contacts]
               ELSE loop
    /\ UNCHANGED <<contacts, lamport, inboxVars, up, diskVars, sync, commit,
                   bundle, owed, boundVars>>

\* One contact, straight to the bootstrap inbox; a direct send that fails is
\* not queued.
SendContact(c) ==
    /\ loop.step = "send" /\ c \in loop.todo
    /\ lamport' = lamport + 1
    /\ loop' = [loop EXCEPT !.todo = @ \ {c}]
    /\ \/ boot' = Append(boot, Upsert(c, lamport')) /\ CallWorks
       \/ UNCHANGED boot /\ CallFails
    /\ UNCHANGED <<contacts, request, portable, up, diskVars, sync, commit,
                   bundle, owed, edits, deaths>>

\* The horizon is the number of the last event, whoever it was for.
TakeHorizon ==
    /\ loop.step = "send" /\ loop.todo = {}
    /\ loop' = [loop EXCEPT !.step = "marker", !.horizon = lamport]
    /\ UNCHANGED <<contacts, lamport, request, inboxVars, up, diskVars, sync,
                   commit, bundle, owed, boundVars>>

SendMarker ==
    /\ loop.step = "marker"
    /\ lamport' = lamport + 1 /\ loop' = NoLoop
    /\ \/ /\ boot' = Append(boot, Marker(lamport', loop.horizon, loop.of))
          /\ CallWorks
       \/ UNCHANGED boot /\ CallFails
    /\ UNCHANGED <<contacts, request, portable, up, diskVars, sync, commit,
                   bundle, owed, edits, deaths>>

-----------------------------------------------------------------------------
(* The new device: its runtimes.                                            *)

\* activateDelegatedDevice, until the journal says ACTIVE.
StartEnrolling ==
    /\ up = "off" /\ activation # "ACTIVE"
    /\ up' = "enrolling" /\ sync' = "asked"
    /\ UNCHANGED <<senderVars, request, inboxVars, diskVars, commit, bundle,
                   owed, boundVars>>

\* The wait is over: the enrollment runtime stops, whatever it still does.
StopEnrolling ==
    /\ up = "enrolling" /\ activation = "ACTIVE"
    /\ up' = "off" /\ sync' = "idle" /\ commit' = "no"
    /\ UNCHANGED <<senderVars, request, inboxVars, diskVars, bundle, owed,
                   boundVars>>

\* prepareDelegatedCoreBoot refuses to boot without a portable inbox.
StartSteady ==
    /\ up = "off" /\ activation = "ACTIVE"
    /\ pointer # Boot /\ pointer \in claims
    /\ up' = "steady"
    /\ UNCHANGED <<senderVars, request, inboxVars, diskVars, sync, commit,
                   bundle, owed, boundVars>>

\* The retry of the wait, every ten seconds.
SyncAgain ==
    /\ up = "enrolling" /\ sync = "idle" /\ activation # "ACTIVE"
    /\ sync' = "asked"
    /\ UNCHANGED <<senderVars, request, inboxVars, up, diskVars, commit, bundle,
                   owed, boundVars>>

\* syncWithNetwork: the device set of the home, read before the journal.
ReadDeviceSet ==
    /\ sync = "asked"
    /\ \/ sync' = (IF Published THEN "listed" ELSE "unlisted") /\ CallWorks
       \/ sync' = "idle" /\ CallFails
    /\ UNCHANGED <<senderVars, request, inboxVars, up, diskVars, commit, bundle,
                   owed, edits, deaths>>

\* #commit: one at a time.
StartCommit == commit' = IF commit = "no" THEN "establish" ELSE commit

\* Mutant: only the first sync asks.
AsksOnce == activation = "none"
\* A baseline is asked for on every sync of a bootstrapping device.
AsksBaseline == activation \in {"none", "BOOTSTRAPPING"}

\* The network's truth wins; READY is resumed; otherwise a baseline is asked.
Converge ==
    /\ sync \in {"listed", "unlisted"} /\ sync' = "idle"
    /\ \/ /\ sync = "listed" /\ activation' = "ACTIVE" /\ CallWorks
          /\ UNCHANGED <<request, commit>>
       \/ /\ sync = "unlisted" /\ activation = "ACTIVE" /\ CallWorks
          /\ UNCHANGED <<request, commit, activation>>
       \/ /\ sync = "unlisted" /\ activation = "READY" /\ CallWorks
          /\ StartCommit /\ UNCHANGED <<request, activation>>
       \/ /\ sync = "unlisted" /\ activation \in {"none", "BOOTSTRAPPING"}
          /\ activation' = "BOOTSTRAPPING"
          /\ \/ request' = (request \/ AsksBaseline) /\ CallWorks
             \/ UNCHANGED request /\ CallFails
          /\ UNCHANGED commit
    /\ UNCHANGED <<senderVars, inboxVars, up, got, seen, claims, pointer, bundle,
                   owed, edits, deaths>>

-----------------------------------------------------------------------------
(* What arrives.                                                            *)

\* The bootstrap inbox is drained while enrolling, the portable one after.
Box == IF up = "enrolling" THEN boot ELSE portable
Receives == up # "off" /\ commit = "no" /\ Box # <<>>
Done == IF up = "enrolling" THEN boot' = Tail(boot) /\ UNCHANGED portable
        ELSE portable' = Tail(portable) /\ UNCHANGED boot

ApplyContact ==
    /\ Receives /\ Head(Box).op = "upsert"
    /\ Done
    /\ \/ /\ Head(Box).lam > seen /\ CallWorks
          /\ got' = got \cup {Head(Box).c} /\ seen' = Head(Box).lam
       \/ Head(Box).lam > seen /\ CallFails /\ UNCHANGED <<got, seen>>
       \/ Head(Box).lam <= seen /\ CallWorks /\ UNCHANGED <<got, seen>>
    /\ UNCHANGED <<senderVars, request, up, activation, claims, pointer, sync,
                   commit, bundle, owed, edits, deaths>>

\* onBaselineComplete: everything up to the horizon must have been applied.
Complete(e) == activation = "BOOTSTRAPPING" /\ seen >= e.horizon

\* A marker that is accepted leads to the commit, which the inbox waits for.
ApplyMarker ==
    /\ Receives /\ Head(Box).op = "marker" /\ Done
    /\ IF Head(Box).lam > seen
       THEN /\ seen' = Head(Box).lam
            /\ IF Complete(Head(Box))
               THEN /\ activation' = "READY" /\ owed' = Head(Box).of
                    /\ StartCommit
               ELSE UNCHANGED <<activation, owed, commit>>
       ELSE UNCHANGED <<seen, activation, owed, commit>>
    /\ UNCHANGED <<senderVars, request, up, got, claims, pointer, sync, bundle,
                   boundVars>>

-----------------------------------------------------------------------------
(* The commit: an inbox of its own, the bundle, the peers, the journal.     *)

CommitFails == commit' = "no"

\* Mutant: every commit claims an inbox.
ClaimAgain ==
    /\ commit = "establish"
    /\ \E i \in Inboxes \ claims : claims' = claims \cup {i} /\ commit' = "point"
    /\ UNCHANGED <<senderVars, request, inboxVars, up, activation, got, seen,
                   pointer, sync, bundle, owed, boundVars>>

\* The claim is durable before anything names it.
PersistClaim ==
    /\ commit = "establish"
    /\ IF pointer # Boot
       THEN commit' = "lease" /\ UNCHANGED claims
       ELSE \E i \in Inboxes \ claims :
               /\ claims' = claims \cup {i} /\ commit' = "point"
    /\ UNCHANGED <<senderVars, request, inboxVars, up, activation, got, seen,
                   pointer, sync, bundle, owed, boundVars>>

SetPointer ==
    /\ commit = "point"
    /\ \E i \in claims : (\A j \in claims : j <= i) /\ pointer' = i
    /\ commit' = "lease"
    /\ UNCHANGED <<senderVars, request, inboxVars, up, activation, got, seen,
                   claims, sync, bundle, owed, boundVars>>

\* The claim is registered at the provider.
Registers == commit' = "publish" /\ CallWorks

\* Without a lease nothing leaves.
RegisterClaim ==
    /\ commit = "lease"
    /\ \/ Registers
       \/ CommitFails /\ CallFails
    /\ UNCHANGED <<senderVars, request, inboxVars, up, diskVars, sync, bundle,
                   owed, edits, deaths>>

\* The one externally visible step; its answer may be lost.
PublishBundle ==
    /\ commit = "publish"
    /\ \/ bundle' = pointer /\ commit' = "republish" /\ CallWorks
       \/ bundle' \in {bundle, pointer} /\ CommitFails /\ CallFails
    /\ UNCHANGED <<senderVars, request, inboxVars, up, diskVars, sync, owed,
                   edits, deaths>>

Republish ==
    /\ commit = "republish"
    /\ \/ commit' = "mark" /\ CallWorks
       \/ CommitFails /\ CallFails
    /\ UNCHANGED <<senderVars, request, inboxVars, up, diskVars, sync, bundle,
                   owed, edits, deaths>>

MarkActive ==
    /\ commit = "mark" /\ commit' = "no"
    /\ activation' = "ACTIVE"
    /\ UNCHANGED <<senderVars, request, inboxVars, up, got, seen, claims,
                   pointer, sync, bundle, owed, boundVars>>

\* The new device dies, or the established one does.
Dies ==
    /\ deaths < MaxDeaths /\ deaths' = deaths + 1
    /\ \/ /\ up' = "off" /\ sync' = "idle" /\ commit' = "no" /\ UNCHANGED loop
       \/ loop' = NoLoop /\ UNCHANGED <<up, sync, commit>>
    /\ UNCHANGED <<contacts, lamport, request, inboxVars, diskVars, bundle, owed,
                   edits, failures>>

-----------------------------------------------------------------------------
Sending == (\E c \in loop.todo : SendContact(c)) \/ TakeHorizon \/ SendMarker
Runtime == StartEnrolling \/ StopEnrolling \/ StartSteady
Sync == SyncAgain \/ ReadDeviceSet \/ Converge
Commit ==
    \/ PersistClaim \/ SetPointer \/ RegisterClaim \/ PublishBundle \/ Republish
    \/ MarkActive

ActivationNext ==
    \/ \E c \in Contacts : NewContact(c) \/ Reconcile(c)
    \/ AnswerRequest \/ Sending \/ Runtime \/ Sync \/ ApplyContact \/ ApplyMarker
    \/ Commit
    \/ Dies

ActivationSpec == ActivationInit /\ [][ActivationNext]_activationVars

\* Both devices are run again when they stop, and connect again and again.
FairActivationSpec ==
    /\ ActivationSpec
    /\ WF_activationVars(AnswerRequest) /\ WF_activationVars(Sending)
    /\ WF_activationVars(Runtime) /\ SF_activationVars(SyncAgain)
    /\ WF_activationVars(ReadDeviceSet \/ Converge)
    /\ WF_activationVars(ApplyContact \/ ApplyMarker) /\ WF_activationVars(Commit)
    /\ WF_activationVars(\E c \in Contacts : Reconcile(c))

-----------------------------------------------------------------------------
(* Properties.                                                              *)

\* Nobody sees the device before a baseline was accepted, and what they see is
\* the inbox it lives at, with its claim on disk, never that of the ceremony.
PublishedIsReady ==
    Published => /\ activation \in {"READY", "ACTIVE"}
                 /\ bundle = pointer /\ pointer \in claims

\* A device whose journal says ACTIVE can be seen.
ActiveIsPublished == activation = "ACTIVE" => Published

\* The device is seen when its journal says so, and where it lives.
VisibleIsReady == PublishedIsReady /\ ActiveIsPublished

\* However it is interrupted, the device is activated in the end, and has the
\* contacts the account has.
DeviceCatchesUp == []<>(activation = "ACTIVE" /\ contacts \subseteq got)
=============================================================================
