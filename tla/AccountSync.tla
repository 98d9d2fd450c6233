------------------------------ MODULE AccountSync ------------------------------
(***************************************************************************)
(* The account that talks to itself: the devices of one account keep their  *)
(* contacts alike (ServerAccountStateSyncService, and what                  *)
(* ServerContactsService and ServerEventService hand to it).  A device that *)
(* changes a contact sends an event to its siblings, numbered per origin;   *)
(* a sibling applies what is newer than all it has seen of that origin; a   *)
(* send that fails is queued; and every connect sends all active contacts   *)
(* once more.                                                               *)
(*                                                                         *)
(* External: the sibling's durable inbox, which keeps the order of arrival  *)
(* and delivers the head again until it is done with.                       *)
(***************************************************************************)
EXTENDS Naturals, Sequences, FiniteSets

CONSTANTS Pair,          \* two devices of the account, both established
          Contacts,
          MaxAttempts,   \* tries of a queued event (the code: 8)
          MaxEdits,      \* bound: changes made by a user
          MaxRounds,     \* bound: reconciliations nobody needed
          MaxErrors,     \* bound: calls that fail
          MaxStops

ASSUME DevicesAssumption == IsFiniteSet(Pair) /\ Cardinality(Pair) = 2
ASSUME SyncBounds ==
    /\ MaxAttempts \in Nat \ {0}
    /\ {MaxEdits, MaxRounds, MaxErrors, MaxStops} \subseteq Nat

VARIABLES
    row,        \* per device: the relationship state of each contact
    rel,        \* per device: the contacts whose peer link it can decrypt with
    lamport,    \* per device: the number of the last event it made
    calls,      \* per device: replicate() calls that are not over
    queued,     \* per device: events whose dispatch failed, on disk
    inbox,      \* per device: events of its sibling, in the order of arrival
    seen,       \* per device: the highest number applied of its sibling
    applying,   \* per device: how far the head of the inbox is applied
    loop,       \* per device: the reconciliation that runs
    asked,      \* history: removals a user of a device asked for
    edits, rounds, errors, stops

localVars == <<row, rel>>
sendVars == <<lamport, calls, queued>>
applyVars == <<seen, applying>>
syncBoundVars == <<edits, rounds, errors, stops>>
syncVars == <<localVars, sendVars, inbox, applyVars, loop, asked, syncBoundVars>>

Twin(d) == CHOOSE e \in Pair : e # d
RowStates == {"none", "active", "blocked"}
Ops == {"upsert", "remove"}
NoLoop == [on |-> FALSE, todo |-> {}]
\* A call that has no number yet has the number 0; id 0: of the loop.
IsCall(k) == /\ k.op \in Ops /\ k.c \in Contacts
             /\ k.lam \in Nat /\ k.id \in 0 .. MaxEdits
IsEvent(e) == e.op \in Ops /\ e.c \in Contacts /\ e.lam \in Nat \ {0}

SyncTypeOK ==
    /\ row \in [Pair -> [Contacts -> RowStates]]
    /\ rel \in [Pair -> SUBSET Contacts]
    /\ lamport \in [Pair -> Nat] /\ seen \in [Pair -> Nat]
    /\ \A d \in Pair :
          /\ \A k \in calls[d] : IsCall(k) /\ k.lam <= lamport[d]
          /\ \A q \in queued[d] :
                IsEvent(q.event) /\ q.attempts \in 0 .. MaxAttempts - 1
          /\ \A i \in DOMAIN inbox[d] : IsEvent(inbox[d][i])
          /\ seen[d] <= lamport[Twin(d)]
    /\ applying \in [Pair -> {"no", "contact", "seen"}]
    /\ loop \in [Pair -> [on : BOOLEAN, todo : SUBSET Contacts]]
    /\ asked \subseteq Pair \X Contacts
    /\ edits \in 0 .. MaxEdits /\ rounds \in 0 .. MaxRounds
    /\ errors \in 0 .. MaxErrors /\ stops \in 0 .. MaxStops

SyncInitWith(e, r, f, c) ==
    /\ row = [d \in Pair |-> [x \in Contacts |-> "none"]]
    /\ rel = [d \in Pair |-> {}]
    /\ lamport = [d \in Pair |-> 0] /\ seen = [d \in Pair |-> 0]
    /\ calls = [d \in Pair |-> {}] /\ queued = [d \in Pair |-> {}]
    /\ inbox = [d \in Pair |-> <<>>]
    /\ applying = [d \in Pair |-> "no"]
    /\ loop = [d \in Pair |-> NoLoop]
    /\ asked = {} /\ edits = e /\ rounds = r /\ errors = f /\ stops = c
SyncInit == SyncInitWith(0, 0, 0, 0)

Errs == errors < MaxErrors /\ errors' = errors + 1
NoError == UNCHANGED errors

-----------------------------------------------------------------------------
(* What the user does, and the events it makes: fired and forgotten.        *)

SetRow(d, c, state) == row' = [row EXCEPT ![d][c] = state]
Replicate(d, op, c, id) ==
    calls' = [calls EXCEPT ![d] = @ \cup {[op |-> op, c |-> c, lam |-> 0,
                                           id |-> id]}]
Edit == edits < MaxEdits /\ edits' = edits + 1

\* A peer link is established: the contact, and an event with the relationship.
Connect(d, c) ==
    /\ Edit /\ row[d][c] = "none"
    /\ SetRow(d, c, "active")
    /\ rel' = [rel EXCEPT ![d] = @ \cup {c}]
    /\ Replicate(d, "upsert", c, edits')
    /\ UNCHANGED <<lamport, queued, inbox, applyVars, loop, asked, rounds,
                   errors, stops>>

\* The loop guard of deleteContact: a removal of the user's is replicated.
Echoes(fromSync) == ~fromSync

DeleteRow(d, c, fromSync) ==
    /\ SetRow(d, c, "none")
    /\ IF row[d][c] # "none" /\ Echoes(fromSync)
       THEN Replicate(d, "remove", c, IF fromSync THEN 0 ELSE edits')
       ELSE UNCHANGED calls

DeleteContact(d, c) ==
    /\ Edit /\ row[d][c] # "none"
    /\ DeleteRow(d, c, FALSE)
    /\ asked' = asked \cup {<<d, c>>}
    /\ UNCHANGED <<rel, lamport, queued, inbox, applyVars, loop, rounds,
                   errors, stops>>

\* Blocking stays on the device.
Block(d, c) ==
    /\ Edit
    /\ \/ row[d][c] = "active" /\ SetRow(d, c, "blocked")
       \/ row[d][c] = "blocked" /\ SetRow(d, c, "active")
    /\ UNCHANGED <<rel, sendVars, inbox, applyVars, loop, asked, rounds,
                   errors, stops>>

-----------------------------------------------------------------------------
(* replicate: the targets and the number, then the dispatch.                *)

Forget(d, k) == calls[d] \ {k}

\* The number is taken from the chain; no targets, or no signature: no event.
NextLamport(d, k) ==
    /\ k.lam = 0
    /\ \/ /\ NoError
          /\ lamport' = [lamport EXCEPT ![d] = @ + 1]
          /\ calls' = [calls EXCEPT
                          ![d] = Forget(d, k) \cup {[k EXCEPT !.lam = lamport'[d]]}]
       \/ Errs /\ UNCHANGED lamport /\ calls' = [calls EXCEPT ![d] = Forget(d, k)]
    /\ UNCHANGED <<localVars, queued, inbox, applyVars, loop, asked, edits,
                   rounds, stops>>

Event(k) == [op |-> k.op, c |-> k.c, lam |-> k.lam]
DepositEvent(d, e) == inbox' = [inbox EXCEPT ![Twin(d)] = Append(@, e)]
StashPending(d, e) ==
    queued' = [queued EXCEPT ![d] = @ \cup {[event |-> e, attempts |-> 0]}]

Dispatch(d, k) ==
    /\ k.lam > 0
    /\ calls' = [calls EXCEPT ![d] = Forget(d, k)]
    /\ \/ DepositEvent(d, Event(k)) /\ NoError /\ UNCHANGED queued
       \/ StashPending(d, Event(k)) /\ Errs /\ UNCHANGED inbox
    /\ UNCHANGED <<localVars, lamport, applyVars, loop, asked, edits, rounds,
                   stops>>

TriesAgain(q) == q.attempts + 1 < MaxAttempts

\* flushPending: one queued event of a connect.
FlushPending(d, q) ==
    /\ \/ /\ DepositEvent(d, q.event) /\ NoError
          /\ queued' = [queued EXCEPT ![d] = @ \ {q}]
       \/ /\ Errs /\ UNCHANGED inbox
          /\ queued' = [queued EXCEPT
                 ![d] = (@ \ {q}) \cup
                        (IF TriesAgain(q)
                         THEN {[q EXCEPT !.attempts = q.attempts + 1]} ELSE {})]
    /\ UNCHANGED <<localVars, lamport, calls, applyVars, loop, asked, edits,
                   rounds, stops>>

-----------------------------------------------------------------------------
(* reconcileToSiblings: the active contacts are listed once, and sent one   *)
(* after the other.                                                         *)

ActiveAt(d) == {c \in Contacts : row[d][c] = "active"}
ActiveAgree == \A d \in Pair : ActiveAt(d) = ActiveAt(Twin(d))
Quiet ==
    \A d \in Pair : calls[d] = {} /\ queued[d] = {} /\ inbox[d] = <<>>

\* Wrong variant: the stamp of the throttle never gets old.
ReconcileOnce(d) ==
    /\ ~loop[d].on /\ rounds < MaxRounds /\ rounds' = rounds + 1
    /\ loop' = [loop EXCEPT ![d] = [on |-> TRUE, todo |-> ActiveAt(d)]]
    /\ UNCHANGED <<localVars, sendVars, inbox, applyVars, asked, edits, errors,
                   stops>>
Reconcile(d) ==
    /\ ~loop[d].on
    /\ IF Quiet /\ ~(ActiveAt(d) \subseteq ActiveAt(Twin(d))) THEN UNCHANGED rounds
       ELSE rounds < MaxRounds /\ rounds' = rounds + 1
    /\ loop' = [loop EXCEPT ![d] = [on |-> TRUE, todo |-> ActiveAt(d)]]
    /\ UNCHANGED <<localVars, sendVars, inbox, applyVars, asked, edits, errors,
                   stops>>

LoopWaits(d) == \E k \in calls[d] : k.id = 0
ReconcileNext(d) ==
    /\ loop[d].on /\ ~LoopWaits(d)
    /\ IF loop[d].todo = {}
       THEN loop' = [loop EXCEPT ![d] = NoLoop] /\ UNCHANGED calls
       ELSE \E c \in loop[d].todo :
               /\ loop' = [loop EXCEPT ![d].todo = @ \ {c}]
               /\ Replicate(d, "upsert", c, 0)
    /\ UNCHANGED <<localVars, lamport, queued, inbox, applyVars, asked,
                   syncBoundVars>>

-----------------------------------------------------------------------------
(* applyInbound.                                                            *)

Done(d) == inbox' = [inbox EXCEPT ![d] = Tail(@)]
Applying(d, to) == applying' = [applying EXCEPT ![d] = to]

\* Not newer than what was seen of the origin.
IgnoreStale(d) ==
    /\ inbox[d] # <<>> /\ applying[d] = "no"
    /\ Head(inbox[d]).lam <= seen[d]
    /\ Done(d)
    /\ UNCHANGED <<localVars, sendVars, applyVars, loop, asked, syncBoundVars>>

ApplyRemove(d) ==
    /\ inbox[d] # <<>> /\ applying[d] = "no"
    /\ Head(inbox[d]).lam > seen[d] /\ Head(inbox[d]).op = "remove"
    /\ DeleteRow(d, Head(inbox[d]).c, TRUE)
    /\ Applying(d, "seen")
    /\ UNCHANGED <<rel, lamport, queued, inbox, seen, loop, asked, syncBoundVars>>

\* Wrong variant: a relationship that cannot be written is passed over.
ApplyRelationshipSwallowed(d) ==
    /\ inbox[d] # <<>> /\ applying[d] = "no"
    /\ Head(inbox[d]).lam > seen[d] /\ Head(inbox[d]).op = "upsert"
    /\ \/ rel' = [rel EXCEPT ![d] = @ \cup {Head(inbox[d]).c}] /\ NoError
       \/ UNCHANGED rel /\ Errs
    /\ Applying(d, "contact")
    /\ UNCHANGED <<row, sendVars, inbox, seen, loop, asked, edits, rounds,
                   stops>>
\* The relationship first: when it cannot be written, nothing is applied, and
\* the event is done with.
ApplyRelationship(d) ==
    /\ inbox[d] # <<>> /\ applying[d] = "no"
    /\ Head(inbox[d]).lam > seen[d] /\ Head(inbox[d]).op = "upsert"
    /\ \/ /\ rel' = [rel EXCEPT ![d] = @ \cup {Head(inbox[d]).c}]
          /\ Applying(d, "contact") /\ NoError /\ UNCHANGED inbox
       \/ Done(d) /\ Errs /\ UNCHANGED <<rel, applying>>
    /\ UNCHANGED <<row, sendVars, seen, loop, asked, edits, rounds, stops>>

ApplyContact(d) ==
    /\ applying[d] = "contact"
    /\ SetRow(d, Head(inbox[d]).c, "active")
    /\ Applying(d, "seen")
    /\ UNCHANGED <<rel, sendVars, inbox, seen, loop, asked, syncBoundVars>>

AdvanceSeen(d) ==
    /\ applying[d] = "seen"
    /\ seen' = [seen EXCEPT ![d] = Head(inbox[d]).lam]
    /\ Applying(d, "no") /\ Done(d)
    /\ UNCHANGED <<localVars, sendVars, loop, asked, syncBoundVars>>

\* The process dies: calls and loops are gone, the head is delivered again.
Stops(d) ==
    /\ stops < MaxStops /\ stops' = stops + 1
    /\ calls' = [calls EXCEPT ![d] = {}]
    /\ loop' = [loop EXCEPT ![d] = NoLoop]
    /\ Applying(d, "no")
    /\ UNCHANGED <<localVars, lamport, queued, inbox, seen, asked, edits,
                   rounds, errors>>

-----------------------------------------------------------------------------
Sends(d) == \E k \in calls[d] : NextLamport(d, k) \/ Dispatch(d, k)
Flushes(d) == \E q \in queued[d] : FlushPending(d, q)
Applies(d) ==
    \/ IgnoreStale(d) \/ ApplyRemove(d) \/ ApplyRelationship(d)
    \/ ApplyContact(d) \/ AdvanceSeen(d)

SyncNext ==
    \E d \in Pair :
        \/ \E c \in Contacts : Connect(d, c) \/ DeleteContact(d, c) \/ Block(d, c)
        \/ Sends(d) \/ Flushes(d) \/ Reconcile(d) \/ ReconcileNext(d)
        \/ Applies(d) \/ Stops(d)

SyncSpec == SyncInit /\ [][SyncNext]_syncVars

\* Calls return and inboxes drain; the devices connect again and again, which
\* flushes and, when the throttle has passed, reconciles.
FairSyncSpec ==
    /\ SyncSpec
    /\ \A d \in Pair :
          /\ WF_syncVars(Sends(d)) /\ WF_syncVars(Flushes(d))
          /\ WF_syncVars(Applies(d))
          /\ WF_syncVars(Reconcile(d)) /\ WF_syncVars(ReconcileNext(d))

-----------------------------------------------------------------------------
(* Properties.                                                              *)

\* The gate for a contact's messages is never open on a device that could not
\* decrypt them (ServerAccountStateSyncService #applyOp).
GateIsDecryptable == \A d \in Pair : ActiveAt(d) \subseteq rel[d]

\* A device is told to remove only what a user of the sibling removed: no
\* removal is echoed, to fall on a contact that was made again since.
RemovalsAreAsked ==
    \A d \in Pair : \A i \in DOMAIN inbox[d] :
        inbox[d][i].op = "remove" => <<Twin(d), inbox[d][i].c>> \in asked

\* Whatever was lost, refused as stale, half applied or cut off by a crash, the
\* devices agree on the active contacts in the end.
ActiveConverges == []<>ActiveAgree
=============================================================================
