---------------------------- MODULE AccountDevices ----------------------------
(***************************************************************************)
(* The two things the devices of one account keep alike: their contacts     *)
(* (AccountSync) and the facts of a conversation (SiblingSync).  The        *)
(* contacts gate the facts: a device takes a fact of the peer only when the *)
(* contact has reached it.  What its sibling transfers is "task" in         *)
(* SiblingSync.                                                             *)
(***************************************************************************)
EXTENDS AccountSync

CONSTANTS Peer,              \* the contact of the conversation
          Facts, Own, InventoryMax, RoundsPerWindow,
          FactScenes         \* limits of a group's facts, one is chosen: how
                             \* often each of Bounds may happen

\* Fingerprints are compared as numbers are; a user makes at least the contact.
ASSUME FactsAssumption == Facts \subseteq Nat
ASSUME ContactAssumption == MaxEdits > 0

VARIABLES kind, log, rejected, roundCount, box, transfer, revoked, vetted,
          allowance,
          part   \* "contacts": no facts move; "facts": one contact is made

known == {d \in Pair : row[d][Peer] = "active"}

Logs == INSTANCE SiblingSync WITH Devices <- Pair, task <- transfer

factVars ==
    <<kind, log, rejected, roundCount, box, transfer, revoked, vetted, allowance>>
allVars == <<syncVars, factVars, part>>

Calm == [l \in Logs!Bounds |-> 0]

\* A contact is made while facts of it move, or facts of a group move and meet
\* what their scene allows.
DevicesInit ==
    \/ part = "contacts" /\ SyncInit /\ Logs!LogsInit("direct", Calm)
    \/ /\ part = "facts"
       /\ SyncInitWith(MaxEdits - 1, MaxRounds, MaxErrors, MaxStops)
       /\ Logs!LogsInit("direct", Calm)
    \/ /\ part = "facts" /\ SyncInitWith(MaxEdits, MaxRounds, MaxErrors, MaxStops)
       /\ \E limits \in FactScenes : Logs!LogsInit("group", limits)

FactsStep(A) == part = "facts" /\ A /\ UNCHANGED <<syncVars, part>>

DevicesNext ==
    \/ SyncNext /\ UNCHANGED <<factVars, part>>
    \/ FactsStep(Logs!LogsNext)

DevicesSpec == DevicesInit /\ [][DevicesNext]_allVars

\* The contacts as in AccountSync; a device connects again and again, which
\* announces its digest, and handles what its box holds.
FairDevicesSpec ==
    /\ DevicesSpec
    /\ \A d \in Pair :
          /\ WF_syncVars(Sends(d)) /\ WF_syncVars(Flushes(d))
          /\ WF_syncVars(Applies(d))
          /\ WF_syncVars(Reconcile(d)) /\ WF_syncVars(ReconcileNext(d))
          /\ SF_allVars(FactsStep(Logs!Announce(d)))
          /\ WF_allVars(FactsStep(Logs!Handles(d)))

-----------------------------------------------------------------------------
(* Properties.                                                              *)

\* The sibling is transport and never authority: every fact a device holds was
\* delivered to it, written on it, or found unrevoked by it
\* (ServerSiblingSyncService #admitFact).
LogIsVetted == \A d \in Pair : \A f \in log[d] : <<d, f>> \in vetted

\* What a device takes over from its sibling is what was asked of it, what it
\* may have and what it can use: removals, facts and contacts.
TakenOverIsSound == GateIsDecryptable /\ RemovalsAreAsked /\ LogIsVetted

AtBoth(f) == \A d \in Pair : f \in log[d]
Somewhere(f) == \E d \in Pair : f \in log[d]

\* Whatever was lost, deferred, over the rounds of a window, beyond the end of
\* an inventory or cut off by a crash: a fact that the conversation can take and
\* whose signer stands is at both devices in the end (handleInbound).
SiblingsAgree ==
    []<>(known = Pair =>
            \A f \in Facts \ revoked :
                Somewhere(f) /\ (kind = "group" \/ f \notin Own) => AtBoth(f))

\* Contacts and conversations alike: what was lost on the way or in a crash,
\* refused or deferred does not keep an account's devices apart.
DevicesConverge == ActiveConverges /\ SiblingsAgree

=============================================================================
