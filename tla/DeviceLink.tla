----------------------------- MODULE DeviceLink -----------------------------
(***************************************************************************)
(* Linking a new device to an account: the primary's ceremony             *)
(* (ServerDeviceLinkService), its durable journal (PendingCeremonyStore),  *)
(* the sweep that resumes or compensates what a ceremony left behind       *)
(* (CeremonyRecoveryWorker), and the new device's half of the ceremony     *)
(* (enrollDelegatedDevice).                                                *)
(*                                                                         *)
(* A ceremony is a number; the leaf certificate it mints has the same      *)
(* number, for a fresh ceremony mints another certificate.  The approver   *)
(* of the SDK and the home node are external: the approver persists,       *)
(* registers, publishes, marks, waits and marks again, and notices a       *)
(* cancellation only while it waits.                                       *)
(***************************************************************************)
EXTENDS Naturals

CONSTANTS Devices,        \* the devices somebody may link
          NoDevice,
          MaxCeremonies,  \* bound: ceremonies that are ever started
          MaxFaults,      \* bound: calls to the home or the disk that fail
          MaxCrashes      \* bound: crashes of the primary

ASSUME NoDeviceAssumption == NoDevice \notin Devices
ASSUME BoundsAssumption ==
    /\ MaxCeremonies \in Nat /\ MaxFaults \in Nat /\ MaxCrashes \in Nat

VARIABLES
    current,    \* the ceremony the service holds, 0 for none
    started,    \* how many were started
    state,      \* what status() answers of each
    pc,         \* the await at which the driver of each stands
    dev,        \* the device whose request it took
    cancelled,  \* the approver was told to cancel
    journal,    \* on disk: one row per device
    sweep,      \* the recovery sweep: its await, its work-list, its record
    bound,      \* at the home: the certificate bound to a device, or 0
    revoked,    \* at the home: the revoked certificates
    slot,       \* responses at their rendezvous coordinate: released leaves
    enrolled,   \* the new device's half of each ceremony
    tags,       \* confirmation tags at the rendezvous coordinate
    late,       \* ceremonies whose deadline has passed
    told,       \* history: ceremonies reported or journaled as confirmed
    faults, crashes

ceremonyVars == <<current, started, state, pc, dev, cancelled>>
homeVars == <<bound, revoked, slot>>
deviceVars == <<enrolled, tags>>
vars == <<ceremonyVars, journal, sweep, homeVars, deviceVars, late, told,
          faults, crashes>>

Ids == 1 .. MaxCeremonies
States == {"idle", "code-issued", "pending", "responding", "confirmed",
           "cancelled", "expired", "failed"}
Awaits == {"none", "starting", "request", "approval", "persist", "register",
           "publish", "markPublished", "confirm", "markConfirmed", "over"}
RowStates == {"pending", "published", "confirmed", "expired"}
NoRow == [cert |-> 0, st |-> "none"]
Rows == [cert : Ids, st : RowStates]
Records == [device : Devices, cert : Ids, st : RowStates]
SweepSteps == {"idle", "resume", "mark", "compensate", "ask", "revoke",
               "verify", "disprove"}
NoRecord == [device |-> NoDevice, cert |-> 0, st |-> "none"]
NoSweep == [step |-> "idle", todo |-> {}, rec |-> NoRecord]
Enrolments == {"none", "sealed", "complete", "cleared"}

TypeOK ==
    /\ current \in Ids \cup {0} /\ started \in Ids \cup {0}
    /\ state \in [Ids -> States] /\ pc \in [Ids -> Awaits]
    /\ dev \in [Ids -> Devices \cup {NoDevice}]
    /\ cancelled \in [Ids -> BOOLEAN]
    /\ journal \in [Devices -> Rows \cup {NoRow}]
    /\ sweep \in [step : SweepSteps, todo : SUBSET Records,
                  rec : Records \cup {NoRecord}]
    /\ bound \in [Devices -> Ids \cup {0}]
    /\ revoked \subseteq Ids /\ slot \subseteq Ids /\ tags \subseteq Ids
    /\ enrolled \in [Ids -> Enrolments]
    /\ late \subseteq Ids /\ told \subseteq Ids
    /\ faults \in 0 .. MaxFaults /\ crashes \in 0 .. MaxCrashes

Init ==
    /\ current = 0 /\ started = 0
    /\ state = [i \in Ids |-> "idle"] /\ pc = [i \in Ids |-> "none"]
    /\ dev = [i \in Ids |-> NoDevice] /\ cancelled = [i \in Ids |-> FALSE]
    /\ journal = [d \in Devices |-> NoRow] /\ sweep = NoSweep
    /\ bound = [d \in Devices |-> 0] /\ revoked = {} /\ slot = {}
    /\ enrolled = [i \in Ids |-> "none"] /\ tags = {}
    /\ late = {} /\ told = {} /\ faults = 0 /\ crashes = 0

CanFail == faults < MaxFaults
Fail == CanFail /\ faults' = faults + 1
NoFault == UNCHANGED faults

-----------------------------------------------------------------------------
(* The journal (PendingCeremonyStore).  The transitions name a device and   *)
(* not a certificate; the deletions name both.                              *)

AllowedTransition(from, to) ==
    <<from, to>> \in {<<"pending", "published">>, <<"pending", "expired">>,
                      <<"published", "confirmed">>}

\* Mutant: a fresh ceremony replaces an expired row nobody revoked.
MayReplace(d) == journal[d].st \in {"none", "expired", "confirmed"}
MayCreate(d) == journal[d] = NoRow \/ journal[d].st = "confirmed"
MayTransition(d, to) ==
    journal[d] # NoRow /\ AllowedTransition(journal[d].st, to)
Transition(d, to) == journal' = [journal EXCEPT ![d].st = to]

\* A transition that its caller survives: a refusal changes nothing.
Attempt(d, to) ==
    IF MayTransition(d, to) THEN Transition(d, to) ELSE UNCHANGED journal

RecordOf(d) == [device |-> d, cert |-> journal[d].cert, st |-> journal[d].st]
Resumable ==
    {RecordOf(d) : d \in {e \in Devices : /\ journal[e].st = "pending"
                                          /\ journal[e].cert \notin late}}
\* Mutant: the sweep lists listExpirable, the pending rows only.
Expirable ==
    {RecordOf(d) : d \in {e \in Devices : /\ journal[e].st = "pending"
                                          /\ journal[e].cert \in late}}
\* Mutant: confirmed rows are not left out.
AnyLate ==
    {RecordOf(d) : d \in {e \in Devices : journal[e].cert \in late}}
Compensatable ==
    {RecordOf(d) : d \in {e \in Devices : /\ journal[e] # NoRow
                                          /\ journal[e].st # "confirmed"
                                          /\ journal[e].cert \in late}}

-----------------------------------------------------------------------------
(* The ceremony.                                                            *)

Terminal == {"failed", "expired", "cancelled"}

\* startCeremony up to the await of approver.start(): two calls may both pass.
StartCeremony ==
    /\ started < MaxCeremonies
    /\ current # 0 => state[current] \in Terminal
    /\ started' = started + 1
    /\ pc' = [pc EXCEPT ![started + 1] = "starting"]
    /\ UNCHANGED <<current, state, dev, cancelled, journal, sweep, homeVars,
                   deviceVars, late, told, faults, crashes>>

IssueCode(i) ==
    /\ pc[i] = "starting"
    /\ current' = i
    /\ state' = [state EXCEPT ![i] = "code-issued"]
    /\ pc' = [pc EXCEPT ![i] = "request"]
    /\ UNCHANGED <<started, dev, cancelled, journal, sweep, homeVars,
                   deviceVars, late, told, faults, crashes>>

\* A device takes part in one ceremony at a time.
TakeRequest(i, d) ==
    /\ pc[i] = "request" /\ ~cancelled[i] /\ i \notin late
    /\ \A j \in Ids : dev[j] = d => pc[j] = "over"
    /\ dev' = [dev EXCEPT ![i] = d]
    /\ state' = [state EXCEPT ![i] = "pending"]
    /\ pc' = [pc EXCEPT ![i] = "approval"]
    /\ UNCHANGED <<current, started, cancelled, journal, sweep, homeVars,
                   deviceVars, late, told, faults, crashes>>

GiveUpRequest(i) ==
    /\ pc[i] = "request" /\ (cancelled[i] \/ i \in late)
    /\ state' = [state EXCEPT
                    ![i] = IF cancelled[i] THEN "cancelled" ELSE "expired"]
    /\ pc' = [pc EXCEPT ![i] = "over"]
    /\ UNCHANGED <<current, started, dev, cancelled, journal, sweep, homeVars,
                   deviceVars, late, told, faults, crashes>>

\* A person compares fingerprints: a sweep of before is over by then (its
\* marks name the device, and would fall on the row of the new ceremony).
ApproveCeremony(i) ==
    /\ i = current /\ pc[i] = "approval" /\ state[i] = "pending"
    /\ sweep.step = "idle"
    /\ state' = [state EXCEPT ![i] = "responding"]
    /\ pc' = [pc EXCEPT ![i] = "persist"]
    /\ UNCHANGED <<current, started, dev, cancelled, journal, sweep, homeVars,
                   deviceVars, late, told, faults, crashes>>

\* Parked on the human gate: the driver ends.  Otherwise the state says
\* "cancelled" at once, while the driver runs on until it waits.
CancelCeremony(i) ==
    /\ i = current /\ i # 0
    /\ cancelled' = [cancelled EXCEPT ![i] = TRUE]
    /\ pc' = [pc EXCEPT ![i] = IF @ = "approval" THEN "over" ELSE @]
    /\ state' = [state EXCEPT
           ![i] = IF @ \in {"confirmed", "failed", "expired"} THEN @
                  ELSE "cancelled"]
    /\ UNCHANGED <<current, started, dev, journal, sweep, homeVars, deviceVars,
                   late, told, faults, crashes>>

DriverFails(i) ==
    /\ pc' = [pc EXCEPT ![i] = "over"]
    /\ state' = [state EXCEPT ![i] = "failed"]
    /\ UNCHANGED <<current, started, dev, cancelled>>
DriverGoesOn(i, to) ==
    /\ pc' = [pc EXCEPT ![i] = to]
    /\ UNCHANGED <<current, started, state, dev, cancelled>>

\* registrationJournal.persistPending: no clobber, in front of device.add.
PersistPending(i) ==
    /\ pc[i] = "persist"
    /\ \/ /\ MayCreate(dev[i]) /\ i \notin late
          /\ journal' = [journal EXCEPT
                            ![dev[i]] = [cert |-> i, st |-> "pending"]]
          /\ DriverGoesOn(i, "register") /\ NoFault
       \/ /\ ~MayCreate(dev[i]) \/ i \in late
          /\ DriverFails(i) /\ NoFault /\ UNCHANGED journal
       \/ Fail /\ DriverFails(i) /\ UNCHANGED journal
    /\ UNCHANGED <<sweep, homeVars, deviceVars, late, told, crashes>>

HomeAdds(i) == bound' = [bound EXCEPT ![dev[i]] = i]

\* registerDevice: the home may commit although the caller sees an error.
RegisterDevice(i) ==
    /\ pc[i] = "register"
    /\ \/ /\ bound[dev[i]] = 0
          /\ HomeAdds(i) /\ DriverGoesOn(i, "publish") /\ NoFault
       \/ bound[dev[i]] = 0 /\ HomeAdds(i) /\ Fail /\ DriverFails(i)
       \/ UNCHANGED bound /\ Fail /\ DriverFails(i)
       \/ bound[dev[i]] # 0 /\ UNCHANGED bound /\ NoFault /\ DriverFails(i)
    /\ UNCHANGED <<journal, sweep, revoked, slot, deviceVars, late, told,
                   crashes>>

PublishResponse(i) ==
    /\ pc[i] = "publish"
    /\ \/ slot' = slot \cup {i} /\ DriverGoesOn(i, "markPublished") /\ NoFault
       \/ slot' \in {slot, slot \cup {i}} /\ Fail /\ DriverFails(i)
    /\ UNCHANGED <<journal, sweep, bound, revoked, deviceVars, late, told,
                   crashes>>

\* A refusal by the journal is only a warning here.
MarkPublished(i) ==
    /\ pc[i] = "markPublished"
    /\ Attempt(dev[i], "published") /\ DriverGoesOn(i, "confirm")
    /\ UNCHANGED <<sweep, homeVars, deviceVars, late, told, faults, crashes>>

AwaitConfirmation(i) ==
    /\ pc[i] = "confirm"
    /\ \/ i \in tags /\ i \notin late /\ DriverGoesOn(i, "markConfirmed")
       \/ (cancelled[i] \/ i \in late) /\ DriverFails(i)
    /\ UNCHANGED <<journal, sweep, homeVars, deviceVars, late, told, faults,
                   crashes>>

MarkConfirmed(i) ==
    /\ pc[i] = "markConfirmed"
    /\ Attempt(dev[i], "confirmed")
    /\ told' = told \cup {i}
    /\ pc' = [pc EXCEPT ![i] = "over"]
    /\ state' = [state EXCEPT ![i] = "confirmed"]
    /\ UNCHANGED <<current, started, dev, cancelled, sweep, homeVars,
                   deviceVars, late, faults, crashes>>

-----------------------------------------------------------------------------
(* The sweep.  It is deferred while a ceremony is active, and does not      *)
(* prevent one from starting.                                               *)

CeremonyIsActive ==
    current # 0 /\ state[current] \notin Terminal \cup {"confirmed"}

At(step, todo, rec) == sweep' = [step |-> step, todo |-> todo, rec |-> rec]
\* A record that is dealt with, or retained for the next sweep.
NextRecord(step) == At(step, sweep.todo \ {sweep.rec}, NoRecord)

RecoverNow ==
    /\ sweep.step = "idle" /\ ~CeremonyIsActive
    /\ Resumable \cup Compensatable # {}
    /\ At("resume", Resumable, NoRecord)
    /\ UNCHANGED <<ceremonyVars, journal, homeVars, deviceVars, late, told,
                   faults, crashes>>

\* #resume: the stored response again, and only then the mark.
ResumePut(r) ==
    /\ sweep.step = "resume" /\ r \in sweep.todo
    /\ \/ r.cert \notin late /\ slot' = slot \cup {r.cert} /\ NoFault
          /\ At("mark", sweep.todo, r)
       \/ r.cert \in late /\ UNCHANGED slot /\ NoFault
          /\ At("resume", sweep.todo \ {r}, NoRecord)
       \/ slot' \in {slot, slot \cup {r.cert}} /\ Fail
          /\ At("resume", sweep.todo \ {r}, NoRecord)
    /\ UNCHANGED <<ceremonyVars, journal, bound, revoked, deviceVars, late,
                   told, crashes>>

ResumeMark ==
    /\ sweep.step = "mark"
    /\ Attempt(sweep.rec.device, "published") /\ NextRecord("resume")
    /\ UNCHANGED <<ceremonyVars, homeVars, deviceVars, late, told, faults,
                   crashes>>

ListCompensatable ==
    /\ sweep.step = "resume" /\ sweep.todo = {}
    /\ IF Compensatable = {} THEN sweep' = NoSweep
       ELSE At("compensate", Compensatable, NoRecord)
    /\ UNCHANGED <<ceremonyVars, journal, homeVars, deviceVars, late, told,
                   faults, crashes>>

SweepDone ==
    /\ sweep.step = "compensate" /\ sweep.todo = {}
    /\ sweep' = NoSweep
    /\ UNCHANGED <<ceremonyVars, journal, homeVars, deviceVars, late, told,
                   faults, crashes>>

\* A pending row moves to expired first; a row that changed meanwhile refuses.
CompensateExpire(r) ==
    /\ sweep.step = "compensate" /\ r \in sweep.todo
    /\ IF r.st = "pending" /\ ~MayTransition(r.device, "expired")
       THEN /\ At("compensate", sweep.todo \ {r}, NoRecord)
            /\ UNCHANGED journal
       ELSE /\ At("ask", sweep.todo, r)
            /\ IF r.st = "pending" THEN Transition(r.device, "expired")
               ELSE UNCHANGED journal
    /\ UNCHANGED <<ceremonyVars, homeVars, deviceVars, late, told, faults,
                   crashes>>

CompensateAsk ==
    /\ sweep.step = "ask"
    /\ \/ NoFault /\ At(IF sweep.rec.cert \in revoked THEN "verify"
                        ELSE "revoke", sweep.todo, sweep.rec)
       \/ Fail /\ NextRecord("compensate")
    /\ UNCHANGED <<ceremonyVars, journal, homeVars, deviceVars, late, told,
                   crashes>>

\* The home revokes only the certificate that it has bound to the device.
HomeRevokes(r) ==
    /\ revoked' = revoked \cup {r.cert}
    /\ bound' = [bound EXCEPT ![r.device] = 0]

CompensateRevoke ==
    LET r == sweep.rec
        isBound == bound[r.device] = r.cert
    IN /\ sweep.step = "revoke"
       /\ \/ /\ isBound /\ HomeRevokes(r) /\ NoFault
             /\ At("verify", sweep.todo, r)
          \/ /\ ~isBound /\ UNCHANGED <<bound, revoked>> /\ NoFault
             /\ At("disprove", sweep.todo, r)
          \/ isBound /\ HomeRevokes(r) /\ Fail /\ NextRecord("compensate")
          \/ UNCHANGED <<bound, revoked>> /\ Fail /\ NextRecord("compensate")
       /\ UNCHANGED <<ceremonyVars, journal, slot, deviceVars, late, told,
                      crashes>>

\* The certificate is in the revoked set: deleteAfterRevoke.
CompensateVerify ==
    LET r == sweep.rec
    IN /\ sweep.step = "verify"
       /\ \/ Fail /\ UNCHANGED journal
          \/ /\ NoFault
             /\ journal' = IF r.cert \in revoked /\ journal[r.device].cert = r.cert
                           THEN [journal EXCEPT ![r.device] = NoRow]
                           ELSE journal
       /\ NextRecord("compensate")
       /\ UNCHANGED <<ceremonyVars, homeVars, deviceVars, late, told, crashes>>

\* deleteAfterDisprovenCommit: the home denies the binding, and the response
\* was never published; anything else is retained.
CompensateDisprove ==
    LET r == sweep.rec
    IN /\ sweep.step = "disprove"
       /\ journal' = IF /\ r.st \in {"pending", "expired"}
                        /\ journal[r.device].cert = r.cert
                        /\ journal[r.device].st \in {"pending", "expired"}
                     THEN [journal EXCEPT ![r.device] = NoRow]
                     ELSE journal
       /\ NextRecord("compensate")
       /\ UNCHANGED <<ceremonyVars, homeVars, deviceVars, late, told, faults,
                      crashes>>

-----------------------------------------------------------------------------
(* The new device (enrollDelegatedDevice) and the environment.              *)

\* The response is opened, the delegation verified and its envelope sealed.
SealEnvelope(i) ==
    /\ i \in slot /\ enrolled[i] = "none" /\ i \notin late
    /\ enrolled' = [enrolled EXCEPT ![i] = "sealed"]
    /\ UNCHANGED <<ceremonyVars, journal, sweep, homeVars, tags, late, told,
                   faults, crashes>>

\* The confirmation is published after the envelope is durable.
Confirm(i) ==
    /\ enrolled[i] = "sealed"
    /\ tags' = tags \cup {i}
    /\ enrolled' = [enrolled EXCEPT ![i] = "complete"]
    /\ UNCHANGED <<ceremonyVars, journal, sweep, homeVars, late, told, faults,
                   crashes>>

\* The ceremony fails at the device after the envelope was sealed: it is
\* cleared; the confirmation may have got out.
ClearEnvelope(i) ==
    /\ enrolled[i] = "sealed" /\ Fail
    /\ tags' \in {tags, tags \cup {i}}
    /\ enrolled' = [enrolled EXCEPT ![i] = "cleared"]
    /\ UNCHANGED <<ceremonyVars, journal, sweep, homeVars, late, told, crashes>>

CriticalSection == {"persist", "register", "publish", "markPublished",
                    "markConfirmed"}

\* The deadline is minutes away: it does not fall into the critical section.
Expire(i) ==
    /\ i \notin late /\ pc[i] \notin CriticalSection \cup {"none", "starting"}
    /\ late' = late \cup {i}
    /\ UNCHANGED <<ceremonyVars, journal, sweep, homeVars, deviceVars, told,
                   faults, crashes>>

\* The primary's process dies; the journal and the home survive.
Crash ==
    /\ crashes < MaxCrashes
    /\ crashes' = crashes + 1
    /\ current' = 0
    /\ pc' = [i \in Ids |-> IF pc[i] = "none" THEN "none" ELSE "over"]
    /\ sweep' = NoSweep
    /\ UNCHANGED <<started, state, dev, cancelled, journal, homeVars,
                   deviceVars, late, told, faults>>

Ceremony(i) ==
    \/ IssueCode(i) \/ (\E d \in Devices : TakeRequest(i, d))
    \/ GiveUpRequest(i) \/ PersistPending(i) \/ RegisterDevice(i)
    \/ PublishResponse(i) \/ MarkPublished(i) \/ AwaitConfirmation(i)
    \/ MarkConfirmed(i)

Sweep ==
    \/ RecoverNow \/ ResumeMark \/ ListCompensatable \/ SweepDone
    \/ CompensateAsk \/ CompensateRevoke \/ CompensateVerify
    \/ CompensateDisprove
    \/ \E r \in sweep.todo : ResumePut(r) \/ CompensateExpire(r)

Next ==
    \/ StartCeremony \/ Sweep \/ Crash
    \/ \E i \in Ids : \/ Ceremony(i) \/ ApproveCeremony(i) \/ CancelCeremony(i)
                      \/ SealEnvelope(i) \/ Confirm(i) \/ ClearEnvelope(i)
                      \/ Expire(i)

Spec == Init /\ [][Next]_vars

\* The drivers and the sweep's timer run; deadlines pass; nothing is assumed
\* of the user, the new device, faults or crashes.
FairSpec ==
    /\ Spec
    /\ WF_vars(Sweep)
    /\ \A i \in Ids : /\ WF_vars(IssueCode(i)) /\ WF_vars(GiveUpRequest(i))
                      /\ WF_vars(PersistPending(i)) /\ WF_vars(RegisterDevice(i))
                      /\ WF_vars(PublishResponse(i)) /\ WF_vars(MarkPublished(i))
                      /\ WF_vars(AwaitConfirmation(i))
                      /\ WF_vars(MarkConfirmed(i)) /\ WF_vars(Expire(i))

\* Beyond that, a person who is asked answers: nothing else ends the wait.
Answer(i) == pc[i] = "approval" /\ (ApproveCeremony(i) \/ CancelCeremony(i))
AttendedSpec == FairSpec /\ \A i \in Ids : WF_vars(Answer(i))

-----------------------------------------------------------------------------
(* Properties.                                                              *)

\* Whatever certificate the home has bound is one the primary can still
\* revoke: its row, with the certificate's id, is in the journal, unless the
\* link succeeded.  (PendingCeremonyStore: a released leaf is real authority
\* off-home, and nothing may be quietly forgotten.)
AuthorityIsJournaled ==
    \A d \in Devices : bound[d] # 0 =>
        journal[d].cert = bound[d] \/ bound[d] \in told

\* A row that says published, or more, is of a response that is out: the mark
\* never records a publication that did not happen, which nobody would repeat.
MarkedIsOut ==
    \A d \in Devices :
        journal[d].st \in {"published", "confirmed"} => journal[d].cert \in slot

\* The journal is true of what is out there, both ways: no authority without its
\* row, no mark without its publication (PendingCeremonyStore).
JournalIsTrue == AuthorityIsJournaled /\ MarkedIsOut

\* A link that was reported as confirmed is never revoked by the sweep.
ConfirmedStands == told \cap revoked = {}

\* Why they hold.  A ceremony that is not over is the only one of its device, ...
Alive(i) == pc[i] \notin {"none", "starting", "request", "over"}
Written == {"register", "publish", "markPublished", "confirm", "markConfirmed", "over"}
Drivers ==
    /\ \A i \in Ids : i > started => pc[i] = "none"
    /\ \A i \in Ids : Alive(i) => dev[i] \in Devices
    /\ \A i, j \in Ids : Alive(i) /\ Alive(j) /\ dev[i] = dev[j] => i = j
\* ... and until its deadline the row of that device is its own, as far as it got.
Own(i) ==
    /\ journal[dev[i]].cert = i
    /\ journal[dev[i]].st \in IF pc[i] \in {"confirm", "markConfirmed"}
                               THEN {"published"} ELSE {"pending", "published"}
DriversOwn ==
    \A i \in Ids :
        /\ pc[i] \in CriticalSection \ {"persist"} => i \notin late
        /\ pc[i] \in Written \ {"over"} /\ i \notin late => Own(i)
        /\ pc[i] = "markPublished" => i \in slot
\* A row is of a ceremony that took its device; it is confirmed exactly when that
\* ceremony was told to be.
RowsAreTrue ==
    /\ \A d \in Devices : journal[d] # NoRow =>
          /\ dev[journal[d].cert] = d
          /\ pc[journal[d].cert] \in Written
          /\ journal[d].st = "confirmed" <=> journal[d].cert \in told
    /\ \A i \in told : pc[i] = "over"
\* The records of a sweep are of rows that are still there, one for a device.  What
\* it is about to revoke is too late to be confirmed.
Compensating == {"compensate", "ask", "revoke", "verify", "disprove"}
SweepIsTrue ==
    /\ sweep.step = "idle" => sweep.todo = {}
    /\ sweep.step \in {"mark", "ask", "revoke", "verify", "disprove"} => sweep.rec \in sweep.todo
    /\ \A r, q \in sweep.todo : r.device = q.device => r = q
    /\ \A r \in sweep.todo :
          /\ journal[r.device].cert = r.cert
          /\ journal[r.device].st = "confirmed" =>
                \A i \in Ids : pc[i] = "persist" => dev[i] # r.device
          /\ sweep.step \in Compensating => r.cert \in late /\ r.cert \notin told
    /\ sweep.step = "mark" => sweep.rec.cert \in slot
    /\ sweep.step = "disprove" => bound[sweep.rec.device] # sweep.rec.cert
\* The home binds a certificate to the device it is of, and none that is revoked.
HomeIsTrue ==
    /\ revoked \subseteq late
    /\ \A d \in Devices : bound[d] # 0 => dev[bound[d]] = d /\ bound[d] \notin revoked
                                            /\ pc[bound[d]] \in Written
IInv ==
    /\ TypeOK /\ Drivers /\ DriversOwn /\ RowsAreTrue /\ SweepIsTrue /\ HomeIsTrue
    /\ JournalIsTrue /\ ConfirmedStands

\* What the home registered is confirmed or revoked in the end.
AbandonedIsRevoked ==
    \A d \in Devices, i \in Ids :
        bound[d] = i ~> (bound[d] # i \/ i \in told)
=============================================================================
