-------------------------- MODULE AccountAuthority --------------------------
(***************************************************************************)
(* Who belongs to an account, and how the others learn of it: device       *)
(* mutations at the account's home (ServerAccountMutationService), the      *)
(* publication of the authority state they leave                           *)
(* (ServerAuthorityPublicationService), the device set that peers receive   *)
(* (ServerDeviceSetService).                                               *)
(*                                                                         *)
(* External: the home (its registry, epoch, obligations and one lease) and  *)
(* the durable records, which keep the last record that was put.            *)
(***************************************************************************)
EXTENDS Naturals, FiniteSets

CONSTANTS Primary,     \* the session that holds the account root
          Delegate,    \* the session of a delegated device
          Others,      \* devices that come and go
          MaxEpoch,    \* bound: device mutations that are committed
          MaxCycles,   \* lease cycles of one drain
          MaxStale,    \* submissions of one mutation
          MaxFaults    \* bound: calls that fail

ASSUME SessionsAssumption == Primary # Delegate /\ {Primary, Delegate} \cap Others = {}
ASSUME BoundsAssumption ==
    /\ MaxEpoch \in Nat /\ MaxFaults \in Nat
    /\ MaxCycles \in Nat \ {0} /\ MaxStale \in Nat \ {0}

VARIABLES
    epoch, active, revokedAt,   \* the home's registry
    done, lease, backing,       \* the home's outbox of obligations
    record,                     \* the published authority state
    work,                       \* per session: its mutation or publication
    drain,                      \* the drains of the primary
    timer, pending,             \* the primary's recovery net
    overlay,                    \* the device set put for a peer
    faults

homeVars == <<epoch, active, revokedAt>>
outboxVars == <<done, lease, backing, record>>
netVars == <<timer, pending>>
vars == <<homeVars, outboxVars, work, drain, netVars, overlay, faults>>

Sessions == {Primary, Delegate}
Devices == Sessions \cup Others
Epochs == 0 .. MaxEpoch
Drains == {"net", "mutation"}   \* of the primary: both may run at once
RevokedBy(e) == {d \in Devices : revokedAt[d] \in 1 .. e}

NoLease == [by |-> "nobody", frozen |-> 0]
NoWork == [step |-> "idle", act |-> "none", target |-> Primary, expected |-> 0,
           tries |-> 0, set |-> {}, rev |-> 0, by |-> "mutation"]
NoDrain == [step |-> "idle", cycles |-> 0, frozen |-> 0, revoked |-> {}]
NoSet == [rev |-> 0, devices |-> {}, by |-> "nobody"]

WorkSteps == {"idle", "read", "submit", "drain", "draining", "set", "put",
              "revision"}
DrainSteps == {"idle", "claim", "prepare", "read", "complete", "fail"}

TypeOK ==
    /\ epoch \in Epochs /\ active \subseteq Devices
    /\ revokedAt \in [Devices -> Epochs]
    /\ done \in Epochs /\ backing \in BOOLEAN
    /\ lease \in [by : Drains, frozen : Epochs] \cup {NoLease}
    /\ record \in [epoch : Epochs, revoked : SUBSET Devices]
    /\ work \in [Sessions -> [step : WorkSteps, act : {"none", "add", "revoke"},
                              target : Devices, expected : Epochs,
                              tries : 0 .. MaxStale - 1, set : SUBSET Devices,
                              rev : Epochs \cup {1},
                              by : {"mutation", "republish"}]]
    /\ drain \in [Drains -> [step : DrainSteps, cycles : 0 .. MaxCycles,
                             frozen : Epochs, revoked : SUBSET Devices]]
    /\ timer \in {"armed", "suspended"}
    /\ pending \in BOOLEAN
    /\ overlay \in [rev : Epochs \cup {1}, devices : SUBSET Devices,
                    by : {"nobody", "mutation", "republish"}]
    /\ faults \in 0 .. MaxFaults

Init ==
    /\ epoch = 0 /\ active = Sessions
    /\ revokedAt = [d \in Devices |-> 0]
    /\ done = 0 /\ lease = NoLease /\ backing = FALSE
    /\ record = [epoch |-> 0, revoked |-> {}]
    /\ work = [s \in Sessions |-> NoWork]
    /\ drain = [x \in Drains |-> NoDrain]
    /\ timer = "armed"
    /\ pending = FALSE
    /\ overlay = NoSet
    /\ faults = 0

Fail == faults < MaxFaults /\ faults' = faults + 1
NoFault == UNCHANGED faults

-----------------------------------------------------------------------------
(* submitMutation: read the epoch, submit, and again when it was stale.     *)

Set(s, w) == work' = [work EXCEPT ![s] = w]
Step(s, to) == Set(s, [work[s] EXCEPT !.step = to])

\* What the home refuses is not worth a submission in the model.
Sensible(act, d) ==
    IF act = "add" THEN d \notin active /\ revokedAt[d] = 0 ELSE d \in active

StartMutation(s, act, d) ==
    /\ work[s] = NoWork /\ d \in Others /\ Sensible(act, d)
    /\ epoch < MaxEpoch
    /\ Set(s, [NoWork EXCEPT !.step = "read", !.act = act, !.target = d])
    /\ UNCHANGED <<homeVars, outboxVars, drain, netVars, overlay, faults>>

ReadExpected(s) ==
    /\ work[s].step = "read"
    /\ Set(s, [work[s] EXCEPT !.step = "submit", !.expected = epoch])
    /\ UNCHANGED <<homeVars, outboxVars, drain, netVars, overlay, faults>>

HomeCommits(act, d) ==
    /\ epoch' = epoch + 1
    /\ active' = IF act = "add" THEN active \cup {d} ELSE active \ {d}
    /\ revokedAt' = IF act = "revoke" THEN [revokedAt EXCEPT ![d] = epoch + 1]
                    ELSE revokedAt

\* The commit enqueues the obligation; its answer may be lost.
Commit(s) ==
    LET w == work[s] IN
    /\ w.step = "submit" /\ w.expected = epoch
    /\ IF Sensible(w.act, w.target) /\ epoch < MaxEpoch
       THEN /\ HomeCommits(w.act, w.target)
            /\ \/ NoFault /\ Set(s, [NoWork EXCEPT !.step = "drain",
                                                     !.rev = epoch + 1])
               \/ Fail /\ Set(s, NoWork)
       ELSE UNCHANGED homeVars /\ NoFault /\ Set(s, NoWork)
    /\ UNCHANGED <<outboxVars, drain, netVars, overlay>>

Stale(s) ==
    LET w == work[s] IN
    /\ w.step = "submit" /\ w.expected # epoch
    /\ Set(s, IF w.tries + 1 < MaxStale
              THEN [w EXCEPT !.step = "read", !.tries = @ + 1] ELSE NoWork)
    /\ UNCHANGED <<homeVars, outboxVars, drain, netVars, overlay, faults>>

-----------------------------------------------------------------------------
(* #propagate: the authority state first, then the device set for the peer. *)

StartDrain(x) == drain' = [drain EXCEPT ![x] = [NoDrain EXCEPT !.step = "claim"]]

PublishAuthorityState(s) ==
    /\ work[s].step = "drain"
    /\ IF s = Primary THEN StartDrain("mutation") /\ Step(s, "draining")
       ELSE UNCHANGED drain /\ Step(s, "set")   \* refused: awaiting-root-signature
    /\ UNCHANGED <<homeVars, outboxVars, netVars, overlay,
                   faults>>

\* However the drain ended, the mutation goes on.
DrainReturns(s) ==
    /\ work[s].step = "draining" /\ drain["mutation"].step = "idle"
    /\ Step(s, "set")
    /\ UNCHANGED <<homeVars, outboxVars, drain, netVars, overlay, faults>>

\* The set is read after the commit it is stamped with; when the read fails,
\* the session publishes itself alone.
ReadSet(s) ==
    /\ work[s].step = "set"
    /\ \/ NoFault /\ Set(s, [work[s] EXCEPT !.step = "put", !.set = active])
       \/ Fail /\ Set(s, [work[s] EXCEPT !.step = "put", !.set = {s}])
    /\ UNCHANGED <<homeVars, outboxVars, drain, netVars, overlay>>

\* One peer; a put that fails is reported and not repeated.
PutSet(s) ==
    /\ work[s].step = "put"
    /\ \/ NoFault /\ overlay' = [rev |-> work[s].rev, devices |-> work[s].set,
                                 by |-> work[s].by]
       \/ Fail /\ UNCHANGED overlay
    /\ Set(s, NoWork)
    /\ UNCHANGED <<homeVars, outboxVars, drain, netVars>>

\* republishToAllPeers: the set is read first, and its revision afterwards.
StartRepublish(s) ==
    /\ work[s] = NoWork
    /\ \/ NoFault /\ Set(s, [NoWork EXCEPT !.step = "revision",
                                                !.set = active,
                                                !.by = "republish"])
       \/ Fail /\ UNCHANGED work
    /\ UNCHANGED <<homeVars, outboxVars, drain, netVars, overlay>>

AtLeastOne(e) == IF e = 0 THEN 1 ELSE e
CurrentRevision(s) ==
    /\ work[s].step = "revision"
    /\ \/ NoFault /\ Set(s, [work[s] EXCEPT !.step = "put",
                                            !.rev = AtLeastOne(epoch)])
       \/ Fail /\ Set(s, [work[s] EXCEPT !.step = "put", !.rev = 1])
    /\ UNCHANGED <<homeVars, outboxVars, drain, netVars, overlay>>

-----------------------------------------------------------------------------
(* drainPublications.                                                       *)

\* Mutant: an empty outbox suspends the timer as well.
SuspendsWhenEmpty(outcome) ==
    outcome \in {"outbox-unavailable", "awaiting-root-signature",
                 "nothing-pending"}
\* #shouldSuspend: what polling cannot change.
Suspends(outcome) == outcome \in {"outbox-unavailable", "awaiting-root-signature"}
TimerAfter(outcome) == IF Suspends(outcome) THEN "suspended" ELSE "armed"

\* The end of a drain: the net's own sets the timer, and runs again when a
\* request came meanwhile.
Ended(x, outcome) ==
    /\ timer' = IF x = "net" THEN TimerAfter(outcome) ELSE timer
    /\ IF x = "net" /\ pending
       THEN StartDrain(x) /\ pending' = FALSE
       ELSE drain' = [drain EXCEPT ![x] = NoDrain] /\ UNCHANGED pending

NextCycle(x) ==
    IF drain[x].cycles < MaxCycles
    THEN /\ drain' = [drain EXCEPT
                         ![x] = [NoDrain EXCEPT !.step = "claim",
                                                !.cycles = drain[x].cycles]]
         /\ UNCHANGED netVars
    ELSE Ended(x, "max-cycles")

\* requestDrain of the primary: one at a time, and one more when asked.
RequestDrain ==
    IF drain["net"].step = "idle" THEN StartDrain("net") /\ UNCHANGED pending
    ELSE pending' = TRUE /\ UNCHANGED drain

Periodic ==
    /\ timer = "armed" /\ drain["net"].step = "idle" /\ RequestDrain
    /\ UNCHANGED <<homeVars, outboxVars, work, timer, overlay, faults>>

Reconnected ==
    /\ RequestDrain /\ timer' = "armed"
    /\ UNCHANGED <<homeVars, outboxVars, work, overlay, faults>>

Claimable == done < epoch /\ lease = NoLease /\ ~backing

Claim(x) ==
    /\ drain[x].step = "claim"
    /\ \/ /\ ~Claimable /\ NoFault /\ UNCHANGED lease
          /\ Ended(x, "nothing-pending")
       \/ /\ Claimable /\ NoFault /\ UNCHANGED netVars
          /\ lease' = [by |-> x, frozen |-> 0]
          /\ drain' = [drain EXCEPT ![x].step = "prepare", ![x].cycles = @ + 1]
       \/ Fail /\ Ended(x, "thrown") /\ UNCHANGED lease
    /\ UNCHANGED <<homeVars, done, backing, record, work, overlay>>

\* The epoch is frozen; a prepare that fails leaves the lease to its expiry.
Prepare(x) ==
    /\ drain[x].step = "prepare"
    /\ \/ /\ lease.by = x /\ NoFault
          /\ lease' = [lease EXCEPT !.frozen = epoch]
          /\ drain' = [drain EXCEPT ![x].step = "read", ![x].frozen = epoch]
          /\ UNCHANGED netVars
       \/ /\ lease.by # x /\ NoFault /\ UNCHANGED lease
          /\ Ended(x, "lease-lost")
       \/ Fail /\ Ended(x, "thrown") /\ UNCHANGED lease
    /\ UNCHANGED <<homeVars, done, backing, record, work, overlay>>

Release(x) == lease' = IF lease.by = x THEN NoLease ELSE lease

\* Mutant: the state is signed for the frozen epoch whatever epoch it is of.
ReadAnyEpoch(x) ==
    /\ drain[x].step = "read"
    /\ \/ /\ NoFault /\ UNCHANGED <<lease, netVars>>
          /\ drain' = [drain EXCEPT ![x].step = "complete",
                                    ![x].revoked = RevokedBy(epoch)]
       \/ /\ Fail /\ UNCHANGED <<lease, netVars>>
          /\ drain' = [drain EXCEPT ![x].step = "fail"]
    /\ UNCHANGED <<homeVars, done, backing, record, work, overlay>>
\* The home's state now: of another epoch, the lease is given up.
ReadAuthority(x) ==
    /\ drain[x].step = "read"
    /\ \/ /\ epoch = drain[x].frozen /\ NoFault /\ UNCHANGED <<lease, netVars>>
          /\ drain' = [drain EXCEPT ![x].step = "complete",
                                    ![x].revoked = RevokedBy(epoch)]
       \/ epoch # drain[x].frozen /\ NoFault /\ Release(x) /\ NextCycle(x)
       \/ /\ Fail /\ UNCHANGED <<lease, netVars>>
          /\ drain' = [drain EXCEPT ![x].step = "fail"]
    /\ UNCHANGED <<homeVars, done, backing, record, work, overlay>>

\* The node verifies and stores the record, and completes what it covers; of
\* a lease that lapsed meanwhile only the record stays.
Stored(x) ==
    IF drain[x].frozen >= record.epoch
    THEN record' = [epoch |-> drain[x].frozen, revoked |-> drain[x].revoked]
    ELSE UNCHANGED record

Complete(x) ==
    /\ drain[x].step = "complete"
    /\ \/ /\ lease.by = x /\ Stored(x) /\ NoFault
          /\ done' = drain[x].frozen /\ lease' = NoLease /\ NextCycle(x)
       \/ /\ lease.by # x /\ Stored(x) /\ NoFault
          /\ UNCHANGED <<done, lease>> /\ Ended(x, "lease-lost")
       \/ /\ UNCHANGED record /\ Fail
          /\ drain' = [drain EXCEPT ![x].step = "fail"]
          /\ UNCHANGED <<done, lease, netVars>>
    /\ UNCHANGED <<homeVars, backing, work, overlay>>

\* The attempt is reported, and backs the obligation off; or the report fails.
ReportFailedAttempt(x) ==
    /\ drain[x].step = "fail"
    /\ \/ /\ NoFault /\ Release(x)
          /\ backing' = (backing \/ lease.by = x)
       \/ Fail /\ UNCHANGED <<lease, backing>>
    /\ Ended(x, "thrown")
    /\ UNCHANGED <<homeVars, done, record, work, overlay>>

\* A lease outlives the drain that holds it, unless that is held up.
LeaseExpires ==
    /\ lease # NoLease /\ lease' = NoLease
    /\ IF drain[lease.by].step \in {"idle", "claim"} THEN NoFault ELSE Fail
    /\ UNCHANGED <<homeVars, done, backing, record, work, drain, netVars,
                   overlay>>

BackoffEnds ==
    /\ backing /\ backing' = FALSE
    /\ UNCHANGED <<homeVars, done, lease, record, work, drain, netVars,
                   overlay, faults>>

-----------------------------------------------------------------------------
Mutation(s) ==
    \/ ReadExpected(s) \/ Commit(s) \/ Stale(s) \/ PublishAuthorityState(s)
    \/ DrainReturns(s) \/ ReadSet(s) \/ PutSet(s) \/ CurrentRevision(s)

DrainStep(x) ==
    \/ Claim(x) \/ Prepare(x) \/ ReadAuthority(x) \/ Complete(x)
    \/ ReportFailedAttempt(x)

Next ==
    \/ \E s \in Sessions :
          \/ \E d \in Others, act \in {"add", "revoke"} : StartMutation(s, act, d)
          \/ Mutation(s) \/ StartRepublish(s)
    \/ Periodic \/ Reconnected
    \/ \E x \in Drains : DrainStep(x)
    \/ LeaseExpires \/ BackoffEnds

Spec == Init /\ [][Next]_vars

\* Calls return, timers fire, leases and backoffs end.  Nobody reconnects,
\* mutates or publishes because of fairness.
FairSpec ==
    /\ Spec
    /\ WF_vars(Periodic)
    /\ \A x \in Drains : WF_vars(DrainStep(x))
    /\ WF_vars(BackoffEnds) /\ WF_vars(LeaseExpires)

-----------------------------------------------------------------------------
(* Properties.                                                              *)

\* The published state of an epoch is exactly what the home had revoked at
\* that epoch, whatever was mutated while the record was made.
PublishedIsExact == record.revoked = RevokedBy(record.epoch)

\* What the outbox counts as published was published.
DoneIsPublished == done <= record.epoch

\* Every revocation reaches the record, whoever made it, whoever drains, and
\* whatever failed: the primary's net never stands down for good.
RevocationsArePublished == []<>(record.epoch = epoch)

\* The set that follows a revoke does not hold the revoked device.
RevokedIsLeftOut ==
    overlay.by = "mutation" => overlay.devices \cap RevokedBy(overlay.rev) = {}

\* What others read of the account's devices, in the record and in the device
\* sets, is what the home had decided at the epoch it is stamped with.
PublicationIsSound == PublishedIsExact /\ DoneIsPublished /\ RevokedIsLeftOut

\* Why it is.  The home revokes only who is active, once, and never a session; ...
RegistryIsTrue ==
    /\ \A d \in active \cup Sessions : revokedAt[d] = 0
    /\ \A d \in Devices : revokedAt[d] <= epoch
\* ... a mutation's set was read after the commit it is stamped with, ...
MutationIsTrue(w) ==
    /\ w.step \in {"read", "submit"} => w.target \in Others /\ w.act # "none"
    /\ w.step = "revision" => w.by = "republish"
    /\ w.by = "mutation" => w.rev <= epoch
    /\ w.by = "mutation" /\ w.step = "put" => w.set \cap RevokedBy(w.rev) = {}
WorkIsTrue == \A s \in Sessions : MutationIsTrue(work[s])
\* ... and what a drain signs is of the epoch that it froze, in a cycle it has.
DrainIsTrue(r) ==
    /\ r.frozen <= epoch
    /\ r.step = "claim" => r.cycles < MaxCycles
    /\ r.step = "complete" => r.revoked = RevokedBy(r.frozen)
DrainsAreTrue == \A x \in Drains : DrainIsTrue(drain[x])
PublishedIsPast ==
    /\ record.epoch <= epoch
    /\ overlay.by = "mutation" => overlay.rev <= epoch
IInv ==
    /\ TypeOK /\ RegistryIsTrue /\ WorkIsTrue /\ DrainsAreTrue
    /\ PublishedIsPast /\ PublicationIsSound
=============================================================================
