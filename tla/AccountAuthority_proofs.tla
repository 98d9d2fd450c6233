----------------------- MODULE AccountAuthority_proofs -----------------------
(***************************************************************************)
(* Proofs about AccountAuthority, PeerContacts and AccountDevices.          *)
(*                                                                         *)
(* AccountAuthority: the invariant ties the home's registry                 *)
(* (who is active was never revoked), the work of the sessions (a set is    *)
(* read after the commit it is stamped with), the drains (what is signed    *)
(* is of the frozen epoch) and what was published.  A lemma per action for  *)
(* the types, a lemma per action with a step per part for the invariant.    *)
(*                                                                         *)
(* PeerContacts: the invariant follows an invite wherever it goes -- codes, *)
(* links, requests, tasks, inboxes -- and says that the invite of a user    *)
(* who did not consent is one the mesh minted, which makes no contact.      *)
(*                                                                         *)
(* AccountDevices: an event is followed from the call that makes it to the  *)
(* device that applies it, a fact from the message that transfers it to the *)
(* log; the first message waits while it is gone through.                   *)
(***************************************************************************)
EXTENDS AccountAuthority, PeerContacts, AccountDevices, FiniteSetsExt,
        FiniteSetTheorems, SequenceTheorems, WellFoundedInduction, TLAPS

Works == [step : WorkSteps, act : {"none", "add", "revoke"}, target : Devices,
          expected : Epochs, tries : 0 .. MaxStale - 1, set : SUBSET Devices,
          rev : Epochs \cup {1}, by : {"mutation", "republish"}]
DrainRecords == [step : DrainSteps, cycles : 0 .. MaxCycles, frozen : Epochs,
                 revoked : SUBSET Devices]
FaultsOK == faults' \in 0 .. MaxFaults

LEMMA FaultType ==
  ASSUME TypeOK, Fail \/ NoFault
  PROVE  FaultsOK
BY BoundsAssumption DEF TypeOK, Fail, NoFault, FaultsOK

LEMMA Constants ==
  /\ NoWork \in Works /\ NoDrain \in DrainRecords
  /\ [NoDrain EXCEPT !.step = "claim"] \in DrainRecords
  /\ Sessions \subseteq Devices /\ Others \subseteq Devices /\ 0 \in Epochs
BY BoundsAssumption
   DEF NoWork, NoDrain, Works, DrainRecords, WorkSteps, DrainSteps, Epochs, Devices, Sessions

\* One session's work, one drain's record is replaced.
LEMMA SetType ==
  ASSUME TypeOK, NEW s \in Sessions, NEW w \in Works, Set(s, w)
  PROVE  work' \in [Sessions -> Works]
BY DEF TypeOK, Set, Works

LEMMA StepType ==
  ASSUME TypeOK, NEW s \in Sessions, NEW to \in WorkSteps, Step(s, to)
  PROVE  work' \in [Sessions -> Works]
<1>1. [work[s] EXCEPT !.step = to] \in Works
  BY DEF TypeOK, Works
<1> QED BY <1>1, SetType DEF Step

NetTyped == /\ drain' \in [Drains -> DrainRecords]
            /\ timer' \in {"armed", "suspended"} /\ pending' \in BOOLEAN

LEMMA StartType ==
  ASSUME TypeOK, NEW x \in Drains, StartDrain(x)
  PROVE  drain' \in [Drains -> DrainRecords]
BY Constants DEF TypeOK, StartDrain, DrainRecords

LEMMA EndedType ==
  ASSUME TypeOK, NEW x \in Drains, NEW outcome, Ended(x, outcome)
  PROVE  NetTyped
<1>1. drain' \in [Drains -> DrainRecords]
  BY Constants, StartType DEF Ended, TypeOK, DrainRecords
<1> QED BY <1>1 DEF Ended, TimerAfter, NetTyped, TypeOK

LEMMA NextCycleType ==
  ASSUME TypeOK, NEW x \in Drains, NextCycle(x)
  PROVE  NetTyped
<1>1. CASE drain[x].cycles < MaxCycles
  <2>1. [NoDrain EXCEPT !.step = "claim", !.cycles = drain[x].cycles] \in DrainRecords
    BY Constants DEF TypeOK, DrainRecords, DrainSteps
  <2> QED BY <1>1, <2>1 DEF NextCycle, NetTyped, TypeOK, DrainRecords, netVars
<1>2. CASE ~(drain[x].cycles < MaxCycles)
  BY <1>2, EndedType DEF NextCycle
<1> QED BY <1>1, <1>2

LEMMA RequestType ==
  ASSUME TypeOK, RequestDrain
  PROVE  drain' \in [Drains -> DrainRecords] /\ pending' \in BOOLEAN
<1>1. "net" \in Drains
  BY DEF Drains
<1>2. CASE drain["net"].step = "idle"
  BY <1>1, <1>2, StartType DEF RequestDrain, TypeOK
<1>3. CASE drain["net"].step # "idle"
  BY <1>3 DEF RequestDrain, TypeOK, DrainRecords
<1> QED BY <1>2, <1>3

-----------------------------------------------------------------------------
(* What the registry says, and how one work or one drain is replaced. *)

LEMMA ActiveIsNotRevoked ==
  ASSUME TypeOK, RegistryIsTrue, NEW e \in Epochs \cup {1}
  PROVE  /\ active \cap RevokedBy(e) = {}
         /\ \A s \in Sessions : {s} \cap RevokedBy(e) = {}
BY BoundsAssumption DEF TypeOK, RegistryIsTrue, RevokedBy, Epochs

LEMMA WorkReplaced ==
  ASSUME TypeOK, WorkIsTrue, NEW s \in Sessions, NEW w, MutationIsTrue(w), Set(s, w),
         UNCHANGED homeVars
  PROVE  WorkIsTrue'
<1>1. TypeOK /\ UNCHANGED <<epoch, revokedAt>>
  BY DEF homeVars
<1>2. \A t \in Sessions : work'[t] = IF t = s THEN w ELSE work[t]
  BY <1>1 DEF TypeOK, Set
<1> QED BY <1>1, <1>2 DEF WorkIsTrue, MutationIsTrue, RevokedBy

LEMMA DrainReplaced ==
  ASSUME TypeOK, DrainsAreTrue, NEW x \in Drains, NEW r, DrainIsTrue(r),
         drain' = [drain EXCEPT ![x] = r], UNCHANGED homeVars
  PROVE  DrainsAreTrue'
<1>1. UNCHANGED <<epoch, revokedAt>>
  BY DEF homeVars
<1>2. \A y \in Drains : drain'[y] = IF y = x THEN r ELSE drain[y]
  BY DEF TypeOK
<1> QED BY <1>1, <1>2 DEF DrainsAreTrue, DrainIsTrue, RevokedBy

LEMMA FreshIsTrue ==
  ASSUME TypeOK
  PROVE  /\ DrainIsTrue(NoDrain) /\ DrainIsTrue([NoDrain EXCEPT !.step = "claim"])
         /\ MutationIsTrue(NoWork)
         /\ \A n \in 0 .. MaxCycles - 1 : DrainIsTrue([NoDrain EXCEPT !.step = "claim", !.cycles = n])
BY BoundsAssumption DEF TypeOK, Epochs, NoDrain, NoWork, DrainIsTrue, MutationIsTrue

LEMMA EndedSafe ==
  ASSUME TypeOK, DrainsAreTrue, NEW x \in Drains, NEW outcome,
         Ended(x, outcome) \/ NextCycle(x), UNCHANGED homeVars
  PROVE  DrainsAreTrue'
<1> DEFINE again == [NoDrain EXCEPT !.step = "claim", !.cycles = drain[x].cycles]
           fresh == [NoDrain EXCEPT !.step = "claim"]
<1>1. PICK r \in {NoDrain, fresh, again} : drain' = [drain EXCEPT ![x] = r]
                       /\ (r = again => r = NoDrain \/ r = fresh
                                        \/ drain[x].cycles < MaxCycles)
  BY DEF Ended, NextCycle, StartDrain
<1>2. drain[x].cycles < MaxCycles => drain[x].cycles \in 0 .. MaxCycles - 1
  <2>1. drain[x].cycles \in 0 .. MaxCycles
    BY DEF TypeOK
  <2> QED BY <2>1, BoundsAssumption
<1>3. DrainIsTrue(r)
  BY <1>1, <1>2, FreshIsTrue
<1> QED BY <1>1, <1>3, DrainReplaced

LEMMA WorkTyped ==
  ASSUME TypeOK, NEW s \in Sessions
  PROVE  work[s] \in Works
BY DEF TypeOK, Works

-----------------------------------------------------------------------------
(* Type correctness, one lemma per action. *)

LEMMA StartMutationType == ASSUME TypeOK, NEW s \in Sessions, NEW act \in {"add", "revoke"}, NEW d \in Others,
         StartMutation(s, act, d) PROVE TypeOK'
<1>1. work[s] \in Works
  BY DEF TypeOK, Works
<1>2. PICK w \in Works : Set(s, w)
  <2>1. [NoWork EXCEPT !.step = "read", !.act = act, !.target = d] \in Works
    BY Constants DEF Works, WorkSteps
  <2> QED BY <2>1 DEF StartMutation
<1>3. work' \in [Sessions -> Works]
  BY <1>2, SetType
<1> QED BY <1>3 DEF StartMutation, TypeOK, Works, homeVars, outboxVars, netVars

LEMMA ReadExpectedType == ASSUME TypeOK, NEW s \in Sessions, ReadExpected(s) PROVE TypeOK'
<1>1. work[s] \in Works
  BY DEF TypeOK, Works
<1>2. PICK w \in Works : Set(s, w)
  <2>1. [work[s] EXCEPT !.step = "submit", !.expected = epoch] \in Works
    BY <1>1 DEF TypeOK, Works, WorkSteps
  <2> QED BY <2>1 DEF ReadExpected
<1>3. work' \in [Sessions -> Works]
  BY <1>2, SetType
<1> QED BY <1>3 DEF ReadExpected, TypeOK, Works, homeVars, outboxVars, netVars

LEMMA CommitType ==
  ASSUME TypeOK, NEW s \in Sessions, Commit(s)
  PROVE  TypeOK'
<1> DEFINE w == work[s]
<1>1. w \in Works /\ w.target \in Devices
  BY DEF TypeOK, Works
<1>2. CASE Sensible(w.act, w.target) /\ epoch < MaxEpoch
  <2>1. epoch + 1 \in Epochs /\ HomeCommits(w.act, w.target)
    BY <1>2, BoundsAssumption DEF TypeOK, Epochs, Commit
  <2>2. epoch' \in Epochs /\ active' \subseteq Devices /\ revokedAt' \in [Devices -> Epochs]
    BY <1>1, <2>1 DEF HomeCommits, TypeOK
  <2>3. [NoWork EXCEPT !.step = "drain", !.rev = epoch + 1] \in Works
    BY <2>1, Constants DEF Works, WorkSteps
  <2>4. work' \in [Sessions -> Works]
    BY <1>2, <2>3, Constants, SetType DEF Commit
  <2>5. FaultsOK
    BY <1>2, FaultType DEF Commit
  <2> QED BY <2>2, <2>4, <2>5 DEF Commit, TypeOK, Works, outboxVars, netVars, FaultsOK
<1>3. CASE ~(Sensible(w.act, w.target) /\ epoch < MaxEpoch)
  <2>1. work' \in [Sessions -> Works] /\ FaultsOK
    BY <1>3, Constants, SetType, FaultType DEF Commit
  <2> QED BY <1>3, <2>1 DEF Commit, TypeOK, Works, homeVars, outboxVars, netVars, FaultsOK
<1> QED BY <1>2, <1>3

LEMMA StaleType == ASSUME TypeOK, NEW s \in Sessions, Stale(s) PROVE TypeOK'
<1>1. work[s] \in Works
  BY DEF TypeOK, Works
<1>2. PICK w \in Works : Set(s, w)
  <2>1. work[s].tries + 1 < MaxStale =>
          [work[s] EXCEPT !.step = "read", !.tries = @ + 1] \in Works
    <3>1. work[s].tries + 1 < MaxStale => work[s].tries + 1 \in 0 .. MaxStale - 1
      BY <1>1, BoundsAssumption DEF Works
    <3> QED BY <1>1, <3>1 DEF Works, WorkSteps
  <2> QED BY <2>1, Constants DEF Stale
<1>3. work' \in [Sessions -> Works]
  BY <1>2, SetType
<1> QED BY <1>3 DEF Stale, TypeOK, Works, homeVars, outboxVars, netVars

LEMMA PublishAuthorityStateType ==
  ASSUME TypeOK, NEW s \in Sessions, PublishAuthorityState(s)
  PROVE  TypeOK'
<1>1. work' \in [Sessions -> Works]
  BY StepType DEF PublishAuthorityState, WorkSteps
<1>2. drain' \in [Drains -> DrainRecords]
  BY StartType DEF PublishAuthorityState, Drains, TypeOK, DrainRecords
<1> QED BY <1>1, <1>2
        DEF PublishAuthorityState, TypeOK, Works, DrainRecords, homeVars, outboxVars, netVars

LEMMA DrainReturnsType == ASSUME TypeOK, NEW s \in Sessions, DrainReturns(s) PROVE TypeOK'
<1>1. work' \in [Sessions -> Works]
  BY StepType DEF DrainReturns, WorkSteps
<1> QED BY <1>1 DEF DrainReturns, TypeOK, Works, homeVars, outboxVars, netVars

LEMMA ReadSetType == ASSUME TypeOK, NEW s \in Sessions, ReadSet(s) PROVE TypeOK'
<1>1. work[s] \in Works
  BY DEF TypeOK, Works
<1>2. PICK w \in Works : Set(s, w)
  <2>1. /\ [work[s] EXCEPT !.step = "put", !.set = active] \in Works
        /\ [work[s] EXCEPT !.step = "put", !.set = {s}] \in Works
    BY <1>1, Constants DEF TypeOK, Works, WorkSteps
  <2> QED BY <2>1 DEF ReadSet
<1>3. work' \in [Sessions -> Works]
  BY <1>2, SetType
<1> QED BY <1>3, FaultType DEF ReadSet, TypeOK, Works, homeVars, outboxVars, netVars, FaultsOK

LEMMA PutSetType == ASSUME TypeOK, NEW s \in Sessions, PutSet(s) PROVE TypeOK'
BY BoundsAssumption, SessionsAssumption DEF PutSet, Set, NoWork, Fail,
       NoFault, TypeOK, Epochs, WorkSteps, DrainSteps, NoLease, NoSet,
       Devices, Sessions, Drains, homeVars, outboxVars, netVars

LEMMA StartRepublishType == ASSUME TypeOK, NEW s \in Sessions, StartRepublish(s) PROVE TypeOK'
<1>1. [NoWork EXCEPT !.step = "revision", !.set = active, !.by = "republish"] \in Works
  BY Constants DEF TypeOK, Works, WorkSteps
<1>2. work' \in [Sessions -> Works]
  BY <1>1, SetType DEF StartRepublish, TypeOK, Works
<1>3. FaultsOK
  BY FaultType DEF StartRepublish
<1> QED BY <1>2, <1>3 DEF StartRepublish, TypeOK, Works, homeVars, outboxVars, netVars, FaultsOK

LEMMA CurrentRevisionType == ASSUME TypeOK, NEW s \in Sessions, CurrentRevision(s) PROVE TypeOK'
<1>1. work[s] \in Works
  BY DEF TypeOK, Works
<1>2. PICK w \in Works : Set(s, w)
  <2>1. AtLeastOne(epoch) \in Epochs \cup {1} /\ 1 \in Epochs \cup {1} /\ "put" \in WorkSteps
    BY DEF AtLeastOne, TypeOK, WorkSteps
  <2>2. /\ [work[s] EXCEPT !.step = "put", !.rev = AtLeastOne(epoch)] \in Works
        /\ [work[s] EXCEPT !.step = "put", !.rev = 1] \in Works
    BY <1>1, <2>1 DEF Works
  <2> QED BY <2>2 DEF CurrentRevision
<1>3. work' \in [Sessions -> Works]
  BY <1>2, SetType
<1> QED BY <1>3, FaultType DEF CurrentRevision, TypeOK, Works, homeVars, outboxVars, netVars, FaultsOK

LEMMA PeriodicType == ASSUME TypeOK, Periodic PROVE TypeOK'
<1>1. drain' \in [Drains -> DrainRecords] /\ pending' \in BOOLEAN
  BY RequestType DEF Periodic
<1> QED BY <1>1 DEF Periodic, TypeOK, DrainRecords, homeVars, outboxVars

LEMMA ReconnectedType == ASSUME TypeOK, Reconnected PROVE TypeOK'
<1>1. drain' \in [Drains -> DrainRecords] /\ pending' \in BOOLEAN
  BY RequestType DEF Reconnected
<1> QED BY <1>1 DEF Reconnected, TypeOK, DrainRecords, homeVars, outboxVars

LEMMA ClaimType ==
  ASSUME TypeOK, DrainsAreTrue, NEW x \in Drains, Claim(x)
  PROVE  TypeOK'
<1>1. drain[x] \in DrainRecords /\ drain \in [Drains -> DrainRecords]
  BY DEF TypeOK, DrainRecords
<1>2. FaultsOK
  BY FaultType DEF Claim
<1>3. NetTyped
  <2>1. CASE Claimable /\ UNCHANGED netVars
             /\ drain' = [drain EXCEPT ![x].step = "prepare", ![x].cycles = @ + 1]
    <3>1. drain[x].cycles + 1 \in 0 .. MaxCycles
      <4>1. drain[x].cycles \in 0 .. MaxCycles /\ drain[x].cycles < MaxCycles
        BY <1>1 DEF Claim, DrainsAreTrue, DrainIsTrue, DrainRecords
      <4> QED BY <4>1, BoundsAssumption
    <3>2. [drain[x] EXCEPT !.step = "prepare", !.cycles = @ + 1] \in DrainRecords
      BY <1>1, <3>1 DEF DrainRecords, DrainSteps
    <3>3. drain' = [drain EXCEPT ![x] = [drain[x] EXCEPT !.step = "prepare", !.cycles = @ + 1]]
      BY <2>1
    <3> QED BY <1>1, <2>1, <3>2, <3>3 DEF NetTyped, TypeOK, netVars
  <2>2. CASE \E outcome \in {"nothing-pending", "thrown"} : Ended(x, outcome)
    BY <2>2, EndedType
  <2> QED BY <2>1, <2>2 DEF Claim
<1>4. lease' \in [by : Drains, frozen : Epochs] \cup {NoLease}
  BY Constants DEF Claim, TypeOK
<1> QED BY <1>1, <1>2, <1>3, <1>4
        DEF Claim, NetTyped, TypeOK, DrainRecords, FaultsOK, homeVars

LEMMA PrepareType == ASSUME TypeOK, NEW x \in Drains, Prepare(x) PROVE TypeOK'
<1>1. drain[x] \in DrainRecords /\ drain \in [Drains -> DrainRecords]
  BY DEF TypeOK, DrainRecords
<1>2. FaultsOK
  BY FaultType DEF Prepare
<1>3. NetTyped
  <2>1. CASE UNCHANGED netVars /\ drain' = [drain EXCEPT ![x].step = "read", ![x].frozen = epoch]
    BY <1>1, <2>1 DEF NetTyped, TypeOK, DrainRecords, DrainSteps, netVars
  <2>2. CASE \E outcome \in {"lease-lost", "thrown"} : Ended(x, outcome)
    BY <2>2, EndedType
  <2> QED BY <2>1, <2>2 DEF Prepare
<1>4. lease' \in [by : Drains, frozen : Epochs] \cup {NoLease}
  <2>1. lease.by = x => lease # NoLease
    BY DEF NoLease, Drains
  <2> QED BY <2>1 DEF Prepare, TypeOK
<1> QED BY <1>1, <1>2, <1>3, <1>4 DEF Prepare, NetTyped, TypeOK, DrainRecords, FaultsOK, homeVars

LEMMA ReadAuthorityType == ASSUME TypeOK, NEW x \in Drains, ReadAuthority(x) PROVE TypeOK'
<1>1. drain[x] \in DrainRecords /\ drain \in [Drains -> DrainRecords]
  BY DEF TypeOK, DrainRecords
<1>2. FaultsOK
  BY FaultType DEF ReadAuthority
<1>3. NetTyped
  <2>1. CASE UNCHANGED netVars /\ (\/ drain' = [drain EXCEPT ![x].step = "complete", ![x].revoked = RevokedBy(epoch)]
                                \/ drain' = [drain EXCEPT ![x].step = "fail"])
    <3>1. RevokedBy(epoch) \subseteq Devices
      BY DEF RevokedBy
    <3> QED BY <1>1, <2>1, <3>1 DEF NetTyped, TypeOK, DrainRecords, DrainSteps, netVars
  <2>2. CASE NextCycle(x)
    BY <2>2, NextCycleType
  <2> QED BY <2>1, <2>2 DEF ReadAuthority
<1>4. lease' \in [by : Drains, frozen : Epochs] \cup {NoLease}
  BY DEF ReadAuthority, Release, TypeOK
<1> QED BY <1>1, <1>2, <1>3, <1>4 DEF ReadAuthority, NetTyped, TypeOK, DrainRecords, FaultsOK, homeVars

LEMMA CompleteType == ASSUME TypeOK, NEW x \in Drains, Complete(x) PROVE TypeOK'
<1>1. drain[x] \in DrainRecords /\ drain \in [Drains -> DrainRecords]
  BY DEF TypeOK, DrainRecords
<1>2. FaultsOK
  BY FaultType DEF Complete
<1>3. NetTyped
  <2>1. CASE UNCHANGED netVars /\ drain' = [drain EXCEPT ![x].step = "fail"]
    BY <1>1, <2>1 DEF NetTyped, TypeOK, DrainRecords, DrainSteps, netVars
  <2>2. CASE NextCycle(x) \/ Ended(x, "lease-lost")
    BY <2>2, NextCycleType, EndedType
  <2> QED BY <2>1, <2>2 DEF Complete
<1>4. lease' \in [by : Drains, frozen : Epochs] \cup {NoLease} /\ done' \in Epochs
  BY <1>1 DEF Complete, TypeOK, DrainRecords
<1>5. record' \in [epoch : Epochs, revoked : SUBSET Devices]
  BY <1>1 DEF Complete, Stored, TypeOK, DrainRecords
<1> QED BY <1>1, <1>2, <1>3, <1>4, <1>5 DEF Complete, NetTyped, TypeOK, DrainRecords, FaultsOK, homeVars

LEMMA ReportFailedAttemptType ==
  ASSUME TypeOK, NEW x \in Drains, ReportFailedAttempt(x)
  PROVE  TypeOK'
<1>1. FaultsOK
  BY FaultType DEF ReportFailedAttempt
<1>2. NetTyped
  BY EndedType DEF ReportFailedAttempt
<1>3. lease' \in [by : Drains, frozen : Epochs] \cup {NoLease} /\ backing' \in BOOLEAN
  BY DEF ReportFailedAttempt, Release, TypeOK
<1> QED BY <1>1, <1>2, <1>3
        DEF ReportFailedAttempt, NetTyped, TypeOK, DrainRecords, FaultsOK, homeVars

LEMMA LeaseExpiresType == ASSUME TypeOK, LeaseExpires PROVE TypeOK'
BY BoundsAssumption, SessionsAssumption DEF LeaseExpires, NoLease, Fail,
       NoFault, TypeOK, Epochs, WorkSteps, DrainSteps, NoSet, Devices,
       Sessions, Drains, homeVars, outboxVars, netVars

LEMMA BackoffEndsType == ASSUME TypeOK, BackoffEnds PROVE TypeOK'
BY BoundsAssumption, SessionsAssumption DEF BackoffEnds, Fail, NoFault,
       TypeOK, Epochs, WorkSteps, DrainSteps, NoLease, NoSet, Devices,
       Sessions, Drains, homeVars, outboxVars, netVars

-----------------------------------------------------------------------------
(* The inductive invariant, one lemma per action and a step for each part. *)

LEMMA StartMutationSafe == ASSUME IInv, NEW s \in Sessions, NEW act \in {"add", "revoke"}, NEW d \in Others, StartMutation(s, act, d) PROVE IInv'
<1>1. TypeOK'
  BY StartMutationType DEF IInv
<1>2. RegistryIsTrue' /\ DrainsAreTrue' /\ PublishedIsPast' /\ PublicationIsSound'
  BY DEF StartMutation, Set, NoWork, Sensible, IInv, RegistryIsTrue,
         DrainsAreTrue, RevokedBy, DrainIsTrue, PublishedIsPast,
         PublicationIsSound, PublishedIsExact, DoneIsPublished,
         RevokedIsLeftOut, homeVars, outboxVars
<1>3. WorkIsTrue'
  BY BoundsAssumption, SessionsAssumption DEF StartMutation, Set, NoWork,
         Sensible, IInv, TypeOK, WorkIsTrue, RegistryIsTrue, RevokedBy,
         Devices, Epochs, MutationIsTrue, homeVars
<1> QED BY <1>1, <1>2, <1>3 DEF IInv

LEMMA ReadExpectedSafe == ASSUME IInv, NEW s \in Sessions, ReadExpected(s) PROVE IInv'
<1>1. TypeOK'
  BY ReadExpectedType DEF IInv
<1>2. RegistryIsTrue' /\ DrainsAreTrue' /\ PublishedIsPast' /\ PublicationIsSound'
  BY DEF ReadExpected, Set, IInv, RegistryIsTrue, DrainsAreTrue, RevokedBy,
         DrainIsTrue, PublishedIsPast, PublicationIsSound, PublishedIsExact,
         DoneIsPublished, RevokedIsLeftOut, homeVars, outboxVars
<1>3. WorkIsTrue'
  BY BoundsAssumption, SessionsAssumption DEF ReadExpected, Set, IInv, TypeOK,
         WorkIsTrue, RegistryIsTrue, RevokedBy, Devices, Epochs,
         MutationIsTrue, homeVars
<1> QED BY <1>1, <1>2, <1>3 DEF IInv

LEMMA CommitSafe == ASSUME IInv, NEW s \in Sessions, Commit(s) PROVE IInv'
<1>1. TypeOK'
  BY CommitType DEF IInv
<1>2. RegistryIsTrue'
  BY BoundsAssumption, SessionsAssumption DEF Commit, HomeCommits, Sensible,
         Set, NoWork, Fail, NoFault, IInv, TypeOK, RegistryIsTrue, WorkIsTrue,
         Devices, Sessions, Epochs, MutationIsTrue, homeVars
<1>3. WorkIsTrue'
  <2>1. CASE UNCHANGED homeVars /\ Set(s, NoWork)
    BY <2>1, FreshIsTrue, WorkReplaced DEF IInv
  <2> DEFINE act == work[s].act  d == work[s].target
  <2>2. CASE Sensible(act, d) /\ HomeCommits(act, d)
    <3>1. epoch' = epoch + 1 /\ epoch \in Nat /\ d \in Devices
      BY <2>2, BoundsAssumption DEF HomeCommits, IInv, TypeOK, Epochs
    \* what was revoked before is what it was
    <3>2. \A e \in Epochs \cup {1} : e <= epoch => RevokedBy(e)' = RevokedBy(e)
      <4>1. revokedAt[d] = 0
        BY <2>2, SessionsAssumption DEF IInv, RegistryIsTrue, Sensible, WorkIsTrue,
           MutationIsTrue, Commit
      <4>2. \A c \in Devices : revokedAt'[c] = revokedAt[c]
                               \/ (c = d /\ revokedAt'[c] = epoch + 1)
        <5>1. revokedAt \in [Devices -> Epochs] /\ (revokedAt' = revokedAt
                \/ revokedAt' = [revokedAt EXCEPT ![d] = epoch + 1])
          BY <2>2 DEF HomeCommits, IInv, TypeOK
        <5> HIDE DEF d
        <5> QED BY <5>1
      <4>3. \A c \in Devices : revokedAt[c] \in Epochs
        BY DEF IInv, TypeOK
      <4> QED BY <3>1, <4>1, <4>2, <4>3, BoundsAssumption DEF RevokedBy, Epochs
    <3>3. PICK w \in {NoWork, [NoWork EXCEPT !.step = "drain", !.rev = epoch + 1]} : Set(s, w)
      BY <2>2 DEF Commit
    <3>4. \A t \in Sessions : work'[t] = IF t = s THEN w ELSE work[t]
      BY <3>3 DEF IInv, TypeOK, Set
    <3>5. ASSUME NEW t \in Sessions PROVE MutationIsTrue(work[t])'
      <4>1. CASE t = s
        <5>1. CASE w = NoWork
          BY <3>1, <3>4, <4>1, <5>1 DEF MutationIsTrue, NoWork
        <5>2. CASE w = [NoWork EXCEPT !.step = "drain", !.rev = epoch + 1]
          <6>1. w.step = "drain" /\ w.rev = epoch + 1 /\ w.by = "mutation"
            BY <5>2 DEF NoWork
          <6> QED BY <3>1, <3>4, <4>1, <6>1 DEF MutationIsTrue
        <5> QED BY <3>3, <5>1, <5>2
      <4>2. CASE t # s
        <5>1. work'[t] = work[t] /\ work[t] \in Works /\ MutationIsTrue(work[t])
          BY <3>4, <4>2, WorkTyped DEF IInv, WorkIsTrue
        <5>2. work[t].rev \in Epochs \cup {1}
          BY <5>1 DEF Works
        <5>3. work[t].by = "mutation" => work[t].rev <= epoch + 1
                /\ RevokedBy(work[t].rev)' = RevokedBy(work[t].rev)
          BY <5>1, <5>2, <3>1, <3>2, BoundsAssumption DEF MutationIsTrue, Epochs
        <5> QED BY <3>1, <5>1, <5>3 DEF MutationIsTrue
      <4> QED BY <4>1, <4>2
    <3> QED BY <3>5 DEF WorkIsTrue
  <2> QED BY <2>1, <2>2 DEF Commit
<1>4. DrainsAreTrue'
  BY BoundsAssumption, SessionsAssumption DEF Commit, HomeCommits, Sensible,
         Set, NoWork, Fail, NoFault, IInv, TypeOK, DrainsAreTrue,
         RegistryIsTrue, WorkIsTrue, RevokedBy, Devices, Epochs,
         MutationIsTrue, DrainIsTrue, homeVars
<1>5. PublishedIsPast'
  BY BoundsAssumption, SessionsAssumption DEF Commit, HomeCommits, Sensible,
         Set, NoWork, Fail, NoFault, IInv, TypeOK, PublishedIsPast,
         WorkIsTrue, DrainsAreTrue, Epochs, MutationIsTrue, DrainIsTrue,
         homeVars, outboxVars
<1>6. PublicationIsSound'
  BY BoundsAssumption, SessionsAssumption DEF Commit, HomeCommits, Sensible,
         Set, NoWork, Fail, NoFault, IInv, TypeOK, PublishedIsPast,
         WorkIsTrue, DrainsAreTrue, RegistryIsTrue, RevokedBy, Devices,
         Epochs, PublicationIsSound, PublishedIsExact, DoneIsPublished,
         RevokedIsLeftOut, MutationIsTrue, DrainIsTrue, homeVars, outboxVars
<1> QED BY <1>1, <1>2, <1>3, <1>4, <1>5, <1>6 DEF IInv

LEMMA StaleSafe == ASSUME IInv, NEW s \in Sessions, Stale(s) PROVE IInv'
<1>1. TypeOK'
  BY StaleType DEF IInv
<1>2. RegistryIsTrue' /\ DrainsAreTrue' /\ PublishedIsPast' /\ PublicationIsSound'
  BY DEF Stale, Set, NoWork, IInv, RegistryIsTrue, DrainsAreTrue, RevokedBy,
         DrainIsTrue, PublishedIsPast, PublicationIsSound, PublishedIsExact,
         DoneIsPublished, RevokedIsLeftOut, homeVars, outboxVars
<1>3. WorkIsTrue'
  BY BoundsAssumption, SessionsAssumption DEF Stale, Set, NoWork, IInv,
         TypeOK, WorkIsTrue, RegistryIsTrue, RevokedBy, Devices, Epochs,
         MutationIsTrue, homeVars
<1> QED BY <1>1, <1>2, <1>3 DEF IInv

LEMMA PublishAuthorityStateSafe == ASSUME IInv, NEW s \in Sessions, PublishAuthorityState(s) PROVE IInv'
<1>1. TypeOK'
  BY PublishAuthorityStateType DEF IInv
<1>2. RegistryIsTrue' /\ PublishedIsPast' /\ PublicationIsSound'
  BY DEF PublishAuthorityState, StartDrain, NoDrain, Step, Set, IInv,
         RegistryIsTrue, PublishedIsPast, PublicationIsSound,
         PublishedIsExact, DoneIsPublished, RevokedIsLeftOut, RevokedBy,
         homeVars, outboxVars
<1>3. WorkIsTrue'
  BY BoundsAssumption, SessionsAssumption DEF PublishAuthorityState,
         StartDrain, NoDrain, Step, Set, IInv, TypeOK, WorkIsTrue,
         RegistryIsTrue, RevokedBy, Devices, Epochs, MutationIsTrue, homeVars
<1>4. DrainsAreTrue'
  <2>1. CASE UNCHANGED drain
    BY <2>1 DEF PublishAuthorityState, IInv, DrainsAreTrue, DrainIsTrue, RevokedBy, homeVars
  <2>2. CASE StartDrain("mutation")
    BY <2>2, FreshIsTrue, DrainReplaced
       DEF PublishAuthorityState, StartDrain, IInv, Drains
  <2> QED BY <2>1, <2>2 DEF PublishAuthorityState
<1> QED BY <1>1, <1>2, <1>3, <1>4 DEF IInv

LEMMA DrainReturnsSafe == ASSUME IInv, NEW s \in Sessions, DrainReturns(s) PROVE IInv'
<1>1. TypeOK'
  BY DrainReturnsType DEF IInv
<1>2. RegistryIsTrue' /\ DrainsAreTrue' /\ PublishedIsPast' /\ PublicationIsSound'
  BY DEF DrainReturns, Step, Set, IInv, RegistryIsTrue, DrainsAreTrue,
         RevokedBy, DrainIsTrue, PublishedIsPast, PublicationIsSound,
         PublishedIsExact, DoneIsPublished, RevokedIsLeftOut, homeVars,
         outboxVars
<1>3. WorkIsTrue'
  BY BoundsAssumption, SessionsAssumption DEF DrainReturns, Step, Set, IInv,
         TypeOK, WorkIsTrue, RegistryIsTrue, RevokedBy, Devices, Epochs,
         MutationIsTrue, homeVars
<1> QED BY <1>1, <1>2, <1>3 DEF IInv

LEMMA ReadSetSafe == ASSUME IInv, NEW s \in Sessions, ReadSet(s) PROVE IInv'
<1>1. TypeOK'
  BY ReadSetType DEF IInv
<1>2. RegistryIsTrue' /\ DrainsAreTrue' /\ PublishedIsPast' /\ PublicationIsSound'
  BY DEF ReadSet, Set, Fail, NoFault, IInv, RegistryIsTrue, DrainsAreTrue,
         RevokedBy, DrainIsTrue, PublishedIsPast, PublicationIsSound,
         PublishedIsExact, DoneIsPublished, RevokedIsLeftOut, homeVars,
         outboxVars
<1>3. WorkIsTrue'
  <2>1. work[s] \in Works /\ MutationIsTrue(work[s]) /\ work[s].rev \in Epochs \cup {1}
    BY WorkTyped DEF IInv, WorkIsTrue, Works
  <2>2. \A e \in Epochs \cup {1} : active \cap RevokedBy(e) = {} /\ {s} \cap RevokedBy(e) = {}
    BY ActiveIsNotRevoked DEF IInv
  <2>3. /\ MutationIsTrue([work[s] EXCEPT !.step = "put", !.set = active])
        /\ MutationIsTrue([work[s] EXCEPT !.step = "put", !.set = {s}])
    BY <2>1, <2>2 DEF MutationIsTrue, Works
  <2> QED BY <2>3, WorkReplaced DEF ReadSet, IInv
<1> QED BY <1>1, <1>2, <1>3 DEF IInv

LEMMA PutSetSafe == ASSUME IInv, NEW s \in Sessions, PutSet(s) PROVE IInv'
<1>1. TypeOK'
  BY PutSetType DEF IInv
<1>2. RegistryIsTrue' /\ DrainsAreTrue'
  BY DEF PutSet, Set, NoWork, Fail, NoFault, IInv, RegistryIsTrue,
         DrainsAreTrue, RevokedBy, DrainIsTrue, homeVars
<1>3. WorkIsTrue'
  BY BoundsAssumption, SessionsAssumption DEF PutSet, Set, NoWork, Fail,
         NoFault, IInv, TypeOK, WorkIsTrue, RegistryIsTrue, RevokedBy,
         Devices, Epochs, MutationIsTrue, homeVars
<1>4. PublishedIsPast'
  BY BoundsAssumption, SessionsAssumption DEF PutSet, Set, NoWork, Fail,
         NoFault, IInv, TypeOK, PublishedIsPast, WorkIsTrue, DrainsAreTrue,
         Epochs, MutationIsTrue, DrainIsTrue, homeVars, outboxVars
<1>5. PublicationIsSound'
  BY BoundsAssumption, SessionsAssumption DEF PutSet, Set, NoWork, Fail,
         NoFault, IInv, TypeOK, PublishedIsPast, WorkIsTrue, DrainsAreTrue,
         RegistryIsTrue, RevokedBy, Devices, Epochs, PublicationIsSound,
         PublishedIsExact, DoneIsPublished, RevokedIsLeftOut, MutationIsTrue,
         DrainIsTrue, homeVars, outboxVars
<1> QED BY <1>1, <1>2, <1>3, <1>4, <1>5 DEF IInv

LEMMA StartRepublishSafe == ASSUME IInv, NEW s \in Sessions, StartRepublish(s) PROVE IInv'
<1>1. TypeOK'
  BY StartRepublishType DEF IInv
<1>2. RegistryIsTrue' /\ DrainsAreTrue' /\ PublishedIsPast' /\ PublicationIsSound'
  BY DEF StartRepublish, Set, NoWork, Fail, NoFault, IInv, RegistryIsTrue,
         DrainsAreTrue, RevokedBy, DrainIsTrue, PublishedIsPast,
         PublicationIsSound, PublishedIsExact, DoneIsPublished,
         RevokedIsLeftOut, homeVars, outboxVars
<1>3. WorkIsTrue'
  <2>1. MutationIsTrue([NoWork EXCEPT !.step = "revision", !.set = active,
                                     !.by = "republish"])
    BY DEF MutationIsTrue, NoWork
  <2>2. CASE UNCHANGED work
    BY <2>2 DEF StartRepublish, IInv, WorkIsTrue, MutationIsTrue, RevokedBy, homeVars
  <2> QED BY <2>1, <2>2, WorkReplaced DEF StartRepublish, IInv
<1> QED BY <1>1, <1>2, <1>3 DEF IInv

LEMMA CurrentRevisionSafe == ASSUME IInv, NEW s \in Sessions, CurrentRevision(s) PROVE IInv'
<1>1. TypeOK'
  BY CurrentRevisionType DEF IInv
<1>2. RegistryIsTrue' /\ DrainsAreTrue' /\ PublishedIsPast' /\ PublicationIsSound'
  BY DEF CurrentRevision, AtLeastOne, Set, Fail, NoFault, IInv,
         RegistryIsTrue, DrainsAreTrue, RevokedBy, DrainIsTrue,
         PublishedIsPast, PublicationIsSound, PublishedIsExact,
         DoneIsPublished, RevokedIsLeftOut, homeVars, outboxVars
<1>3. WorkIsTrue'
  <2>1. work[s] \in Works /\ work[s].by = "republish"
    BY WorkTyped DEF IInv, WorkIsTrue, MutationIsTrue, CurrentRevision
  <2>2. /\ MutationIsTrue([work[s] EXCEPT !.step = "put", !.rev = AtLeastOne(epoch)])
        /\ MutationIsTrue([work[s] EXCEPT !.step = "put", !.rev = 1])
    BY <2>1 DEF MutationIsTrue, Works
  <2> QED BY <2>2, WorkReplaced DEF CurrentRevision, IInv
<1> QED BY <1>1, <1>2, <1>3 DEF IInv

LEMMA PeriodicSafe == ASSUME IInv, Periodic PROVE IInv'
<1>1. TypeOK'
  BY PeriodicType DEF IInv
<1>2. RegistryIsTrue' /\ WorkIsTrue' /\ PublishedIsPast' /\ PublicationIsSound'
  BY DEF Periodic, RequestDrain, StartDrain, NoDrain, IInv, RegistryIsTrue,
         WorkIsTrue, RevokedBy, MutationIsTrue, PublishedIsPast,
         PublicationIsSound, PublishedIsExact, DoneIsPublished,
         RevokedIsLeftOut, homeVars, outboxVars
<1>3. DrainsAreTrue'
  BY BoundsAssumption, SessionsAssumption DEF Periodic, RequestDrain,
         StartDrain, NoDrain, IInv, TypeOK, DrainsAreTrue, RegistryIsTrue,
         WorkIsTrue, RevokedBy, Devices, Epochs, MutationIsTrue, DrainIsTrue,
         homeVars
<1> QED BY <1>1, <1>2, <1>3 DEF IInv

LEMMA ReconnectedSafe == ASSUME IInv, Reconnected PROVE IInv'
<1>1. TypeOK'
  BY ReconnectedType DEF IInv
<1>2. RegistryIsTrue' /\ WorkIsTrue' /\ PublishedIsPast' /\ PublicationIsSound'
  BY DEF Reconnected, RequestDrain, StartDrain, NoDrain, IInv, RegistryIsTrue,
         WorkIsTrue, RevokedBy, MutationIsTrue, PublishedIsPast,
         PublicationIsSound, PublishedIsExact, DoneIsPublished,
         RevokedIsLeftOut, homeVars, outboxVars
<1>3. DrainsAreTrue'
  BY BoundsAssumption, SessionsAssumption DEF Reconnected, RequestDrain,
         StartDrain, NoDrain, IInv, TypeOK, DrainsAreTrue, RegistryIsTrue,
         WorkIsTrue, RevokedBy, Devices, Epochs, MutationIsTrue, DrainIsTrue,
         homeVars
<1> QED BY <1>1, <1>2, <1>3 DEF IInv

LEMMA ClaimSafe == ASSUME IInv, NEW x \in Drains, Claim(x) PROVE IInv'
<1>1. TypeOK'
  BY ClaimType DEF IInv
<1>2. RegistryIsTrue' /\ WorkIsTrue' /\ PublishedIsPast' /\ PublicationIsSound'
  BY DEF Claim, Ended, TimerAfter, StartDrain, NoDrain, Fail, NoFault, IInv,
         RegistryIsTrue, WorkIsTrue, RevokedBy, MutationIsTrue,
         PublishedIsPast, PublicationIsSound, PublishedIsExact,
         DoneIsPublished, RevokedIsLeftOut, homeVars, outboxVars
<1>3. DrainsAreTrue'
  BY BoundsAssumption, SessionsAssumption DEF Claim, Ended, TimerAfter,
         StartDrain, NoDrain, Fail, NoFault, IInv, TypeOK, DrainsAreTrue,
         RegistryIsTrue, WorkIsTrue, RevokedBy, Devices, Epochs,
         MutationIsTrue, DrainIsTrue, homeVars
<1> QED BY <1>1, <1>2, <1>3 DEF IInv

LEMMA PrepareSafe == ASSUME IInv, NEW x \in Drains, Prepare(x) PROVE IInv'
<1>1. TypeOK'
  BY PrepareType DEF IInv
<1>2. RegistryIsTrue' /\ WorkIsTrue' /\ PublishedIsPast' /\ PublicationIsSound'
  BY DEF Prepare, Ended, TimerAfter, StartDrain, NoDrain, Fail, NoFault, IInv,
         RegistryIsTrue, WorkIsTrue, RevokedBy, MutationIsTrue,
         PublishedIsPast, PublicationIsSound, PublishedIsExact,
         DoneIsPublished, RevokedIsLeftOut, homeVars, outboxVars
<1>3. DrainsAreTrue'
  BY BoundsAssumption, SessionsAssumption DEF Prepare, Ended, TimerAfter,
         StartDrain, NoDrain, Fail, NoFault, IInv, TypeOK, DrainsAreTrue,
         RegistryIsTrue, WorkIsTrue, RevokedBy, Devices, Epochs,
         MutationIsTrue, DrainIsTrue, homeVars
<1> QED BY <1>1, <1>2, <1>3 DEF IInv

LEMMA ReadAuthoritySafe == ASSUME IInv, NEW x \in Drains, ReadAuthority(x) PROVE IInv'
<1>1. TypeOK'
  BY ReadAuthorityType DEF IInv
<1>2. RegistryIsTrue' /\ WorkIsTrue' /\ PublishedIsPast' /\ PublicationIsSound'
  BY DEF ReadAuthority, Release, NextCycle, Ended, TimerAfter, StartDrain,
         NoDrain, Fail, NoFault, IInv, RegistryIsTrue, WorkIsTrue, RevokedBy,
         MutationIsTrue, PublishedIsPast, PublicationIsSound,
         PublishedIsExact, DoneIsPublished, RevokedIsLeftOut, homeVars,
         outboxVars
<1>3. DrainsAreTrue'
  <2>1. DrainIsTrue(drain[x]) /\ drain[x] \in DrainRecords
    BY DEF IInv, TypeOK, DrainsAreTrue, DrainRecords
  <2>2. /\ epoch = drain[x].frozen =>
             DrainIsTrue([drain[x] EXCEPT !.step = "complete", !.revoked = RevokedBy(epoch)])
        /\ DrainIsTrue([drain[x] EXCEPT !.step = "fail"])
    BY <2>1 DEF DrainIsTrue, DrainRecords
  <2>3. CASE NextCycle(x)
    BY <2>3, EndedSafe DEF ReadAuthority, IInv
  <2>4. CASE epoch = drain[x].frozen /\
          drain' = [drain EXCEPT ![x].step = "complete", ![x].revoked = RevokedBy(epoch)]
    <3>1. drain' = [drain EXCEPT ![x] = [drain[x] EXCEPT !.step = "complete",
                                                         !.revoked = RevokedBy(epoch)]]
      BY <2>4
    <3> QED BY <2>2, <2>4, <3>1, DrainReplaced DEF ReadAuthority, IInv
  <2>5. CASE drain' = [drain EXCEPT ![x].step = "fail"]
    BY <2>2, <2>5, DrainReplaced DEF ReadAuthority, IInv
  <2> QED BY <2>3, <2>4, <2>5 DEF ReadAuthority
<1> QED BY <1>1, <1>2, <1>3 DEF IInv

LEMMA CompleteSafe == ASSUME IInv, NEW x \in Drains, Complete(x) PROVE IInv'
<1>1. TypeOK'
  BY CompleteType DEF IInv
<1>2. RegistryIsTrue' /\ WorkIsTrue'
  BY DEF Complete, Stored, NextCycle, Ended, TimerAfter, StartDrain, NoDrain,
         NoLease, Fail, NoFault, IInv, RegistryIsTrue, WorkIsTrue, RevokedBy,
         MutationIsTrue, homeVars
<1>3. DrainsAreTrue'
  <2>1. DrainIsTrue(drain[x]) /\ drain[x] \in DrainRecords
    BY DEF IInv, TypeOK, DrainsAreTrue, DrainRecords
  <2>2. DrainIsTrue([drain[x] EXCEPT !.step = "fail"])
    BY <2>1 DEF DrainIsTrue, DrainRecords
  <2>3. CASE NextCycle(x) \/ Ended(x, "lease-lost")
    BY <2>3, EndedSafe DEF Complete, IInv
  <2> QED BY <2>2, <2>3, DrainReplaced DEF Complete, IInv
<1>4. PublishedIsPast'
  BY BoundsAssumption, SessionsAssumption DEF Complete, Stored, NextCycle,
         Ended, TimerAfter, StartDrain, NoDrain, NoLease, Fail, NoFault, IInv,
         TypeOK, PublishedIsPast, WorkIsTrue, DrainsAreTrue, Epochs,
         MutationIsTrue, DrainIsTrue, homeVars, outboxVars
<1>5. PublicationIsSound'
  BY BoundsAssumption, SessionsAssumption DEF Complete, Stored, NextCycle,
         Ended, TimerAfter, StartDrain, NoDrain, NoLease, Fail, NoFault, IInv,
         TypeOK, PublishedIsPast, WorkIsTrue, DrainsAreTrue, RegistryIsTrue,
         RevokedBy, Devices, Epochs, PublicationIsSound, PublishedIsExact,
         DoneIsPublished, RevokedIsLeftOut, MutationIsTrue, DrainIsTrue,
         homeVars, outboxVars
<1> QED BY <1>1, <1>2, <1>3, <1>4, <1>5 DEF IInv

LEMMA ReportFailedAttemptSafe == ASSUME IInv, NEW x \in Drains, ReportFailedAttempt(x) PROVE IInv'
<1>1. TypeOK'
  BY ReportFailedAttemptType DEF IInv
<1>2. RegistryIsTrue' /\ WorkIsTrue' /\ PublishedIsPast' /\ PublicationIsSound'
  BY DEF ReportFailedAttempt, Release, Ended, TimerAfter, StartDrain, NoDrain,
         Fail, NoFault, IInv, RegistryIsTrue, WorkIsTrue, RevokedBy,
         MutationIsTrue, PublishedIsPast, PublicationIsSound,
         PublishedIsExact, DoneIsPublished, RevokedIsLeftOut, homeVars,
         outboxVars
<1>3. DrainsAreTrue'
  BY BoundsAssumption, SessionsAssumption DEF ReportFailedAttempt, Release,
         Ended, TimerAfter, StartDrain, NoDrain, Fail, NoFault, IInv, TypeOK,
         DrainsAreTrue, RegistryIsTrue, WorkIsTrue, RevokedBy, Devices,
         Epochs, MutationIsTrue, DrainIsTrue, homeVars
<1> QED BY <1>1, <1>2, <1>3 DEF IInv

LEMMA LeaseExpiresSafe == ASSUME IInv, LeaseExpires PROVE IInv'
<1>1. TypeOK'
  BY LeaseExpiresType DEF IInv
<1>2. RegistryIsTrue' /\ WorkIsTrue' /\ DrainsAreTrue' /\ PublishedIsPast' /\ PublicationIsSound'
  BY DEF LeaseExpires, NoLease, Fail, NoFault, IInv, RegistryIsTrue,
         WorkIsTrue, RevokedBy, MutationIsTrue, DrainsAreTrue, DrainIsTrue,
         PublishedIsPast, PublicationIsSound, PublishedIsExact,
         DoneIsPublished, RevokedIsLeftOut, homeVars, outboxVars
<1> QED BY <1>1, <1>2 DEF IInv

LEMMA BackoffEndsSafe == ASSUME IInv, BackoffEnds PROVE IInv'
<1>1. TypeOK'
  BY BackoffEndsType DEF IInv
<1>2. RegistryIsTrue' /\ WorkIsTrue' /\ DrainsAreTrue' /\ PublishedIsPast' /\ PublicationIsSound'
  BY DEF BackoffEnds, Fail, NoFault, IInv, RegistryIsTrue, WorkIsTrue,
         RevokedBy, MutationIsTrue, DrainsAreTrue, DrainIsTrue,
         PublishedIsPast, PublicationIsSound, PublishedIsExact,
         DoneIsPublished, RevokedIsLeftOut, homeVars, outboxVars
<1> QED BY <1>1, <1>2 DEF IInv
-----------------------------------------------------------------------------
LEMMA Initially == ASSUME Init PROVE IInv
<1>1. TypeOK
  <2>1. work \in [Sessions -> Works] /\ drain \in [Drains -> DrainRecords]
    BY Constants DEF Init
  <2>2. 0 \in Epochs /\ Sessions \subseteq Devices /\ 0 \in 0 .. MaxFaults
    BY Constants, BoundsAssumption
  <2>3. /\ revokedAt \in [Devices -> Epochs] /\ record \in [epoch : Epochs, revoked : SUBSET Devices]
        /\ overlay \in [rev : Epochs \cup {1}, devices : SUBSET Devices,
                        by : {"nobody", "mutation", "republish"}]
    BY <2>2 DEF Init, NoSet
  <2> QED BY <2>1, <2>2, <2>3 DEF Init, TypeOK, Works, DrainRecords
<1>2. RegistryIsTrue /\ PublishedIsPast
  BY <1>1, SessionsAssumption
     DEF Init, RegistryIsTrue, PublishedIsPast, NoSet, TypeOK, Devices, Epochs
<1>3. WorkIsTrue /\ DrainsAreTrue
  BY <1>1, FreshIsTrue DEF Init, WorkIsTrue, DrainsAreTrue
<1>4. PublicationIsSound
  BY <1>1 DEF Init, PublicationIsSound, PublishedIsExact, DoneIsPublished,
              RevokedIsLeftOut, RevokedBy, NoSet
<1> QED BY <1>1, <1>2, <1>3, <1>4 DEF IInv

LEMMA Stutter == ASSUME IInv, UNCHANGED vars PROVE IInv'
BY DEF IInv, TypeOK, RegistryIsTrue, WorkIsTrue, MutationIsTrue, DrainsAreTrue,
       DrainIsTrue, PublishedIsPast, PublicationIsSound, PublishedIsExact,
       DoneIsPublished, RevokedIsLeftOut, RevokedBy, vars, homeVars, outboxVars,
       netVars

LEMMA MutationSafe == ASSUME IInv, NEW s \in Sessions, Mutation(s) PROVE IInv'
BY ReadExpectedSafe, CommitSafe, StaleSafe, PublishAuthorityStateSafe,
   DrainReturnsSafe, ReadSetSafe, PutSetSafe, CurrentRevisionSafe DEF Mutation

LEMMA DrainStepSafe == ASSUME IInv, NEW x \in Drains, DrainStep(x) PROVE IInv'
BY ClaimSafe, PrepareSafe, ReadAuthoritySafe, CompleteSafe, ReportFailedAttemptSafe
   DEF DrainStep

\* The registry, the mutations under way, the drains and what they published
\* stay consistent with one another at every step of submitMutation,
\* drainPublications, republishToAllPeers and the home's outbox.
THEOREM Inductive == Spec => []IInv
<1>1. ASSUME IInv, [Next]_vars PROVE IInv'
  <2>1. CASE UNCHANGED vars
    BY <1>1, <2>1, Stutter
  <2>2. CASE \E s \in Sessions :
                \/ \E d \in Others, act \in {"add", "revoke"} : StartMutation(s, act, d)
                \/ Mutation(s) \/ StartRepublish(s)
    BY <1>1, <2>2, StartMutationSafe, MutationSafe, StartRepublishSafe
  <2>3. CASE Periodic \/ Reconnected \/ LeaseExpires \/ BackoffEnds
    BY <1>1, <2>3, PeriodicSafe, ReconnectedSafe, LeaseExpiresSafe, BackoffEndsSafe
  <2>4. CASE \E x \in Drains : DrainStep(x)
    BY <1>1, <2>4, DrainStepSafe
  <2> QED BY <1>1, <2>1, <2>2, <2>3, <2>4 DEF Next
<1> QED BY Initially, <1>1, PTL DEF Spec

\* drainPublications and #propagate: what others read of the account's devices,
\* in the published record and in the device sets, is what the home had decided
\* at the epoch it is stamped with, for any number of devices, mutations,
\* lease cycles and failures.
THEOREM PublicationSound == Spec => []PublicationIsSound
BY Inductive, PTL DEF IInv

-----------------------------------------------------------------------------
(* PeerContacts.                                                            *)

\* There is one other account.
LEMMA OtherIsOne ==
    ASSUME NEW a \in Accounts
    PROVE  Other(a) \in Accounts /\ Other(a) # a
<1>1. IsFiniteSet(Accounts \ {a}) /\ Cardinality(Accounts \ {a}) = 1
  BY AccountsAssumption, FS_RemoveElement
<1>2. Accounts \ {a} # {}
  BY <1>1, FS_EmptySet
<1>3. \E b \in Accounts : b # a
  BY <1>2
<1> QED BY <1>3 DEF Other

\* An invite that a user made was made with consent.
AskedIn(i, C) == i.auto \/ i.by \notin Accounts \/ i.by \in C

\* Inboxes whose deposits name such invites only.
SoundBoxes(boxes, C) ==
    /\ boxes \in [Accounts -> Seq(Deposits)]
    /\ \A a \in Accounts : \A n \in DOMAIN boxes[a] : AskedIn(boxes[a][n].invite, C)

LEMMA PutIsSound ==
    ASSUME NEW boxes, NEW C, SoundBoxes(boxes, C), NEW a \in Accounts,
           NEW d \in Deposits, AskedIn(d.invite, C)
    PROVE  SoundBoxes([boxes EXCEPT ![a] = Append(@, d)], C)
<1> DEFINE after == [boxes EXCEPT ![a] = Append(@, d)]
<1>1. boxes[a] \in Seq(Deposits) /\ after[a] = Append(boxes[a], d)
  BY DEF SoundBoxes
<1>2. after \in [Accounts -> Seq(Deposits)]
  BY <1>1 DEF SoundBoxes
<1>3. ASSUME NEW b \in Accounts, NEW n \in DOMAIN after[b]
      PROVE  AskedIn(after[b][n].invite, C)
  <2>1. CASE b # a
    BY <1>3, <2>1 DEF SoundBoxes
  <2>2. CASE b = a /\ n \in DOMAIN boxes[a]
    BY <1>1, <2>2 DEF SoundBoxes
  <2>3. CASE b = a /\ n = Len(boxes[a]) + 1
    BY <1>1, <2>3
  <2> QED BY <1>1, <1>3, <2>1, <2>2, <2>3
<1> HIDE DEF after
<1> QED BY <1>2, <1>3 DEF SoundBoxes, after

LEMMA RestIsSound ==
    ASSUME NEW boxes, NEW C, SoundBoxes(boxes, C), NEW a \in Accounts, boxes[a] # <<>>
    PROVE  /\ SoundBoxes([boxes EXCEPT ![a] = Tail(@)], C)
           /\ Head(boxes[a]) \in Deposits /\ AskedIn(Head(boxes[a]).invite, C)
<1> DEFINE after == [boxes EXCEPT ![a] = Tail(@)]
<1>1. boxes[a] \in Seq(Deposits) /\ after[a] = Tail(boxes[a])
  BY DEF SoundBoxes
<1>2. after \in [Accounts -> Seq(Deposits)]
  BY <1>1 DEF SoundBoxes
<1>3. ASSUME NEW b \in Accounts, NEW n \in DOMAIN after[b]
      PROVE  AskedIn(after[b][n].invite, C)
  <2>1. CASE b # a
    BY <1>3, <2>1 DEF SoundBoxes
  <2>2. CASE b = a
    <3>1. /\ Tail(boxes[a]) \in Seq(Deposits)
          /\ Len(Tail(boxes[a])) = Len(boxes[a]) - 1
          /\ \A m \in 1 .. Len(Tail(boxes[a])) : Tail(boxes[a])[m] = boxes[a][m + 1]
      BY <1>1, HeadTailProperties
    <3>2. n \in 1 .. Len(Tail(boxes[a]))
      <4>1. after[b] = Tail(boxes[a])
        BY <1>1, <2>2
      <4>2. n \in DOMAIN Tail(boxes[a])
        BY <1>3, <4>1
      <4> QED BY <3>1, <4>2
    <3>3. n + 1 \in DOMAIN boxes[a]
      BY <1>1, <3>1, <3>2
    <3>4. after[b][n] = boxes[a][n + 1]
      BY <1>1, <2>2, <3>1, <3>2
    <3> QED BY <3>3, <3>4 DEF SoundBoxes
  <2> QED BY <2>1, <2>2
<1>4. Head(boxes[a]) \in Deposits /\ AskedIn(Head(boxes[a]).invite, C)
  <2>1. 1 \in DOMAIN boxes[a] /\ Head(boxes[a]) = boxes[a][1]
    BY <1>1
  <2> QED BY <1>1, <2>1 DEF SoundBoxes
<1> HIDE DEF after
<1> QED BY <1>2, <1>3, <1>4 DEF SoundBoxes, after

LEMMA SoundBoxesGrow ==
    ASSUME NEW boxes, NEW C, NEW D, C \subseteq D, SoundBoxes(boxes, C)
    PROVE  SoundBoxes(boxes, D)
BY DEF SoundBoxes, AskedIn

-----------------------------------------------------------------------------
(* The invariant.                                                           *)

\* What is not the inboxes, by its type.
Shaped ==
    /\ contact \in [Accounts -> Rows]
    /\ request \in [Accounts -> [dir : {"none", "incoming", "outgoing"},
                                 invite : Keys]]
    /\ link \in [Accounts -> [key : Keys, first : {Origin(i) : i \in Keys}]]
    /\ open \subseteq Ids /\ codes \subseteq Ids
    /\ task \in [Accounts -> [step : {"none", "record", "conclude"}, invite : Keys]]
    /\ minted \in [Accounts -> {"no", "cooling", "out"}]
    /\ rekeyed \in [Accounts -> BOOLEAN]
    /\ consents \subseteq Accounts

\* The bounds of the behaviour are kept.
Counted ==
    /\ scene \in Scenes /\ acts \in 0 .. scene.acts /\ failures \in 0 .. scene.faults
    /\ crashes \in 0 .. scene.crashes

\* Who has a request out, or is about to have one, asked for the contact.
Intents ==
    \A a \in Accounts :
        task[a].step = "record" \/ request[a].dir = "outgoing" => a \in consents

\* Wherever an invite of a user's may still make a contact, that user asked.
InvitesAsked ==
    /\ \A a \in Accounts : /\ AskedIn(link[a].first, consents)
                           /\ AskedIn(request[a].invite, consents)
                           /\ AskedIn(task[a].invite, consents)
    /\ \A i \in codes : AskedIn(i, consents)
    /\ SoundBoxes(channel, consents)

Sound == Shaped /\ Intents /\ InvitesAsked /\ MadeByConsent
ConsentInv == Counted /\ Sound

LEMMA ConsentInvType == ConsentInv => ContactsTypeOK
BY DEF ConsentInv, Sound, Shaped, Counted, InvitesAsked, SoundBoxes, ContactsTypeOK

LEMMA ContactsBegin == ContactsInit => ConsentInv
<1> SUFFICES ASSUME ContactsInit PROVE ConsentInv
  OBVIOUS
<1> DEFINE i == [by |-> Smaller, auto |-> TRUE, n |-> 0]
<1>1. i \in Ids
  BY AccountsAssumption DEF Ids
<1>2. Shaped
  BY <1>1 DEF ContactsInit, Shaped, Rows, Keys, NoRequest, NoTask
<1>3. Counted
  BY AccountsAssumption DEF ContactsInit, Counted
<1>4. Intents /\ MadeByConsent
  BY DEF ContactsInit, Intents, MadeByConsent, NoTask, NoRequest
<1>5. InvitesAsked
  BY AccountsAssumption DEF ContactsInit, InvitesAsked, SoundBoxes, AskedIn,
     NoTask, NoRequest, NoId, Origin
<1> QED BY <1>2, <1>3, <1>4, <1>5 DEF ConsentInv, Sound

-----------------------------------------------------------------------------
(* The operators of the steps.                                              *)

LEMMA DepositIsOne ==
    ASSUME NEW what \in {"handshake", "ack", "reject", "recovery", "request",
                         "accepted"},
           NEW i \in Keys, NEW k \in Keys
    PROVE  Deposit(what, i, k) \in Deposits /\ Deposit(what, i, k).invite = i
BY DEF Deposit, Deposits

LEMMA NoIdIsAsked == NoId \in Keys /\ \A C : AskedIn(NoId, C)
BY AccountsAssumption DEF NoId, Keys, AskedIn

LEMMA NewsAreOwn ==
    ASSUME NEW a \in Accounts, NEW auto \in BOOLEAN, NEW i \in News(a, auto)
    PROVE  i \in Ids /\ i \in Keys /\ i.by = a /\ i.auto = auto
BY DEF News, Keys

\* An end that is keyed keeps the origin it had, or takes that of the invite.
LEMMA KeyedIsAsked ==
    ASSUME Sound, NEW a \in Accounts, NEW i \in Keys, NEW C, consents \subseteq C,
           AskedIn(i, C)
    PROVE  /\ Keyed(a, i) \in [key : Keys, first : {Origin(j) : j \in Keys}]
           /\ AskedIn(Keyed(a, i).first, C)
<1>1. link[a] \in [key : Keys, first : {Origin(j) : j \in Keys}]
  BY DEF Sound, Shaped
<1>2. AskedIn(link[a].first, C)
  BY DEF Sound, InvitesAsked, AskedIn
<1>3. Origin(i) \in {Origin(j) : j \in Keys} /\ AskedIn(Origin(i), C)
  BY DEF Origin, AskedIn
<1> QED BY <1>1, <1>2, <1>3 DEF Keyed

\* The ends of the link after one of them was keyed.
LEMMA LinkIsAsked ==
    ASSUME Sound, NEW a \in Accounts, NEW i \in Keys, NEW C, consents \subseteq C,
           AskedIn(i, C), link' = [link EXCEPT ![a] = Keyed(a, i)]
    PROVE  /\ link' \in [Accounts -> [key : Keys, first : {Origin(j) : j \in Keys}]]
           /\ \A b \in Accounts : AskedIn(link'[b].first, C)
<1>1. /\ Keyed(a, i) \in [key : Keys, first : {Origin(j) : j \in Keys}]
      /\ AskedIn(Keyed(a, i).first, C)
  BY KeyedIsAsked
<1>2. link \in [Accounts -> [key : Keys, first : {Origin(j) : j \in Keys}]]
  BY DEF Sound, Shaped
<1>3. \A b \in Accounts : AskedIn(link[b].first, C)
  BY DEF Sound, InvitesAsked, AskedIn
<1> QED BY <1>1, <1>2, <1>3

LEMMA AcceptInviteIsAsked ==
    ASSUME Sound, NEW a \in Accounts, NEW i \in Keys, NEW C, consents \subseteq C,
           AskedIn(i, C), NEW force \in BOOLEAN, AcceptInvite(a, i, force)
    PROVE  /\ link' \in [Accounts -> [key : Keys, first : {Origin(j) : j \in Keys}]]
           /\ \A b \in Accounts : AskedIn(link'[b].first, C)
           /\ SoundBoxes(channel', C)
<1>0. SoundBoxes(channel, C)
  BY SoundBoxesGrow DEF Sound, InvitesAsked
<1>1. CASE UNCHANGED <<link, channel>>
  <2>1. \A b \in Accounts : AskedIn(link[b].first, C)
    BY DEF Sound, InvitesAsked, AskedIn
  <2> QED BY <1>0, <1>1, <2>1 DEF Sound, Shaped
<1>2. CASE /\ link' = [link EXCEPT ![a] = Keyed(a, i)]
           /\ Put(Other(a), Deposit("handshake", i, NoId))
  <2>1. Deposit("handshake", i, NoId) \in Deposits
        /\ Deposit("handshake", i, NoId).invite = i
    BY DepositIsOne, NoIdIsAsked
  <2>2. Other(a) \in Accounts
    BY OtherIsOne
  <2>3. SoundBoxes([channel EXCEPT ![Other(a)] =
                        Append(@, Deposit("handshake", i, NoId))], C)
    BY <1>0, <2>1, <2>2, PutIsSound
  <2>4. SoundBoxes(channel', C)
    BY <1>2, <2>3 DEF Put
  <2>5. link' = [link EXCEPT ![a] = Keyed(a, i)]
    BY <1>2
  <2> QED BY <2>4, <2>5, LinkIsAsked
<1> QED BY <1>1, <1>2 DEF AcceptInvite

\* A link that is established makes a contact of whom the user invited.
LEMMA MaterializeIsAsked ==
    ASSUME Sound, NEW a \in Accounts, NEW first, AskedIn(first, consents),
           Materialize(a, first)
    PROVE  /\ contact' \in [Accounts -> Rows]
           /\ \A b \in Accounts : contact'[b] = "active" => b \in consents
BY DEF Materialize, SetContact, IsDirect, AskedIn, Sound, Shaped, Rows, MadeByConsent

LEMMA TriggerIsSound ==
    ASSUME Sound, NEW a \in Accounts, NEW boxes, SoundBoxes(boxes, consents),
           TriggerRecovery(a, boxes)
    PROVE  /\ SoundBoxes(channel', consents) /\ open' \subseteq Ids
           /\ minted' \in [Accounts -> {"no", "cooling", "out"}]
<1>1. CASE channel' = boxes /\ UNCHANGED <<open, minted>>
  BY <1>1 DEF Sound, Shaped
<1>2. ASSUME NEW i \in News(a, TRUE), SetMinted(a, "cooling"),
             open' = open \cup {i},
             \/ channel' = [boxes EXCEPT ![Other(a)] =
                                Append(@, Deposit("recovery", i, NoId))]
             \/ channel' = boxes
      PROVE  /\ SoundBoxes(channel', consents) /\ open' \subseteq Ids
             /\ minted' \in [Accounts -> {"no", "cooling", "out"}]
  <2>1. i \in Ids /\ i \in Keys /\ AskedIn(i, consents)
    BY NewsAreOwn DEF AskedIn
  <2>2. SoundBoxes(channel', consents)
    BY <1>2, <2>1, OtherIsOne, DepositIsOne, NoIdIsAsked, PutIsSound
  <2> QED BY <1>2, <2>1, <2>2 DEF SetMinted, Sound, Shaped
<1> QED BY <1>1, <1>2 DEF TriggerRecovery

-----------------------------------------------------------------------------
(* The steps.                                                               *)

\* The bounds of a behaviour are kept by every step.
LEMMA CountedStep == ConsentInv /\ ContactsNext => Counted'
<1> SUFFICES ASSUME ConsentInv, NEW a \in Accounts,
                    \/ Users(a) \/ Tasks(a) \/ Deposited(a) \/ Sweep(a)
                    \/ Bootstrap(a) \/ Elapse(a) \/ Settle(a) \/ Crash(a)
                    \/ LoseLink(a)
             PROVE  Counted'
  BY DEF ContactsNext
<1> DEFINE Kept == /\ Act \/ UNCHANGED <<acts, scene>>
                   /\ CallFails \/ CallWorks
                   /\ \/ UNCHANGED crashes
                      \/ crashes < scene.crashes /\ crashes' = crashes + 1
<1>1. ASSUME Users(a) PROVE Kept
  BY <1>1 DEF Users, RequestConnect, Approve, Activates, Deny, HandOver, EnterCode,
     Rerow, boundVars, Act, CallFails, CallWorks
<1>2. ASSUME Tasks(a) PROVE Kept
  BY <1>2 DEF Tasks, RecordRequest, Conclude, boundVars, CallFails, CallWorks
<1>3. ASSUME Deposited(a) PROVE Kept
  BY <1>3 DEF Deposited, Miss, TriggerRecovery, HandleRecovery, HandleHandshake,
     HandleAck, HandleReject, HandleRequest, AutoReconnect, HandleAccepted,
     boundVars, CallFails, CallWorks
<1>4. ASSUME Sweep(a) \/ Bootstrap(a) PROVE Kept
  BY <1>4 DEF Sweep, Bootstrap, TriggerRecovery, CallFails, CallWorks
<1>5. ASSUME Elapse(a) \/ Settle(a) \/ Crash(a) \/ LoseLink(a) PROVE Kept
  BY <1>5 DEF Elapse, Settle, Crash, LoseLink, boundVars, CallFails, CallWorks
<1>6. Kept => Counted'
  <2>1. {scene.acts, scene.faults, scene.crashes} \subseteq Nat
    BY AccountsAssumption DEF ConsentInv, Counted
  <2> QED BY <2>1 DEF ConsentInv, Counted, Act, CallFails, CallWorks
<1> QED BY <1>1, <1>2, <1>3, <1>4, <1>5, <1>6

LEMMA RequestConnectSound ==
    ASSUME Sound, NEW a \in Accounts, RequestConnect(a)
    PROVE  Sound'
<1>1. PICK i \in News(a, FALSE) :
         /\ open' = open \cup {i}
         /\ Put(Other(a), Deposit("request", i, link[a].key))
         /\ TaskOf(a, "record", i)
  BY DEF RequestConnect
<1>2. consents' = consents \cup {a} /\ UNCHANGED <<contact, request, link, codes,
                                                   minted, rekeyed>>
  BY DEF RequestConnect, Consents, rowVars
<1>3. i \in Ids /\ i \in Keys /\ i.by = a /\ AskedIn(i, consents')
  BY <1>2, NewsAreOwn DEF AskedIn
<1>4. SoundBoxes(channel', consents')
  <2>1. link[a].key \in Keys
    BY DEF Sound, Shaped
  <2>2. /\ Deposit("request", i, link[a].key) \in Deposits
        /\ Deposit("request", i, link[a].key).invite = i
    BY <1>3, <2>1, DepositIsOne
  <2>3. SoundBoxes(channel, consents')
    BY <1>2, SoundBoxesGrow DEF Sound, InvitesAsked
  <2>4. SoundBoxes([channel EXCEPT ![Other(a)] =
                        Append(@, Deposit("request", i, link[a].key))], consents')
    BY <1>3, <2>2, <2>3, PutIsSound, OtherIsOne
  <2> QED BY <1>1, <2>4 DEF Put
<1>5. Shaped'
  BY <1>1, <1>2, <1>3 DEF Sound, Shaped, TaskOf
<1>6. Intents'
  BY <1>1, <1>2 DEF Sound, Shaped, Intents, TaskOf
<1>7. InvitesAsked'
  BY <1>1, <1>2, <1>3, <1>4 DEF Sound, Shaped, InvitesAsked, AskedIn, TaskOf
<1>8. MadeByConsent'
  BY <1>2 DEF Sound, MadeByConsent
<1> QED BY <1>5, <1>6, <1>7, <1>8 DEF Sound

LEMMA RecordRequestSound ==
    ASSUME Sound, NEW a \in Accounts, RecordRequest(a)
    PROVE  Sound'
<1>1. task[a] \in [step : {"none", "record", "conclude"}, invite : Keys]
  BY DEF Sound, Shaped
<1>2. Shaped'
  BY <1>1, NoIdIsAsked DEF RecordRequest, SetRequest, SetContact, Invited, TaskOf,
                           linkVars, Rows,
     Sound, Shaped
<1>3. Intents'
  BY DEF RecordRequest, SetRequest, TaskOf, Sound, Shaped, Intents
<1>4. InvitesAsked'
  BY NoIdIsAsked DEF RecordRequest, SetRequest, TaskOf, linkVars, Sound, Shaped,
                     InvitesAsked
<1>5. MadeByConsent'
  BY DEF RecordRequest, SetContact, Invited, Sound, Shaped, MadeByConsent
<1> QED BY <1>2, <1>3, <1>4, <1>5 DEF Sound

LEMMA ApproveSound == ASSUME Sound, NEW a \in Accounts, Approve(a) PROVE Sound'
<1>1. /\ consents' = consents \cup {a} /\ UNCHANGED <<request, open, codes, minted,
                                                      rekeyed>>
      /\ TaskOf(a, "conclude", NoId) /\ AcceptInvite(a, request[a].invite, FALSE)
      /\ contact' = contact \/ SetContact(a, "active")
  BY DEF Approve, Consents, Activates
<1>2. request[a].invite \in Keys /\ AskedIn(request[a].invite, consents')
  BY <1>1 DEF Sound, Shaped, InvitesAsked, AskedIn
<1>3. /\ link' \in [Accounts -> [key : Keys, first : {Origin(j) : j \in Keys}]]
      /\ \A b \in Accounts : AskedIn(link'[b].first, consents')
      /\ SoundBoxes(channel', consents')
  BY <1>1, <1>2, AcceptInviteIsAsked
<1>4. Shaped'
  BY <1>1, <1>3, NoIdIsAsked DEF Sound, Shaped, TaskOf, SetContact, Rows
<1>5. Intents'
  BY <1>1 DEF Sound, Shaped, Intents, TaskOf
<1>6. InvitesAsked'
  BY <1>1, <1>3, NoIdIsAsked DEF Sound, Shaped, InvitesAsked, AskedIn, TaskOf
<1>7. MadeByConsent'
  BY <1>1 DEF Sound, Shaped, MadeByConsent, SetContact
<1> QED BY <1>4, <1>5, <1>6, <1>7 DEF Sound

LEMMA ConcludeSound == ASSUME Sound, NEW a \in Accounts, Conclude(a) PROVE Sound'
<1>1. /\ UNCHANGED <<contact, link, open, codes, minted, rekeyed, consents>>
      /\ SetRequest(a, NoRequest) /\ TaskOf(a, "none", NoId)
      /\ \/ Put(Other(a), Deposit("accepted", NoId, link[a].key))
         \/ UNCHANGED channel
  BY DEF Conclude, linkVars
<1>2. SoundBoxes(channel', consents')
  <2>1. link[a].key \in Keys
    BY DEF Sound, Shaped
  <2>2. /\ Deposit("accepted", NoId, link[a].key) \in Deposits
        /\ Deposit("accepted", NoId, link[a].key).invite = NoId
    BY <2>1, DepositIsOne, NoIdIsAsked
  <2>3. SoundBoxes([channel EXCEPT ![Other(a)] =
                        Append(@, Deposit("accepted", NoId, link[a].key))], consents)
    BY <2>2, PutIsSound, OtherIsOne, NoIdIsAsked DEF Sound, InvitesAsked
  <2> QED BY <1>1, <2>3 DEF Put, Sound, InvitesAsked
<1>3. Shaped'
  BY <1>1, NoIdIsAsked DEF Sound, Shaped, SetRequest, TaskOf, NoRequest
<1>4. Intents'
  BY <1>1 DEF Sound, Shaped, Intents, SetRequest, TaskOf, NoRequest
<1>5. InvitesAsked'
  BY <1>1, <1>2, NoIdIsAsked DEF Sound, Shaped, InvitesAsked, SetRequest, TaskOf,
                                 NoRequest
<1>6. MadeByConsent'
  BY <1>1 DEF Sound, MadeByConsent
<1> QED BY <1>3, <1>4, <1>5, <1>6 DEF Sound

LEMMA RowsSound ==
    ASSUME Sound, NEW a \in Accounts,
           \/ Deny(a) \/ \E s \in {"none", "blocked", "active"} : Rerow(a, s)
    PROVE  Sound'
<1>1. CASE Deny(a)
  <2>1. Shaped'
    BY <1>1, NoIdIsAsked DEF Deny, SetRequest, SetContact, NoRequest, linkVars,
                             memVars, Rows, Sound, Shaped
  <2>2. Intents' /\ MadeByConsent'
    BY <1>1 DEF Deny, SetRequest, SetContact, NoRequest, memVars, Sound, Shaped,
                Intents,
       MadeByConsent
  <2>3. InvitesAsked'
    BY <1>1, NoIdIsAsked DEF Deny, SetRequest, NoRequest, linkVars, memVars, Sound,
       Shaped, InvitesAsked
  <2> QED BY <2>1, <2>2, <2>3 DEF Sound
<1>2. ASSUME NEW s \in {"none", "blocked", "active"}, Rerow(a, s) PROVE Sound'
  <2>1. /\ consents \subseteq consents' /\ consents' \subseteq consents \cup {a}
        /\ s = "active" => a \in consents'
        /\ contact' = [contact EXCEPT ![a] = s]
        /\ UNCHANGED <<request, link, open, codes, channel, task, minted, rekeyed>>
    BY <1>2 DEF Rerow, SetContact, linkVars, memVars
  <2>2. Shaped'
    BY <2>1 DEF Sound, Shaped, Rows
  <2>3. Intents' /\ MadeByConsent'
    BY <2>1 DEF Sound, Shaped, Intents, MadeByConsent
  <2>4. SoundBoxes(channel', consents')
    BY <2>1, SoundBoxesGrow DEF Sound, InvitesAsked
  <2>5. InvitesAsked'
    BY <2>1, <2>4 DEF Sound, InvitesAsked, AskedIn
  <2> QED BY <2>2, <2>3, <2>5 DEF Sound
<1> QED BY <1>1, <1>2

LEMMA HandOverSound == ASSUME Sound, NEW a \in Accounts, HandOver(a) PROVE Sound'
<1>1. PICK i \in News(a, FALSE) : open' = open \cup {i} /\ codes' = codes \cup {i}
  BY DEF HandOver
<1>2. /\ consents' = consents \cup {a}
      /\ UNCHANGED <<contact, request, link, channel, task, minted, rekeyed>>
  BY DEF HandOver, Consents, rowVars, memVars
<1>3. i \in Ids /\ AskedIn(i, consents')
  BY <1>2, NewsAreOwn DEF AskedIn
<1>4. SoundBoxes(channel', consents')
  BY <1>2, SoundBoxesGrow DEF Sound, InvitesAsked
<1>5. Shaped'
  BY <1>1, <1>2, <1>3 DEF Sound, Shaped
<1>6. Intents' /\ MadeByConsent'
  BY <1>2 DEF Sound, Intents, MadeByConsent
<1>7. InvitesAsked'
  BY <1>1, <1>2, <1>3, <1>4 DEF Sound, InvitesAsked, AskedIn
<1> QED BY <1>5, <1>6, <1>7 DEF Sound

LEMMA EnterCodeSound == ASSUME Sound, NEW a \in Accounts, EnterCode(a) PROVE Sound'
<1>1. PICK i \in codes : AcceptInvite(a, i, FALSE) /\ codes' = codes \ {i}
  BY DEF EnterCode
<1>2. /\ consents' = consents \cup {a} /\ UNCHANGED <<request, open, task, minted,
                                                      rekeyed>>
      /\ contact' = contact \/ SetContact(a, "active")
  BY DEF EnterCode, Consents, Activates, memVars
<1>3. i \in Keys /\ AskedIn(i, consents')
  BY <1>2 DEF Sound, Shaped, InvitesAsked, AskedIn, Keys
<1>4. /\ link' \in [Accounts -> [key : Keys, first : {Origin(j) : j \in Keys}]]
      /\ \A b \in Accounts : AskedIn(link'[b].first, consents')
      /\ SoundBoxes(channel', consents')
  BY <1>1, <1>2, <1>3, AcceptInviteIsAsked
<1>5. Shaped'
  BY <1>1, <1>2, <1>4 DEF Sound, Shaped, SetContact, Rows
<1>6. Intents' /\ MadeByConsent'
  BY <1>2 DEF Sound, Shaped, Intents, MadeByConsent, SetContact
<1>7. InvitesAsked'
  BY <1>1, <1>2, <1>4 DEF Sound, InvitesAsked, AskedIn
<1> QED BY <1>5, <1>6, <1>7 DEF Sound

\* The steps that touch neither who is a contact nor what may make one.
LEMMA TimersSound ==
    ASSUME Sound, NEW a \in Accounts, Elapse(a) \/ Settle(a) \/ Crash(a)
    PROVE  Sound'
<1>1. /\ UNCHANGED <<contact, request, link, codes, channel, consents>>
      /\ open' \subseteq open
      /\ task' = task \/ TaskOf(a, "none", NoId)
      /\ minted' = minted \/ \E s \in {"no", "out"} : SetMinted(a, s)
      /\ rekeyed' = rekeyed \/ rekeyed' = [rekeyed EXCEPT ![a] = FALSE]
  BY DEF Elapse, Settle, Crash, rowVars, linkVars
<1>2. Shaped'
  <2>1. task' \in [Accounts -> [step : {"none", "record", "conclude"}, invite : Keys]]
    BY <1>1, NoIdIsAsked DEF Sound, Shaped, TaskOf
  <2>2. minted' \in [Accounts -> {"no", "cooling", "out"}]
    BY <1>1 DEF Sound, Shaped, SetMinted
  <2>3. rekeyed' \in [Accounts -> BOOLEAN]
    BY <1>1 DEF Sound, Shaped
  <2> QED BY <1>1, <2>1, <2>2, <2>3 DEF Sound, Shaped
<1>3. Intents' /\ MadeByConsent'
  BY <1>1 DEF Sound, Shaped, Intents, MadeByConsent, TaskOf
<1>4. InvitesAsked'
  BY <1>1, NoIdIsAsked DEF Sound, Shaped, InvitesAsked, TaskOf
<1> QED BY <1>2, <1>3, <1>4 DEF Sound

LEMMA LoseLinkSound == ASSUME Sound, NEW a \in Accounts, LoseLink(a) PROVE Sound'
<1>1. /\ UNCHANGED <<contact, request, open, codes, channel, task, minted, rekeyed,
                     consents>>
      /\ link' = [link EXCEPT ![a] = NoLink]
  BY DEF LoseLink, rowVars, memVars
<1>2. /\ NoLink \in [key : Keys, first : {Origin(j) : j \in Keys}]
      /\ AskedIn(NoLink.first, consents)
  BY NoIdIsAsked DEF NoLink, NoOrigin, Origin, AskedIn
<1> QED BY <1>1, <1>2 DEF Sound, Shaped, Intents, InvitesAsked, MadeByConsent

\* A repair that is triggered, from whatever boxes.
LEMMA TriggersSound ==
    ASSUME Sound, NEW a \in Accounts, NEW boxes, SoundBoxes(boxes, consents),
           TriggerRecovery(a, boxes),
           UNCHANGED <<contact, request, link, codes, task, rekeyed, consents>>
    PROVE  Sound'
<1>1. /\ SoundBoxes(channel', consents) /\ open' \subseteq Ids
      /\ minted' \in [Accounts -> {"no", "cooling", "out"}]
  BY TriggerIsSound
<1> QED BY <1>1 DEF Sound, Shaped, Intents, InvitesAsked, MadeByConsent

LEMMA RepairSound ==
    ASSUME Sound, NEW a \in Accounts, Sweep(a) \/ Bootstrap(a)
    PROVE  Sound'
BY TriggersSound DEF Sweep, Bootstrap, rowVars, Sound, InvitesAsked

-----------------------------------------------------------------------------
(* The deposits.                                                            *)

\* What is taken from an inbox, and what is left of it.
LEMMA TakenIsSound ==
    ASSUME Sound, NEW a \in Accounts, channel[a] # <<>>
    PROVE  /\ SoundBoxes(Rest(a), consents)
           /\ Invite(a) \in Keys /\ AskedIn(Invite(a), consents)
<1>1. SoundBoxes(channel, consents)
  BY DEF Sound, InvitesAsked
<1>2. /\ SoundBoxes([channel EXCEPT ![a] = Tail(@)], consents)
      /\ Head(channel[a]) \in Deposits /\ AskedIn(Head(channel[a]).invite, consents)
  BY <1>1, RestIsSound
<1> QED BY <1>2 DEF Rest, Invite, Deposits

LEMMA AnswerIsSound ==
    ASSUME Sound, NEW a \in Accounts, channel[a] # <<>>,
           NEW what \in {"handshake", "ack", "reject"},
           Answer(a, Deposit(what, Invite(a), NoId))
    PROVE  SoundBoxes(channel', consents)
<1>1. /\ SoundBoxes(Rest(a), consents)
      /\ Invite(a) \in Keys /\ AskedIn(Invite(a), consents)
  BY TakenIsSound
<1>2. /\ Deposit(what, Invite(a), NoId) \in Deposits
      /\ Deposit(what, Invite(a), NoId).invite = Invite(a)
  BY <1>1, DepositIsOne, NoIdIsAsked
<1> QED BY <1>1, <1>2, PutIsSound, OtherIsOne DEF Answer

LEMMA MissSound == ASSUME Sound, NEW a \in Accounts, Miss(a) PROVE Sound'
<1>1. /\ channel[a] # <<>> /\ UNCHANGED <<contact, request, link, codes, task,
                                          rekeyed, consents>>
  BY DEF Miss, rowVars
<1>2. SoundBoxes(Rest(a), consents)
  BY <1>1, TakenIsSound
<1>3. CASE TriggerRecovery(a, Rest(a))
  BY <1>1, <1>2, <1>3, TriggersSound
<1>4. CASE Consume(a) /\ UNCHANGED <<open, minted>>
  BY <1>1, <1>2, <1>4 DEF Consume, Sound, Shaped, Intents, InvitesAsked, MadeByConsent
<1> QED BY <1>3, <1>4 DEF Miss

LEMMA HandleRecoverySound ==
    ASSUME Sound, NEW a \in Accounts, HandleRecovery(a)
    PROVE  Sound'
<1>1. /\ channel[a] # <<>> /\ UNCHANGED <<request, open, codes, task, minted, consents>>
      /\ rekeyed' = rekeyed \/ rekeyed' = [rekeyed EXCEPT ![a] = TRUE]
  BY DEF HandleRecovery, Receives
<1>2. /\ SoundBoxes(Rest(a), consents)
      /\ Invite(a) \in Keys /\ AskedIn(Invite(a), consents)
  BY <1>1, TakenIsSound
<1>3. CASE Consume(a) /\ UNCHANGED <<contact, link>>
  BY <1>1, <1>2, <1>3 DEF Consume, Sound, Shaped, Intents, InvitesAsked, MadeByConsent
<1>4. CASE UNCHANGED <<channel, contact, link>>
  BY <1>1, <1>4 DEF Sound, Shaped, Intents, InvitesAsked, MadeByConsent
<1>5. CASE /\ Answer(a, Deposit("handshake", Invite(a), NoId))
           /\ link' = [link EXCEPT ![a] = Keyed(a, Invite(a))]
           /\ Materialize(a, link'[a].first)
  <2>1. SoundBoxes(channel', consents)
    BY <1>1, <1>5, AnswerIsSound
  <2>2. /\ link' \in [Accounts -> [key : Keys, first : {Origin(j) : j \in Keys}]]
        /\ \A b \in Accounts : AskedIn(link'[b].first, consents)
    BY <1>2, <1>5, LinkIsAsked
  <2>3. /\ contact' \in [Accounts -> Rows]
        /\ \A b \in Accounts : contact'[b] = "active" => b \in consents
    BY <1>5, <2>2, MaterializeIsAsked
  <2> QED BY <1>1, <2>1, <2>2, <2>3 DEF Sound, Shaped, Intents, InvitesAsked,
                                        MadeByConsent
<1> QED BY <1>3, <1>4, <1>5 DEF HandleRecovery

LEMMA HandleHandshakeSound ==
    ASSUME Sound, NEW a \in Accounts, HandleHandshake(a)
    PROVE  Sound'
<1>1. channel[a] # <<>> /\ UNCHANGED <<request, codes, task, minted, rekeyed, consents>>
  BY DEF HandleHandshake, Receives, memVars
<1>2. /\ SoundBoxes(Rest(a), consents)
      /\ Invite(a) \in Keys /\ AskedIn(Invite(a), consents)
  BY <1>1, TakenIsSound
<1>3. SoundBoxes(channel', consents)
  <2>1. \/ \E what \in {"ack", "reject"} : Answer(a, Deposit(what, Invite(a), NoId))
        \/ Consume(a)
    BY DEF HandleHandshake
  <2> QED BY <1>1, <1>2, <2>1, AnswerIsSound DEF Consume
<1>4. CASE UNCHANGED <<contact, linkVars>>
  BY <1>1, <1>3, <1>4 DEF linkVars, Sound, Shaped, Intents, InvitesAsked, MadeByConsent
<1>5. CASE /\ open' = open \ {Invite(a)}
           /\ link' = [link EXCEPT ![a] = Keyed(a, Invite(a))]
           /\ Materialize(a, link'[a].first)
  <2>1. /\ link' \in [Accounts -> [key : Keys, first : {Origin(j) : j \in Keys}]]
        /\ \A b \in Accounts : AskedIn(link'[b].first, consents)
    BY <1>2, <1>5, LinkIsAsked
  <2>2. /\ contact' \in [Accounts -> Rows]
        /\ \A b \in Accounts : contact'[b] = "active" => b \in consents
    BY <1>5, <2>1, MaterializeIsAsked
  <2> QED BY <1>1, <1>3, <1>5, <2>1, <2>2 DEF Sound, Shaped, Intents, InvitesAsked,
                                              MadeByConsent
<1> QED BY <1>4, <1>5 DEF HandleHandshake

LEMMA HandleAckSound == ASSUME Sound, NEW a \in Accounts, HandleAck(a) PROVE Sound'
<1>1. /\ channel[a] # <<>> /\ UNCHANGED <<request, link, open, codes, task, minted,
                                          rekeyed, consents>>
      /\ channel' = Rest(a)
      /\ Materialize(a, link[a].first) \/ UNCHANGED contact
  BY DEF HandleAck, Receives, Consume, linkVars, memVars
<1>2. SoundBoxes(Rest(a), consents)
  BY <1>1, TakenIsSound
<1>3. /\ contact' \in [Accounts -> Rows]
      /\ \A b \in Accounts : contact'[b] = "active" => b \in consents
  BY <1>1, MaterializeIsAsked DEF Sound, Shaped, InvitesAsked, MadeByConsent
<1> QED BY <1>1, <1>2, <1>3 DEF Sound, Shaped, Intents, InvitesAsked, MadeByConsent

LEMMA HandleRejectSound ==
    ASSUME Sound, NEW a \in Accounts, HandleReject(a)
    PROVE  Sound'
<1>1. /\ channel[a] # <<>> /\ UNCHANGED <<request, open, codes, task, minted,
                                          rekeyed, consents>>
      /\ channel' = Rest(a)
      /\ \/ link' = [link EXCEPT ![a] = NoLink] /\ SetContact(a, "none")
         \/ UNCHANGED <<contact, link>>
  BY DEF HandleReject, Receives, Consume, memVars
<1>2. SoundBoxes(Rest(a), consents)
  BY <1>1, TakenIsSound
<1>3. /\ NoLink \in [key : Keys, first : {Origin(j) : j \in Keys}]
      /\ AskedIn(NoLink.first, consents)
  BY NoIdIsAsked DEF NoLink, NoOrigin, Origin, AskedIn
<1>4. Shaped'
  <2>1. contact' \in [Accounts -> Rows]
    BY <1>1 DEF SetContact, Rows, Sound, Shaped
  <2>2. link' \in [Accounts -> [key : Keys, first : {Origin(j) : j \in Keys}]]
    BY <1>1, <1>3 DEF Sound, Shaped
  <2> QED BY <1>1, <2>1, <2>2 DEF Sound, Shaped
<1>5. Intents' /\ MadeByConsent'
  BY <1>1 DEF SetContact, Sound, Shaped, Intents, MadeByConsent
<1>6. InvitesAsked'
  BY <1>1, <1>2, <1>3 DEF Sound, Shaped, InvitesAsked
<1> QED BY <1>4, <1>5, <1>6 DEF Sound

LEMMA HandleRequestSound ==
    ASSUME Sound, NEW a \in Accounts, HandleRequest(a)
    PROVE  Sound'
<1>1. /\ channel[a] # <<>> /\ UNCHANGED <<link, open, codes, task, minted, rekeyed,
                                          consents>>
      /\ channel' = Rest(a)
      /\ \/ UNCHANGED <<contact, request>>
         \/ /\ SetRequest(a, [dir |-> "incoming", invite |-> Invite(a)])
            /\ SetContact(a, Invited(a))
  BY DEF HandleRequest, Receives, Consume, rowVars, linkVars, memVars
<1>2. /\ SoundBoxes(Rest(a), consents)
      /\ Invite(a) \in Keys /\ AskedIn(Invite(a), consents)
  BY <1>1, TakenIsSound
<1>3. Invited(a) \in Rows /\ (Invited(a) = "active" => contact[a] = "active")
  BY DEF Invited, Rows, Sound, Shaped
<1>4. Shaped'
  <2>1. contact' \in [Accounts -> Rows]
    BY <1>1, <1>3 DEF SetContact, Sound, Shaped
  <2>2. request' \in [Accounts -> [dir : {"none", "incoming", "outgoing"}, invite : Keys]]
    BY <1>1, <1>2 DEF SetRequest, Sound, Shaped
  <2> QED BY <1>1, <2>1, <2>2 DEF Sound, Shaped
<1>5. Intents'
  BY <1>1 DEF SetRequest, Sound, Shaped, Intents
<1>6. MadeByConsent'
  BY <1>1, <1>3 DEF SetContact, Sound, Shaped, MadeByConsent
<1>7. InvitesAsked'
  BY <1>1, <1>2 DEF SetRequest, Sound, Shaped, InvitesAsked
<1> QED BY <1>4, <1>5, <1>6, <1>7 DEF Sound

LEMMA AutoReconnectSound ==
    ASSUME Sound, NEW a \in Accounts, AutoReconnect(a)
    PROVE  Sound'
<1> DEFINE b == Other(a)
           hello == Deposit("handshake", Invite(a), NoId)
           signal == Deposit("accepted", NoId, Invite(a))
<1>1. /\ channel[a] # <<>>
      /\ UNCHANGED <<contact, request, open, codes, task, minted, rekeyed, consents>>
  BY DEF AutoReconnect, Receives, rowVars, memVars
<1>2. /\ SoundBoxes(Rest(a), consents)
      /\ Invite(a) \in Keys /\ AskedIn(Invite(a), consents)
  BY <1>1, TakenIsSound
<1>3. CASE UNCHANGED <<link, channel>>
  BY <1>1, <1>3 DEF Sound, Shaped, Intents, InvitesAsked, MadeByConsent
<1>4. CASE /\ link' = [link EXCEPT ![a] = Keyed(a, Invite(a))]
           /\ \/ channel' = [Rest(a) EXCEPT ![b] = Append(Append(channel[b], hello), signal)]
              \/ channel' = [Rest(a) EXCEPT ![b] = Append(channel[b], hello)]
  <2>1. b \in Accounts /\ b # a
    BY OtherIsOne
  <2>2. /\ hello \in Deposits /\ hello.invite = Invite(a)
        /\ signal \in Deposits /\ signal.invite = NoId
    BY <1>2, DepositIsOne, NoIdIsAsked
  <2> HIDE DEF b, hello, signal
  <2>3. channel[b] = Rest(a)[b] /\ Rest(a) \in [Accounts -> Seq(Deposits)]
    BY <1>2, <2>1 DEF Rest, Sound, InvitesAsked, SoundBoxes
  <2> DEFINE once == [Rest(a) EXCEPT ![b] = Append(@, hello)]
  <2>4. SoundBoxes(once, consents)
    BY <1>2, <2>1, <2>2, PutIsSound
  <2>5. SoundBoxes([once EXCEPT ![b] = Append(@, signal)], consents)
    BY <2>1, <2>2, <2>4, PutIsSound, NoIdIsAsked
  <2>6. /\ [Rest(a) EXCEPT ![b] = Append(channel[b], hello)] = once
        /\ [Rest(a) EXCEPT ![b] = Append(Append(channel[b], hello), signal)]
              = [once EXCEPT ![b] = Append(@, signal)]
    BY <2>1, <2>3
  <2>7. SoundBoxes(channel', consents)
    BY <1>4, <2>4, <2>5, <2>6
  <2>8. /\ link' \in [Accounts -> [key : Keys, first : {Origin(j) : j \in Keys}]]
        /\ \A c \in Accounts : AskedIn(link'[c].first, consents)
    BY <1>2, <1>4, LinkIsAsked
  <2> QED BY <1>1, <2>7, <2>8 DEF Sound, Shaped, Intents, InvitesAsked, MadeByConsent
<1> QED BY <1>3, <1>4 DEF AutoReconnect

LEMMA HandleAcceptedSound ==
    ASSUME Sound, NEW a \in Accounts, HandleAccepted(a)
    PROVE  Sound'
<1>1. /\ channel[a] # <<>> /\ UNCHANGED <<link, open, codes, task, minted, rekeyed,
                                          consents>>
      /\ channel' = Rest(a)
      /\ \/ UNCHANGED <<contact, request>>
         \/ /\ request[a].dir = "outgoing"
            /\ SetContact(a, "active") /\ SetRequest(a, NoRequest)
  BY DEF HandleAccepted, Answers, Receives, Consume, rowVars, linkVars, memVars
<1>2. SoundBoxes(Rest(a), consents)
  BY <1>1, TakenIsSound
<1>3. request[a].dir = "outgoing" => a \in consents
  BY DEF Sound, Intents
<1>4. Shaped'
  <2>1. contact' \in [Accounts -> Rows]
    BY <1>1 DEF SetContact, Rows, Sound, Shaped
  <2>2. request' \in [Accounts -> [dir : {"none", "incoming", "outgoing"}, invite : Keys]]
    BY <1>1, NoIdIsAsked DEF SetRequest, NoRequest, Sound, Shaped
  <2> QED BY <1>1, <2>1, <2>2 DEF Sound, Shaped
<1>5. Intents'
  BY <1>1 DEF SetRequest, NoRequest, Sound, Shaped, Intents
<1>6. MadeByConsent'
  BY <1>1, <1>3 DEF SetContact, Sound, Shaped, MadeByConsent
<1>7. InvitesAsked'
  BY <1>1, <1>2, NoIdIsAsked DEF SetRequest, NoRequest, Sound, Shaped, InvitesAsked
<1> QED BY <1>4, <1>5, <1>6, <1>7 DEF Sound

LEMMA ConsentStep == ConsentInv /\ ContactsNext => Sound'
<1> SUFFICES ASSUME Sound, NEW a \in Accounts,
                    \/ Users(a) \/ Tasks(a) \/ Deposited(a) \/ Sweep(a)
                    \/ Bootstrap(a) \/ Elapse(a) \/ Settle(a) \/ Crash(a)
                    \/ LoseLink(a)
             PROVE  Sound'
  BY DEF ContactsNext, ConsentInv
<1>1. CASE Users(a)
  BY <1>1, RequestConnectSound, ApproveSound, RowsSound, HandOverSound, EnterCodeSound
     DEF Users
<1>2. CASE Tasks(a)
  BY <1>2, RecordRequestSound, ConcludeSound DEF Tasks
<1>3. CASE Deposited(a)
  BY <1>3, MissSound, HandleRecoverySound, HandleHandshakeSound, HandleAckSound,
     HandleRejectSound, HandleRequestSound, AutoReconnectSound, HandleAcceptedSound
     DEF Deposited
<1>4. CASE Sweep(a) \/ Bootstrap(a) \/ Elapse(a) \/ Settle(a) \/ Crash(a) \/ LoseLink(a)
  BY <1>4, RepairSound, TimersSound, LoseLinkSound
<1> QED BY <1>1, <1>2, <1>3, <1>4

\* Every step of the users, of the services that answer deposits, of the repair of a
\* link, every crash and lost link keeps the consent invariant (ServerContactsService,
\* ServerInvitesService, ServerPeerLinkProtocolService).
THEOREM ConsentInductive ==
    ConsentInv /\ [ContactsNext]_contactsVars => ConsentInv'
<1>1. ASSUME ConsentInv, UNCHANGED contactsVars PROVE ConsentInv'
  BY <1>1 DEF contactsVars, rowVars, linkVars, memVars, boundVars, ConsentInv, Counted,
     Sound, Shaped, Intents, InvitesAsked, MadeByConsent
<1> QED BY <1>1, CountedStep, ConsentStep DEF ConsentInv

\* The rows, links, inboxes and timers of both accounts keep their types.
THEOREM ContactsTyped == ContactsSpec => []ContactsTypeOK
BY ContactsBegin, ConsentInductive, ConsentInvType, PTL DEF ContactsSpec

\* However requests, codes, acceptances, recovery invites and repairs cross, an active
\* contact is of an account whose user consented: isDirectContactInvite, the prompt and
\* the outgoing request are the only ways to one (#shouldMaterializeDirectLink,
\* approveConnectRequest, handleIncomingConnectAccepted).
THEOREM ConsentAlways == ContactsSpec => []MadeByConsent
<1>1. ConsentInv => MadeByConsent
  BY DEF ConsentInv, Sound
<1> QED BY <1>1, ContactsBegin, ConsentInductive, PTL DEF ContactsSpec

-----------------------------------------------------------------------------
(* AccountDevices: the contacts (AccountSync).                              *)

Events == [op : Ops, c : Contacts, lam : Nat]
SyncCalls == [op : Ops, c : Contacts, lam : Nat, id : Nat]
QueuedEvents == [event : Events, attempts : Nat]

SyncShaped ==
    /\ row \in [Pair -> [Contacts -> RowStates]]
    /\ rel \in [Pair -> SUBSET Contacts]
    /\ lamport \in [Pair -> Nat] /\ seen \in [Pair -> Nat]
    /\ calls \in [Pair -> SUBSET SyncCalls]
    /\ queued \in [Pair -> SUBSET QueuedEvents]
    /\ inbox \in [Pair -> Seq(Events)]
    /\ applying \in [Pair -> {"no", "contact", "seen"}]
    /\ loop \in [Pair -> [on : BOOLEAN, todo : SUBSET Contacts]]
    /\ edits \in Nat

\* Whoever has a row, active or blocked, can be decrypted.
RowsAreDecryptable ==
    \A d \in Pair : \A c \in Contacts : row[d][c] # "none" => c \in rel[d]

\* Between the relationship and the contact the first event waits, and the
\* relationship is written.
HeadIsDecryptable ==
    \A d \in Pair : applying[d] # "no" =>
        /\ inbox[d] # <<>>
        /\ applying[d] = "contact" => Head(inbox[d]).c \in rel[d]

\* The removals a device may still send were asked for at it.
CallsAreAsked ==
    \A d \in Pair :
        /\ \A k \in calls[d] : k.op = "remove" => <<d, k.c>> \in asked
        /\ \A q \in queued[d] : q.event.op = "remove" => <<d, q.event.c>> \in asked

SyncInv == /\ SyncShaped /\ RowsAreDecryptable /\ HeadIsDecryptable
           /\ CallsAreAsked /\ RemovalsAreAsked

LEMMA TwinIsOne ==
    ASSUME NEW d \in Pair
    PROVE  Twin(d) \in Pair /\ Twin(d) # d
<1>1. IsFiniteSet(Pair \ {d}) /\ Cardinality(Pair \ {d}) = 1
  BY DevicesAssumption, FS_RemoveElement
<1>2. Pair \ {d} # {}
  BY <1>1, FS_EmptySet
<1>3. \E e \in Pair : e # d
  BY <1>2
<1> QED BY <1>3 DEF Twin

LEMMA TwinOfTwin == ASSUME NEW d \in Pair PROVE Twin(Twin(d)) = d
<1> DEFINE e == Twin(d)
<1>1. e \in Pair /\ e # d /\ Twin(e) \in Pair /\ Twin(e) # e
  BY TwinIsOne
<1> HIDE DEF e
<1>2. IsFiniteSet(Pair \ {d}) /\ Cardinality(Pair \ {d}) = 1
  BY DevicesAssumption, FS_RemoveElement
<1>3. IsFiniteSet((Pair \ {d}) \ {e}) /\ Cardinality((Pair \ {d}) \ {e}) = 0
  BY <1>1, <1>2, FS_RemoveElement
<1>4. (Pair \ {d}) \ {e} = {}
  BY <1>3, FS_EmptySet
<1>5. Twin(e) = d
  BY <1>1, <1>4
<1> QED BY <1>5 DEF e

LEMMA SyncBegins == ASSUME NEW e \in Nat, NEW r, NEW f, NEW c, SyncInitWith(e, r, f, c)
                    PROVE  SyncInv
BY DEF SyncInitWith, SyncInv, SyncShaped, RowStates, NoLoop, RowsAreDecryptable,
       HeadIsDecryptable, CallsAreAsked, RemovalsAreAsked

-----------------------------------------------------------------------------
\* What an event that arrives, or one that is done with, leaves true.
LEMMA DepositKeeps ==
    ASSUME SyncInv, NEW d \in Pair, NEW e \in Events, DepositEvent(d, e),
           e.op = "remove" => <<d, e.c>> \in asked
    PROVE  /\ inbox' \in [Pair -> Seq(Events)]
           /\ \A x \in Pair : inbox[x] # <<>> =>
                 inbox'[x] # <<>> /\ Head(inbox'[x]) = Head(inbox[x])
           /\ \A x \in Pair : \A i \in DOMAIN inbox'[x] :
                 inbox'[x][i].op = "remove" => <<Twin(x), inbox'[x][i].c>> \in asked
<1> DEFINE t == Twin(d)
<1>1. t \in Pair /\ Twin(t) = d
  BY TwinIsOne, TwinOfTwin
<1>2. inbox' = [inbox EXCEPT ![t] = Append(inbox[t], e)]
  BY DEF DepositEvent
<1> HIDE DEF t
<1>3. inbox[t] \in Seq(Events) /\ inbox'[t] = Append(inbox[t], e)
  BY <1>1, <1>2 DEF SyncInv, SyncShaped
<1>4. inbox' \in [Pair -> Seq(Events)]
  BY <1>1, <1>2, <1>3 DEF SyncInv, SyncShaped
<1>5. ASSUME NEW x \in Pair, inbox[x] # <<>>
      PROVE  inbox'[x] # <<>> /\ Head(inbox'[x]) = Head(inbox[x])
  <2>1. CASE x # t
    BY <1>2, <1>5, <2>1 DEF SyncInv, SyncShaped
  <2>2. CASE x = t
    BY <1>3, <1>5, <2>2
  <2> QED BY <2>1, <2>2
<1>6. ASSUME NEW x \in Pair, NEW i \in DOMAIN inbox'[x], inbox'[x][i].op = "remove"
      PROVE  <<Twin(x), inbox'[x][i].c>> \in asked
  <2>1. CASE x # t
    BY <1>2, <1>6, <2>1 DEF SyncInv, SyncShaped, RemovalsAreAsked
  <2>2. CASE x = t /\ i \in DOMAIN inbox[t]
    <3>1. inbox'[x][i] = inbox[t][i]
      BY <1>3, <2>2
    <3> QED BY <1>6, <2>2, <3>1 DEF SyncInv, RemovalsAreAsked
  <2>3. CASE x = t /\ i = Len(inbox[t]) + 1
    <3>1. inbox'[x][i] = e
      BY <1>3, <2>3
    <3> QED BY <1>1, <1>6, <2>3, <3>1
  <2> QED BY <1>3, <1>6, <2>1, <2>2, <2>3
<1> QED BY <1>4, <1>5, <1>6

LEMMA DoneKeeps ==
    ASSUME SyncInv, NEW d \in Pair, inbox[d] # <<>>, Done(d)
    PROVE  /\ inbox' \in [Pair -> Seq(Events)]
           /\ \A x \in Pair \ {d} : inbox'[x] = inbox[x]
           /\ \A x \in Pair : \A i \in DOMAIN inbox'[x] :
                 inbox'[x][i].op = "remove" => <<Twin(x), inbox'[x][i].c>> \in asked
<1>1. inbox' = [inbox EXCEPT ![d] = Tail(inbox[d])] /\ inbox[d] \in Seq(Events)
  BY DEF Done, SyncInv, SyncShaped
<1>2. /\ Tail(inbox[d]) \in Seq(Events)
      /\ Len(Tail(inbox[d])) = Len(inbox[d]) - 1
      /\ \A m \in 1 .. Len(Tail(inbox[d])) : Tail(inbox[d])[m] = inbox[d][m + 1]
  BY <1>1, HeadTailProperties
<1>3. inbox' \in [Pair -> Seq(Events)] /\ inbox'[d] = Tail(inbox[d])
  BY <1>1, <1>2 DEF SyncInv, SyncShaped
<1>4. \A x \in Pair \ {d} : inbox'[x] = inbox[x]
  BY <1>1 DEF SyncInv, SyncShaped
<1>5. ASSUME NEW x \in Pair, NEW i \in DOMAIN inbox'[x], inbox'[x][i].op = "remove"
      PROVE  <<Twin(x), inbox'[x][i].c>> \in asked
  <2>1. CASE x # d
    BY <1>4, <1>5, <2>1 DEF SyncInv, RemovalsAreAsked
  <2>2. CASE x = d
    <3>1. i \in 1 .. Len(Tail(inbox[d]))
      <4>1. i \in DOMAIN Tail(inbox[d])
        BY <1>3, <1>5, <2>2
      <4> QED BY <1>2, <4>1
    <3>2. i + 1 \in DOMAIN inbox[d] /\ inbox'[x][i] = inbox[d][i + 1]
      BY <1>1, <1>2, <1>3, <2>2, <3>1
    <3> QED BY <1>5, <2>2, <3>2 DEF SyncInv, RemovalsAreAsked
  <2> QED BY <2>1, <2>2
<1> QED BY <1>3, <1>4, <1>5

LEMMA HeadIsEvent ==
    ASSUME SyncInv, NEW d \in Pair, inbox[d] # <<>>
    PROVE  Head(inbox[d]) \in Events
BY DEF SyncInv, SyncShaped

-----------------------------------------------------------------------------
LEMMA UserStep ==
    ASSUME SyncInv, NEW d \in Pair, NEW c \in Contacts,
           Connect(d, c) \/ DeleteContact(d, c) \/ Block(d, c)
    PROVE  SyncInv'
<1>1. edits' = edits + 1 /\ edits' \in Nat
  <2>1. Edit
    BY DEF Connect, DeleteContact, Block
  <2>2. edits \in Nat
    BY DEF SyncInv, SyncShaped
  <2> QED BY <2>1, <2>2 DEF Edit
<1>2. CASE Connect(d, c)
  <2>1. /\ row' = [row EXCEPT ![d][c] = "active"]
        /\ rel' = [rel EXCEPT ![d] = @ \cup {c}]
        /\ calls' = [calls EXCEPT ![d] = @ \cup {[op |-> "upsert", c |-> c, lam |-> 0,
                                                  id |-> edits']}]
        /\ UNCHANGED <<lamport, seen, queued, inbox, applying, loop, asked>>
    BY <1>2 DEF Connect, SetRow, Replicate, applyVars
  <2>2. SyncShaped'
    BY <1>1, <2>1 DEF SyncInv, SyncShaped, SyncCalls, Ops, RowStates
  <2>3. RowsAreDecryptable' /\ HeadIsDecryptable'
    BY <2>1 DEF SyncInv, SyncShaped, RowsAreDecryptable, HeadIsDecryptable
  <2>4. CallsAreAsked'
    BY <2>1 DEF SyncInv, SyncShaped, CallsAreAsked
  <2>5. RemovalsAreAsked'
    BY <2>1 DEF SyncInv, RemovalsAreAsked
  <2> QED BY <2>2, <2>3, <2>4, <2>5 DEF SyncInv
<1>3. CASE DeleteContact(d, c)
  <2>1. /\ row' = [row EXCEPT ![d][c] = "none"]
        /\ calls' = [calls EXCEPT ![d] = @ \cup {[op |-> "remove", c |-> c, lam |-> 0,
                                                  id |-> edits']}]
        /\ asked' = asked \cup {<<d, c>>}
        /\ UNCHANGED <<rel, lamport, seen, queued, inbox, applying, loop>>
    BY <1>3 DEF DeleteContact, DeleteRow, Echoes, SetRow, Replicate, applyVars
  <2>2. SyncShaped'
    BY <1>1, <2>1 DEF SyncInv, SyncShaped, SyncCalls, Ops, RowStates
  <2>3. RowsAreDecryptable' /\ HeadIsDecryptable'
    BY <2>1 DEF SyncInv, SyncShaped, RowsAreDecryptable, HeadIsDecryptable
  <2>4. CallsAreAsked'
    <3>1. calls \in [Pair -> SUBSET SyncCalls] /\ CallsAreAsked
      BY DEF SyncInv, SyncShaped
    <3>2. ASSUME NEW x \in Pair, NEW k \in calls'[x], k.op = "remove"
          PROVE  <<x, k.c>> \in asked'
      <4>1. CASE k \in calls[x]
        BY <2>1, <3>1, <3>2, <4>1 DEF CallsAreAsked
      <4>2. CASE x = d /\ k.c = c
        BY <2>1, <4>2
      <4> QED BY <2>1, <3>1, <3>2, <4>1, <4>2
    <3> QED BY <2>1, <3>1, <3>2 DEF CallsAreAsked
  <2>5. RemovalsAreAsked'
    BY <2>1 DEF SyncInv, RemovalsAreAsked
  <2> QED BY <2>2, <2>3, <2>4, <2>5 DEF SyncInv
<1>4. CASE Block(d, c)
  <2>1. /\ row[d][c] # "none"
        /\ \E s \in {"active", "blocked"} : row' = [row EXCEPT ![d][c] = s]
        /\ UNCHANGED <<rel, lamport, seen, calls, queued, inbox, applying, loop, asked>>
    BY <1>4 DEF Block, SetRow, sendVars, applyVars
  <2>2. SyncShaped'
    BY <1>1, <2>1 DEF SyncInv, SyncShaped, RowStates
  <2>3. RowsAreDecryptable' /\ HeadIsDecryptable'
    BY <2>1 DEF SyncInv, SyncShaped, RowsAreDecryptable, HeadIsDecryptable
  <2>4. CallsAreAsked' /\ RemovalsAreAsked'
    BY <2>1 DEF SyncInv, CallsAreAsked, RemovalsAreAsked
  <2> QED BY <2>2, <2>3, <2>4 DEF SyncInv
<1> QED BY <1>2, <1>3, <1>4

LEMMA NumberStep ==
    ASSUME SyncInv, NEW d \in Pair, NEW k \in calls[d], NextLamport(d, k)
    PROVE  SyncInv'
<1>1. k \in SyncCalls /\ (k.op = "remove" => <<d, k.c>> \in asked)
  BY DEF SyncInv, SyncShaped, CallsAreAsked
<1>2. UNCHANGED <<row, rel, queued, inbox, seen, applying, loop, asked, edits>>
  BY DEF NextLamport, localVars, applyVars
<1>3. /\ lamport' \in [Pair -> Nat]
      /\ \/ calls' = [calls EXCEPT ![d] = (calls[d] \ {k}) \cup
                                          {[k EXCEPT !.lam = lamport'[d]]}]
         \/ calls' = [calls EXCEPT ![d] = calls[d] \ {k}]
  BY DEF NextLamport, Forget, SyncInv, SyncShaped
<1>4. /\ [k EXCEPT !.lam = lamport'[d]] \in SyncCalls
      /\ [k EXCEPT !.lam = lamport'[d]].op = k.op /\ [k EXCEPT !.lam = lamport'[d]].c = k.c
  BY <1>1, <1>3 DEF SyncCalls
<1>5. SyncShaped'
  <2>1. calls' \in [Pair -> SUBSET SyncCalls]
    <3>1. calls \in [Pair -> SUBSET SyncCalls]
      BY DEF SyncInv, SyncShaped
    <3> QED BY <1>3, <1>4, <3>1
  <2> QED BY <1>2, <1>3, <2>1 DEF SyncInv, SyncShaped
<1>6. CallsAreAsked'
  <2>1. calls \in [Pair -> SUBSET SyncCalls] /\ CallsAreAsked
    BY DEF SyncInv, SyncShaped
  <2>2. ASSUME NEW x \in Pair, NEW j \in calls'[x]
        PROVE  \/ j \in calls[x]
               \/ x = d /\ j = [k EXCEPT !.lam = lamport'[d]]
    BY <1>3, <2>1, <2>2
  <2>3. ASSUME NEW x \in Pair, NEW j \in calls'[x], j.op = "remove"
        PROVE  <<x, j.c>> \in asked
    <3>1. CASE j \in calls[x]
      BY <2>1, <2>3, <3>1 DEF CallsAreAsked
    <3>2. CASE x = d /\ j = [k EXCEPT !.lam = lamport'[d]]
      BY <1>1, <1>4, <2>3, <3>2
    <3> QED BY <2>2, <3>1, <3>2
  <2> QED BY <1>2, <2>1, <2>3 DEF CallsAreAsked
<1>7. RowsAreDecryptable' /\ HeadIsDecryptable' /\ RemovalsAreAsked'
  BY <1>2 DEF SyncInv, RowsAreDecryptable, HeadIsDecryptable, RemovalsAreAsked
<1> QED BY <1>5, <1>6, <1>7 DEF SyncInv

\* A step that deposits an event, or leaves the inboxes alone.
LEMMA SentStep ==
    ASSUME SyncInv, NEW d \in Pair, NEW e \in Events,
           e.op = "remove" => <<d, e.c>> \in asked,
           DepositEvent(d, e) \/ UNCHANGED inbox,
           UNCHANGED <<row, rel, lamport, seen, applying, loop, asked, edits>>,
           calls' \in [Pair -> SUBSET SyncCalls], queued' \in [Pair -> SUBSET QueuedEvents],
           CallsAreAsked'
    PROVE  SyncInv'
<1>1. /\ inbox' \in [Pair -> Seq(Events)]
      /\ \A x \in Pair : inbox[x] # <<>> =>
            inbox'[x] # <<>> /\ Head(inbox'[x]) = Head(inbox[x])
      /\ \A x \in Pair : \A i \in DOMAIN inbox'[x] :
            inbox'[x][i].op = "remove" => <<Twin(x), inbox'[x][i].c>> \in asked
  BY DepositKeeps DEF SyncInv, SyncShaped, RemovalsAreAsked
<1>2. SyncShaped'
  BY <1>1 DEF SyncInv, SyncShaped
<1>3. RowsAreDecryptable' /\ HeadIsDecryptable' /\ RemovalsAreAsked'
  BY <1>1 DEF SyncInv, RowsAreDecryptable, HeadIsDecryptable, RemovalsAreAsked
<1> QED BY <1>2, <1>3 DEF SyncInv

LEMMA DispatchStep ==
    ASSUME SyncInv, NEW d \in Pair, NEW k \in calls[d], Dispatch(d, k)
    PROVE  SyncInv'
<1>1. k \in SyncCalls /\ (k.op = "remove" => <<d, k.c>> \in asked)
  BY DEF SyncInv, SyncShaped, CallsAreAsked
<1>2. Event(k) \in Events /\ Event(k).op = k.op /\ Event(k).c = k.c
  BY <1>1 DEF Event, Events, SyncCalls
<1>3. UNCHANGED <<row, rel, lamport, seen, applying, loop, asked, edits>>
  BY DEF Dispatch, localVars, applyVars
<1>4. /\ calls' = [calls EXCEPT ![d] = calls[d] \ {k}]
      /\ \/ queued' = queued
         \/ queued' = [queued EXCEPT ![d] = @ \cup {[event |-> Event(k), attempts |-> 0]}]
      /\ DepositEvent(d, Event(k)) \/ UNCHANGED inbox
  BY DEF Dispatch, Forget, StashPending
<1>5. /\ calls' \in [Pair -> SUBSET SyncCalls]
      /\ queued' \in [Pair -> SUBSET QueuedEvents]
  <2>1. [event |-> Event(k), attempts |-> 0] \in QueuedEvents
    BY <1>2 DEF QueuedEvents
  <2>2. /\ calls \in [Pair -> SUBSET SyncCalls]
        /\ queued \in [Pair -> SUBSET QueuedEvents]
    BY DEF SyncInv, SyncShaped
  <2> QED BY <1>4, <2>1, <2>2
<1>6. CallsAreAsked'
  <2>1. /\ calls \in [Pair -> SUBSET SyncCalls] /\ queued \in [Pair -> SUBSET QueuedEvents]
        /\ CallsAreAsked
    BY DEF SyncInv, SyncShaped
  <2>2. \A x \in Pair : calls'[x] \subseteq calls[x]
    BY <1>4, <2>1
  <2>3. ASSUME NEW x \in Pair, NEW q \in queued'[x], q.event.op = "remove"
        PROVE  <<x, q.event.c>> \in asked
    <3>1. q \in queued[x] \/ (x = d /\ q = [event |-> Event(k), attempts |-> 0])
      BY <1>4, <2>1, <2>3
    <3> QED BY <1>1, <1>2, <2>1, <2>3, <3>1 DEF CallsAreAsked
  <2> QED BY <1>3, <2>1, <2>2, <2>3 DEF CallsAreAsked
<1> QED BY <1>1, <1>2, <1>3, <1>4, <1>5, <1>6, SentStep

LEMMA FlushStep ==
    ASSUME SyncInv, NEW d \in Pair, NEW q \in queued[d], FlushPending(d, q)
    PROVE  SyncInv'
<1>1. /\ q \in QueuedEvents /\ q.event \in Events
      /\ q.event.op = "remove" => <<d, q.event.c>> \in asked
  BY DEF SyncInv, SyncShaped, CallsAreAsked, QueuedEvents
<1>2. UNCHANGED <<row, rel, lamport, seen, calls, applying, loop, asked, edits>>
  BY DEF FlushPending, localVars, applyVars
<1>3. PICK more \in {{}, {[q EXCEPT !.attempts = q.attempts + 1]}} :
         queued' = [queued EXCEPT ![d] = (queued[d] \ {q}) \cup more]
  BY DEF FlushPending, SyncInv, SyncShaped
<1>4. /\ [q EXCEPT !.attempts = q.attempts + 1] \in QueuedEvents
      /\ [q EXCEPT !.attempts = q.attempts + 1].event = q.event
  BY <1>1 DEF QueuedEvents
<1>5. /\ calls' \in [Pair -> SUBSET SyncCalls]
      /\ queued' \in [Pair -> SUBSET QueuedEvents]
  BY <1>2, <1>3, <1>4 DEF SyncInv, SyncShaped
<1>6. CallsAreAsked'
  <2>1. queued \in [Pair -> SUBSET QueuedEvents] /\ CallsAreAsked
    BY DEF SyncInv, SyncShaped
  <2>2. ASSUME NEW x \in Pair, NEW p \in queued'[x], p.event.op = "remove"
        PROVE  <<x, p.event.c>> \in asked
    <3>1. p \in queued[x] \/ (x = d /\ p \in more)
      BY <1>3, <2>1, <2>2
    <3>2. p \in more => p.event = q.event
      BY <1>4
    <3> QED BY <1>1, <2>1, <2>2, <3>1, <3>2 DEF CallsAreAsked
  <2> QED BY <1>2, <2>1, <2>2 DEF CallsAreAsked
<1>7. DepositEvent(d, q.event) \/ UNCHANGED inbox
  BY DEF FlushPending
<1> QED BY <1>1, <1>2, <1>5, <1>6, <1>7, SentStep

LEMMA LoopStep ==
    ASSUME SyncInv, NEW d \in Pair, Reconcile(d) \/ ReconcileNext(d) \/ Stops(d)
    PROVE  SyncInv'
<1>1. UNCHANGED <<row, rel, lamport, seen, queued, inbox, asked, edits>>
  BY DEF Reconcile, ReconcileNext, Stops, localVars, sendVars, applyVars, syncBoundVars
<1>2. \/ UNCHANGED calls
      \/ calls' = [calls EXCEPT ![d] = {}]
      \/ \E x \in loop[d].todo :
            calls' = [calls EXCEPT ![d] = @ \cup {[op |-> "upsert", c |-> x, lam |-> 0,
                                                   id |-> 0]}]
  BY DEF Reconcile, ReconcileNext, Replicate, Stops, sendVars
<1>3. loop \in [Pair -> [on : BOOLEAN, todo : SUBSET Contacts]]
  BY DEF SyncInv, SyncShaped
<1>4. loop' \in [Pair -> [on : BOOLEAN, todo : SUBSET Contacts]]
  <2>1. CASE Reconcile(d)
    <3>1. ActiveAt(d) \in SUBSET Contacts
      BY DEF ActiveAt
    <3> QED BY <1>3, <2>1, <3>1 DEF Reconcile
  <2>2. CASE ReconcileNext(d)
    <3>1. \/ loop' = [loop EXCEPT ![d] = NoLoop]
          \/ \E x \in Contacts : loop' = [loop EXCEPT ![d].todo = @ \ {x}]
      BY <1>3, <2>2 DEF ReconcileNext
    <3>2. CASE loop' = [loop EXCEPT ![d] = NoLoop]
      BY <1>3, <3>2 DEF NoLoop
    <3>3. ASSUME NEW x \in Contacts, loop' = [loop EXCEPT ![d].todo = @ \ {x}]
          PROVE  loop' \in [Pair -> [on : BOOLEAN, todo : SUBSET Contacts]]
      <4>1. [loop[d] EXCEPT !.todo = @ \ {x}] \in [on : BOOLEAN, todo : SUBSET Contacts]
        BY <1>3
      <4>2. loop' = [loop EXCEPT ![d] = [loop[d] EXCEPT !.todo = @ \ {x}]]
        BY <1>3, <3>3
      <4> QED BY <1>3, <4>1, <4>2
    <3> QED BY <3>1, <3>2, <3>3
  <2>3. CASE Stops(d)
    BY <1>3, <2>3 DEF Stops, NoLoop
  <2> QED BY <2>1, <2>2, <2>3
<1>5. \/ UNCHANGED applying
      \/ applying' = [applying EXCEPT ![d] = "no"]
  BY DEF Reconcile, ReconcileNext, Stops, Applying, applyVars
<1>6. SyncShaped'
  <2>1. calls' \in [Pair -> SUBSET SyncCalls]
    <3>1. calls \in [Pair -> SUBSET SyncCalls] /\ loop[d].todo \subseteq Contacts
      BY <1>3 DEF SyncInv, SyncShaped
    <3> QED BY <1>2, <3>1 DEF SyncCalls, Ops
  <2>2. applying' \in [Pair -> {"no", "contact", "seen"}]
    BY <1>5 DEF SyncInv, SyncShaped
  <2> QED BY <1>1, <1>4, <2>1, <2>2 DEF SyncInv, SyncShaped
<1>7. CallsAreAsked'
  <2>1. calls \in [Pair -> SUBSET SyncCalls] /\ CallsAreAsked
    BY DEF SyncInv, SyncShaped
  <2>2. \A x \in Pair : \A k \in calls'[x] : k \in calls[x] \/ k.op = "upsert"
    BY <1>2, <2>1
  <2> QED BY <1>1, <2>1, <2>2 DEF CallsAreAsked
<1>8. RowsAreDecryptable' /\ HeadIsDecryptable' /\ RemovalsAreAsked'
  BY <1>1, <1>5 DEF SyncInv, SyncShaped, RowsAreDecryptable, HeadIsDecryptable,
     RemovalsAreAsked
<1> QED BY <1>6, <1>7, <1>8 DEF SyncInv

LEMMA ApplyStep == ASSUME SyncInv, NEW d \in Pair, Applies(d) PROVE SyncInv'
<1>1. UNCHANGED <<lamport, calls, queued, loop, asked, edits>>
  BY DEF Applies, IgnoreStale, ApplyRemove, ApplyRelationship, ApplyContact, AdvanceSeen,
     DeleteRow, Echoes, sendVars, syncBoundVars
<1>2. inbox[d] # <<>> /\ Head(inbox[d]) \in Events
  BY HeadIsEvent DEF Applies, IgnoreStale, ApplyRemove, ApplyRelationship, ApplyContact,
     AdvanceSeen, SyncInv, HeadIsDecryptable
<1>3. CallsAreAsked'
  BY <1>1 DEF SyncInv, CallsAreAsked
<1>4. CASE IgnoreStale(d) \/ AdvanceSeen(d) \/ (ApplyRelationship(d) /\ Done(d))
  <2>1. /\ inbox' \in [Pair -> Seq(Events)]
        /\ \A x \in Pair \ {d} : inbox'[x] = inbox[x]
        /\ RemovalsAreAsked'
    BY <1>1, <1>2, <1>4, DoneKeeps DEF IgnoreStale, AdvanceSeen, RemovalsAreAsked
  <2>2. /\ UNCHANGED row
        /\ rel' \in [Pair -> SUBSET Contacts] /\ \A x \in Pair : rel[x] \subseteq rel'[x]
        /\ seen' \in [Pair -> Nat]
    <3>1. /\ rel \in [Pair -> SUBSET Contacts] /\ seen \in [Pair -> Nat]
          /\ Head(inbox[d]).c \in Contacts /\ Head(inbox[d]).lam \in Nat
      BY <1>2 DEF Events, SyncInv, SyncShaped
    <3>2. /\ UNCHANGED row
          /\ \/ UNCHANGED rel
             \/ rel' = [rel EXCEPT ![d] = @ \cup {Head(inbox[d]).c}]
          /\ \/ UNCHANGED seen
             \/ seen' = [seen EXCEPT ![d] = Head(inbox[d]).lam]
      BY <1>4 DEF IgnoreStale, AdvanceSeen, ApplyRelationship, localVars, applyVars
    <3> QED BY <3>1, <3>2
  <2>3. applying' = [applying EXCEPT ![d] = "no"]
    <3>1. CASE ApplyRelationship(d) /\ Done(d)
      <4>1. Tail(inbox[d]) # inbox[d]
        BY <1>2, HeadTailProperties DEF SyncInv, SyncShaped
      <4>2. ~ UNCHANGED inbox
        BY <3>1, <4>1 DEF Done, SyncInv, SyncShaped
      <4> QED BY <3>1, <4>2 DEF ApplyRelationship, SyncInv, SyncShaped
    <3> QED BY <1>4, <3>1 DEF IgnoreStale, AdvanceSeen, Applying, applyVars, SyncInv,
               SyncShaped
  <2>4. SyncShaped'
    BY <1>1, <2>1, <2>2, <2>3 DEF SyncInv, SyncShaped
  <2>5. RowsAreDecryptable' /\ HeadIsDecryptable'
    BY <2>1, <2>2, <2>3 DEF SyncInv, SyncShaped, RowsAreDecryptable, HeadIsDecryptable
  <2> QED BY <1>3, <2>1, <2>4, <2>5 DEF SyncInv
<1>5. CASE ApplyRemove(d)
  <2>1. /\ row' = [row EXCEPT ![d][Head(inbox[d]).c] = "none"]
        /\ applying' = [applying EXCEPT ![d] = "seen"]
        /\ UNCHANGED <<rel, inbox, seen>>
    BY <1>5 DEF ApplyRemove, DeleteRow, SetRow, Applying
  <2>2. SyncShaped'
    BY <1>1, <1>2, <2>1 DEF SyncInv, SyncShaped, RowStates, Events
  <2>3. RowsAreDecryptable' /\ HeadIsDecryptable' /\ RemovalsAreAsked'
    BY <1>1, <1>2, <2>1 DEF SyncInv, SyncShaped, Events, RowsAreDecryptable,
       HeadIsDecryptable, RemovalsAreAsked
  <2> QED BY <1>3, <2>2, <2>3 DEF SyncInv
<1>6. CASE ApplyRelationship(d) /\ UNCHANGED inbox
  <2>1. /\ rel' = [rel EXCEPT ![d] = @ \cup {Head(inbox[d]).c}]
        /\ applying' = [applying EXCEPT ![d] = "contact"]
        /\ UNCHANGED <<row, inbox, seen>>
    <3>1. Tail(inbox[d]) # inbox[d]
      BY <1>2, HeadTailProperties DEF SyncInv, SyncShaped
    <3>2. ~ Done(d)
      BY <1>6, <3>1 DEF Done, SyncInv, SyncShaped
    <3> QED BY <1>6, <3>2 DEF ApplyRelationship, Applying
  <2>2. SyncShaped'
    BY <1>1, <1>2, <2>1 DEF SyncInv, SyncShaped, Events
  <2>3. RowsAreDecryptable' /\ HeadIsDecryptable' /\ RemovalsAreAsked'
    BY <1>1, <1>2, <2>1 DEF SyncInv, SyncShaped, RowsAreDecryptable, HeadIsDecryptable,
       RemovalsAreAsked
  <2> QED BY <1>3, <2>2, <2>3 DEF SyncInv
<1>7. CASE ApplyContact(d)
  <2>1. /\ row' = [row EXCEPT ![d][Head(inbox[d]).c] = "active"]
        /\ applying' = [applying EXCEPT ![d] = "seen"]
        /\ UNCHANGED <<rel, inbox, seen>>
        /\ Head(inbox[d]).c \in rel[d]
    BY <1>7 DEF ApplyContact, SetRow, Applying, SyncInv, HeadIsDecryptable
  <2>2. SyncShaped'
    BY <1>1, <1>2, <2>1 DEF SyncInv, SyncShaped, RowStates, Events
  <2>3. RowsAreDecryptable' /\ HeadIsDecryptable' /\ RemovalsAreAsked'
    BY <1>1, <1>2, <2>1 DEF SyncInv, SyncShaped, Events, RowsAreDecryptable,
       HeadIsDecryptable, RemovalsAreAsked
  <2> QED BY <1>3, <2>2, <2>3 DEF SyncInv
<1> QED BY <1>4, <1>5, <1>6, <1>7 DEF Applies, ApplyRelationship

LEMMA SyncStep == SyncInv /\ [SyncNext]_syncVars => SyncInv'
<1> SUFFICES ASSUME SyncInv, [SyncNext]_syncVars PROVE SyncInv'
  OBVIOUS
<1>1. CASE SyncNext
  <2> SUFFICES ASSUME NEW d \in Pair,
                      \/ \E c \in Contacts :
                            Connect(d, c) \/ DeleteContact(d, c) \/ Block(d, c)
                      \/ Sends(d) \/ Flushes(d) \/ Reconcile(d) \/ ReconcileNext(d)
                      \/ Applies(d) \/ Stops(d)
               PROVE  SyncInv'
    BY <1>1 DEF SyncNext
  <2>1. CASE Sends(d)
    BY <2>1, NumberStep, DispatchStep DEF Sends
  <2>2. CASE Flushes(d)
    BY <2>2, FlushStep DEF Flushes
  <2> QED BY <2>1, <2>2, UserStep, LoopStep, ApplyStep
<1>2. CASE UNCHANGED syncVars
  BY <1>2 DEF syncVars, localVars, sendVars, applyVars, syncBoundVars, SyncInv, SyncShaped,
     RowsAreDecryptable, HeadIsDecryptable, CallsAreAsked, RemovalsAreAsked
<1> QED BY <1>1, <1>2

-----------------------------------------------------------------------------
(* The facts of a conversation.                                             *)

Messages == [op : {"digest", "inventory", "transfer"}, facts : SUBSET Facts,
             reply : BOOLEAN]

LogsShaped ==
    /\ log \in [Pair -> SUBSET Facts]
    /\ box \in [Pair -> Seq(Messages)]
    /\ transfer \in [Pair -> [at : {"no", "check", "append"}, todo : SUBSET Facts,
                              got : BOOLEAN]]
    /\ vetted \subseteq Pair \X Facts

\* The fact that is about to be handed to the seam was found unrevoked.
CheckedIsVetted ==
    \A d \in Pair : transfer[d].at = "append" => <<d, Logs!Current(d)>> \in vetted

\* The message whose facts a device goes through is still at the head of its box.
HeadWaits == \A d \in Pair : transfer[d].at # "no" => box[d] # <<>>

LogsInv == LogsShaped /\ LogIsVetted /\ CheckedIsVetted /\ HeadWaits

\* The least of the numbers of a set is one of them.
LEMMA MinIsIn == ASSUME NEW S \in SUBSET Nat, S # {} PROVE Min(S) \in S
<1> DEFINE below == OpToRel(<, Nat)
<1>1. IsWellFoundedOn(below, Nat)
  BY NatLessThanWellFounded, Zenon
<1>2. \A x \in Nat, y \in Nat : y < x => <<y, x>> \in below
  BY DEF OpToRel
<1> HIDE DEF below
<1>3. PICK x \in S : \A y \in S : ~ (<<y, x>> \in below)
  BY <1>1, WFMin
<1>4. \A y \in S : x <= y
  <2> SUFFICES ASSUME NEW y \in S PROVE x <= y
    OBVIOUS
  <2>1. x \in Nat /\ y \in Nat
    OBVIOUS
  <2>2. ~ (y < x)
    BY <1>2, <1>3, <2>1, Zenon
  <2> QED BY <2>1, <2>2
<1> QED BY <1>4, Zenon DEF Min

LEMMA LogsBegin ==
    ASSUME NEW thread, NEW limits, Logs!LogsInit(thread, limits) PROVE LogsInv
BY DEF Logs!LogsInit, Logs!Idle, LogsInv, LogsShaped, LogIsVetted, CheckedIsVetted,
       HeadWaits

LEMMA LivesStep ==
    ASSUME LogsInv, NEW d \in Pair, NEW f \in Facts, Logs!Lives(d, f) PROVE LogsInv'
<1>1. /\ log' = [log EXCEPT ![d] = @ \cup {f}] /\ vetted' = vetted \cup {<<d, f>>}
      /\ UNCHANGED <<transfer, box>>
  BY DEF Logs!Lives, Logs!Records, Logs!memory
<1>2. LogsShaped'
  BY <1>1 DEF LogsInv, LogsShaped
<1>3. LogIsVetted'
  BY <1>1 DEF LogsInv, LogsShaped, LogIsVetted
<1>4. CheckedIsVetted' /\ HeadWaits'
  BY <1>1 DEF LogsInv, CheckedIsVetted, HeadWaits, Logs!Current
<1> QED BY <1>2, <1>3, <1>4 DEF LogsInv

LEMMA SiblingIsOne == ASSUME NEW d \in Pair PROVE Logs!Sibling(d) \in Pair
BY TwinIsOne DEF Twin, Logs!Sibling

LEMMA SendsShaped ==
    ASSUME LogsShaped, NEW d \in Pair, NEW takes \in BOOLEAN, NEW ms \in Seq(Messages),
           takes => box[d] # <<>>, Logs!Sends(d, takes, ms)
    PROVE  /\ box' \in [Pair -> Seq(Messages)]
           /\ \A x \in Pair : box[x] # <<>> /\ (takes => x # d) => box'[x] # <<>>
<1> DEFINE rest == IF takes THEN [box EXCEPT ![d] = Tail(@)] ELSE box
           e == Logs!Sibling(d)
<1>1. box \in [Pair -> Seq(Messages)] /\ e \in Pair
  BY SiblingIsOne DEF LogsShaped
<1>2. /\ rest \in [Pair -> Seq(Messages)]
      /\ \A x \in Pair : (takes => x # d) => rest[x] = box[x]
  <2>1. CASE takes
    <3>1. Tail(box[d]) \in Seq(Messages)
      BY <1>1, <2>1, HeadTailProperties
    <3> QED BY <1>1, <2>1, <3>1
  <2> QED BY <1>1, <2>1
<1>3. \/ box' = [rest EXCEPT ![e] = rest[e] \o ms]
      \/ box' = rest
  BY DEF Logs!Sends
<1> HIDE DEF rest, e
<1>4. rest[e] \o ms \in Seq(Messages) /\ (rest[e] # <<>> => rest[e] \o ms # <<>>)
  BY <1>1, <1>2
<1>5. box' \in [Pair -> Seq(Messages)]
  BY <1>1, <1>2, <1>3, <1>4
<1>6. \A x \in Pair : rest[x] # <<>> => box'[x] # <<>>
  <2> SUFFICES ASSUME NEW x \in Pair, rest[x] # <<>> PROVE box'[x] # <<>>
    OBVIOUS
  <2>1. CASE box' = rest
    BY <2>1
  <2>2. CASE box' = [rest EXCEPT ![e] = rest[e] \o ms] /\ x = e
    <3>1. box'[x] = rest[e] \o ms
      BY <1>2, <2>2
    <3> QED BY <1>4, <2>2, <3>1
  <2>3. CASE box' = [rest EXCEPT ![e] = rest[e] \o ms] /\ x # e
    BY <1>2, <2>3
  <2> QED BY <1>3, <2>1, <2>2, <2>3
<1> QED BY <1>2, <1>5, <1>6

LEMMA HeadIsMessage ==
    ASSUME LogsShaped, NEW d \in Pair, box[d] # <<>>
    PROVE  Head(box[d]) \in Messages
BY DEF LogsShaped

\* What two devices say to each other.
LEMMA MessagesAre ==
    ASSUME NEW fs \in SUBSET Facts, NEW reply \in BOOLEAN
    PROVE  /\ Logs!Digest(fs) \in Messages /\ Logs!Transfer(fs) \in Messages
           /\ Logs!Inventory(Logs!Listed(fs), reply) \in Messages
BY DEF Logs!Digest, Logs!Transfer, Logs!Inventory, Logs!Listed, Messages

\* A step that sends and leaves the log and the transfer as they are; the box
\* it takes the head of is that of a device that goes through no facts.
LEMMA SayStep ==
    ASSUME LogsInv, NEW d \in Pair, NEW takes \in BOOLEAN, NEW ms \in Seq(Messages),
           takes => box[d] # <<>> /\ transfer[d] = Logs!Idle, Logs!Sends(d, takes, ms),
           UNCHANGED <<log, transfer, vetted>>
    PROVE  LogsInv'
<1>1. /\ box' \in [Pair -> Seq(Messages)]
      /\ \A x \in Pair : box[x] # <<>> /\ (takes => x # d) => box'[x] # <<>>
  BY SendsShaped DEF LogsInv
<1>2. HeadWaits'
  BY <1>1 DEF LogsInv, HeadWaits, Logs!Idle
<1>3. LogsShaped' /\ LogIsVetted' /\ CheckedIsVetted'
  BY <1>1 DEF LogsInv, LogsShaped, LogIsVetted, CheckedIsVetted, Logs!Current
<1> QED BY <1>2, <1>3 DEF LogsInv

LEMMA DigestStep ==
    ASSUME LogsInv, NEW d \in Pair,
           Logs!Announce(d) \/ Logs!Hurries(d) \/ Logs!HandleDigest(d)
    PROVE  LogsInv'
<1>1. UNCHANGED <<log, transfer, vetted>>
  BY DEF Logs!Announce, Logs!Hurries, Logs!HandleDigest, Logs!memory
<1>2. /\ LogsShaped /\ log[d] \in SUBSET Facts
      /\ Logs!Digest(log[d]) \in Messages
      /\ Logs!Inventory(Logs!Listed(log[d]), TRUE) \in Messages
  BY MessagesAre DEF LogsInv, LogsShaped
<1>3. /\ <<Logs!Digest(log[d])>> \in Seq(Messages)
      /\ <<Logs!Inventory(Logs!Listed(log[d]), TRUE)>> \in Seq(Messages)
      /\ <<>> \in Seq(Messages)
  <2>1. \A m \in Messages : <<m>> \in Seq(Messages)
    OBVIOUS
  <2>2. <<>> \in Seq(Messages)
    OBVIOUS
  <2> QED BY <1>2, <2>1, <2>2
<1>4. CASE Logs!Announce(d)
  <2>1. Logs!Sends(d, FALSE, <<Logs!Digest(log[d])>>)
    BY <1>4 DEF Logs!Announce
  <2> QED BY <1>1, <1>3, <2>1, SayStep
<1>5. CASE Logs!Hurries(d)
  <2>1. /\ box' = [box EXCEPT ![Logs!Sibling(d)] =
                                  Append(box[Logs!Sibling(d)], Logs!Digest(log[d]))]
        /\ Logs!Sibling(d) \in Pair /\ box[Logs!Sibling(d)] \in Seq(Messages)
    BY <1>2, <1>5, SiblingIsOne DEF Logs!Hurries, LogsShaped
  <2>2. /\ Append(box[Logs!Sibling(d)], Logs!Digest(log[d])) \in Seq(Messages)
        /\ Append(box[Logs!Sibling(d)], Logs!Digest(log[d])) # <<>>
    BY <1>2, <2>1
  <2>3. LogsShaped' /\ HeadWaits'
    BY <1>1, <2>1, <2>2 DEF LogsInv, LogsShaped, HeadWaits
  <2>4. LogIsVetted' /\ CheckedIsVetted'
    BY <1>1 DEF LogsInv, LogIsVetted, CheckedIsVetted, Logs!Current
  <2> QED BY <2>3, <2>4 DEF LogsInv
<1>6. CASE Logs!HandleDigest(d)
  <2>1. /\ box[d] # <<>> /\ transfer[d] = Logs!Idle
        /\ \/ Logs!Sends(d, TRUE, <<Logs!Inventory(Logs!Listed(log[d]), TRUE)>>)
           \/ Logs!Sends(d, TRUE, <<>>)
    BY <1>6 DEF Logs!HandleDigest, Logs!Head1
  <2>2. PICK ms \in Seq(Messages) : Logs!Sends(d, TRUE, ms)
    BY <1>3, <2>1
  <2> QED BY <1>1, <2>1, <2>2, SayStep
<1> QED BY <1>4, <1>5, <1>6

LEMMA InventoryStep ==
    ASSUME LogsInv, NEW d \in Pair, Logs!HandleInventory(d) PROVE LogsInv'
<1> DEFINE push == IF Logs!Lacks(d) = {} THEN <<>> ELSE <<Logs!Transfer(Logs!Lacks(d))>>
           list == Logs!Inventory(Logs!Listed(log[d]), FALSE)
<1>1. UNCHANGED <<log, transfer, vetted>> /\ LogsShaped
  BY DEF Logs!HandleInventory, LogsInv
<1>2. /\ box[d] # <<>> /\ transfer[d] = Logs!Idle
      /\ Logs!Sends(d, TRUE, Append(push, list)) \/ Logs!Sends(d, TRUE, push)
  BY DEF Logs!HandleInventory, Logs!Head1
<1>3. push \in Seq(Messages) /\ list \in Messages
  <2>1. Logs!Lacks(d) \in SUBSET Facts /\ log[d] \in SUBSET Facts
    BY DEF Logs!Lacks, LogsInv, LogsShaped
  <2>2. Logs!Transfer(Logs!Lacks(d)) \in Messages /\ list \in Messages
    BY <2>1, MessagesAre
  <2>3. push = <<>> \/ push = <<Logs!Transfer(Logs!Lacks(d))>>
    OBVIOUS
  <2>4. <<Logs!Transfer(Logs!Lacks(d))>> \in Seq(Messages) /\ <<>> \in Seq(Messages)
    BY <2>2
  <2> HIDE DEF push, list
  <2> QED BY <2>2, <2>3, <2>4
<1> HIDE DEF push, list
<1>4. Append(push, list) \in Seq(Messages)
  BY <1>3
<1>5. PICK ms \in Seq(Messages) : Logs!Sends(d, TRUE, ms)
  BY <1>2, <1>3, <1>4
<1> QED BY <1>1, <1>2, <1>5, SayStep

LEMMA TransferStep ==
    ASSUME LogsInv, NEW d \in Pair,
           Logs!TakeTransfer(d) \/ Logs!TransferDone(d) \/ Logs!Restart(d)
    PROVE  LogsInv'
<1>1. UNCHANGED <<log, vetted>> /\ LogsShaped
  BY DEF Logs!TakeTransfer, Logs!TransferDone, Logs!Restart, LogsInv
<1>2. PICK t \in [at : {"no", "check"}, todo : SUBSET Facts, got : BOOLEAN] :
         /\ transfer' = [transfer EXCEPT ![d] = t]
         /\ t.at = "check" => Logs!TakeTransfer(d)
  <2>1. CASE Logs!TakeTransfer(d)
    <3>1. Head(box[d]).facts \in SUBSET Facts
      BY <1>1, <2>1, HeadIsMessage DEF Logs!TakeTransfer, Logs!Head1, Messages
    <3> QED BY <2>1, <3>1 DEF Logs!TakeTransfer, Logs!Idle
  <2>2. CASE Logs!TransferDone(d) \/ Logs!Restart(d)
    <3>1. transfer' = [transfer EXCEPT ![d] = Logs!Idle]
      BY <2>2 DEF Logs!TransferDone, Logs!Restart
    <3>2. /\ Logs!Idle \in [at : {"no", "check"}, todo : SUBSET Facts, got : BOOLEAN]
          /\ Logs!Idle.at # "check"
      BY DEF Logs!Idle
    <3> QED BY <3>1, <3>2
  <2> QED BY <2>1, <2>2
<1>3. /\ box' \in [Pair -> Seq(Messages)]
      /\ \A x \in Pair \ {d} : box[x] # <<>> => box'[x] # <<>>
      /\ Logs!TakeTransfer(d) => box[d] # <<>> /\ box' = box
  <2>1. CASE Logs!TransferDone(d)
    <3>1. box[d] # <<>> /\ ~ Logs!TakeTransfer(d)
      BY <2>1 DEF LogsInv, HeadWaits, Logs!TransferDone, Logs!TakeTransfer, Logs!Head1,
                  Logs!Idle
    <3>2. \/ Logs!Sends(d, TRUE, <<Logs!Digest(log[d])>>)
          \/ Logs!Sends(d, TRUE, <<>>)
      BY <2>1 DEF Logs!TransferDone
    <3>3. Logs!Digest(log[d]) \in Messages
      BY <1>1, MessagesAre DEF LogsShaped
    <3>4. <<Logs!Digest(log[d])>> \in Seq(Messages) /\ <<>> \in Seq(Messages)
      BY <3>3
    <3>5. PICK ms \in Seq(Messages) : Logs!Sends(d, TRUE, ms)
      BY <3>2, <3>4
    <3>6. /\ box' \in [Pair -> Seq(Messages)]
          /\ \A x \in Pair : box[x] # <<>> /\ (TRUE => x # d) => box'[x] # <<>>
      BY <1>1, <3>1, <3>5, SendsShaped
    <3> QED BY <3>1, <3>6
  <2>2. CASE Logs!TakeTransfer(d) \/ Logs!Restart(d)
    BY <1>1, <2>2 DEF Logs!TakeTransfer, Logs!Head1, Logs!Restart, LogsShaped
  <2> QED BY <2>1, <2>2
<1>4. LogsShaped'
  BY <1>1, <1>2, <1>3 DEF LogsShaped
<1>5. LogIsVetted' /\ HeadWaits'
  BY <1>1, <1>2, <1>3 DEF LogsInv, LogsShaped, LogIsVetted, HeadWaits
<1>6. CheckedIsVetted'
  BY <1>1, <1>2 DEF LogsInv, LogsShaped, CheckedIsVetted, Logs!Current
<1> QED BY <1>4, <1>5, <1>6 DEF LogsInv

\* On to the next of the facts of a transfer.
LEMMA NextFactKeeps ==
    ASSUME LogsInv, NEW d \in Pair, NEW got \in BOOLEAN, transfer[d].at # "no",
           Logs!NextFact(d, got), UNCHANGED box
    PROVE  /\ transfer' \in [Pair -> [at : {"no", "check", "append"}, todo : SUBSET Facts,
                                      got : BOOLEAN]]
           /\ transfer'[d].at = "check" /\ HeadWaits'
           /\ \A x \in Pair \ {d} : transfer'[x] = transfer[x]
<1> DEFINE t == [at |-> "check", todo |-> transfer[d].todo \ {Logs!Current(d)},
                 got |-> transfer[d].got \/ got]
<1>1. transfer' = [transfer EXCEPT ![d] = t]
  BY DEF Logs!NextFact
<1>2. transfer \in [Pair -> [at : {"no", "check", "append"}, todo : SUBSET Facts,
                             got : BOOLEAN]]
  BY DEF LogsInv, LogsShaped
<1>3. t.at = "check" /\ t \in [at : {"no", "check", "append"}, todo : SUBSET Facts,
                               got : BOOLEAN]
  BY <1>2
<1> HIDE DEF t
<1>4. \A x \in Pair \ {d} : transfer'[x] = transfer[x]
  BY <1>1, <1>2
<1>5. transfer'[d] = t
  BY <1>1, <1>2
<1>6. HeadWaits'
  BY <1>4 DEF LogsInv, HeadWaits
<1> QED BY <1>1, <1>2, <1>3, <1>4, <1>5, <1>6

LEMMA CheckStep ==
    ASSUME LogsInv, NEW d \in Pair, Logs!CheckFact(d) PROVE LogsInv'
<1> DEFINE f == Logs!Current(d)
<1>1. f \in Facts
  <2>1. transfer[d].todo \in SUBSET Nat /\ transfer[d].todo \subseteq Facts
    BY FactsAssumption DEF LogsInv, LogsShaped
  <2>2. transfer[d].todo # {}
    BY DEF Logs!CheckFact
  <2>3. Min(transfer[d].todo) \in transfer[d].todo
    BY <2>1, <2>2, MinIsIn
  <2>4. Logs!Current(d) = Min(transfer[d].todo)
    BY DEF Logs!Current, Logs!Min, Min
  <2> QED BY <2>1, <2>3, <2>4
<1>2. /\ transfer[d].at = "check" /\ UNCHANGED <<log, box>>
      /\ vetted' = vetted \/ vetted' = vetted \cup {<<d, f>>}
  BY DEF Logs!CheckFact
<1>3. \/ \E got \in BOOLEAN : Logs!NextFact(d, got)
      \/ /\ transfer' = [transfer EXCEPT ![d].at = "append"]
         /\ <<d, f>> \in vetted'
  BY DEF Logs!CheckFact, Logs!Defers
<1> HIDE DEF f
<1>4. LogIsVetted'
  BY <1>2 DEF LogsInv, LogIsVetted
<1>5. CASE \E got \in BOOLEAN : Logs!NextFact(d, got)
  <2>1. /\ transfer' \in [Pair -> [at : {"no", "check", "append"}, todo : SUBSET Facts,
                                   got : BOOLEAN]]
        /\ transfer'[d].at = "check" /\ HeadWaits'
        /\ \A x \in Pair \ {d} : transfer'[x] = transfer[x]
    BY <1>2, <1>5, NextFactKeeps
  <2>2. LogsShaped'
    BY <1>1, <1>2, <2>1 DEF LogsInv, LogsShaped
  <2>3. CheckedIsVetted'
    BY <1>2, <2>1 DEF LogsInv, CheckedIsVetted, Logs!Current
  <2> QED BY <1>4, <2>1, <2>2, <2>3 DEF LogsInv
<1>6. CASE /\ transfer' = [transfer EXCEPT ![d].at = "append"]
           /\ <<d, f>> \in vetted'
  <2>1. transfer \in [Pair -> [at : {"no", "check", "append"}, todo : SUBSET Facts,
                               got : BOOLEAN]]
    BY DEF LogsInv, LogsShaped
  <2>2. /\ transfer' \in [Pair -> [at : {"no", "check", "append"}, todo : SUBSET Facts,
                                   got : BOOLEAN]]
        /\ \A x \in Pair \ {d} : transfer'[x] = transfer[x]
        /\ transfer'[d].todo = transfer[d].todo
    BY <1>6, <2>1
  <2>3. LogsShaped'
    BY <1>1, <1>2, <2>2 DEF LogsInv, LogsShaped
  <2>4. HeadWaits'
    BY <1>2, <2>2 DEF LogsInv, HeadWaits
  <2>5. CheckedIsVetted'
    BY <1>2, <1>6, <2>2 DEF f, LogsInv, CheckedIsVetted, Logs!Current
  <2> QED BY <1>4, <2>3, <2>4, <2>5 DEF LogsInv
<1> QED BY <1>3, <1>5, <1>6

\* The seam takes what was found unrevoked.
LEMMA AppendStep ==
    ASSUME LogsInv, NEW d \in Pair, Logs!AppendFact(d) PROVE LogsInv'
<1> DEFINE f == Logs!Current(d)
<1>1. /\ transfer[d].at = "append" /\ UNCHANGED <<box, vetted>>
      /\ <<d, f>> \in vetted
      /\ log' = [log EXCEPT ![d] = log[d] \cup {f}] \/ UNCHANGED log
  BY DEF Logs!AppendFact, Logs!Records, LogsInv, CheckedIsVetted
<1>2. PICK got \in BOOLEAN : Logs!NextFact(d, got)
  BY DEF Logs!AppendFact, Logs!NamesThread
<1> HIDE DEF f
<1>3. /\ transfer' \in [Pair -> [at : {"no", "check", "append"}, todo : SUBSET Facts,
                                 got : BOOLEAN]]
      /\ transfer'[d].at = "check" /\ HeadWaits'
      /\ \A x \in Pair \ {d} : transfer'[x] = transfer[x]
  BY <1>1, <1>2, NextFactKeeps
<1>4. f \in Facts
  BY <1>1 DEF LogsInv, LogsShaped
<1>5. log \in [Pair -> SUBSET Facts] /\ LogIsVetted
  BY DEF LogsInv, LogsShaped
<1>6. log' \in [Pair -> SUBSET Facts]
  BY <1>1, <1>4, <1>5
<1>7. LogsShaped'
  BY <1>1, <1>3, <1>6 DEF LogsInv, LogsShaped
<1>8. LogIsVetted'
  <2> SUFFICES ASSUME NEW x \in Pair, NEW g \in log'[x] PROVE <<x, g>> \in vetted
    BY <1>1 DEF LogIsVetted
  <2>1. g \in log[x] \/ (x = d /\ g = f)
    BY <1>1, <1>5
  <2> QED BY <1>1, <1>5, <2>1 DEF LogIsVetted
<1>9. CheckedIsVetted'
  BY <1>1, <1>3 DEF LogsInv, CheckedIsVetted, Logs!Current
<1> QED BY <1>3, <1>7, <1>8, <1>9 DEF LogsInv

LEMMA LogsStep == LogsInv /\ Logs!LogsNext => LogsInv'
<1> SUFFICES ASSUME LogsInv, Logs!LogsNext PROVE LogsInv'
  OBVIOUS
<1>1. ASSUME NEW f \in Facts, Logs!Revoke(f) PROVE LogsInv'
  BY <1>1 DEF Logs!Revoke, Logs!memory, LogsInv, LogsShaped, LogIsVetted, CheckedIsVetted,
     HeadWaits, Logs!Current
<1>2. ASSUME NEW d \in Pair,
             \/ \E f \in Facts : Logs!Lives(d, f)
             \/ Logs!Announce(d) \/ Logs!Hurries(d) \/ Logs!Handles(d)
             \/ Logs!Restart(d)
      PROVE  LogsInv'
  BY <1>2, LivesStep, DigestStep, InventoryStep, TransferStep, CheckStep, AppendStep
     DEF Logs!Handles
<1> QED BY <1>1, <1>2 DEF Logs!LogsNext

-----------------------------------------------------------------------------
(* Both together.                                                           *)

DevicesInv == SyncInv /\ LogsInv

LEMMA DevicesBegin == DevicesInit => DevicesInv
<1> SUFFICES ASSUME DevicesInit PROVE DevicesInv
  OBVIOUS
<1>1. MaxEdits \in Nat /\ MaxEdits - 1 \in Nat
  BY SyncBounds, ContactAssumption
<1>2. SyncInv
  BY <1>1, SyncBegins DEF DevicesInit, SyncInit
<1>3. LogsInv
  BY LogsBegin DEF DevicesInit
<1> QED BY <1>2, <1>3 DEF DevicesInv

LEMMA DevicesStep == DevicesInv /\ [DevicesNext]_allVars => DevicesInv'
<1> SUFFICES ASSUME DevicesInv, [DevicesNext]_allVars PROVE DevicesInv'
  OBVIOUS
<1>1. ASSUME UNCHANGED factVars PROVE LogsInv'
  BY <1>1 DEF factVars, DevicesInv, LogsInv, LogsShaped, LogIsVetted, CheckedIsVetted,
     HeadWaits, Logs!Current
<1>2. CASE SyncNext /\ UNCHANGED <<factVars, part>>
  BY <1>1, <1>2, SyncStep DEF DevicesInv
<1>3. CASE FactsStep(Logs!LogsNext)
  BY <1>3, SyncStep, LogsStep DEF FactsStep, DevicesInv
<1>4. CASE UNCHANGED allVars
  BY <1>1, <1>4, SyncStep DEF allVars, DevicesInv
<1> QED BY <1>2, <1>3, <1>4 DEF DevicesNext

\* The two devices of an account, with any contacts, facts, limits and bounds: what
\* their users do, what is sent, queued, lost, applied halfway or cut off by a crash
\* keeps the invariant of both services (ServerAccountStateSyncService,
\* ServerSiblingSyncService).
THEOREM DevicesAlways == DevicesSpec => []DevicesInv
BY DevicesBegin, DevicesStep, PTL DEF DevicesSpec

LEMMA GateFollows == SyncInv => GateIsDecryptable
BY DEF SyncInv, RowsAreDecryptable, GateIsDecryptable, ActiveAt

\* A device takes over from its sibling only what was asked of it, what it may have and
\* what it can use: it never opens the gate of a contact it cannot decrypt (#applyOp),
\* never gets a removal no user asked for (deleteContact), and never holds a fact that
\* was neither delivered to it, written on it nor found unrevoked by it (#admitFact).
THEOREM TakenOverSound == DevicesSpec => []TakenOverIsSound
<1>1. DevicesInv => TakenOverIsSound
  BY GateFollows DEF DevicesInv, SyncInv, LogsInv, TakenOverIsSound
<1> QED BY <1>1, DevicesAlways, PTL

=============================================================================
