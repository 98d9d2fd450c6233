------------------------- MODULE DeviceLink_proofs -------------------------
(***************************************************************************)
(* A device's way into an account, for any devices, ceremonies, faults and *)
(* crashes: the journal of a device link is true, the sweep never revokes  *)
(* what was confirmed (DeviceLink), and a device that was linked is seen   *)
(* when it is ready and where it lives (DeviceActivation).                 *)
(***************************************************************************)
EXTENDS DeviceLink, DeviceActivation, TLAPS

LEMMA ZeroIsNone == 0 \notin Ids
BY DEF Ids

-----------------------------------------------------------------------------
(* Type correctness, one lemma per action.                                 *)


LEMMA StartCeremonyType == ASSUME TypeOK, StartCeremony PROVE TypeOK'
    BY BoundsAssumption DEF StartCeremony, Ids, TypeOK, States, Awaits,
         RowStates, Rows, Records, SweepSteps, Enrolments, NoRow, NoRecord,
         ceremonyVars, homeVars, deviceVars

LEMMA IssueCodeType == ASSUME TypeOK, NEW i \in Ids, IssueCode(i) PROVE TypeOK'
    BY BoundsAssumption DEF IssueCode, TypeOK, States, Awaits, RowStates,
         Rows, Records, SweepSteps, Enrolments, NoRow, NoRecord, ceremonyVars,
         homeVars, deviceVars

LEMMA TakeRequestType == ASSUME TypeOK, NEW i \in Ids, NEW d \in Devices, TakeRequest(i, d) PROVE TypeOK'
    BY BoundsAssumption DEF TakeRequest, TypeOK, States, Awaits, RowStates,
         Rows, Records, SweepSteps, Enrolments, NoRow, NoRecord, ceremonyVars,
         homeVars, deviceVars

LEMMA GiveUpRequestType == ASSUME TypeOK, NEW i \in Ids, GiveUpRequest(i) PROVE TypeOK'
    BY BoundsAssumption DEF GiveUpRequest, TypeOK, States, Awaits, RowStates,
         Rows, Records, SweepSteps, Enrolments, NoRow, NoRecord, ceremonyVars,
         homeVars, deviceVars

LEMMA ApproveCeremonyType == ASSUME TypeOK, NEW i \in Ids, ApproveCeremony(i) PROVE TypeOK'
    BY BoundsAssumption DEF ApproveCeremony, TypeOK, States, Awaits,
         RowStates, Rows, Records, SweepSteps, Enrolments, NoRow, NoRecord,
         ceremonyVars, homeVars, deviceVars

LEMMA CancelCeremonyType == ASSUME TypeOK, NEW i \in Ids, CancelCeremony(i) PROVE TypeOK'
    BY BoundsAssumption DEF CancelCeremony, TypeOK, States, Awaits, RowStates,
         Rows, Records, SweepSteps, Enrolments, NoRow, NoRecord, ceremonyVars,
         homeVars, deviceVars

LEMMA AwaitConfirmationType == ASSUME TypeOK, NEW i \in Ids, AwaitConfirmation(i) PROVE TypeOK'
    BY BoundsAssumption DEF AwaitConfirmation, DriverGoesOn, DriverFails,
         TypeOK, States, Awaits, RowStates, Rows, Records, SweepSteps,
         Enrolments, NoRow, NoRecord, ceremonyVars, homeVars, deviceVars

LEMMA PersistPendingType == ASSUME TypeOK, NEW i \in Ids, PersistPending(i) PROVE TypeOK'
    BY BoundsAssumption DEF PersistPending, DriverGoesOn, DriverFails,
         MayCreate, Fail, CanFail, NoFault, TypeOK, States, Awaits, RowStates,
         Rows, Records, SweepSteps, Enrolments, NoRow, NoRecord, ceremonyVars,
         homeVars, deviceVars

LEMMA RegisterDeviceType == ASSUME TypeOK, NEW i \in Ids, RegisterDevice(i) PROVE TypeOK'
    BY BoundsAssumption DEF RegisterDevice, HomeAdds, DriverGoesOn,
         DriverFails, Fail, CanFail, NoFault, TypeOK, States, Awaits,
         RowStates, Rows, Records, SweepSteps, Enrolments, NoRow, NoRecord,
         ceremonyVars, homeVars, deviceVars

LEMMA PublishResponseType == ASSUME TypeOK, NEW i \in Ids, PublishResponse(i) PROVE TypeOK'
    BY BoundsAssumption DEF PublishResponse, DriverGoesOn, DriverFails, Fail,
         CanFail, NoFault, TypeOK, States, Awaits, RowStates, Rows, Records,
         SweepSteps, Enrolments, NoRow, NoRecord, ceremonyVars, homeVars,
         deviceVars

LEMMA MarkPublishedType == ASSUME TypeOK, NEW i \in Ids, MarkPublished(i) PROVE TypeOK'
    BY BoundsAssumption DEF MarkPublished, DriverGoesOn, Attempt,
         MayTransition, AllowedTransition, Transition, TypeOK, States, Awaits,
         RowStates, Rows, Records, SweepSteps, Enrolments, NoRow, NoRecord,
         ceremonyVars, homeVars, deviceVars

LEMMA MarkConfirmedType == ASSUME TypeOK, NEW i \in Ids, MarkConfirmed(i) PROVE TypeOK'
    BY BoundsAssumption DEF MarkConfirmed, Attempt, MayTransition,
         AllowedTransition, Transition, TypeOK, States, Awaits, RowStates,
         Rows, Records, SweepSteps, Enrolments, NoRow, NoRecord, ceremonyVars,
         homeVars, deviceVars

LEMMA RecoverNowType == ASSUME TypeOK, RecoverNow PROVE TypeOK'
    BY BoundsAssumption DEF RecoverNow, At, Resumable, RecordOf, TypeOK,
         States, Awaits, RowStates, Rows, Records, SweepSteps, Enrolments,
         NoRow, NoRecord, ceremonyVars, homeVars, deviceVars

LEMMA ResumePutType == ASSUME TypeOK, NEW r \in sweep.todo, ResumePut(r) PROVE TypeOK'
    BY BoundsAssumption DEF ResumePut, At, Fail, CanFail, NoFault, TypeOK,
         States, Awaits, RowStates, Rows, Records, SweepSteps, Enrolments,
         NoRow, NoRecord, ceremonyVars, homeVars, deviceVars

LEMMA ResumeMarkType == ASSUME TypeOK, ResumeMark PROVE TypeOK'
    BY BoundsAssumption DEF ResumeMark, NextRecord, At, Attempt,
         MayTransition, AllowedTransition, Transition, TypeOK, States, Awaits,
         RowStates, Rows, Records, SweepSteps, Enrolments, NoRow, NoRecord,
         ceremonyVars, homeVars, deviceVars

LEMMA ListCompensatableType == ASSUME TypeOK, ListCompensatable PROVE TypeOK'
    BY BoundsAssumption DEF ListCompensatable, At, NoSweep, Compensatable,
         RecordOf, TypeOK, States, Awaits, RowStates, Rows, Records,
         SweepSteps, Enrolments, NoRow, NoRecord, ceremonyVars, homeVars,
         deviceVars

LEMMA SweepDoneType == ASSUME TypeOK, SweepDone PROVE TypeOK'
    BY BoundsAssumption DEF SweepDone, NoSweep, TypeOK, States, Awaits,
         RowStates, Rows, Records, SweepSteps, Enrolments, NoRow, NoRecord,
         ceremonyVars, homeVars, deviceVars

LEMMA CompensateExpireType == ASSUME TypeOK, NEW r \in sweep.todo, CompensateExpire(r) PROVE TypeOK'
    BY BoundsAssumption DEF CompensateExpire, At, MayTransition,
         AllowedTransition, Transition, TypeOK, States, Awaits, RowStates,
         Rows, Records, SweepSteps, Enrolments, NoRow, NoRecord, ceremonyVars,
         homeVars, deviceVars

LEMMA CompensateAskType == ASSUME TypeOK, CompensateAsk PROVE TypeOK'
    BY BoundsAssumption DEF CompensateAsk, NextRecord, At, Fail, CanFail,
         NoFault, TypeOK, States, Awaits, RowStates, Rows, Records,
         SweepSteps, Enrolments, NoRow, NoRecord, ceremonyVars, homeVars,
         deviceVars

LEMMA CompensateRevokeType == ASSUME IInv, CompensateRevoke PROVE TypeOK'
<1>1. sweep.rec \in Records /\ sweep.todo \subseteq Records
  BY DEF CompensateRevoke, IInv, TypeOK, SweepIsTrue
<1>2. sweep' \in [step : SweepSteps, todo : SUBSET Records, rec : Records \cup {NoRecord}]
  BY <1>1 DEF CompensateRevoke, NextRecord, At, SweepSteps
<1>3. bound' \in [Devices -> Ids \cup {0}] /\ revoked' \subseteq Ids
  BY <1>1 DEF CompensateRevoke, HomeRevokes, IInv, TypeOK, Records
<1>4. faults' \in 0 .. MaxFaults
  BY BoundsAssumption DEF CompensateRevoke, Fail, CanFail, NoFault, IInv, TypeOK
<1> QED BY <1>2, <1>3, <1>4 DEF CompensateRevoke, IInv, TypeOK, ceremonyVars, deviceVars

LEMMA CompensateVerifyType == ASSUME TypeOK, CompensateVerify PROVE TypeOK'
    BY BoundsAssumption DEF CompensateVerify, NextRecord, At, Fail, CanFail,
         NoFault, TypeOK, States, Awaits, RowStates, Rows, Records,
         SweepSteps, Enrolments, NoRow, NoRecord, ceremonyVars, homeVars,
         deviceVars

LEMMA CompensateDisproveType == ASSUME TypeOK, CompensateDisprove PROVE TypeOK'
    BY BoundsAssumption DEF CompensateDisprove, NextRecord, At, TypeOK,
         States, Awaits, RowStates, Rows, Records, SweepSteps, Enrolments,
         NoRow, NoRecord, ceremonyVars, homeVars, deviceVars

LEMMA SealEnvelopeType == ASSUME TypeOK, NEW i \in Ids, SealEnvelope(i) PROVE TypeOK'
    BY BoundsAssumption DEF SealEnvelope, TypeOK, States, Awaits, RowStates,
         Rows, Records, SweepSteps, Enrolments, NoRow, NoRecord, ceremonyVars,
         homeVars, deviceVars

LEMMA ConfirmType == ASSUME TypeOK, NEW i \in Ids, Confirm(i) PROVE TypeOK'
    BY BoundsAssumption DEF Confirm, TypeOK, States, Awaits, RowStates, Rows,
         Records, SweepSteps, Enrolments, NoRow, NoRecord, ceremonyVars,
         homeVars, deviceVars

LEMMA ClearEnvelopeType == ASSUME TypeOK, NEW i \in Ids, ClearEnvelope(i) PROVE TypeOK'
    BY BoundsAssumption DEF ClearEnvelope, Fail, CanFail, TypeOK, States,
         Awaits, RowStates, Rows, Records, SweepSteps, Enrolments, NoRow,
         NoRecord, ceremonyVars, homeVars, deviceVars

LEMMA ExpireType == ASSUME TypeOK, NEW i \in Ids, Expire(i) PROVE TypeOK'
    BY BoundsAssumption DEF Expire, TypeOK, States, Awaits, RowStates, Rows,
         Records, SweepSteps, Enrolments, NoRow, NoRecord, ceremonyVars,
         homeVars, deviceVars

LEMMA CrashType == ASSUME TypeOK, Crash PROVE TypeOK'
    BY BoundsAssumption DEF Crash, NoSweep, TypeOK, States, Awaits, RowStates,
         Rows, Records, SweepSteps, Enrolments, NoRow, NoRecord, ceremonyVars,
         homeVars, deviceVars

-----------------------------------------------------------------------------
(* The inductive invariant, one lemma per action and a step for each part. *)

LEMMA StartCeremonySafe == ASSUME IInv, StartCeremony PROVE IInv'
<1>1. TypeOK'
  BY StartCeremonyType DEF IInv
<1>2. JournalIsTrue' /\ ConfirmedStands'
    BY DEF StartCeremony, IInv, JournalIsTrue, AuthorityIsJournaled,
         MarkedIsOut, ConfirmedStands, homeVars
<1>3. Drivers'
    BY DEF StartCeremony, Ids, IInv, TypeOK, Drivers, Alive, ceremonyVars
<1>4. DriversOwn'
    BY ZeroIsNone DEF StartCeremony, Ids, IInv, TypeOK, Drivers, Alive,
         DriversOwn, Own, SweepIsTrue, CriticalSection, Written, NoRow, Rows,
         RowStates, Records, Compensating, ceremonyVars, homeVars
<1>5. RowsAreTrue'
    BY ZeroIsNone DEF StartCeremony, Ids, IInv, TypeOK, Drivers, Alive,
         DriversOwn, Own, RowsAreTrue, CriticalSection, Written, NoRow, Rows,
         RowStates, ceremonyVars
<1>6. SweepIsTrue'
    BY ZeroIsNone DEF StartCeremony, Ids, IInv, TypeOK, Drivers, Alive,
         DriversOwn, Own, RowsAreTrue, SweepIsTrue, HomeIsTrue,
         CriticalSection, Written, Compensating, NoRow, Rows, RowStates,
         Records, ceremonyVars, homeVars
<1>7. HomeIsTrue'
    BY DEF StartCeremony, Ids, IInv, TypeOK, Drivers, Alive, DriversOwn,
         HomeIsTrue, SweepIsTrue, CriticalSection, Written, Compensating,
         Records, ceremonyVars, homeVars
<1> QED BY <1>1, <1>2, <1>3, <1>4, <1>5, <1>6, <1>7 DEF IInv

LEMMA IssueCodeSafe == ASSUME IInv, NEW i \in Ids, IssueCode(i) PROVE IInv'
<1>1. TypeOK'
  BY IssueCodeType DEF IInv
<1>2. JournalIsTrue' /\ ConfirmedStands'
    BY DEF IssueCode, IInv, JournalIsTrue, AuthorityIsJournaled, MarkedIsOut,
         ConfirmedStands, homeVars
<1>3. Drivers'
    BY DEF IssueCode, IInv, TypeOK, Drivers, Alive, ceremonyVars
<1>4. DriversOwn'
    BY ZeroIsNone DEF IssueCode, IInv, TypeOK, Drivers, Alive, DriversOwn,
         Own, SweepIsTrue, CriticalSection, Written, NoRow, Rows, RowStates,
         Records, Compensating, ceremonyVars, homeVars
<1>5. RowsAreTrue'
    BY ZeroIsNone DEF IssueCode, IInv, TypeOK, Drivers, Alive, DriversOwn,
         Own, RowsAreTrue, CriticalSection, Written, NoRow, Rows, RowStates,
         ceremonyVars
<1>6. SweepIsTrue'
    BY ZeroIsNone DEF IssueCode, IInv, TypeOK, Drivers, Alive, DriversOwn,
         Own, RowsAreTrue, SweepIsTrue, HomeIsTrue, CriticalSection, Written,
         Compensating, NoRow, Rows, RowStates, Records, ceremonyVars, homeVars
<1>7. HomeIsTrue'
    BY DEF IssueCode, IInv, TypeOK, Drivers, Alive, DriversOwn, HomeIsTrue,
         SweepIsTrue, CriticalSection, Written, Compensating, Records,
         ceremonyVars, homeVars
<1> QED BY <1>1, <1>2, <1>3, <1>4, <1>5, <1>6, <1>7 DEF IInv

LEMMA TakeRequestSafe == ASSUME IInv, NEW i \in Ids, NEW d \in Devices, TakeRequest(i, d) PROVE IInv'
<1>1. TypeOK'
  BY TakeRequestType DEF IInv
<1>2. JournalIsTrue' /\ ConfirmedStands'
    BY DEF TakeRequest, IInv, JournalIsTrue, AuthorityIsJournaled,
         MarkedIsOut, ConfirmedStands, homeVars
<1>3. Drivers'
    BY DEF TakeRequest, IInv, TypeOK, Drivers, Alive, ceremonyVars
<1>4. DriversOwn'
    BY ZeroIsNone DEF TakeRequest, IInv, TypeOK, Drivers, Alive, DriversOwn,
         Own, SweepIsTrue, CriticalSection, Written, NoRow, Rows, RowStates,
         Records, Compensating, ceremonyVars, homeVars
<1>5. RowsAreTrue'
    BY ZeroIsNone DEF TakeRequest, IInv, TypeOK, Drivers, Alive, DriversOwn,
         Own, RowsAreTrue, CriticalSection, Written, NoRow, Rows, RowStates,
         ceremonyVars
<1>6. SweepIsTrue'
    BY ZeroIsNone DEF TakeRequest, IInv, TypeOK, Drivers, Alive, DriversOwn,
         Own, RowsAreTrue, SweepIsTrue, HomeIsTrue, CriticalSection, Written,
         Compensating, NoRow, Rows, RowStates, Records, ceremonyVars, homeVars
<1>7. HomeIsTrue'
    BY DEF TakeRequest, IInv, TypeOK, Drivers, Alive, DriversOwn, HomeIsTrue,
         SweepIsTrue, CriticalSection, Written, Compensating, Records,
         ceremonyVars, homeVars
<1> QED BY <1>1, <1>2, <1>3, <1>4, <1>5, <1>6, <1>7 DEF IInv

LEMMA GiveUpRequestSafe == ASSUME IInv, NEW i \in Ids, GiveUpRequest(i) PROVE IInv'
<1>1. TypeOK'
  BY GiveUpRequestType DEF IInv
<1>2. JournalIsTrue' /\ ConfirmedStands'
    BY DEF GiveUpRequest, IInv, JournalIsTrue, AuthorityIsJournaled,
         MarkedIsOut, ConfirmedStands, homeVars
<1>3. Drivers'
    BY DEF GiveUpRequest, IInv, TypeOK, Drivers, Alive, ceremonyVars
<1>4. DriversOwn'
    BY ZeroIsNone DEF GiveUpRequest, IInv, TypeOK, Drivers, Alive, DriversOwn,
         Own, SweepIsTrue, CriticalSection, Written, NoRow, Rows, RowStates,
         Records, Compensating, ceremonyVars, homeVars
<1>5. RowsAreTrue'
    BY ZeroIsNone DEF GiveUpRequest, IInv, TypeOK, Drivers, Alive, DriversOwn,
         Own, RowsAreTrue, CriticalSection, Written, NoRow, Rows, RowStates,
         ceremonyVars
<1>6. SweepIsTrue'
    BY ZeroIsNone DEF GiveUpRequest, IInv, TypeOK, Drivers, Alive, DriversOwn,
         Own, RowsAreTrue, SweepIsTrue, HomeIsTrue, CriticalSection, Written,
         Compensating, NoRow, Rows, RowStates, Records, ceremonyVars, homeVars
<1>7. HomeIsTrue'
    BY DEF GiveUpRequest, IInv, TypeOK, Drivers, Alive, DriversOwn,
         HomeIsTrue, SweepIsTrue, CriticalSection, Written, Compensating,
         Records, ceremonyVars, homeVars
<1> QED BY <1>1, <1>2, <1>3, <1>4, <1>5, <1>6, <1>7 DEF IInv

LEMMA ApproveCeremonySafe == ASSUME IInv, NEW i \in Ids, ApproveCeremony(i) PROVE IInv'
<1>1. TypeOK'
  BY ApproveCeremonyType DEF IInv
<1>2. JournalIsTrue' /\ ConfirmedStands'
    BY DEF ApproveCeremony, IInv, JournalIsTrue, AuthorityIsJournaled,
         MarkedIsOut, ConfirmedStands, homeVars
<1>3. Drivers'
    BY DEF ApproveCeremony, IInv, TypeOK, Drivers, Alive, ceremonyVars
<1>4. DriversOwn'
    BY ZeroIsNone DEF ApproveCeremony, IInv, TypeOK, Drivers, Alive,
         DriversOwn, Own, SweepIsTrue, CriticalSection, Written, NoRow, Rows,
         RowStates, Records, Compensating, ceremonyVars, homeVars
<1>5. RowsAreTrue'
    BY ZeroIsNone DEF ApproveCeremony, IInv, TypeOK, Drivers, Alive,
         DriversOwn, Own, RowsAreTrue, CriticalSection, Written, NoRow, Rows,
         RowStates, ceremonyVars
<1>6. SweepIsTrue'
    BY ZeroIsNone DEF ApproveCeremony, IInv, TypeOK, Drivers, Alive,
         DriversOwn, Own, RowsAreTrue, SweepIsTrue, HomeIsTrue,
         CriticalSection, Written, Compensating, NoRow, Rows, RowStates,
         Records, ceremonyVars, homeVars
<1>7. HomeIsTrue'
    BY DEF ApproveCeremony, IInv, TypeOK, Drivers, Alive, DriversOwn,
         HomeIsTrue, SweepIsTrue, CriticalSection, Written, Compensating,
         Records, ceremonyVars, homeVars
<1> QED BY <1>1, <1>2, <1>3, <1>4, <1>5, <1>6, <1>7 DEF IInv

LEMMA CancelCeremonySafe == ASSUME IInv, NEW i \in Ids, CancelCeremony(i) PROVE IInv'
<1>1. TypeOK'
  BY CancelCeremonyType DEF IInv
<1>2. JournalIsTrue' /\ ConfirmedStands'
    BY DEF CancelCeremony, IInv, JournalIsTrue, AuthorityIsJournaled,
         MarkedIsOut, ConfirmedStands, homeVars
<1>3. Drivers'
    BY DEF CancelCeremony, IInv, TypeOK, Drivers, Alive, ceremonyVars
<1>4. DriversOwn'
    BY ZeroIsNone DEF CancelCeremony, IInv, TypeOK, Drivers, Alive,
         DriversOwn, Own, SweepIsTrue, CriticalSection, Written, NoRow, Rows,
         RowStates, Records, Compensating, ceremonyVars, homeVars
<1>5. RowsAreTrue'
    BY ZeroIsNone DEF CancelCeremony, IInv, TypeOK, Drivers, Alive,
         DriversOwn, Own, RowsAreTrue, CriticalSection, Written, NoRow, Rows,
         RowStates, ceremonyVars
<1>6. SweepIsTrue'
    BY ZeroIsNone DEF CancelCeremony, IInv, TypeOK, Drivers, Alive,
         DriversOwn, Own, RowsAreTrue, SweepIsTrue, HomeIsTrue,
         CriticalSection, Written, Compensating, NoRow, Rows, RowStates,
         Records, ceremonyVars, homeVars
<1>7. HomeIsTrue'
    BY DEF CancelCeremony, IInv, TypeOK, Drivers, Alive, DriversOwn,
         HomeIsTrue, SweepIsTrue, CriticalSection, Written, Compensating,
         Records, ceremonyVars, homeVars
<1> QED BY <1>1, <1>2, <1>3, <1>4, <1>5, <1>6, <1>7 DEF IInv

LEMMA AwaitConfirmationSafe == ASSUME IInv, NEW i \in Ids, AwaitConfirmation(i) PROVE IInv'
<1>1. TypeOK'
  BY AwaitConfirmationType DEF IInv
<1>2. JournalIsTrue' /\ ConfirmedStands'
    BY DEF AwaitConfirmation, DriverGoesOn, DriverFails, IInv, JournalIsTrue,
         AuthorityIsJournaled, MarkedIsOut, ConfirmedStands, homeVars
<1>3. Drivers'
    BY DEF AwaitConfirmation, DriverGoesOn, DriverFails, IInv, TypeOK,
         Drivers, Alive, ceremonyVars
<1>4. DriversOwn'
    BY ZeroIsNone DEF AwaitConfirmation, DriverGoesOn, DriverFails, IInv,
         TypeOK, Drivers, Alive, DriversOwn, Own, SweepIsTrue,
         CriticalSection, Written, NoRow, Rows, RowStates, Records,
         Compensating, ceremonyVars, homeVars
<1>5. RowsAreTrue'
    BY ZeroIsNone DEF AwaitConfirmation, DriverGoesOn, DriverFails, IInv,
         TypeOK, Drivers, Alive, DriversOwn, Own, RowsAreTrue,
         CriticalSection, Written, NoRow, Rows, RowStates, ceremonyVars
<1>6. SweepIsTrue'
    BY ZeroIsNone DEF AwaitConfirmation, DriverGoesOn, DriverFails, IInv,
         TypeOK, Drivers, Alive, DriversOwn, Own, RowsAreTrue, SweepIsTrue,
         HomeIsTrue, CriticalSection, Written, Compensating, NoRow, Rows,
         RowStates, Records, ceremonyVars, homeVars
<1>7. HomeIsTrue'
    BY DEF AwaitConfirmation, DriverGoesOn, DriverFails, IInv, TypeOK,
         Drivers, Alive, DriversOwn, HomeIsTrue, SweepIsTrue, CriticalSection,
         Written, Compensating, Records, ceremonyVars, homeVars
<1> QED BY <1>1, <1>2, <1>3, <1>4, <1>5, <1>6, <1>7 DEF IInv

LEMMA PersistPendingSafe == ASSUME IInv, NEW i \in Ids, PersistPending(i) PROVE IInv'
<1>1. TypeOK'
  BY PersistPendingType DEF IInv
<1>2. ConfirmedStands'
    BY DEF PersistPending, DriverGoesOn, DriverFails, MayCreate, IInv,
         ConfirmedStands, homeVars
<1>3. Drivers'
    BY DEF PersistPending, DriverGoesOn, DriverFails, MayCreate, Fail,
         CanFail, NoFault, IInv, TypeOK, Drivers, Alive, ceremonyVars
<1>4. DriversOwn'
    BY ZeroIsNone DEF PersistPending, DriverGoesOn, DriverFails, MayCreate,
         Fail, CanFail, NoFault, IInv, TypeOK, Drivers, Alive, DriversOwn,
         Own, SweepIsTrue, CriticalSection, Written, NoRow, Rows, RowStates,
         Records, Compensating, ceremonyVars, homeVars
<1>5. RowsAreTrue'
    BY ZeroIsNone DEF PersistPending, DriverGoesOn, DriverFails, MayCreate,
         Fail, CanFail, NoFault, IInv, TypeOK, Drivers, Alive, DriversOwn,
         Own, RowsAreTrue, CriticalSection, Written, NoRow, Rows, RowStates,
         ceremonyVars
<1>6. SweepIsTrue'
    BY ZeroIsNone DEF PersistPending, DriverGoesOn, DriverFails, MayCreate,
         Fail, CanFail, NoFault, IInv, TypeOK, Drivers, Alive, DriversOwn,
         Own, RowsAreTrue, SweepIsTrue, HomeIsTrue, CriticalSection, Written,
         Compensating, NoRow, Rows, RowStates, Records, ceremonyVars, homeVars
<1>7. HomeIsTrue'
    BY DEF PersistPending, DriverGoesOn, DriverFails, MayCreate, Fail,
         CanFail, NoFault, IInv, TypeOK, Drivers, Alive, DriversOwn,
         HomeIsTrue, SweepIsTrue, CriticalSection, Written, Compensating,
         Records, ceremonyVars, homeVars
<1>8. JournalIsTrue'
    BY ZeroIsNone DEF PersistPending, DriverGoesOn, DriverFails, MayCreate,
         Fail, CanFail, NoFault, IInv, TypeOK, DriversOwn, Own, Written,
         CriticalSection, JournalIsTrue, AuthorityIsJournaled, MarkedIsOut,
         SweepIsTrue, RowsAreTrue, NoRow, Rows, RowStates, Records,
         HomeIsTrue, homeVars
<1> QED BY <1>1, <1>2, <1>3, <1>4, <1>5, <1>6, <1>7, <1>8 DEF IInv

LEMMA RegisterDeviceSafe == ASSUME IInv, NEW i \in Ids, RegisterDevice(i) PROVE IInv'
<1>1. TypeOK'
  BY RegisterDeviceType DEF IInv
<1>2. ConfirmedStands'
    BY DEF RegisterDevice, HomeAdds, DriverGoesOn, DriverFails, IInv,
         ConfirmedStands, homeVars
<1>3. Drivers'
    BY DEF RegisterDevice, HomeAdds, DriverGoesOn, DriverFails, Fail, CanFail,
         NoFault, IInv, TypeOK, Drivers, Alive, ceremonyVars
<1>4. DriversOwn'
    BY ZeroIsNone DEF RegisterDevice, HomeAdds, DriverGoesOn, DriverFails,
         Fail, CanFail, NoFault, IInv, TypeOK, Drivers, Alive, DriversOwn,
         Own, SweepIsTrue, CriticalSection, Written, NoRow, Rows, RowStates,
         Records, Compensating, ceremonyVars, homeVars
<1>5. RowsAreTrue'
    BY ZeroIsNone DEF RegisterDevice, HomeAdds, DriverGoesOn, DriverFails,
         Fail, CanFail, NoFault, IInv, TypeOK, Drivers, Alive, DriversOwn,
         Own, RowsAreTrue, CriticalSection, Written, NoRow, Rows, RowStates,
         ceremonyVars
<1>6. SweepIsTrue'
    BY ZeroIsNone DEF RegisterDevice, HomeAdds, DriverGoesOn, DriverFails,
         Fail, CanFail, NoFault, IInv, TypeOK, Drivers, Alive, DriversOwn,
         Own, RowsAreTrue, SweepIsTrue, HomeIsTrue, CriticalSection, Written,
         Compensating, NoRow, Rows, RowStates, Records, ceremonyVars, homeVars
<1>7. HomeIsTrue'
    BY DEF RegisterDevice, HomeAdds, DriverGoesOn, DriverFails, Fail, CanFail,
         NoFault, IInv, TypeOK, Drivers, Alive, DriversOwn, HomeIsTrue,
         SweepIsTrue, CriticalSection, Written, Compensating, Records,
         ceremonyVars, homeVars
<1>8. JournalIsTrue'
    BY ZeroIsNone DEF RegisterDevice, HomeAdds, DriverGoesOn, DriverFails,
         Fail, CanFail, NoFault, IInv, TypeOK, DriversOwn, Own, Written,
         CriticalSection, JournalIsTrue, AuthorityIsJournaled, MarkedIsOut,
         SweepIsTrue, RowsAreTrue, NoRow, Rows, RowStates, Records,
         HomeIsTrue, homeVars
<1> QED BY <1>1, <1>2, <1>3, <1>4, <1>5, <1>6, <1>7, <1>8 DEF IInv

LEMMA PublishResponseSafe == ASSUME IInv, NEW i \in Ids, PublishResponse(i) PROVE IInv'
<1>1. TypeOK'
  BY PublishResponseType DEF IInv
<1>2. ConfirmedStands'
    BY DEF PublishResponse, DriverGoesOn, DriverFails, IInv, ConfirmedStands,
         homeVars
<1>3. Drivers'
    BY DEF PublishResponse, DriverGoesOn, DriverFails, Fail, CanFail, NoFault,
         IInv, TypeOK, Drivers, Alive, ceremonyVars
<1>4. DriversOwn'
    BY ZeroIsNone DEF PublishResponse, DriverGoesOn, DriverFails, Fail,
         CanFail, NoFault, IInv, TypeOK, Drivers, Alive, DriversOwn, Own,
         SweepIsTrue, CriticalSection, Written, NoRow, Rows, RowStates,
         Records, Compensating, ceremonyVars, homeVars
<1>5. RowsAreTrue'
    BY ZeroIsNone DEF PublishResponse, DriverGoesOn, DriverFails, Fail,
         CanFail, NoFault, IInv, TypeOK, Drivers, Alive, DriversOwn, Own,
         RowsAreTrue, CriticalSection, Written, NoRow, Rows, RowStates,
         ceremonyVars
<1>6. SweepIsTrue'
    BY ZeroIsNone DEF PublishResponse, DriverGoesOn, DriverFails, Fail,
         CanFail, NoFault, IInv, TypeOK, Drivers, Alive, DriversOwn, Own,
         RowsAreTrue, SweepIsTrue, HomeIsTrue, CriticalSection, Written,
         Compensating, NoRow, Rows, RowStates, Records, ceremonyVars, homeVars
<1>7. HomeIsTrue'
    BY DEF PublishResponse, DriverGoesOn, DriverFails, Fail, CanFail, NoFault,
         IInv, TypeOK, Drivers, Alive, DriversOwn, HomeIsTrue, SweepIsTrue,
         CriticalSection, Written, Compensating, Records, ceremonyVars,
         homeVars
<1>8. JournalIsTrue'
    BY ZeroIsNone DEF PublishResponse, DriverGoesOn, DriverFails, Fail,
         CanFail, NoFault, IInv, TypeOK, DriversOwn, Own, Written,
         CriticalSection, JournalIsTrue, AuthorityIsJournaled, MarkedIsOut,
         SweepIsTrue, RowsAreTrue, NoRow, Rows, RowStates, Records,
         HomeIsTrue, homeVars
<1> QED BY <1>1, <1>2, <1>3, <1>4, <1>5, <1>6, <1>7, <1>8 DEF IInv

LEMMA MarkPublishedSafe == ASSUME IInv, NEW i \in Ids, MarkPublished(i) PROVE IInv'
<1>1. TypeOK'
  BY MarkPublishedType DEF IInv
<1>2. ConfirmedStands'
    BY DEF MarkPublished, DriverGoesOn, Attempt, MayTransition,
         AllowedTransition, Transition, IInv, ConfirmedStands, homeVars
<1>3. Drivers'
    BY DEF MarkPublished, DriverGoesOn, Attempt, MayTransition,
         AllowedTransition, Transition, IInv, TypeOK, Drivers, Alive,
         ceremonyVars
<1>4. DriversOwn'
    BY ZeroIsNone DEF MarkPublished, DriverGoesOn, Attempt, MayTransition,
         AllowedTransition, Transition, IInv, TypeOK, Drivers, Alive,
         DriversOwn, Own, SweepIsTrue, CriticalSection, Written, NoRow, Rows,
         RowStates, Records, Compensating, ceremonyVars, homeVars
<1>5. RowsAreTrue'
    BY ZeroIsNone DEF MarkPublished, DriverGoesOn, Attempt, MayTransition,
         AllowedTransition, Transition, IInv, TypeOK, Drivers, Alive,
         DriversOwn, Own, RowsAreTrue, CriticalSection, Written, NoRow, Rows,
         RowStates, ceremonyVars
<1>6. SweepIsTrue'
    BY ZeroIsNone DEF MarkPublished, DriverGoesOn, Attempt, MayTransition,
         AllowedTransition, Transition, IInv, TypeOK, Drivers, Alive,
         DriversOwn, Own, RowsAreTrue, SweepIsTrue, HomeIsTrue,
         CriticalSection, Written, Compensating, NoRow, Rows, RowStates,
         Records, ceremonyVars, homeVars
<1>7. HomeIsTrue'
    BY DEF MarkPublished, DriverGoesOn, Attempt, MayTransition,
         AllowedTransition, Transition, IInv, TypeOK, Drivers, Alive,
         DriversOwn, HomeIsTrue, SweepIsTrue, CriticalSection, Written,
         Compensating, Records, ceremonyVars, homeVars
<1>8. JournalIsTrue'
    BY ZeroIsNone DEF MarkPublished, DriverGoesOn, Attempt, MayTransition,
         AllowedTransition, Transition, IInv, TypeOK, DriversOwn, Own,
         Written, CriticalSection, JournalIsTrue, AuthorityIsJournaled,
         MarkedIsOut, SweepIsTrue, RowsAreTrue, NoRow, Rows, RowStates,
         Records, HomeIsTrue, homeVars
<1> QED BY <1>1, <1>2, <1>3, <1>4, <1>5, <1>6, <1>7, <1>8 DEF IInv

LEMMA MarkConfirmedSafe == ASSUME IInv, NEW i \in Ids, MarkConfirmed(i) PROVE IInv'
<1>1. TypeOK'
  BY MarkConfirmedType DEF IInv
<1>2. Drivers'
    BY DEF MarkConfirmed, Attempt, MayTransition, AllowedTransition,
         Transition, IInv, TypeOK, Drivers, Alive, ceremonyVars
<1>3. DriversOwn'
    BY ZeroIsNone DEF MarkConfirmed, Attempt, MayTransition,
         AllowedTransition, Transition, IInv, TypeOK, Drivers, Alive,
         DriversOwn, Own, SweepIsTrue, CriticalSection, Written, NoRow, Rows,
         RowStates, Records, Compensating, ceremonyVars, homeVars
<1>4. RowsAreTrue'
    BY ZeroIsNone DEF MarkConfirmed, Attempt, MayTransition,
         AllowedTransition, Transition, IInv, TypeOK, Drivers, Alive,
         DriversOwn, Own, RowsAreTrue, CriticalSection, Written, NoRow, Rows,
         RowStates, ceremonyVars
<1>5. SweepIsTrue'
  <2>1. /\ pc[i] = "markConfirmed" /\ i \notin late /\ journal[dev[i]].cert = i
        /\ dev[i] \in Devices /\ Alive(i) /\ UNCHANGED <<sweep, dev, late, slot, bound>>
        /\ \A d \in Devices : journal'[d].cert = journal[d].cert
        /\ \A d \in Devices \ {dev[i]} : journal'[d] = journal[d]
    BY DEF MarkConfirmed, Attempt, Transition, IInv, TypeOK, Drivers, Alive, DriversOwn, Own,
           CriticalSection, Written, Rows, NoRow, ceremonyVars, homeVars
  <2>2. \A j \in Ids : pc'[j] = "persist" => pc[j] = "persist" /\ dev'[j] # dev[i]
    BY <2>1 DEF MarkConfirmed, IInv, TypeOK, Drivers, Alive
  <2>3. told' = told \cup {i}
    BY DEF MarkConfirmed
  <2> QED BY <2>1, <2>2, <2>3 DEF IInv, TypeOK, SweepIsTrue, Compensating, Records
<1>6. HomeIsTrue'
    BY DEF MarkConfirmed, Attempt, MayTransition, AllowedTransition,
         Transition, IInv, TypeOK, Drivers, Alive, DriversOwn, HomeIsTrue,
         SweepIsTrue, CriticalSection, Written, Compensating, Records,
         ceremonyVars, homeVars
<1>7. JournalIsTrue'
    BY ZeroIsNone DEF MarkConfirmed, Attempt, MayTransition,
         AllowedTransition, Transition, IInv, TypeOK, DriversOwn, Own,
         Written, CriticalSection, JournalIsTrue, AuthorityIsJournaled,
         MarkedIsOut, SweepIsTrue, RowsAreTrue, NoRow, Rows, RowStates,
         Records, HomeIsTrue, homeVars
<1>8. ConfirmedStands'
    BY DEF MarkConfirmed, Attempt, MayTransition, AllowedTransition,
         Transition, IInv, TypeOK, ConfirmedStands, DriversOwn, Own,
         RowsAreTrue, SweepIsTrue, HomeIsTrue, CriticalSection, Compensating,
         homeVars
<1> QED BY <1>1, <1>2, <1>3, <1>4, <1>5, <1>6, <1>7, <1>8 DEF IInv

LEMMA RecoverNowSafe == ASSUME IInv, RecoverNow PROVE IInv'
<1>1. TypeOK'
  BY RecoverNowType DEF IInv
<1>2. Drivers' /\ DriversOwn' /\ RowsAreTrue' /\ HomeIsTrue' /\ JournalIsTrue' /\ ConfirmedStands'
    BY DEF RecoverNow, At, Resumable, RecordOf, IInv, Drivers, Alive,
         DriversOwn, Own, RowsAreTrue, HomeIsTrue, JournalIsTrue,
         AuthorityIsJournaled, MarkedIsOut, ConfirmedStands, ceremonyVars,
         homeVars
<1>3. SweepIsTrue'
    BY ZeroIsNone DEF RecoverNow, At, Resumable, RecordOf, IInv, TypeOK,
         Drivers, Alive, DriversOwn, Own, RowsAreTrue, SweepIsTrue,
         HomeIsTrue, CriticalSection, Written, Compensating, NoRow, Rows,
         RowStates, Records, ceremonyVars, homeVars
<1> QED BY <1>1, <1>2, <1>3 DEF IInv

LEMMA ResumePutSafe == ASSUME IInv, NEW r \in sweep.todo, ResumePut(r) PROVE IInv'
<1>1. TypeOK'
  BY ResumePutType DEF IInv
<1>2. Drivers' /\ RowsAreTrue' /\ HomeIsTrue' /\ ConfirmedStands'
    BY DEF ResumePut, At, IInv, Drivers, Alive, RowsAreTrue, HomeIsTrue,
         ConfirmedStands, ceremonyVars, homeVars
<1>3. DriversOwn'
    BY ZeroIsNone DEF ResumePut, At, Fail, CanFail, NoFault, IInv, TypeOK,
         Drivers, Alive, DriversOwn, Own, SweepIsTrue, CriticalSection,
         Written, NoRow, Rows, RowStates, Records, Compensating, ceremonyVars,
         homeVars
<1>4. SweepIsTrue'
    BY ZeroIsNone DEF ResumePut, At, Fail, CanFail, NoFault, IInv, TypeOK,
         Drivers, Alive, DriversOwn, Own, RowsAreTrue, SweepIsTrue,
         HomeIsTrue, CriticalSection, Written, Compensating, NoRow, Rows,
         RowStates, Records, ceremonyVars, homeVars
<1>5. JournalIsTrue'
    BY ZeroIsNone DEF ResumePut, At, Fail, CanFail, NoFault, IInv, TypeOK,
         DriversOwn, Own, Written, CriticalSection, JournalIsTrue,
         AuthorityIsJournaled, MarkedIsOut, SweepIsTrue, RowsAreTrue, NoRow,
         Rows, RowStates, Records, HomeIsTrue, homeVars
<1> QED BY <1>1, <1>2, <1>3, <1>4, <1>5 DEF IInv

LEMMA ResumeMarkSafe == ASSUME IInv, ResumeMark PROVE IInv'
<1>1. TypeOK'
  BY ResumeMarkType DEF IInv
<1>2. Drivers' /\ HomeIsTrue' /\ ConfirmedStands'
    BY DEF ResumeMark, NextRecord, At, Attempt, MayTransition,
         AllowedTransition, Transition, IInv, Drivers, Alive, HomeIsTrue,
         ConfirmedStands, ceremonyVars, homeVars
<1>3. DriversOwn'
    BY ZeroIsNone DEF ResumeMark, NextRecord, At, Attempt, MayTransition,
         AllowedTransition, Transition, IInv, TypeOK, Drivers, Alive,
         DriversOwn, Own, SweepIsTrue, CriticalSection, Written, NoRow, Rows,
         RowStates, Records, Compensating, ceremonyVars, homeVars
<1>4. RowsAreTrue'
    BY ZeroIsNone DEF ResumeMark, NextRecord, At, Attempt, MayTransition,
         AllowedTransition, Transition, IInv, TypeOK, Drivers, Alive,
         DriversOwn, Own, RowsAreTrue, CriticalSection, Written, NoRow, Rows,
         RowStates, ceremonyVars
<1>5. SweepIsTrue'
    BY ZeroIsNone DEF ResumeMark, NextRecord, At, Attempt, MayTransition,
         AllowedTransition, Transition, IInv, TypeOK, Drivers, Alive,
         DriversOwn, Own, RowsAreTrue, SweepIsTrue, HomeIsTrue,
         CriticalSection, Written, Compensating, NoRow, Rows, RowStates,
         Records, ceremonyVars, homeVars
<1>6. JournalIsTrue'
    BY ZeroIsNone DEF ResumeMark, NextRecord, At, Attempt, MayTransition,
         AllowedTransition, Transition, IInv, TypeOK, DriversOwn, Own,
         Written, CriticalSection, JournalIsTrue, AuthorityIsJournaled,
         MarkedIsOut, SweepIsTrue, RowsAreTrue, NoRow, Rows, RowStates,
         Records, HomeIsTrue, homeVars
<1> QED BY <1>1, <1>2, <1>3, <1>4, <1>5, <1>6 DEF IInv

LEMMA ListCompensatableSafe == ASSUME IInv, ListCompensatable PROVE IInv'
<1>1. TypeOK'
  BY ListCompensatableType DEF IInv
<1>2. Drivers' /\ DriversOwn' /\ RowsAreTrue' /\ HomeIsTrue' /\ JournalIsTrue' /\ ConfirmedStands'
    BY DEF ListCompensatable, At, NoSweep, Compensatable, RecordOf, IInv,
         Drivers, Alive, DriversOwn, Own, RowsAreTrue, HomeIsTrue,
         JournalIsTrue, AuthorityIsJournaled, MarkedIsOut, ConfirmedStands,
         ceremonyVars, homeVars
<1>3. SweepIsTrue'
    BY ZeroIsNone DEF ListCompensatable, At, NoSweep, Compensatable, RecordOf,
         IInv, TypeOK, Drivers, Alive, DriversOwn, Own, RowsAreTrue,
         SweepIsTrue, HomeIsTrue, CriticalSection, Written, Compensating,
         NoRow, Rows, RowStates, Records, ceremonyVars, homeVars
<1> QED BY <1>1, <1>2, <1>3 DEF IInv

LEMMA SweepDoneSafe == ASSUME IInv, SweepDone PROVE IInv'
<1>1. TypeOK'
  BY SweepDoneType DEF IInv
<1>2. Drivers' /\ DriversOwn' /\ RowsAreTrue' /\ HomeIsTrue' /\ JournalIsTrue' /\ ConfirmedStands'
    BY DEF SweepDone, NoSweep, IInv, Drivers, Alive, DriversOwn, Own,
         RowsAreTrue, HomeIsTrue, JournalIsTrue, AuthorityIsJournaled,
         MarkedIsOut, ConfirmedStands, ceremonyVars, homeVars
<1>3. SweepIsTrue'
    BY ZeroIsNone DEF SweepDone, NoSweep, IInv, TypeOK, Drivers, Alive,
         DriversOwn, Own, RowsAreTrue, SweepIsTrue, HomeIsTrue,
         CriticalSection, Written, Compensating, NoRow, Rows, RowStates,
         Records, ceremonyVars, homeVars
<1> QED BY <1>1, <1>2, <1>3 DEF IInv

LEMMA CompensateExpireSafe == ASSUME IInv, NEW r \in sweep.todo, CompensateExpire(r) PROVE IInv'
<1>1. TypeOK'
  BY CompensateExpireType DEF IInv
<1>2. Drivers' /\ HomeIsTrue' /\ ConfirmedStands'
    BY DEF CompensateExpire, At, MayTransition, AllowedTransition, Transition,
         IInv, Drivers, Alive, HomeIsTrue, ConfirmedStands, ceremonyVars,
         homeVars
<1>3. DriversOwn'
    BY ZeroIsNone DEF CompensateExpire, At, MayTransition, AllowedTransition,
         Transition, IInv, TypeOK, Drivers, Alive, DriversOwn, Own,
         SweepIsTrue, CriticalSection, Written, NoRow, Rows, RowStates,
         Records, Compensating, ceremonyVars, homeVars
<1>4. RowsAreTrue'
    BY ZeroIsNone DEF CompensateExpire, At, MayTransition, AllowedTransition,
         Transition, IInv, TypeOK, Drivers, Alive, DriversOwn, Own,
         RowsAreTrue, CriticalSection, Written, NoRow, Rows, RowStates,
         ceremonyVars
<1>5. SweepIsTrue'
    BY ZeroIsNone DEF CompensateExpire, At, MayTransition, AllowedTransition,
         Transition, IInv, TypeOK, Drivers, Alive, DriversOwn, Own,
         RowsAreTrue, SweepIsTrue, HomeIsTrue, CriticalSection, Written,
         Compensating, NoRow, Rows, RowStates, Records, ceremonyVars, homeVars
<1>6. JournalIsTrue'
    BY ZeroIsNone DEF CompensateExpire, At, MayTransition, AllowedTransition,
         Transition, IInv, TypeOK, DriversOwn, Own, Written, CriticalSection,
         JournalIsTrue, AuthorityIsJournaled, MarkedIsOut, SweepIsTrue,
         RowsAreTrue, NoRow, Rows, RowStates, Records, HomeIsTrue, homeVars
<1> QED BY <1>1, <1>2, <1>3, <1>4, <1>5, <1>6 DEF IInv

LEMMA CompensateAskSafe == ASSUME IInv, CompensateAsk PROVE IInv'
<1>1. TypeOK'
  BY CompensateAskType DEF IInv
<1>2. Drivers' /\ DriversOwn' /\ RowsAreTrue' /\ HomeIsTrue' /\ JournalIsTrue' /\ ConfirmedStands'
    BY DEF CompensateAsk, NextRecord, At, IInv, Drivers, Alive, DriversOwn,
         Own, RowsAreTrue, HomeIsTrue, JournalIsTrue, AuthorityIsJournaled,
         MarkedIsOut, ConfirmedStands, ceremonyVars, homeVars
<1>3. SweepIsTrue'
    BY ZeroIsNone DEF CompensateAsk, NextRecord, At, Fail, CanFail, NoFault,
         IInv, TypeOK, Drivers, Alive, DriversOwn, Own, RowsAreTrue,
         SweepIsTrue, HomeIsTrue, CriticalSection, Written, Compensating,
         NoRow, Rows, RowStates, Records, ceremonyVars, homeVars
<1> QED BY <1>1, <1>2, <1>3 DEF IInv

LEMMA CompensateRevokeSafe == ASSUME IInv, CompensateRevoke PROVE IInv'
<1>1. TypeOK'
  BY CompensateRevokeType DEF IInv
<1>2. Drivers' /\ DriversOwn' /\ RowsAreTrue'
    BY DEF CompensateRevoke, HomeRevokes, NextRecord, At, IInv, Drivers,
         Alive, DriversOwn, Own, RowsAreTrue, ceremonyVars, homeVars
<1>3. SweepIsTrue'
    BY ZeroIsNone DEF CompensateRevoke, HomeRevokes, NextRecord, At, Fail,
         CanFail, NoFault, IInv, TypeOK, Drivers, Alive, DriversOwn, Own,
         RowsAreTrue, SweepIsTrue, HomeIsTrue, CriticalSection, Written,
         Compensating, NoRow, Rows, RowStates, Records, ceremonyVars, homeVars
<1>4. HomeIsTrue'
    BY DEF CompensateRevoke, HomeRevokes, NextRecord, At, Fail, CanFail,
         NoFault, IInv, TypeOK, Drivers, Alive, DriversOwn, HomeIsTrue,
         SweepIsTrue, CriticalSection, Written, Compensating, Records,
         ceremonyVars, homeVars
<1>5. JournalIsTrue'
    BY ZeroIsNone DEF CompensateRevoke, HomeRevokes, NextRecord, At, Fail,
         CanFail, NoFault, IInv, TypeOK, DriversOwn, Own, Written,
         CriticalSection, JournalIsTrue, AuthorityIsJournaled, MarkedIsOut,
         SweepIsTrue, RowsAreTrue, NoRow, Rows, RowStates, Records,
         HomeIsTrue, homeVars
<1>6. ConfirmedStands'
    BY DEF CompensateRevoke, HomeRevokes, NextRecord, At, Fail, CanFail,
         NoFault, IInv, TypeOK, ConfirmedStands, DriversOwn, Own, RowsAreTrue,
         SweepIsTrue, HomeIsTrue, CriticalSection, Compensating, homeVars
<1> QED BY <1>1, <1>2, <1>3, <1>4, <1>5, <1>6 DEF IInv

LEMMA CompensateVerifySafe == ASSUME IInv, CompensateVerify PROVE IInv'
<1>1. TypeOK'
  BY CompensateVerifyType DEF IInv
<1>2. Drivers' /\ HomeIsTrue' /\ ConfirmedStands'
    BY DEF CompensateVerify, NextRecord, At, IInv, Drivers, Alive, HomeIsTrue,
         ConfirmedStands, ceremonyVars, homeVars
<1>3. DriversOwn'
    BY ZeroIsNone DEF CompensateVerify, NextRecord, At, Fail, CanFail,
         NoFault, IInv, TypeOK, Drivers, Alive, DriversOwn, Own, SweepIsTrue,
         CriticalSection, Written, NoRow, Rows, RowStates, Records,
         Compensating, ceremonyVars, homeVars
<1>4. RowsAreTrue'
    BY ZeroIsNone DEF CompensateVerify, NextRecord, At, Fail, CanFail,
         NoFault, IInv, TypeOK, Drivers, Alive, DriversOwn, Own, RowsAreTrue,
         CriticalSection, Written, NoRow, Rows, RowStates, ceremonyVars
<1>5. SweepIsTrue'
    BY ZeroIsNone DEF CompensateVerify, NextRecord, At, Fail, CanFail,
         NoFault, IInv, TypeOK, Drivers, Alive, DriversOwn, Own, RowsAreTrue,
         SweepIsTrue, HomeIsTrue, CriticalSection, Written, Compensating,
         NoRow, Rows, RowStates, Records, ceremonyVars, homeVars
<1>6. JournalIsTrue'
    BY ZeroIsNone DEF CompensateVerify, NextRecord, At, Fail, CanFail,
         NoFault, IInv, TypeOK, DriversOwn, Own, Written, CriticalSection,
         JournalIsTrue, AuthorityIsJournaled, MarkedIsOut, SweepIsTrue,
         RowsAreTrue, NoRow, Rows, RowStates, Records, HomeIsTrue, homeVars
<1> QED BY <1>1, <1>2, <1>3, <1>4, <1>5, <1>6 DEF IInv

LEMMA CompensateDisproveSafe == ASSUME IInv, CompensateDisprove PROVE IInv'
<1>1. TypeOK'
  BY CompensateDisproveType DEF IInv
<1>2. Drivers' /\ HomeIsTrue' /\ ConfirmedStands'
    BY DEF CompensateDisprove, NextRecord, At, IInv, Drivers, Alive,
         HomeIsTrue, ConfirmedStands, ceremonyVars, homeVars
<1>3. DriversOwn'
    BY ZeroIsNone DEF CompensateDisprove, NextRecord, At, IInv, TypeOK,
         Drivers, Alive, DriversOwn, Own, SweepIsTrue, CriticalSection,
         Written, NoRow, Rows, RowStates, Records, Compensating, ceremonyVars,
         homeVars
<1>4. RowsAreTrue'
    BY ZeroIsNone DEF CompensateDisprove, NextRecord, At, IInv, TypeOK,
         Drivers, Alive, DriversOwn, Own, RowsAreTrue, CriticalSection,
         Written, NoRow, Rows, RowStates, ceremonyVars
<1>5. SweepIsTrue'
    BY ZeroIsNone DEF CompensateDisprove, NextRecord, At, IInv, TypeOK,
         Drivers, Alive, DriversOwn, Own, RowsAreTrue, SweepIsTrue,
         HomeIsTrue, CriticalSection, Written, Compensating, NoRow, Rows,
         RowStates, Records, ceremonyVars, homeVars
<1>6. JournalIsTrue'
    BY ZeroIsNone DEF CompensateDisprove, NextRecord, At, IInv, TypeOK,
         DriversOwn, Own, Written, CriticalSection, JournalIsTrue,
         AuthorityIsJournaled, MarkedIsOut, SweepIsTrue, RowsAreTrue, NoRow,
         Rows, RowStates, Records, HomeIsTrue, homeVars
<1> QED BY <1>1, <1>2, <1>3, <1>4, <1>5, <1>6 DEF IInv

LEMMA SealEnvelopeSafe == ASSUME IInv, NEW i \in Ids, SealEnvelope(i) PROVE IInv'
<1>1. TypeOK'
  BY SealEnvelopeType DEF IInv
<1>2. Drivers' /\ DriversOwn' /\ RowsAreTrue' /\ SweepIsTrue' /\ HomeIsTrue' /\ JournalIsTrue' /\ ConfirmedStands'
    BY DEF SealEnvelope, IInv, Drivers, Alive, DriversOwn, Own, RowsAreTrue,
         SweepIsTrue, HomeIsTrue, JournalIsTrue, AuthorityIsJournaled,
         MarkedIsOut, ConfirmedStands, ceremonyVars, homeVars
<1> QED BY <1>1, <1>2 DEF IInv

LEMMA ConfirmSafe == ASSUME IInv, NEW i \in Ids, Confirm(i) PROVE IInv'
<1>1. TypeOK'
  BY ConfirmType DEF IInv
<1>2. Drivers' /\ DriversOwn' /\ RowsAreTrue' /\ SweepIsTrue' /\ HomeIsTrue' /\ JournalIsTrue' /\ ConfirmedStands'
    BY DEF Confirm, IInv, Drivers, Alive, DriversOwn, Own, RowsAreTrue,
         SweepIsTrue, HomeIsTrue, JournalIsTrue, AuthorityIsJournaled,
         MarkedIsOut, ConfirmedStands, ceremonyVars, homeVars
<1> QED BY <1>1, <1>2 DEF IInv

LEMMA ClearEnvelopeSafe == ASSUME IInv, NEW i \in Ids, ClearEnvelope(i) PROVE IInv'
<1>1. TypeOK'
  BY ClearEnvelopeType DEF IInv
<1>2. Drivers' /\ DriversOwn' /\ RowsAreTrue' /\ SweepIsTrue' /\ HomeIsTrue' /\ JournalIsTrue' /\ ConfirmedStands'
    BY DEF ClearEnvelope, IInv, Drivers, Alive, DriversOwn, Own, RowsAreTrue,
         SweepIsTrue, HomeIsTrue, JournalIsTrue, AuthorityIsJournaled,
         MarkedIsOut, ConfirmedStands, ceremonyVars, homeVars
<1> QED BY <1>1, <1>2 DEF IInv

LEMMA ExpireSafe == ASSUME IInv, NEW i \in Ids, Expire(i) PROVE IInv'
<1>1. TypeOK'
  BY ExpireType DEF IInv
<1>2. Drivers' /\ RowsAreTrue' /\ JournalIsTrue' /\ ConfirmedStands'
    BY DEF Expire, IInv, Drivers, Alive, RowsAreTrue, JournalIsTrue,
         AuthorityIsJournaled, MarkedIsOut, ConfirmedStands, ceremonyVars,
         homeVars
<1>3. DriversOwn'
    BY ZeroIsNone DEF Expire, IInv, TypeOK, Drivers, Alive, DriversOwn, Own,
         SweepIsTrue, CriticalSection, Written, NoRow, Rows, RowStates,
         Records, Compensating, ceremonyVars, homeVars
<1>4. SweepIsTrue'
    BY ZeroIsNone DEF Expire, IInv, TypeOK, Drivers, Alive, DriversOwn, Own,
         RowsAreTrue, SweepIsTrue, HomeIsTrue, CriticalSection, Written,
         Compensating, NoRow, Rows, RowStates, Records, ceremonyVars, homeVars
<1>5. HomeIsTrue'
    BY DEF Expire, IInv, TypeOK, Drivers, Alive, DriversOwn, HomeIsTrue,
         SweepIsTrue, CriticalSection, Written, Compensating, Records,
         ceremonyVars, homeVars
<1> QED BY <1>1, <1>2, <1>3, <1>4, <1>5 DEF IInv

LEMMA CrashSafe == ASSUME IInv, Crash PROVE IInv'
<1>1. TypeOK'
  BY CrashType DEF IInv
<1>2. JournalIsTrue' /\ ConfirmedStands'
    BY DEF Crash, NoSweep, IInv, JournalIsTrue, AuthorityIsJournaled,
         MarkedIsOut, ConfirmedStands, homeVars
<1>3. Drivers'
    BY DEF Crash, NoSweep, IInv, TypeOK, Drivers, Alive, ceremonyVars
<1>4. DriversOwn'
    BY ZeroIsNone DEF Crash, NoSweep, IInv, TypeOK, Drivers, Alive,
         DriversOwn, Own, SweepIsTrue, CriticalSection, Written, NoRow, Rows,
         RowStates, Records, Compensating, ceremonyVars, homeVars
<1>5. RowsAreTrue'
    BY ZeroIsNone DEF Crash, NoSweep, IInv, TypeOK, Drivers, Alive,
         DriversOwn, Own, RowsAreTrue, CriticalSection, Written, NoRow, Rows,
         RowStates, ceremonyVars
<1>6. SweepIsTrue'
    BY ZeroIsNone DEF Crash, NoSweep, IInv, TypeOK, Drivers, Alive,
         DriversOwn, Own, RowsAreTrue, SweepIsTrue, HomeIsTrue,
         CriticalSection, Written, Compensating, NoRow, Rows, RowStates,
         Records, ceremonyVars, homeVars
<1>7. HomeIsTrue'
    BY DEF Crash, NoSweep, IInv, TypeOK, Drivers, Alive, DriversOwn,
         HomeIsTrue, SweepIsTrue, CriticalSection, Written, Compensating,
         Records, ceremonyVars, homeVars
<1> QED BY <1>1, <1>2, <1>3, <1>4, <1>5, <1>6, <1>7 DEF IInv

-----------------------------------------------------------------------------
LEMMA Initially == Init => IInv
<1> SUFFICES ASSUME Init PROVE IInv
  OBVIOUS
<1>1. TypeOK
  BY BoundsAssumption
     DEF Init, TypeOK, States, Awaits, RowStates, Rows, Records, SweepSteps,
         Enrolments, NoRow, NoSweep
<1>2. Drivers /\ DriversOwn
  BY DEF Init, Drivers, Alive, DriversOwn, Own, CriticalSection, Written
<1>3. RowsAreTrue /\ SweepIsTrue /\ HomeIsTrue
  BY DEF Init, RowsAreTrue, SweepIsTrue, HomeIsTrue, NoSweep, NoRow
<1>4. JournalIsTrue /\ ConfirmedStands
  BY DEF Init, JournalIsTrue, AuthorityIsJournaled, MarkedIsOut, ConfirmedStands, NoRow
<1> QED BY <1>1, <1>2, <1>3, <1>4 DEF IInv

\* The inductive invariant.  A ceremony owns the row of its device until its
\* deadline, a confirmed row is one whose ceremony was told so before, and the
\* sweep's records are of rows that are still there and too late to be confirmed
\* (ServerDeviceLinkService, CeremonyRecoveryWorker, PendingCeremonyStore).
THEOREM Inductive == Spec => []IInv
<1>1. ASSUME IInv, Next PROVE IInv'
  <2>1. CASE Sweep
    BY <1>1, <2>1, RecoverNowSafe, ResumePutSafe, ResumeMarkSafe,
       ListCompensatableSafe, SweepDoneSafe, CompensateExpireSafe,
       CompensateAskSafe, CompensateRevokeSafe, CompensateVerifySafe,
       CompensateDisproveSafe DEF Sweep
  <2>2. ASSUME NEW i \in Ids, Ceremony(i)
        PROVE  IInv'
    BY <1>1, <2>2, IssueCodeSafe, TakeRequestSafe, GiveUpRequestSafe,
       PersistPendingSafe, RegisterDeviceSafe, PublishResponseSafe,
       MarkPublishedSafe, AwaitConfirmationSafe, MarkConfirmedSafe DEF Ceremony
  <2> QED BY <1>1, <2>1, <2>2, StartCeremonySafe, CrashSafe, ApproveCeremonySafe,
             CancelCeremonySafe, SealEnvelopeSafe, ConfirmSafe, ClearEnvelopeSafe,
             ExpireSafe DEF Next
<1>2. ASSUME IInv, UNCHANGED vars PROVE IInv'
  BY <1>2 DEF IInv, TypeOK, Drivers, Alive, DriversOwn, Own, RowsAreTrue, SweepIsTrue,
              HomeIsTrue, JournalIsTrue, AuthorityIsJournaled, MarkedIsOut,
              ConfirmedStands, vars, ceremonyVars, homeVars, deviceVars
<1> QED BY <1>1, <1>2, Initially, PTL DEF Spec

\* Whatever crashes, fails or overlaps, the home has bound no certificate that the
\* journal has forgotten, and no row says published of a response that is not out
\* (PendingCeremonyStore, CeremonyRecoveryWorker #resume and #compensate).
THEOREM JournalTrue == Spec => []JournalIsTrue
<1>1. IInv => JournalIsTrue
  BY DEF IInv
<1> QED BY <1>1, Inductive, PTL

\* A link that was reported as confirmed is never revoked by the sweep
\* (CeremonyRecoveryWorker #compensate beside ServerDeviceLinkService #drive).
THEOREM ConfirmedStandsAlways == Spec => []ConfirmedStands
<1>1. IInv => ConfirmedStands
  BY DEF IInv
<1> QED BY <1>1, Inductive, PTL

-----------------------------------------------------------------------------
(* The activation: what is seen of a device whose activation is cut short.  *)

\* The steps of a commit from which it has an inbox of its own.
Housed == {"lease", "publish", "republish", "mark"}

\* What a run of the commit stands on: a baseline was accepted when it began,
\* the inbox is claimed before the pointer names it, and it is the one named
\* until the bundle is out.
CommitStands ==
    /\ commit # "no" => activation \in {"READY", "ACTIVE"}
    /\ commit = "point" => ~Published
    /\ commit \in Housed => pointer # Boot
    /\ commit \in {"republish", "mark"} => Published

\* The strengthening: pointer and claims as they are on disk, the commit, and
\* a device set that lists a device only if its bundle is there.
ActivationInv ==
    /\ claims \subseteq Inboxes /\ pointer \in claims \cup {Boot}
    /\ CommitStands
    /\ sync = "listed" => Published
    /\ VisibleIsReady

USE DEF Published

LEMMA ActivationBegins == ActivationInit => ActivationInv
BY DEF ActivationInit, ActivationInv, CommitStands, Housed, VisibleIsReady,
       PublishedIsReady, ActiveIsPublished

\* The steps that neither publish nor move the journal leave what the
\* invariant reads as it was.
Reads == <<activation, claims, pointer, sync, commit, bundle>>

LEMMA UnreadStep == ActivationInv /\ UNCHANGED Reads => ActivationInv'
BY DEF Reads, ActivationInv, CommitStands, Housed, VisibleIsReady,
       PublishedIsReady, ActiveIsPublished

LEMMA SenderStep ==
    ASSUME ActivationInv,
           \/ \E c \in Contacts : NewContact(c) \/ Reconcile(c)
           \/ AnswerRequest \/ Sending \/ ApplyContact
    PROVE  ActivationInv'
<1>1. UNCHANGED Reads
  BY DEF NewContact, Reconcile, AnswerRequest, Sending, SendContact, TakeHorizon,
         SendMarker, ApplyContact, Reads, diskVars
<1> QED BY <1>1, UnreadStep

LEMMA RuntimeStep == ActivationInv /\ (Runtime \/ Dies) => ActivationInv'
<1> SUFFICES ASSUME ActivationInv, Runtime \/ Dies PROVE ActivationInv'
  OBVIOUS
<1>1. UNCHANGED diskVars /\ UNCHANGED bundle
  BY DEF Runtime, StartEnrolling, StopEnrolling, StartSteady, Dies
<1>2. commit' \in {commit, "no"} /\ (sync' = "listed" => sync = "listed")
  BY DEF Runtime, StartEnrolling, StopEnrolling, StartSteady, Dies
<1> QED BY <1>1, <1>2 DEF diskVars, ActivationInv, CommitStands, Housed,
           VisibleIsReady, PublishedIsReady, ActiveIsPublished

LEMMA SyncStep == ActivationInv /\ Sync => ActivationInv'
<1> SUFFICES ASSUME ActivationInv, Sync PROVE ActivationInv'
  OBVIOUS
<1>1. UNCHANGED <<claims, pointer, bundle>>
  BY DEF Sync, SyncAgain, ReadDeviceSet, Converge, diskVars
<1>2. CASE SyncAgain \/ ReadDeviceSet
  BY <1>1, <1>2 DEF SyncAgain, ReadDeviceSet, diskVars, ActivationInv,
     CommitStands, Housed, VisibleIsReady, PublishedIsReady, ActiveIsPublished
<1>3. CASE Converge
  BY <1>1, <1>3 DEF Converge, StartCommit, ActivationInv, CommitStands, Housed,
     VisibleIsReady, PublishedIsReady, ActiveIsPublished
<1> QED BY <1>2, <1>3 DEF Sync

LEMMA MarkerStep == ActivationInv /\ ApplyMarker => ActivationInv'
BY DEF ApplyMarker, Receives, Complete, StartCommit, ActivationInv, CommitStands,
       Housed, VisibleIsReady, PublishedIsReady, ActiveIsPublished

LEMMA CommitStep == ActivationInv /\ Commit => ActivationInv'
<1> SUFFICES ASSUME ActivationInv, Commit PROVE ActivationInv'
  OBVIOUS
<1> USE DEF ActivationInv, CommitStands, Housed, VisibleIsReady,
        PublishedIsReady, ActiveIsPublished
<1>1. CASE PersistClaim
  <2>1. CASE pointer # Boot
    BY <1>1, <2>1 DEF PersistClaim
  <2>2. ASSUME pointer = Boot, NEW i \in Inboxes \ claims,
               claims' = claims \cup {i}, commit' = "point"
        PROVE  ActivationInv'
    <3>1. UNCHANGED <<activation, pointer, sync, bundle>>
      BY <1>1 DEF PersistClaim
    <3>2. claims' \subseteq Inboxes /\ pointer' \in claims' \cup {Boot}
      BY <2>2, <3>1
    <3>3. ~Published /\ commit # "no"
      BY <1>1, <2>2 DEF PersistClaim
    <3> QED BY <2>2, <3>1, <3>2, <3>3
  <2> QED BY <1>1, <2>1, <2>2 DEF PersistClaim
<1>2. CASE SetPointer
  <2>1. PICK i \in claims : pointer' = i
    BY <1>2 DEF SetPointer
  <2>2. i # Boot
    BY DEF Inboxes, Boot
  <2>3. commit = "point" /\ commit' = "lease"
        /\ UNCHANGED <<activation, claims, sync, bundle>>
    BY <1>2 DEF SetPointer
  <2> QED BY <2>1, <2>2, <2>3
<1>3. CASE RegisterClaim
  BY <1>3 DEF RegisterClaim, Registers, CommitFails, diskVars
<1>4. CASE PublishBundle
  BY <1>4 DEF PublishBundle, CommitFails, diskVars
<1>5. CASE Republish
  BY <1>5 DEF Republish, CommitFails, diskVars
<1>6. CASE MarkActive
  BY <1>6 DEF MarkActive
<1> QED BY <1>1, <1>2, <1>3, <1>4, <1>5, <1>6 DEF Commit

\* Whatever runs, fails or dies, of either device, keeps it.
THEOREM ActivationInductive ==
    ActivationInv /\ [ActivationNext]_activationVars => ActivationInv'
<1>1. ASSUME ActivationInv, UNCHANGED activationVars PROVE ActivationInv'
  BY <1>1, UnreadStep DEF activationVars, diskVars, Reads
<1> QED BY <1>1, SenderStep, RuntimeStep, SyncStep, MarkerStep, CommitStep
           DEF ActivationNext

\* However the activation is interrupted, nobody sees the device before a
\* baseline was accepted, nor at an inbox it does not live at, and a device that
\* is active is seen (ServerDeviceActivationService #commit).
THEOREM SeenWhenReady == ActivationSpec => []VisibleIsReady
<1>1. ActivationInv => VisibleIsReady BY DEF ActivationInv
<1> QED BY <1>1, ActivationBegins, ActivationInductive, PTL DEF ActivationSpec

=============================================================================
