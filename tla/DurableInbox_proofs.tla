------------------------- MODULE DurableInbox_proofs -------------------------
(***************************************************************************)
(* For any number of deposits, peers, faults and crashes: the durable inbox *)
(* stays type correct, never lets its cursor pass a deposit that is not     *)
(* accounted for, and keeps MailPromise.  And of the running chat server:    *)
(* what it keeps of its sessions and of the conversations is right.         *)
(***************************************************************************)
EXTENDS DurableInbox, ChatServer, SequenceTheorems, FiniteSetTheorems,
        WellFoundedInduction, TLAPS

USE PipelineAssumption, DurableAssumption

-----------------------------------------------------------------------------
(* Sequences.                                                               *)

(* Removing an entry from an in-memory map keeps it a sequence of the same *)
(* elements (Map.delete on the retry buffer).                               *)
LEMMA WithoutType ==
    ASSUME NEW S, NEW s \in Seq(S), NEW d
    PROVE  Without(s, d) \in Seq(S)
<1>1. CASE d \notin Elements(s)
  BY <1>1 DEF Without
<1>2. CASE d \in Elements(s)
  <2>. DEFINE i == CHOOSE i \in 1 .. Len(s) : s[i] = d
  <2>1. i \in 1 .. Len(s)
    BY <1>2 DEF Elements
  <2>. HIDE DEF i
  <2>2. Len(s) \in Nat
    OBVIOUS
  <2>3. SubSeq(s, 1, i - 1) \in Seq(S) /\ SubSeq(s, i + 1, Len(s)) \in Seq(S)
    BY <2>1, <2>2, SubSeqProperties
  <2>4. Without(s, d) = SubSeq(s, 1, i - 1) \o SubSeq(s, i + 1, Len(s))
    BY <1>2 DEF Without, i
  <2>. QED  BY <2>3, <2>4, ConcatProperties
<1>. QED  BY <1>1, <1>2

(* Queueing a job behind the running one leaves the running one at the head. *)
LEMMA HeadAppend ==
    ASSUME NEW S, NEW s \in Seq(S), NEW x \in S, s # <<>>
    PROVE  Append(s, x) # <<>> /\ Head(Append(s, x)) = Head(s)
OBVIOUS

(* The entries of a sequence come from its element set. *)
LEMMA ElementsType ==
    ASSUME NEW S, NEW s \in Seq(S)
    PROVE  Elements(s) \subseteq S
BY DEF Elements

-----------------------------------------------------------------------------
(* Type correctness.                                                        *)

(* The jobs the submitters append are jobs. *)
LEMMA JobType ==
    /\ \A d \in Deposits : Job("push", d) \in Jobs /\ Job("drain", d) \in Jobs
    /\ Job("sweep", 0) \in Jobs /\ Job("outbox", 0) \in Jobs
BY DEF Job, Jobs

(* The result of the head job is a reply. *)
LEMMA ReplyType ==
    ASSUME WorkerTypeOK, queue # <<>>, Head(queue).src # "sweep",
           NEW ack \in {"ok", "left"}
    PROVE  Reply(Head(queue).src, Head(queue).d, ack, {}) \in Replies
<1>1. Head(queue) \in Jobs
  BY DEF WorkerTypeOK
<1>2. Head(queue).src \in {"push", "drain", "outbox"} /\ Head(queue).d \in 0 .. NumDeposits
  BY <1>1 DEF Jobs, Deposits
<1>. QED  BY <1>2 DEF Reply, Replies

(* Resolving the running job keeps the worker well typed. *)
LEMMA ResolveType ==
    ASSUME WorkerTypeOK, queue # <<>>, NEW ack \in {"ok", "left"}, Resolve(ack),
           retained' \in Seq(Deposits), tries' \in [Deposits -> Nat]
    PROVE  WorkerTypeOK'
<1>1. queue' \in Seq(Jobs)
  BY DEF WorkerTypeOK, Resolve
<1>2. replies' \subseteq Replies
  BY ReplyType DEF WorkerTypeOK, Resolve
<1>. QED  BY <1>1, <1>2 DEF WorkerTypeOK, Resolve, At, Steps

(* Starting a re-drain keeps the worker well typed. *)
LEMMA StartRefeedType ==
    ASSUME WorkerTypeOK, queue # <<>>, NEW result \in SUBSET {"ok"}, StartRefeed(result),
           retained' \in Seq(Deposits), tries' \in [Deposits -> Nat]
    PROVE  WorkerTypeOK'
BY DEF WorkerTypeOK, StartRefeed, At, Steps

(* Dropping an entry of the retry buffer, and adding one, keep it well typed. *)
LEMMA ReleaseType ==
    ASSUME WorkerTypeOK, NEW d \in Deposits, Release(d)
    PROVE  retained' \in Seq(Deposits) /\ tries' \in [Deposits -> Nat]
BY WithoutType DEF WorkerTypeOK, Release

LEMMA RetainType ==
    ASSUME WorkerTypeOK, NEW d \in Deposits, Retain(d)
    PROVE  retained' \in Seq(Deposits) /\ tries' \in [Deposits -> Nat]
<1>. retained \in Seq(Deposits) /\ tries \in [Deposits -> Nat] /\ Len(retained) \in Nat
  BY DEF WorkerTypeOK
<1>1. CASE d \in Elements(retained)
  BY <1>1 DEF Retain
<1>2. CASE d \notin Elements(retained) /\ Len(retained) >= MaxPending
  <2>1. retained # <<>>
    BY <1>2
  <2>2. Tail(retained) \in Seq(Deposits)
    BY <2>1
  <2>3. retained' = Append(Tail(retained), d) /\ tries' = [tries EXCEPT ![Head(retained)] = 0]
    BY <1>2 DEF Retain
  <2>. QED  BY <2>2, <2>3
<1>3. CASE d \notin Elements(retained) /\ ~(Len(retained) >= MaxPending)
  <2>1. retained' = Append(retained, d) /\ UNCHANGED tries
    BY <1>3 DEF Retain
  <2>. QED  BY <2>1
<1>. QED  BY <1>1, <1>2, <1>3

(* #processAndHeal and the re-drain keep the worker well typed. *)
LEMMA ConcludeType ==
    ASSUME WorkerTypeOK, step # "idle", NEW d \in Deposits, NEW consumed, NEW already,
           NEW ack \in {"ok", "left"}, Conclude(d, consumed, already, ack)
    PROVE  WorkerTypeOK'
<1>. queue # <<>>
  BY DEF WorkerTypeOK
<1>1. CASE "on" \notin refeed
  <2>1. retained' \in Seq(Deposits) /\ tries' \in [Deposits -> Nat]
    BY <1>1, ReleaseType, RetainType DEF Conclude, ConcludeSubmit
  <2>2. CASE consumed /\ ~already /\ retained' # <<>>
    <3>1. StartRefeed(IF ack = "ok" THEN {"ok"} ELSE {})
      BY <1>1, <2>2 DEF Conclude, ConcludeSubmit
    <3>2. (IF ack = "ok" THEN {"ok"} ELSE {}) \in SUBSET {"ok"}
      OBVIOUS
    <3>. QED  BY <2>1, <3>1, <3>2, StartRefeedType
  <2>3. CASE ~(consumed /\ ~already /\ retained' # <<>>)
    <3>1. Resolve(ack)
      BY <1>1, <2>3 DEF Conclude, ConcludeSubmit
    <3>. QED  BY <2>1, <3>1, ResolveType
  <2>. QED  BY <2>2, <2>3
<1>2. CASE "on" \in refeed
  <2>1. retained' \in Seq(Deposits) /\ tries' \in [Deposits -> Nat]
    <3>1. CASE Release(d)
      BY <3>1, ReleaseType
    <3>2. CASE tries' = [tries EXCEPT ![d] = @ + 1] /\ UNCHANGED retained
      BY <3>2 DEF WorkerTypeOK
    <3>. QED  BY <1>2, <3>1, <3>2 DEF Conclude, ConcludeRefeed
  <2>2. refeed' \subseteq {"on", "progress", "ok"}
    BY <1>2 DEF Conclude, ConcludeRefeed, WorkerTypeOK
  <2>. QED  BY <1>2, <2>1, <2>2 DEF Conclude, ConcludeRefeed, WorkerTypeOK, At, Steps
<1>. QED  BY <1>1, <1>2

(* An apply, whatever its outcome, keeps the stores and the deferred *)
(* messages well typed. *)
LEMMA ApplyType ==
    ASSUME DataTypeOK, NEW d \in Deposits, ApplyReturns(d) \/ ApplyThrows(d)
    PROVE  /\ store' \subseteq Deposits /\ members' \subseteq Peers /\ mislaid' \subseteq Deposits
           /\ held' \in [Peers -> Seq(Deposits)] /\ faults' \in 0 .. MaxFaults
<1>. Peer[d] \in Peers
  OBVIOUS
<1>1. CASE ApplyMessage(d)
  BY <1>1 DEF ApplyMessage, NoFault, DataTypeOK
<1>2. CASE ApplyJoin(d)
  <2>1. Elements(held[Peer[d]]) \subseteq Deposits
    BY ElementsType DEF DataTypeOK
  <2>2. store' \subseteq Deposits /\ faults' \in 0 .. MaxFaults
    BY <1>2, <2>1 DEF ApplyJoin, NoFault, Fault, DataTypeOK
  <2>. QED  BY <1>2, <2>2 DEF ApplyJoin, DataTypeOK
<1>3. CASE SwallowJoin(d)
  BY <1>3 DEF SwallowJoin, Fault, DataTypeOK
<1>4. CASE ApplyGroup(d)
  <2>1. held' \in [Peers -> Seq(Deposits)]
    <3>. held[Peer[d]] \in Seq(Deposits) /\ Len(held[Peer[d]]) \in Nat
      BY DEF DataTypeOK
    <3>1. CASE Defer(d) /\ Len(held[Peer[d]]) >= MaxHeld
      <4>1. Tail(held[Peer[d]]) \in Seq(Deposits)
        BY <3>1
      <4>2. Append(Tail(held[Peer[d]]), d) \in Seq(Deposits)
        BY <4>1
      <4>3. held' = [held EXCEPT ![Peer[d]] = Append(Tail(held[Peer[d]]), d)]
        BY <3>1 DEF Defer, DataTypeOK
      <4>. QED  BY <4>2, <4>3 DEF DataTypeOK
    <3>2. CASE Defer(d) /\ ~(Len(held[Peer[d]]) >= MaxHeld)
      BY <3>2 DEF Defer, DataTypeOK
    <3>. QED  BY <1>4, <3>1, <3>2 DEF ApplyGroup, DataTypeOK
  <2>. QED  BY <1>4, <2>1 DEF ApplyGroup, NoFault, Fault, DataTypeOK
<1>5. CASE ApplyThrows(d)
  BY <1>5 DEF ApplyThrows, Fault, DataTypeOK
<1>. QED  BY <1>1, <1>2, <1>3, <1>4, <1>5 DEF ApplyReturns

(* Every step of the serialized pipeline keeps it well typed. *)
LEMMA PipelineStepType ==
    ASSUME PipelineTypeOK, PipelineStep \/ Sweep
    PROVE  PipelineTypeOK'
<1>. DataTypeOK /\ WorkerTypeOK
  BY DEF PipelineTypeOK
<1>. USE DEF durableVars, workVars, bufferVars, retryVars, memoryVars, historyVars
<1>1. CASE StartSubmit
  <2>1. Head(queue) \in Jobs /\ Head(queue).d \in Deposits
    BY <1>1 DEF StartSubmit, WorkerTypeOK, Jobs
  <2>2. WorkerTypeOK'
    <3>1. Head(queue).d \in 0 .. NumDeposits
      BY <2>1 DEF Deposits
    <3>. QED  BY <1>1, <2>1, <3>1 DEF StartSubmit, WorkerTypeOK, At, Steps
  <2>. QED  BY <1>1, <2>2 DEF StartSubmit, PipelineTypeOK, DataTypeOK
<1>2. CASE StartSweep
  <2>1. retained' \in Seq(Deposits) /\ tries' \in [Deposits -> Nat]
    BY <1>2 DEF StartSweep, WorkerTypeOK
  <2>2. WorkerTypeOK'
    BY <1>2, <2>1, ResolveType, StartRefeedType DEF StartSweep
  <2>. QED  BY <1>2, <2>2 DEF StartSweep, PipelineTypeOK, DataTypeOK
<1>3. CASE RefeedEntry
  <2>1. Head(todo) \in Deposits /\ Tail(todo) \in Seq(Deposits)
    BY <1>3 DEF RefeedEntry, WorkerTypeOK
  <2>2. WorkerTypeOK'
    <3>1. Head(todo) \in 0 .. NumDeposits
      BY <2>1 DEF Deposits
    <3>. QED  BY <1>3, <2>1, <3>1 DEF RefeedEntry, WorkerTypeOK, At, Steps
  <2>. QED  BY <1>3, <2>2 DEF RefeedEntry, PipelineTypeOK, DataTypeOK
<1>4. CASE RefeedPass
  BY <1>4 DEF RefeedPass, PipelineTypeOK, DataTypeOK, WorkerTypeOK
<1>5. CASE RefeedDone
  <2>1. retained' \in Seq(Deposits) /\ tries' \in [Deposits -> Nat] /\ queue # <<>>
    BY <1>5 DEF RefeedDone, WorkerTypeOK
  <2>2. WorkerTypeOK'
    BY <1>5, <2>1, ResolveType DEF RefeedDone
  <2>. QED  BY <1>5, <2>2 DEF RefeedDone, PipelineTypeOK, DataTypeOK
<1>6. CASE SkipProcessed
  <2>1. WorkerTypeOK'
    <3>1. step # "idle" /\ cur \in Deposits
      BY <1>6 DEF SkipProcessed, WorkerTypeOK
    <3>. QED  BY <1>6, <3>1, ConcludeType DEF SkipProcessed
  <2>. QED  BY <1>6, <2>1 DEF SkipProcessed, PipelineTypeOK, DataTypeOK
<1>7. CASE ProcessDeposit
  <2>1. cur \in Deposits /\ Peer[cur] \in Peers
    BY <1>7 DEF ProcessDeposit, WorkerTypeOK
  <2>2. DataTypeOK'
    BY <1>7, <2>1 DEF ProcessDeposit, DataTypeOK, Fault, NoFault
  <2>3. WorkerTypeOK'
    BY <1>7, <2>1 DEF ProcessDeposit, WorkerTypeOK, At, Steps, Flags
  <2>. QED  BY <2>2, <2>3 DEF PipelineTypeOK
<1>8. CASE ProtocolThrows
  BY <1>8 DEF ProtocolThrows, PipelineTypeOK, DataTypeOK, WorkerTypeOK, At, Steps, Fault
<1>9. CASE Stage
  <2>1. cur \in Deposits
    BY <1>9 DEF Stage, WorkerTypeOK
  <2>2. DataTypeOK'
    BY <1>9, <2>1 DEF Stage, DataTypeOK, Fault, NoFault
  <2>3. WorkerTypeOK'
    BY <1>9, <2>1 DEF Stage, WorkerTypeOK, At, Steps, Flags
  <2>. QED  BY <2>2, <2>3 DEF PipelineTypeOK
<1>10. CASE Apply
  <2>1. cur \in Deposits
    BY <1>10 DEF Apply, WorkerTypeOK
  <2>2. DataTypeOK'
    BY <1>10, <2>1, ApplyType DEF Apply, DataTypeOK
  <2>3. WorkerTypeOK'
    BY <1>10, <2>1 DEF Apply, WorkerTypeOK, At, AfterApply, Steps, Flags
  <2>. QED  BY <2>2, <2>3 DEF PipelineTypeOK
<1>11. CASE Reconcile
  <2>1. cur \in Deposits
    BY <1>11 DEF Reconcile, WorkerTypeOK
  <2>2. DataTypeOK'
    <3>1. outbox' \subseteq Deposits /\ faults' \in 0 .. MaxFaults
      BY <1>11 DEF Reconcile, DataTypeOK, Fault, NoFault
    <3>2. (IF "applied" \in flags THEN 0 ELSE failures[cur] + 1) \in Nat
      BY <2>1 DEF DataTypeOK
    <3>3. failures' \in [Deposits -> Nat]
      BY <1>11, <2>1, <3>2 DEF Reconcile, DataTypeOK
    <3>. QED  BY <1>11, <3>1, <3>3 DEF Reconcile, DataTypeOK
  <2>3. WorkerTypeOK'
    BY <1>11, <2>1 DEF Reconcile, WorkerTypeOK, At, Steps
  <2>. QED  BY <2>2, <2>3 DEF PipelineTypeOK
<1>12. CASE MarkAndReturn
  <2>1. cur \in Deposits /\ step # "idle"
    BY <1>12 DEF MarkAndReturn, WorkerTypeOK
  <2>2. WorkerTypeOK'
    <3>. DEFINE st == IF AckSafe THEN "ok" ELSE "left"
    <3>1. Conclude(cur, "consumed" \in flags, FALSE, st)
      BY <1>12 DEF MarkAndReturn
    <3>2. st \in {"ok", "left"}
      OBVIOUS
    <3>. HIDE DEF st
    <3>. QED  BY <2>1, <3>1, <3>2, ConcludeType
  <2>3. DataTypeOK'
    BY <1>12, <2>1 DEF MarkAndReturn, DataTypeOK, Fault, NoFault
  <2>. QED  BY <2>2, <2>3 DEF PipelineTypeOK
<1>13. CASE StartRetry
  BY <1>13 DEF StartRetry, PipelineTypeOK, DataTypeOK, WorkerTypeOK, At, Steps, Fault, NoFault
<1>14. CASE Unstage
  <2>1. cur \in Deposits
    BY <1>14 DEF Unstage, WorkerTypeOK
  <2>2. DataTypeOK'
    <3>1. outbox' \subseteq Deposits /\ faults' \in 0 .. MaxFaults
      BY <1>14 DEF Unstage, DataTypeOK, Fault, NoFault
    <3>2. failures' \in [Deposits -> Nat]
      BY <1>14, <2>1 DEF Unstage, DataTypeOK
    <3>. QED  BY <1>14, <3>1, <3>2 DEF Unstage, DataTypeOK
  <2>3. WorkerTypeOK'
    BY <1>14, <2>1 DEF Unstage, WorkerTypeOK, At, Steps
  <2>. QED  BY <2>2, <2>3 DEF PipelineTypeOK
<1>15. CASE RetryDone
  <2>1. queue # <<>>
    BY <1>15 DEF RetryDone, WorkerTypeOK
  <2>2. Reply("outbox", 0, "ok", dropped) \in Replies
    BY DEF Reply, Replies, DataTypeOK
  <2>3. WorkerTypeOK'
    <3>1. queue' \in Seq(Jobs)
      BY <1>15, <2>1 DEF RetryDone, WorkerTypeOK
    <3>2. replies' \subseteq Replies
      BY <1>15, <2>2 DEF RetryDone, WorkerTypeOK
    <3>. QED  BY <1>15, <3>1, <3>2 DEF RetryDone, WorkerTypeOK, At, Steps
  <2>. QED  BY <1>15, <2>3 DEF RetryDone, PipelineTypeOK, DataTypeOK
<1>16. ASSUME NEW d \in Deposits, RetryApplies(d) \/ RetryFails(d) \/ RetryGivesUp(d)
       PROVE  PipelineTypeOK'
  <2>1. DataTypeOK'
    <3>1. ApplyReturns(d) \/ ApplyThrows(d)
      BY <1>16 DEF RetryApplies, RetryFails, RetryGivesUp
    <3>2. /\ store' \subseteq Deposits /\ members' \subseteq Peers /\ mislaid' \subseteq Deposits
          /\ held' \in [Peers -> Seq(Deposits)] /\ faults' \in 0 .. MaxFaults
      BY <3>1, ApplyType
    <3>3. failures' \in [Deposits -> Nat]
      BY <1>16 DEF RetryApplies, RetryFails, RetryGivesUp, DataTypeOK
    <3>. QED  BY <1>16, <3>2, <3>3 DEF RetryApplies, RetryFails, RetryGivesUp, DataTypeOK
  <2>2. WorkerTypeOK'
    <3>1. step = "retry" /\ d \in 0 .. NumDeposits
      BY <1>16 DEF RetryApplies, RetryFails, RetryGivesUp, Deposits
    <3>2. UNCHANGED <<queue, refeed, todo, retained, tries, replies>>
      BY <1>16 DEF RetryApplies, RetryFails, RetryGivesUp
    <3>3. At("unstage", d, {}) \/ UNCHANGED <<step, cur, flags>>
      BY <1>16 DEF RetryApplies, RetryFails, RetryGivesUp
    <3>. QED  BY <3>1, <3>2, <3>3 DEF WorkerTypeOK, At, Steps
  <2>. QED  BY <2>1, <2>2 DEF PipelineTypeOK
<1>17. CASE Sweep
  <2>1. queue' \in Seq(Jobs) /\ queue' # <<>>
    <3>1. queue \in Seq(Jobs) /\ queue' = Append(queue, Job("sweep", 0))
      BY <1>17 DEF Sweep, WorkerTypeOK
    <3>2. Job("sweep", 0) \in Jobs
      BY JobType
    <3>. QED  BY <3>1, <3>2, AppendProperties
  <2>2. DataTypeOK'
    BY <1>17 DEF Sweep, PipelineTypeOK, DataTypeOK
  <2>3. WorkerTypeOK'
    BY <1>17, <2>1 DEF Sweep, PipelineTypeOK, WorkerTypeOK
  <2>. QED  BY <2>2, <2>3 DEF PipelineTypeOK
<1>. QED
  BY <1>1, <1>2, <1>3, <1>4, <1>5, <1>6, <1>7, <1>8, <1>9, <1>10, <1>11, <1>12, <1>13, <1>14,
     <1>15, <1>16, <1>17 DEF PipelineStep

(* The drain's part of the type invariant. *)
InboxTypeOK ==
    /\ arrived \in 0 .. NumDeposits /\ cursor \in 0 .. NumDeposits
    /\ pushable \subseteq Deposits /\ notices \subseteq Deposits /\ backoff \subseteq Deposits
    /\ attempts \in [Deposits -> Nat]
    /\ phase \in {"off", "outbox", "list", "item", "await", "skip", "forget"}
    /\ item \in 1 .. NumDeposits + 1 /\ last \in 0 .. NumDeposits /\ through \in 0 .. NumDeposits
    /\ phase \in {"await", "skip"} => item <= last
    /\ passed \subseteq Deposits /\ gaps \subseteq Deposits
    /\ again \in BOOLEAN
    /\ crashes \in 0 .. MaxCrashes

LEMMA TypeSplit == TypeOK <=> PipelineTypeOK /\ InboxTypeOK
BY DEF TypeOK, InboxTypeOK

(* Appending a job to the chain is all the submitters do to the pipeline. *)
LEMMA SubmitType ==
    ASSUME PipelineTypeOK, NEW j \in Jobs,
           queue' = queue \/ queue' = Append(queue, j),
           replies' \subseteq replies, faults' \in 0 .. MaxFaults, processed' \subseteq processed,
           UNCHANGED <<sessions, spent, outbox, failures, store, members, workVars, bufferVars, held,
                       retryVars, gaveUp, mislaid>>
    PROVE  PipelineTypeOK'
<1>1. queue' \in Seq(Jobs) /\ (queue # <<>> => queue' # <<>>)
  <2>1. queue \in Seq(Jobs)
    BY DEF PipelineTypeOK, WorkerTypeOK
  <2>2. Append(queue, j) \in Seq(Jobs) /\ Append(queue, j) # <<>>
    BY <2>1
  <2>. QED  BY <2>1, <2>2
<1>2. DataTypeOK'
  BY DEF PipelineTypeOK, DataTypeOK, retryVars
<1>3. WorkerTypeOK'
  BY <1>1 DEF PipelineTypeOK, WorkerTypeOK, workVars, bufferVars
<1>. QED  BY <1>2, <1>3 DEF PipelineTypeOK

(* Starting or ending a pass of the drain keeps its variables well typed. *)
LEMMA DrainPassType ==
    ASSUME InboxTypeOK, RequestDrain \/ EndPass
    PROVE  /\ phase' \in {"off", "outbox", "list", "item", "await", "skip", "forget"}
           /\ item' \in 1 .. NumDeposits + 1 /\ last' \in 0 .. NumDeposits
           /\ through' \in 0 .. NumDeposits
           /\ phase' \in {"await", "skip"} => item' <= last'
           /\ passed' \subseteq Deposits /\ gaps' \subseteq Deposits /\ again' \in BOOLEAN
           /\ queue' = queue \/ queue' = Append(queue, Job("outbox", 0))
<1>1. CASE RequestDrain
  <2>1. again' \in BOOLEAN
    BY <1>1, Zenon DEF RequestDrain
  <2>. QED  BY <1>1, <2>1 DEF RequestDrain, Goto, InboxTypeOK, drainVars
<1>2. CASE EndPass
  <2>1. again' \in BOOLEAN
    BY <1>2, Zenon DEF EndPass, InboxTypeOK
  <2>. QED  BY <1>2, <2>1 DEF EndPass, Goto, InboxTypeOK
<1>. QED  BY <1>1, <1>2

(* The initial state is well typed. *)
LEMMA InitType == Init => TypeOK
<1>. SUFFICES ASSUME Init PROVE TypeOK
  OBVIOUS
<1>1. PipelineTypeOK
  <2>1. DataTypeOK
    BY DEF Init, PipelineInit, DataTypeOK
  <2>2. WorkerTypeOK
    BY DEF Init, PipelineInit, WorkerTypeOK, Steps
  <2>. QED  BY <2>1, <2>2 DEF PipelineTypeOK
<1>2. InboxTypeOK
  <2>1. again \in BOOLEAN
    BY Zenon DEF Init
  <2>. QED  BY <2>1 DEF Init, InboxTypeOK
<1>. QED  BY <1>1, <1>2, TypeSplit

(* Every step of the node, the push bridge, the drain and the pipeline keeps *)
(* the state well typed. *)
LEMMA NextType == TypeOK /\ [Next]_vars => TypeOK'
<1>. SUFFICES ASSUME PipelineTypeOK, InboxTypeOK, [Next]_vars
              PROVE  PipelineTypeOK' /\ InboxTypeOK'
  BY TypeSplit DEF TypeOK, InboxTypeOK
<1>. USE DEF pipelineVars, durableVars, memoryVars, historyVars, drainVars
<1>1. CASE UNCHANGED vars
  BY <1>1 DEF vars, inboxVars, workVars, bufferVars, retryVars, PipelineTypeOK, DataTypeOK,
              WorkerTypeOK, InboxTypeOK
<1>. faults \in 0 .. MaxFaults
  BY DEF PipelineTypeOK, DataTypeOK
<1>2. CASE Deposit
  <2>1. PipelineTypeOK'
    BY <1>2, JobType, SubmitType DEF Deposit
  <2>2. InboxTypeOK'
    BY <1>2 DEF Deposit, InboxTypeOK, Deposits
  <2>. QED  BY <2>1, <2>2
<1>3. ASSUME NEW d \in Deposits, Push(d)
      PROVE  PipelineTypeOK' /\ InboxTypeOK'
  <2>1. PipelineTypeOK'
    BY <1>3, JobType, SubmitType DEF Push
  <2>2. InboxTypeOK'
    BY <1>3 DEF Push, InboxTypeOK
  <2>. QED  BY <2>1, <2>2
<1>4. ASSUME NEW d \in Deposits, BackoffExpires(d)
      PROVE  PipelineTypeOK' /\ InboxTypeOK'
  <2>1. PipelineTypeOK'
    BY <1>4, JobType, SubmitType DEF BackoffExpires
  <2>2. InboxTypeOK'
    BY <1>4 DEF BackoffExpires, InboxTypeOK
  <2>. QED  BY <2>1, <2>2
<1>5. ASSUME NEW r \in replies, PushSettled(r)
      PROVE  PipelineTypeOK' /\ InboxTypeOK'
  <2>1. RequestDrain \/ UNCHANGED <<queue, drainVars, again>>
    BY <1>5 DEF PushSettled
  <2>2. queue' = queue \/ queue' = Append(queue, Job("outbox", 0))
    BY <2>1, DrainPassType
  <2>3. PipelineTypeOK'
    BY <1>5, <2>2, JobType, SubmitType DEF PushSettled
  <2>4. InboxTypeOK'
    BY <1>5, <2>1, DrainPassType DEF PushSettled, InboxTypeOK
  <2>. QED  BY <2>3, <2>4
<1>6. CASE Trigger
  <2>1. PipelineTypeOK'
    BY <1>6, DrainPassType, JobType, SubmitType DEF Trigger
  <2>2. InboxTypeOK'
    BY <1>6, DrainPassType DEF Trigger, InboxTypeOK
  <2>. QED  BY <2>1, <2>2
<1>7. CASE PipelineAction
  <2>1. PipelineTypeOK'
    BY <1>7, PipelineStepType DEF PipelineAction
  <2>2. InboxTypeOK'
    BY <1>7 DEF PipelineAction, inboxVars, InboxTypeOK
  <2>. QED  BY <2>1, <2>2
<1>8. CASE DrainList
  <2>1. EndPass \/ (Goto("item", cursor + 1, MinOf(arrived, cursor + PageLimit)) /\ UNCHANGED <<queue, again>>)
    BY <1>8 DEF DrainList
  <2>2. PipelineTypeOK'
    BY <1>8, <2>1, DrainPassType, JobType, SubmitType DEF DrainList
  <2>3. InboxTypeOK'
    <3>1. CASE EndPass
      BY <1>8, <3>1, DrainPassType DEF DrainList, InboxTypeOK
    <3>2. CASE Goto("item", cursor + 1, MinOf(arrived, cursor + PageLimit)) /\ UNCHANGED <<queue, again>>
      BY <1>8, <3>2 DEF DrainList, Goto, MinOf, InboxTypeOK
    <3>. QED  BY <2>1, <3>1, <3>2
  <2>. QED  BY <2>2, <2>3
<1>9. CASE DrainListFails
  <2>1. PipelineTypeOK'
    BY <1>9, JobType, SubmitType DEF DrainListFails, Fault
  <2>2. InboxTypeOK'
    BY <1>9 DEF DrainListFails, Goto, InboxTypeOK
  <2>. QED  BY <2>1, <2>2
<1>10. CASE DrainItem
  <2>. item \in Deposits
    BY <1>10 DEF DrainItem, InboxTypeOK, Deposits
  <2>1. PipelineTypeOK'
    BY <1>10, JobType, SubmitType DEF DrainItem
  <2>2. InboxTypeOK'
    <3>. item <= last /\ item \in Nat /\ last \in Nat
      BY <1>10 DEF DrainItem, InboxTypeOK, Deposits
    <3>1. CASE item \in backoff
      <4>1. item' \in 1 .. NumDeposits + 1
        <5>1. item' = item + 1
          BY <1>10, <3>1 DEF DrainItem, Gap
        <5>. QED  BY <5>1 DEF Deposits
      <4>2. gaps' \subseteq Deposits
        <5>1. gaps' = gaps \cup {item}
          BY <1>10, <3>1 DEF DrainItem, Gap
        <5>. QED  BY <5>1 DEF InboxTypeOK
      <4>3. phase' = "item" /\ UNCHANGED <<last, through, passed, again, attempts, backoff, arrived, cursor,
                                           pushable, notices, crashes>>
        BY <1>10, <3>1 DEF DrainItem, Gap
      <4>. QED  BY <4>1, <4>2, <4>3 DEF InboxTypeOK
    <3>2. CASE item \notin backoff
      BY <1>10, <3>2 DEF DrainItem, InboxTypeOK
    <3>. QED  BY <3>1, <3>2
  <2>. QED  BY <2>1, <2>2
<1>11. CASE DrainSkip
  <2>. item \in Deposits /\ item <= last
    BY <1>11 DEF DrainSkip, InboxTypeOK, Deposits
  <2>0. processed' \subseteq processed /\ faults' \in 0 .. MaxFaults
    BY <1>11 DEF DrainSkip, Fault, NoFault
  <2>1. PipelineTypeOK'
    BY <1>11, <2>0, JobType, SubmitType DEF DrainSkip
  <2>2. InboxTypeOK'
    <3>1. attempts' \in [Deposits -> Nat]
      <4>1. [attempts EXCEPT ![item] = 0] \in [Deposits -> Nat]
        BY DEF InboxTypeOK
      <4>. QED  BY <1>11, <4>1 DEF DrainSkip, InboxTypeOK
    <3>2. item + 1 \in 1 .. NumDeposits + 1 /\ item \in 0 .. NumDeposits
      BY DEF Deposits
    <3>. QED  BY <1>11, <3>1, <3>2 DEF DrainSkip, InboxTypeOK
  <2>. QED  BY <2>1, <2>2
<1>12. CASE DrainAck
  <2>1. PipelineTypeOK'
    BY <1>12, JobType, SubmitType DEF DrainAck
  <2>2. InboxTypeOK'
    BY <1>12 DEF DrainAck, InboxTypeOK
  <2>. QED  BY <2>1, <2>2
<1>13. CASE DrainAckFails
  <2>1. PipelineTypeOK'
    BY <1>13, DrainPassType, JobType, SubmitType DEF DrainAckFails, Fault
  <2>2. InboxTypeOK'
    BY <1>13, DrainPassType DEF DrainAckFails, InboxTypeOK
  <2>. QED  BY <2>1, <2>2
<1>14. CASE DrainForget
  <2>1. EndPass \/ (Goto("list", 1, 0) /\ UNCHANGED <<queue, again>>)
    BY <1>14 DEF DrainForget
  <2>2. PipelineTypeOK'
    <3>1. processed' \subseteq processed /\ faults' \in 0 .. MaxFaults
      BY <1>14 DEF DrainForget, Fault, NoFault
    <3>2. queue' = queue \/ queue' = Append(queue, Job("outbox", 0))
      BY <2>1, DrainPassType
    <3>. QED  BY <1>14, <3>1, <3>2, JobType, SubmitType DEF DrainForget
  <2>3. InboxTypeOK'
    BY <1>14, <2>1, DrainPassType DEF DrainForget, Goto, InboxTypeOK
  <2>. QED  BY <2>2, <2>3
<1>15. ASSUME NEW r \in replies, DrainSurface(r)
       PROVE  PipelineTypeOK' /\ InboxTypeOK'
  <2>1. r.gone \subseteq Deposits
    BY DEF PipelineTypeOK, WorkerTypeOK, Replies
  <2>2. PipelineTypeOK'
    BY <1>15, JobType, SubmitType DEF DrainSurface
  <2>3. InboxTypeOK'
    BY <1>15, <2>1 DEF DrainSurface, Goto, InboxTypeOK
  <2>. QED  BY <2>2, <2>3
<1>16. ASSUME NEW r \in replies, DrainConsumed(r) \/ DrainFailed(r) \/ DrainQuarantine(r)
       PROVE  PipelineTypeOK' /\ InboxTypeOK'
  <2>. item \in Deposits /\ item <= last /\ attempts[item] + 1 \in Nat
    BY <1>16 DEF DrainConsumed, DrainFailed, DrainQuarantine, InboxTypeOK, Deposits
  <2>1. PipelineTypeOK'
    BY <1>16, JobType, SubmitType DEF DrainConsumed, DrainFailed, DrainQuarantine, Fault, NoFault
  <2>2. CASE DrainConsumed(r)
    <3>1. (through' = item \/ through' = through) /\ (passed' = passed \cup {item} \/ passed' = passed)
      BY <2>2 DEF DrainConsumed
    <3>2. through' \in 0 .. NumDeposits
      BY <3>1 DEF InboxTypeOK, Deposits
    <3>3. passed' \subseteq Deposits
      BY <3>1 DEF InboxTypeOK
    <3>. QED  BY <2>1, <2>2, <3>2, <3>3 DEF DrainConsumed, InboxTypeOK
  <2>3. CASE DrainFailed(r)
    <3>1. attempts' \in [Deposits -> Nat] /\ backoff' \subseteq Deposits
      <4>1. CASE UNCHANGED <<attempts, backoff>>
        BY <4>1 DEF InboxTypeOK
      <4>2. CASE /\ attempts' = [attempts EXCEPT ![item] = @ + 1]
                 /\ backoff' = IF attempts[item] + 1 >= BackoffAfter THEN backoff \cup {item} ELSE backoff
        BY <4>2 DEF InboxTypeOK
      <4>3. UNCHANGED <<attempts, backoff>>
            \/ /\ attempts' = [attempts EXCEPT ![item] = @ + 1]
               /\ backoff' = IF attempts[item] + 1 >= BackoffAfter THEN backoff \cup {item} ELSE backoff
        BY <2>3, Zenon DEF DrainFailed
      <4>. QED  BY <4>1, <4>2, <4>3
    <3>2. gaps' \subseteq Deposits /\ item' = item + 1 /\ phase' = "item"
      BY <2>3 DEF DrainFailed, Gap, InboxTypeOK
    <3>. QED  BY <2>1, <2>3, <3>1, <3>2 DEF DrainFailed, Gap, InboxTypeOK
  <2>4. CASE DrainQuarantine(r)
    BY <2>1, <2>4 DEF DrainQuarantine, InboxTypeOK
  <2>. QED  BY <1>16, <2>2, <2>3, <2>4
<1>17. CASE Crash
  <2>1. PipelineTypeOK'
    <3>1. DataTypeOK'
      BY <1>17, PipelineAssumption DEF Crash, LoseMemory, At, Fault, PipelineTypeOK, DataTypeOK
    <3>2. WorkerTypeOK'
      BY <1>17 DEF Crash, LoseMemory, At, WorkerTypeOK, Steps
    <3>. QED  BY <3>1, <3>2 DEF PipelineTypeOK
  <2>2. InboxTypeOK'
    <3>1. again' \in BOOLEAN
      BY <1>17, Zenon DEF Crash
    <3>. QED  BY <1>17, <3>1 DEF Crash, Goto, InboxTypeOK
  <2>. QED  BY <2>1, <2>2
<1>. QED
  BY <1>1, <1>2, <1>3, <1>4, <1>5, <1>6, <1>7, <1>8, <1>9, <1>10, <1>11, <1>12, <1>13, <1>14,
     <1>15, <1>16, <1>17 DEF Next, DrainAction

(* The durable inbox is type correct, for every mailbox and every bound. *)
THEOREM TypeCorrect == Spec => []TypeOK
BY InitType, NextType, PTL DEF Spec

-----------------------------------------------------------------------------
(* Nothing is pruned silently.                                              *)

(* What is accounted for stays so: the notices, sessions and used keys only *)
(* grow, and content that leaves one durable place is in another. *)
Grows ==
    /\ notices \subseteq notices' /\ sessions \subseteq sessions' /\ spent \subseteq spent'
    /\ store \cup outbox \cup gaveUp \cup mislaid \subseteq (store \cup outbox \cup gaveUp \cup mislaid)'

LEMMA AccountedStable ==
    ASSUME Grows, NEW d, Accounted(d)
    PROVE  Accounted(d)'
BY DEF Grows, Accounted

(* Steps that leave the job in hand alone keep what is known about it. *)
LEMMA WorkStable ==
    ASSUME WorkBacked, Grows, UNCHANGED <<step, cur, flags, outbox, store, mislaid, gaveUp>>
    PROVE  WorkBacked'
<1>1. (step = "mark" /\ AckSafe => Accounted(cur))'
  BY AccountedStable DEF WorkBacked, AckSafe, DurableUserMessage
<1>. QED  BY <1>1 DEF WorkBacked

(* The result a re-feed holds up stays backed while its job runs. *)
LEMMA HeldUpStable ==
    ASSUME RepliesBacked, Grows, "ok" \in refeed' => "ok" \in refeed, Head(queue') = Head(queue)
    PROVE  ("ok" \in refeed => Accounted(Head(queue).d))'
<1>. SUFFICES ASSUME "ok" \in refeed' PROVE Accounted(Head(queue).d)'
  OBVIOUS
<1>. DEFINE d == Head(queue).d
<1>1. Accounted(d)
  BY DEF RepliesBacked
<1>2. d' = d
  OBVIOUS
<1>3. PICK e : e = d
  OBVIOUS
<1>. HIDE DEF d
<1>4. Accounted(e)'
  BY <1>1, <1>3, AccountedStable
<1>5. Accounted(d)'
  BY <1>2, <1>3, <1>4 DEF Accounted
<1>. QED  BY <1>5 DEF d

(* Steps that only queue a job or take a reply keep the replies backed. *)
LEMMA RepliesStable ==
    ASSUME WorkerTypeOK, RepliesBacked, Grows, UNCHANGED <<step, cur, refeed>>,
           replies' \subseteq replies,
           NEW j \in Jobs, queue' = queue \/ queue' = Append(queue, j)
    PROVE  RepliesBacked'
<1>1. CASE step = "idle"
  <2>1. refeed = {}
    BY <1>1 DEF RepliesBacked
  <2>2. \A r \in replies' : r.src \in {"push", "drain"} /\ r.status = "ok" => Accounted(r.d)'
    BY AccountedStable DEF RepliesBacked
  <2>. QED  BY <1>1, <2>1, <2>2 DEF RepliesBacked
<1>2. CASE step # "idle"
  <2>1. Head(queue') = Head(queue)
    <3>1. queue \in Seq(Jobs) /\ queue # <<>>
      BY <1>2 DEF WorkerTypeOK
    <3>2. Head(Append(queue, j)) = Head(queue)
      BY <3>1, HeadAppend
    <3>. QED  BY <3>2
  <2>2. \A r \in replies' : r.src \in {"push", "drain"} /\ r.status = "ok" => Accounted(r.d)'
    BY AccountedStable DEF RepliesBacked
  <2>3. ("ok" \in refeed => Accounted(Head(queue).d))'
    BY <2>1, HeldUpStable
  <2>. QED  BY <2>1, <2>2, <2>3 DEF RepliesBacked
<1>. QED  BY <1>1, <1>2

(* Steps of the pipeline leave the cursor and the drain where they are. *)
LEMMA InboxStable ==
    ASSUME NoSilentPrune, DrainBacked, Grows, UNCHANGED inboxVars
    PROVE  NoSilentPrune' /\ DrainBacked'
BY AccountedStable DEF NoSilentPrune, DrainBacked, inboxVars, drainVars

(* The markers stay backed when none is added. *)
LEMMA MarkerStable ==
    ASSUME MarkerIsDurable, Grows, processed' \subseteq processed
    PROVE  MarkerIsDurable'
BY AccountedStable DEF MarkerIsDurable

(* A step that leaves no deposit in hand leaves nothing to back. *)
LEMMA NoWork ==
    ASSUME step' \in {"idle", "refeed", "retry"}, flags' = {}
    PROVE  WorkBacked'
BY DEF WorkBacked

(* Resolving the head job with an ack-safe status that is backed. *)
LEMMA ResolveBacked ==
    ASSUME RepliesBacked, Grows, NEW ack, Resolve(ack),
           NEW job, job = Head(queue),
           ack = "ok" /\ job.src \in {"push", "drain"} => Accounted(job.d)'
    PROVE  RepliesBacked' /\ WorkBacked'
<1>1. step' = "idle" /\ flags' = {} /\ refeed' = {}
  BY DEF Resolve, At
<1>2. ASSUME NEW r \in replies', r.src \in {"push", "drain"}, r.status = "ok"
      PROVE  Accounted(r.d)'
  <2>1. CASE r \in replies
    BY <1>2, <2>1, AccountedStable DEF RepliesBacked
  <2>2. CASE r = Reply(job.src, job.d, ack, {})
    BY <1>2, <2>2 DEF Reply
  <2>. QED  BY <1>2, <2>1, <2>2 DEF Resolve
<1>3. RepliesBacked'
  BY <1>1, <1>2 DEF RepliesBacked
<1>. QED  BY <1>1, <1>3, NoWork

(* What follows #processOne: the result is handed to the caller, or held up *)
(* while the retry buffer is re-fed, and it is backed either way. *)
LEMMA ConcludeBacked ==
    ASSUME RepliesBacked, Grows, step \in {"lookup", "mark"}, NEW consumed, NEW already,
           NEW ack, Conclude(cur, consumed, already, ack),
           NEW d, d = cur, ack = "ok" => Accounted(d)'
    PROVE  RepliesBacked' /\ WorkBacked'
<1>1. CASE "on" \notin refeed /\ Resolve(ack)
  <2>1. Head(queue).d = d
    BY <1>1 DEF RepliesBacked
  <2>2. PICK job : job = Head(queue)
    OBVIOUS
  <2>3. ack = "ok" => Accounted(job.d)'
    BY <2>1, <2>2
  <2>. QED  BY <1>1, <2>2, <2>3, ResolveBacked
<1>2. CASE "on" \notin refeed /\ StartRefeed(IF ack = "ok" THEN {"ok"} ELSE {})
  <2>1. /\ step' = "refeed" /\ flags' = {} /\ "on" \in refeed' /\ queue' = queue /\ replies' = replies
        /\ "ok" \in refeed' => ack = "ok"
    BY <1>2 DEF StartRefeed, At
  <2>2. Head(queue).src \in {"push", "drain"} /\ Head(queue).d = cur
    BY <1>2 DEF RepliesBacked
  <2>3. \A r \in replies : r.src \in {"push", "drain"} /\ r.status = "ok" => Accounted(r.d)'
    BY AccountedStable DEF RepliesBacked
  <2>4. ("ok" \in refeed => Accounted(Head(queue).d))'
    BY <2>1, <2>2 DEF Accounted
  <2>5. RepliesBacked'
    BY <2>1, <2>2, <2>3, <2>4 DEF RepliesBacked
  <2>. QED  BY <2>1, <2>5, NoWork
<1>3. CASE "on" \in refeed
  <2>1. /\ step' = "refeed" /\ flags' = {} /\ queue' = queue /\ replies' = replies
        /\ "on" \in refeed' /\ ("ok" \in refeed' => "ok" \in refeed)
    BY <1>3 DEF Conclude, ConcludeRefeed, At
  <2>2. \A r \in replies : r.src \in {"push", "drain"} /\ r.status = "ok" => Accounted(r.d)'
    BY AccountedStable DEF RepliesBacked
  <2>3. ("ok" \in refeed => Accounted(Head(queue).d))'
    BY <2>1, HeldUpStable
  <2>4. RepliesBacked'
    BY <1>3, <2>1, <2>2, <2>3 DEF RepliesBacked
  <2>. QED  BY <2>1, <2>4, NoWork
<1>. QED  BY <1>1, <1>2, <1>3 DEF Conclude, ConcludeSubmit

(* Moving on to the next await with the same job keeps the replies backed. *)
LEMMA RepliesKept ==
    ASSUME RepliesBacked, Grows, UNCHANGED <<queue, replies, refeed>>,
           step \in {"lookup", "stage", "apply", "reconcile", "mark"},
           step' \in {"lookup", "stage", "apply", "reconcile", "mark"}, cur' = cur
    PROVE  RepliesBacked'
<1>1. \A r \in replies : r.src \in {"push", "drain"} /\ r.status = "ok" => Accounted(r.d)'
  BY AccountedStable DEF RepliesBacked
<1>2. ("ok" \in refeed => Accounted(Head(queue).d))'
  BY HeldUpStable
<1>. QED  BY <1>1, <1>2 DEF RepliesBacked

(* An apply that returns leaves the content stored or let go, and one that *)
(* throws changes no store. *)
LEMMA ApplyGrows ==
    ASSUME NEW d, ApplyReturns(d) \/ ApplyThrows(d)
    PROVE  /\ store \subseteq store' /\ mislaid \subseteq mislaid'
           /\ ApplyReturns(d) => d \in store' \cup mislaid'
BY DEF ApplyReturns, ApplyThrows, ApplyMessage, ApplyJoin, SwallowJoin, ApplyGroup

(* Every step of the pipeline keeps what is accounted for, its markers, its *)
(* flags and its replies backed. *)
LEMMA PipelineStepInv ==
    ASSUME TypeOK, IInv, PipelineStep \/ Sweep, notices' = notices
    PROVE  Grows /\ MarkerIsDurable' /\ WorkBacked' /\ RepliesBacked'
<1>. WorkerTypeOK /\ DataTypeOK
  BY DEF TypeOK, PipelineTypeOK
<1>. MarkerIsDurable /\ WorkBacked /\ RepliesBacked
  BY DEF IInv
<1>. USE DEF durableVars, historyVars
<1>1. CASE StartSubmit
  <2>1. Grows /\ MarkerIsDurable'
    BY <1>1, MarkerStable DEF StartSubmit, Grows
  <2>2. WorkBacked'
    BY <1>1 DEF StartSubmit, At, WorkBacked
  <2>3. step = "idle" /\ step' = "lookup" /\ refeed = {} /\ UNCHANGED <<queue, replies, refeed>>
        /\ Head(queue).src \in {"push", "drain"} /\ Head(queue).d = cur'
    BY <1>1 DEF StartSubmit, At, bufferVars, RepliesBacked
  <2>4. \A r \in replies : r.src \in {"push", "drain"} /\ r.status = "ok" => Accounted(r.d)'
    BY <2>1, AccountedStable DEF RepliesBacked
  <2>5. RepliesBacked'
    BY <2>3, <2>4 DEF RepliesBacked
  <2>. QED  BY <2>1, <2>2, <2>5
<1>2. CASE StartSweep
  <2>1. Grows /\ MarkerIsDurable'
    BY <1>2, MarkerStable DEF StartSweep, Grows
  <2>2. CASE Resolve("left")
    BY <2>1, <2>2, ResolveBacked
  <2>3. CASE StartRefeed({})
    <3>1. step' = "refeed" /\ flags' = {} /\ refeed' = {"on"} /\ UNCHANGED <<queue, replies>>
          /\ Head(queue).src = "sweep"
      BY <1>2, <2>3 DEF StartSweep, StartRefeed, At
    <3>2. \A r \in replies : r.src \in {"push", "drain"} /\ r.status = "ok" => Accounted(r.d)'
      BY <2>1, AccountedStable DEF RepliesBacked
    <3>3. RepliesBacked'
      BY <3>1, <3>2 DEF RepliesBacked
    <3>. QED  BY <2>1, <3>1, <3>3, NoWork
  <2>. QED  BY <1>2, <2>1, <2>2, <2>3 DEF StartSweep
<1>3. CASE RefeedEntry
  <2>1. Grows /\ MarkerIsDurable'
    BY <1>3, MarkerStable DEF RefeedEntry, Grows
  <2>2. WorkBacked'
    BY <1>3 DEF RefeedEntry, At, WorkBacked
  <2>3. /\ step' = "lookup" /\ step = "refeed" /\ UNCHANGED <<queue, replies, refeed>>
        /\ "on" \in refeed
    BY <1>3 DEF RefeedEntry, At, RepliesBacked
  <2>4. \A r \in replies : r.src \in {"push", "drain"} /\ r.status = "ok" => Accounted(r.d)'
    BY <2>1, AccountedStable DEF RepliesBacked
  <2>5. ("ok" \in refeed => Accounted(Head(queue).d))'
    BY <2>1, <2>3, HeldUpStable
  <2>6. RepliesBacked'
    BY <2>3, <2>4, <2>5 DEF RepliesBacked
  <2>. QED  BY <2>1, <2>2, <2>6
<1>4. CASE RefeedPass
  <2>1. Grows /\ MarkerIsDurable'
    BY <1>4, MarkerStable DEF RefeedPass, Grows
  <2>2. WorkBacked'
    BY <1>4, <2>1, WorkStable DEF RefeedPass, workVars
  <2>3. /\ step = "refeed" /\ UNCHANGED <<step, cur, queue, replies>>
        /\ "on" \in refeed /\ "on" \in refeed' /\ ("ok" \in refeed' => "ok" \in refeed)
    BY <1>4 DEF RefeedPass, workVars, RepliesBacked
  <2>4. \A r \in replies : r.src \in {"push", "drain"} /\ r.status = "ok" => Accounted(r.d)'
    BY <2>1, AccountedStable DEF RepliesBacked
  <2>5. ("ok" \in refeed => Accounted(Head(queue).d))'
    BY <2>1, <2>3, HeldUpStable
  <2>6. RepliesBacked'
    BY <2>3, <2>4, <2>5 DEF RepliesBacked
  <2>. QED  BY <2>1, <2>2, <2>6
<1>5. CASE RefeedDone
  <2>1. Grows /\ MarkerIsDurable'
    BY <1>5, MarkerStable DEF RefeedDone, Grows
  <2>2. PICK job : job = Head(queue)
    OBVIOUS
  <2>3. CASE "ok" \in refeed
    <3>1. Accounted(job.d)
      BY <2>2, <2>3 DEF RepliesBacked
    <3>2. Accounted(job.d)'
      BY <2>1, <3>1, AccountedStable
    <3>. QED  BY <1>5, <2>1, <2>2, <2>3, <3>2, ResolveBacked DEF RefeedDone
  <2>4. CASE "ok" \notin refeed
    BY <1>5, <2>1, <2>4, ResolveBacked DEF RefeedDone
  <2>. QED  BY <2>3, <2>4
<1>6. CASE SkipProcessed
  <2>1. Grows /\ MarkerIsDurable'
    BY <1>6, MarkerStable DEF SkipProcessed, Grows
  <2>2. PICK d : d = cur
    OBVIOUS
  <2>3. Accounted(d)
    BY <1>6, <2>2 DEF SkipProcessed, MarkerIsDurable
  <2>4. Accounted(d)'
    BY <2>1, <2>3, AccountedStable
  <2>. QED  BY <1>6, <2>1, <2>2, <2>4, ConcludeBacked DEF SkipProcessed
<1>7. CASE ProcessDeposit
  <2>1. Grows /\ MarkerIsDurable'
    BY <1>7, MarkerStable DEF ProcessDeposit, Grows
  <2>2. WorkBacked'
    <3>1. CASE Kind[cur] = "handshake"
      BY <1>7, <3>1 DEF ProcessDeposit, Decryptable, Content, At, WorkBacked, AckSafe, Accounted
    <3>2. CASE Kind[cur] = "control"
      BY <1>7, <3>2 DEF ProcessDeposit, Decryptable, Content, At, WorkBacked, AckSafe, Accounted
    <3>3. CASE Kind[cur] \notin {"handshake", "control"} /\ Decryptable(cur)
      BY <1>7, <3>3 DEF ProcessDeposit, Decryptable, Content, At, WorkBacked, AckSafe, Accounted
    <3>4. CASE Kind[cur] \notin {"handshake", "control"} /\ ~Decryptable(cur)
      BY <1>7, <3>4 DEF ProcessDeposit, At, WorkBacked, AckSafe
    <3>. QED  BY <3>1, <3>2, <3>3, <3>4
  <2>3. RepliesBacked'
    BY <1>7, <2>1, RepliesKept DEF ProcessDeposit, At, bufferVars
  <2>. QED  BY <2>1, <2>2, <2>3
<1>8. CASE ProtocolThrows
  <2>1. Grows /\ MarkerIsDurable'
    BY <1>8, MarkerStable DEF ProtocolThrows, Grows
  <2>2. WorkBacked'
    BY <1>8 DEF ProtocolThrows, At, WorkBacked, AckSafe
  <2>3. RepliesBacked'
    BY <1>8, <2>1, RepliesKept DEF ProtocolThrows, At, bufferVars
  <2>. QED  BY <2>1, <2>2, <2>3
<1>9. CASE Stage
  <2>1. Grows /\ MarkerIsDurable'
    BY <1>9, MarkerStable DEF Stage, Grows
  <2>2. WorkBacked'
    BY <1>9 DEF Stage, At, WorkBacked
  <2>3. RepliesBacked'
    BY <1>9, <2>1, RepliesKept DEF Stage, At, bufferVars
  <2>. QED  BY <2>1, <2>2, <2>3
<1>10. CASE Apply
  <2>. cur \in Deposits /\ "user" \in flags /\ "applied" \notin flags /\ Kind[cur] \in Content
    BY <1>10 DEF Apply, WorkBacked, WorkerTypeOK
  <2>1. store \subseteq store' /\ mislaid \subseteq mislaid'
    BY <1>10, ApplyGrows DEF Apply
  <2>2. Grows /\ MarkerIsDurable'
    BY <1>10, <2>1, MarkerStable DEF Apply, Grows
  <2>3. WorkBacked'
    <3>1. CASE At(AfterApply, cur, flags \cup {"applied"}) /\ ApplyReturns(cur)
      <4>1. cur \in store' \cup mislaid'
        BY <3>1, ApplyGrows
      <4>. QED  BY <1>10, <3>1, <4>1 DEF Apply, At, AfterApply, WorkBacked, Accounted
    <3>2. CASE At(AfterApply, cur, flags)
      BY <1>10, <3>2 DEF Apply, At, AfterApply, WorkBacked, AckSafe, DurableUserMessage
    <3>. QED  BY <1>10, <3>1, <3>2 DEF Apply
  <2>4. RepliesBacked'
    BY <1>10, <2>2, RepliesKept DEF Apply, At, AfterApply, bufferVars
  <2>. QED  BY <2>2, <2>3, <2>4
<1>11. CASE Reconcile
  <2>. /\ "user" \in flags /\ "staged" \in flags /\ Kind[cur] \in Content /\ cur \in outbox
       /\ "applied" \in flags => cur \in store \cup mislaid
    BY <1>11 DEF Reconcile, WorkBacked
  <2>1. Grows
    BY <1>11 DEF Reconcile, Grows
  <2>2. MarkerIsDurable'
    BY <1>11, <2>1, MarkerStable DEF Reconcile
  <2>3. (Accounted(cur))'
    BY <1>11 DEF Reconcile, At, Accounted
  <2>4. WorkBacked'
    BY <1>11, <2>3 DEF Reconcile, At, WorkBacked
  <2>5. RepliesBacked'
    BY <1>11, <2>1, RepliesKept DEF Reconcile, At, bufferVars
  <2>. QED  BY <2>1, <2>2, <2>4, <2>5
<1>12. CASE MarkAndReturn
  <2>1. Grows
    BY <1>12 DEF MarkAndReturn, Grows
  <2>2. PICK d : d = cur
    OBVIOUS
  <2>3. AckSafe => Accounted(d)'
    <3>1. AckSafe => Accounted(d)
      BY <1>12, <2>2 DEF MarkAndReturn, WorkBacked
    <3>. QED  BY <2>1, <3>1, AccountedStable
  <2>4. MarkerIsDurable'
    <3>1. ShouldMark => AckSafe
      BY DEF ShouldMark, AckSafe, WorkBacked
    <3>2. processed' \subseteq processed \/ (ShouldMark /\ processed' = processed \cup {d})
      BY <1>12, <2>2 DEF MarkAndReturn
    <3>3. \A e \in processed : Accounted(e)'
      BY <2>1, AccountedStable DEF MarkerIsDurable
    <3>. QED  BY <2>3, <3>1, <3>2, <3>3 DEF MarkerIsDurable
  <2>5. RepliesBacked' /\ WorkBacked'
    <3>1. PICK st : st = IF AckSafe THEN "ok" ELSE "left"
      OBVIOUS
    <3>2. Conclude(cur, "consumed" \in flags, FALSE, st)
      BY <1>12, <3>1 DEF MarkAndReturn
    <3>3. st = "ok" => Accounted(d)'
      BY <2>3, <3>1
    <3>4. step \in {"lookup", "mark"}
      BY <1>12 DEF MarkAndReturn
    <3>. QED  BY <2>1, <2>2, <3>2, <3>3, <3>4, ConcludeBacked
  <2>. QED  BY <2>1, <2>4, <2>5
<1>13. CASE StartRetry
  <2>1. Grows /\ MarkerIsDurable'
    BY <1>13, MarkerStable DEF StartRetry, Grows
  <2>2. step = "idle" /\ step' = "retry" /\ flags' = {} /\ refeed' = refeed /\ refeed = {}
        /\ UNCHANGED <<queue, replies>> /\ Head(queue).src = "outbox"
    BY <1>13 DEF StartRetry, At, bufferVars, RepliesBacked
  <2>3. \A r \in replies : r.src \in {"push", "drain"} /\ r.status = "ok" => Accounted(r.d)'
    BY <2>1, AccountedStable DEF RepliesBacked
  <2>4. RepliesBacked'
    BY <2>2, <2>3 DEF RepliesBacked
  <2>. QED  BY <2>1, <2>2, <2>4, NoWork
<1>14. CASE Unstage
  <2>. cur \in store \cup mislaid \cup gaveUp
    BY <1>14 DEF Unstage, WorkBacked
  <2>1. Grows
    BY <1>14 DEF Unstage, Grows
  <2>2. MarkerIsDurable'
    BY <1>14, <2>1, MarkerStable DEF Unstage
  <2>3. step = "unstage" /\ step' = "retry" /\ flags' = {} /\ refeed' = refeed
        /\ UNCHANGED <<queue, replies>>
    BY <1>14 DEF Unstage, At, bufferVars
  <2>4. \A r \in replies : r.src \in {"push", "drain"} /\ r.status = "ok" => Accounted(r.d)'
    BY <2>1, AccountedStable DEF RepliesBacked
  <2>5. RepliesBacked'
    BY <2>3, <2>4 DEF RepliesBacked
  <2>. QED  BY <2>1, <2>2, <2>3, <2>5, NoWork
<1>15. CASE RetryDone
  <2>1. Grows /\ MarkerIsDurable'
    BY <1>15, MarkerStable DEF RetryDone, Grows
  <2>2. step' = "idle" /\ flags' = {} /\ refeed' = {}
        /\ replies' = replies \cup {Reply("outbox", 0, "ok", dropped)}
    BY <1>15 DEF RetryDone, At, bufferVars, RepliesBacked
  <2>3. ASSUME NEW r \in replies', r.src \in {"push", "drain"}, r.status = "ok"
        PROVE  Accounted(r.d)'
    BY <2>1, <2>2, <2>3, AccountedStable DEF RepliesBacked, Reply
  <2>4. RepliesBacked'
    BY <2>2, <2>3 DEF RepliesBacked
  <2>. QED  BY <2>1, <2>2, <2>4, NoWork
<1>16. ASSUME NEW d \in Deposits, RetryApplies(d) \/ RetryFails(d) \/ RetryGivesUp(d)
       PROVE  Grows /\ MarkerIsDurable' /\ WorkBacked' /\ RepliesBacked'
  <2>1. ApplyReturns(d) \/ ApplyThrows(d)
    BY <1>16 DEF RetryApplies, RetryFails, RetryGivesUp
  <2>2. store \subseteq store' /\ mislaid \subseteq mislaid' /\ (ApplyReturns(d) => d \in store' \cup mislaid')
    BY <2>1, ApplyGrows
  <2>3. Grows
    BY <1>16, <2>2 DEF RetryApplies, RetryFails, RetryGivesUp, Grows
  <2>4. MarkerIsDurable'
    BY <1>16, <2>3, MarkerStable DEF RetryApplies, RetryFails, RetryGivesUp
  <2>5. WorkBacked'
    <3>1. CASE RetryApplies(d)
      BY <2>2, <3>1 DEF RetryApplies, At, WorkBacked
    <3>2. CASE RetryFails(d)
      BY <3>2 DEF RetryFails, workVars, WorkBacked
    <3>3. CASE RetryGivesUp(d)
      BY <3>3 DEF RetryGivesUp, At, WorkBacked
    <3>. QED  BY <1>16, <3>1, <3>2, <3>3
  <2>6. RepliesBacked'
    <3>1. step = "retry" /\ step' \in {"retry", "unstage"} /\ UNCHANGED <<queue, replies, refeed>>
      BY <1>16 DEF RetryApplies, RetryFails, RetryGivesUp, At, workVars, bufferVars
    <3>2. \A r \in replies : r.src \in {"push", "drain"} /\ r.status = "ok" => Accounted(r.d)'
      BY <2>3, AccountedStable DEF RepliesBacked
    <3>. QED  BY <3>1, <3>2 DEF RepliesBacked
  <2>. QED  BY <2>3, <2>4, <2>5, <2>6
<1>17. CASE Sweep
  <2>1. Grows /\ MarkerIsDurable'
    BY <1>17, MarkerStable DEF Sweep, Grows
  <2>2. WorkBacked'
    BY <1>17, <2>1, WorkStable DEF Sweep, workVars
  <2>3. RepliesBacked'
    BY <1>17, <2>1, JobType, RepliesStable DEF Sweep, workVars, bufferVars
  <2>. QED  BY <2>1, <2>2, <2>3
<1>. QED
  BY <1>1, <1>2, <1>3, <1>4, <1>5, <1>6, <1>7, <1>8, <1>9, <1>10, <1>11, <1>12, <1>13, <1>14,
     <1>15, <1>16, <1>17 DEF PipelineStep

(* Init establishes the inductive invariant. *)
LEMMA InitInv == Init => IInv
<1>. SUFFICES ASSUME Init PROVE IInv
  OBVIOUS
<1>1. NoSilentPrune /\ DrainBacked
  BY DEF Init, NoSilentPrune, DrainBacked
<1>2. MarkerIsDurable
  BY DEF Init, PipelineInit, MarkerIsDurable
<1>3. WorkBacked
  BY DEF Init, PipelineInit, WorkBacked
<1>4. RepliesBacked
  BY DEF Init, PipelineInit, RepliesBacked
<1>. QED  BY <1>1, <1>2, <1>3, <1>4 DEF IInv

(* Steps of the node, the push bridge and the drain leave the pipeline's part *)
(* of the invariant alone: they queue jobs, take replies and drop markers. *)
LEMMA SubmitInv ==
    ASSUME TypeOK, IInv, notices \subseteq notices', processed' \subseteq processed,
           replies' \subseteq replies, NEW j \in Jobs, queue' = queue \/ queue' = Append(queue, j),
           UNCHANGED <<sessions, spent, outbox, store, gaveUp, mislaid, step, cur, flags, refeed>>
    PROVE  Grows /\ MarkerIsDurable' /\ WorkBacked' /\ RepliesBacked'
<1>1. Grows
  BY DEF Grows
<1>2. WorkerTypeOK
  BY DEF TypeOK, PipelineTypeOK
<1>3. MarkerIsDurable /\ WorkBacked /\ RepliesBacked
  BY DEF IInv
<1>. QED  BY <1>1, <1>2, <1>3, MarkerStable, WorkStable, RepliesStable

(* What backs the drain's watermark stays when the drain is not what moves. *)
LEMMA DrainStable ==
    ASSUME IInv, Grows, UNCHANGED <<cursor, drainVars>>
    PROVE  NoSilentPrune' /\ DrainBacked'
<1>1. notices \subseteq notices'
  BY DEF Grows
<1>. QED  BY <1>1, AccountedStable DEF IInv, NoSilentPrune, DrainBacked, drainVars

(* Starting or ending a pass leaves no watermark behind. *)
LEMMA PassBacked ==
    ASSUME InboxTypeOK, IInv, Grows, RequestDrain \/ EndPass, UNCHANGED cursor
    PROVE  NoSilentPrune' /\ DrainBacked'
<1>1. NoSilentPrune'
  BY AccountedStable DEF IInv, NoSilentPrune
<1>2. CASE UNCHANGED drainVars
  BY <1>2, DrainStable
<1>3. CASE phase' \in {"off", "outbox"} /\ through' = 0
  BY <1>1, <1>3 DEF DrainBacked
<1>. QED  BY <1>1, <1>2, <1>3 DEF RequestDrain, EndPass, Goto

(* Every step preserves the inductive invariant. *)
LEMMA NextInv == TypeOK /\ IInv /\ [Next]_vars => IInv'
<1>. SUFFICES ASSUME TypeOK, IInv, [Next]_vars
              PROVE  NoSilentPrune' /\ MarkerIsDurable' /\ WorkBacked' /\ RepliesBacked' /\ DrainBacked'
  BY DEF IInv
<1>. InboxTypeOK
  BY TypeSplit
<1>. USE DEF pipelineVars, durableVars, memoryVars, historyVars
<1>1. CASE UNCHANGED vars
  <2>1. Grows /\ MarkerIsDurable' /\ WorkBacked' /\ RepliesBacked'
    BY <1>1, JobType, SubmitInv DEF vars, inboxVars, workVars, bufferVars
  <2>. QED  BY <1>1, <2>1, DrainStable DEF vars, inboxVars
<1>2. CASE Deposit
  <2>1. Grows /\ MarkerIsDurable' /\ WorkBacked' /\ RepliesBacked'
    BY <1>2, JobType, SubmitInv DEF Deposit, workVars, bufferVars
  <2>. QED  BY <1>2, <2>1, DrainStable DEF Deposit
<1>3. ASSUME NEW d \in Deposits, Push(d)
      PROVE  NoSilentPrune' /\ MarkerIsDurable' /\ WorkBacked' /\ RepliesBacked' /\ DrainBacked'
  <2>1. Grows /\ MarkerIsDurable' /\ WorkBacked' /\ RepliesBacked'
    BY <1>3, JobType, SubmitInv DEF Push, workVars, bufferVars
  <2>. QED  BY <1>3, <2>1, DrainStable DEF Push
<1>4. ASSUME NEW d \in Deposits, BackoffExpires(d)
      PROVE  NoSilentPrune' /\ MarkerIsDurable' /\ WorkBacked' /\ RepliesBacked' /\ DrainBacked'
  <2>1. Grows /\ MarkerIsDurable' /\ WorkBacked' /\ RepliesBacked'
    BY <1>4, JobType, SubmitInv DEF BackoffExpires, workVars, bufferVars
  <2>. QED  BY <1>4, <2>1, DrainStable DEF BackoffExpires
<1>5. ASSUME NEW r \in replies, PushSettled(r)
      PROVE  NoSilentPrune' /\ MarkerIsDurable' /\ WorkBacked' /\ RepliesBacked' /\ DrainBacked'
  <2>1. RequestDrain \/ UNCHANGED <<queue, drainVars, again>>
    BY <1>5 DEF PushSettled
  <2>2. queue' = queue \/ queue' = Append(queue, Job("outbox", 0))
    BY <2>1, DrainPassType
  <2>3. Grows /\ MarkerIsDurable' /\ WorkBacked' /\ RepliesBacked'
    BY <1>5, <2>2, JobType, SubmitInv DEF PushSettled, workVars, bufferVars
  <2>. QED  BY <1>5, <2>1, <2>3, PassBacked, DrainStable DEF PushSettled
<1>6. CASE Trigger
  <2>1. queue' = queue \/ queue' = Append(queue, Job("outbox", 0))
    BY <1>6, DrainPassType DEF Trigger
  <2>2. Grows /\ MarkerIsDurable' /\ WorkBacked' /\ RepliesBacked'
    BY <1>6, <2>1, JobType, SubmitInv DEF Trigger, workVars, bufferVars
  <2>. QED  BY <1>6, <2>2, PassBacked DEF Trigger
<1>7. CASE PipelineAction
  <2>1. Grows /\ MarkerIsDurable' /\ WorkBacked' /\ RepliesBacked'
    BY <1>7, PipelineStepInv DEF PipelineAction, inboxVars
  <2>. QED  BY <1>7, <2>1, InboxStable DEF PipelineAction, IInv
<1>8. CASE DrainList
  <2>1. EndPass \/ (Goto("item", cursor + 1, MinOf(arrived, cursor + PageLimit)) /\ UNCHANGED <<queue, again>>)
    BY <1>8 DEF DrainList
  <2>2. queue' = queue \/ queue' = Append(queue, Job("outbox", 0))
    BY <2>1, DrainPassType
  <2>3. Grows /\ MarkerIsDurable' /\ WorkBacked' /\ RepliesBacked'
    BY <1>8, <2>2, JobType, SubmitInv DEF DrainList, workVars, bufferVars
  <2>4. NoSilentPrune'
    BY <1>8, <2>3, AccountedStable DEF DrainList, IInv, NoSilentPrune
  <2>5. CASE EndPass
    BY <1>8, <2>3, <2>5, PassBacked DEF DrainList
  <2>6. CASE Goto("item", cursor + 1, MinOf(arrived, cursor + PageLimit))
    <3>1. /\ phase' = "item" /\ item' = cursor + 1 /\ through' = 0 /\ cursor' = cursor /\ cursor \in Nat
      BY <1>8, <2>6 DEF Goto, DrainList, InboxTypeOK
    <3>2. item' - 1 = cursor'
      BY <3>1
    <3>. QED  BY <2>3, <2>4, <3>1, <3>2 DEF DrainBacked, NoSilentPrune
  <2>. QED  BY <2>1, <2>3, <2>5, <2>6
<1>9. CASE DrainListFails
  <2>1. Grows /\ MarkerIsDurable' /\ WorkBacked' /\ RepliesBacked'
    BY <1>9, JobType, SubmitInv DEF DrainListFails, workVars, bufferVars
  <2>2. NoSilentPrune'
    BY <1>9, <2>1, AccountedStable DEF DrainListFails, IInv, NoSilentPrune
  <2>3. DrainBacked'
    BY <1>9 DEF DrainListFails, Goto, DrainBacked
  <2>. QED  BY <2>1, <2>2, <2>3
<1>10. CASE DrainItem
  <2>1. item \in Deposits
    BY <1>10 DEF DrainItem, InboxTypeOK, Deposits
  <2>2. Grows /\ MarkerIsDurable' /\ WorkBacked' /\ RepliesBacked'
    BY <1>10, <2>1, JobType, SubmitInv DEF DrainItem, workVars, bufferVars
  <2>3. NoSilentPrune'
    BY <1>10, <2>2, AccountedStable DEF DrainItem, IInv, NoSilentPrune
  <2>4. /\ phase' # "skip" /\ through' = through /\ phase = "item"
        /\ gaps' = {} => item' = item /\ gaps = {}
    BY <1>10 DEF DrainItem, Gap
  <2>5. DrainBacked'
    BY <2>2, <2>4, AccountedStable DEF DrainBacked, IInv
  <2>. QED  BY <2>2, <2>3, <2>5
<1>11. CASE DrainSkip
  <2>1. Grows /\ MarkerIsDurable' /\ WorkBacked' /\ RepliesBacked'
    BY <1>11, JobType, SubmitInv DEF DrainSkip, workVars, bufferVars
  <2>2. NoSilentPrune'
    BY <1>11, <2>1, AccountedStable DEF DrainSkip, IInv, NoSilentPrune
  <2>3. DrainBacked'
    <3>1. item \in Nat /\ Accounted(item)
      BY <1>11 DEF DrainSkip, IInv, DrainBacked, Accounted, InboxTypeOK
    <3>2. gaps = {} => \A d \in 1 .. item : Accounted(d)
      BY <1>11, <3>1 DEF DrainSkip, IInv, DrainBacked
    <3>3. gaps = {} => \A d \in 1 .. item : Accounted(d)'
      BY <2>1, <3>2, AccountedStable
    <3>4. \A d \in 1 .. through : Accounted(d)'
      BY <2>1, AccountedStable DEF IInv, DrainBacked
    <3>5. phase' = "item" /\ item' - 1 = item /\ gaps' = gaps /\ through' = IF gaps = {} THEN item ELSE through
      BY <1>11, <3>1 DEF DrainSkip
    <3>. QED  BY <3>3, <3>4, <3>5 DEF DrainBacked
  <2>. QED  BY <2>1, <2>2, <2>3
<1>12. CASE DrainAck
  <2>1. Grows /\ MarkerIsDurable' /\ WorkBacked' /\ RepliesBacked'
    BY <1>12, JobType, SubmitInv DEF DrainAck, workVars, bufferVars
  <2>2. (\A d \in 1 .. through : Accounted(d)') /\ (\A d \in 1 .. cursor : Accounted(d)')
    BY <2>1, AccountedStable DEF IInv, DrainBacked, NoSilentPrune
  <2>3. NoSilentPrune'
    BY <1>12, <2>2 DEF DrainAck, NoSilentPrune
  <2>4. DrainBacked'
    BY <1>12, <2>2 DEF DrainAck, DrainBacked
  <2>. QED  BY <2>1, <2>3, <2>4
<1>13. CASE DrainAckFails
  <2>1. queue' = queue \/ queue' = Append(queue, Job("outbox", 0))
    BY <1>13, DrainPassType DEF DrainAckFails
  <2>2. Grows /\ MarkerIsDurable' /\ WorkBacked' /\ RepliesBacked'
    BY <1>13, <2>1, JobType, SubmitInv DEF DrainAckFails, workVars, bufferVars
  <2>. QED  BY <1>13, <2>2, PassBacked DEF DrainAckFails
<1>14. CASE DrainForget
  <2>1. EndPass \/ (Goto("list", 1, 0) /\ UNCHANGED <<queue, again>>)
    BY <1>14 DEF DrainForget
  <2>2. queue' = queue \/ queue' = Append(queue, Job("outbox", 0))
    BY <2>1, DrainPassType
  <2>3. Grows /\ MarkerIsDurable' /\ WorkBacked' /\ RepliesBacked'
    BY <1>14, <2>2, JobType, SubmitInv DEF DrainForget, workVars, bufferVars
  <2>4. NoSilentPrune'
    BY <1>14, <2>3, AccountedStable DEF DrainForget, IInv, NoSilentPrune
  <2>5. CASE EndPass
    BY <1>14, <2>3, <2>5, PassBacked DEF DrainForget
  <2>6. CASE Goto("list", 1, 0)
    BY <2>3, <2>4, <2>6 DEF Goto, DrainBacked
  <2>. QED  BY <2>1, <2>3, <2>5, <2>6
<1>15. ASSUME NEW r \in replies, DrainSurface(r)
       PROVE  NoSilentPrune' /\ MarkerIsDurable' /\ WorkBacked' /\ RepliesBacked' /\ DrainBacked'
  <2>1. Grows /\ MarkerIsDurable' /\ WorkBacked' /\ RepliesBacked'
    BY <1>15, JobType, SubmitInv DEF DrainSurface, workVars, bufferVars
  <2>2. NoSilentPrune'
    BY <1>15, <2>1, AccountedStable DEF DrainSurface, IInv, NoSilentPrune
  <2>3. DrainBacked'
    BY <1>15 DEF DrainSurface, Goto, DrainBacked
  <2>. QED  BY <2>1, <2>2, <2>3
<1>16. ASSUME NEW r \in replies, DrainConsumed(r)
       PROVE  NoSilentPrune' /\ MarkerIsDurable' /\ WorkBacked' /\ RepliesBacked' /\ DrainBacked'
  <2>1. Grows /\ MarkerIsDurable' /\ WorkBacked' /\ RepliesBacked'
    BY <1>16, JobType, SubmitInv DEF DrainConsumed, workVars, bufferVars
  <2>2. NoSilentPrune'
    BY <1>16, <2>1, AccountedStable DEF DrainConsumed, IInv, NoSilentPrune
  <2>3. DrainBacked'
    <3>1. item \in Nat /\ Accounted(item)
      BY <1>16 DEF DrainConsumed, IInv, RepliesBacked, InboxTypeOK
    <3>2. gaps = {} => \A d \in 1 .. item : Accounted(d)
      BY <1>16, <3>1 DEF DrainConsumed, IInv, DrainBacked
    <3>3. gaps = {} => \A d \in 1 .. item : Accounted(d)'
      BY <2>1, <3>2, AccountedStable
    <3>4. \A d \in 1 .. through : Accounted(d)'
      BY <2>1, AccountedStable DEF IInv, DrainBacked
    <3>5. phase' = "item" /\ item' - 1 = item /\ gaps' = gaps /\ through' = IF gaps = {} THEN item ELSE through
      BY <1>16, <3>1 DEF DrainConsumed
    <3>. QED  BY <3>3, <3>4, <3>5 DEF DrainBacked
  <2>. QED  BY <2>1, <2>2, <2>3
<1>17. ASSUME NEW r \in replies, DrainFailed(r) \/ DrainQuarantine(r)
       PROVE  NoSilentPrune' /\ MarkerIsDurable' /\ WorkBacked' /\ RepliesBacked' /\ DrainBacked'
  <2>1. Grows /\ MarkerIsDurable' /\ WorkBacked' /\ RepliesBacked'
    BY <1>17, JobType, SubmitInv DEF DrainFailed, DrainQuarantine, workVars, bufferVars
  <2>2. NoSilentPrune'
    BY <1>17, <2>1, AccountedStable DEF DrainFailed, DrainQuarantine, IInv, NoSilentPrune
  <2>3. \A d \in 1 .. through : Accounted(d)'
    BY <2>1, AccountedStable DEF IInv, DrainBacked
  <2>4. CASE DrainFailed(r)
    BY <2>1, <2>2, <2>3, <2>4 DEF DrainFailed, Gap, DrainBacked
  <2>5. CASE DrainQuarantine(r)
    <3>1. /\ phase = "await" /\ phase' = "skip" /\ item \in notices'
          /\ UNCHANGED <<item, through, gaps>>
      BY <2>5 DEF DrainQuarantine
    <3>2. gaps = {} => \A d \in 1 .. item - 1 : Accounted(d)'
      BY <2>1, <3>1, AccountedStable DEF IInv, DrainBacked
    <3>. QED  BY <2>1, <2>2, <2>3, <3>1, <3>2 DEF DrainBacked
  <2>. QED  BY <1>17, <2>4, <2>5
<1>18. CASE Crash
  <2>1. Grows
    BY <1>18 DEF Crash, LoseMemory, Grows
  <2>2. NoSilentPrune' /\ MarkerIsDurable'
    BY <1>18, <2>1, AccountedStable DEF Crash, LoseMemory, IInv, NoSilentPrune, MarkerIsDurable
  <2>3. WorkBacked'
    BY <1>18, NoWork DEF Crash, LoseMemory, At
  <2>4. RepliesBacked'
    BY <1>18 DEF Crash, LoseMemory, At, RepliesBacked
  <2>5. DrainBacked'
    BY <1>18 DEF Crash, Goto, DrainBacked
  <2>. QED  BY <2>2, <2>3, <2>4, <2>5
<1>. QED
  BY <1>1, <1>2, <1>3, <1>4, <1>5, <1>6, <1>7, <1>8, <1>9, <1>10, <1>11, <1>12, <1>13, <1>14,
     <1>15, <1>16, <1>17, <1>18 DEF Next, DrainAction

(* IInv is an invariant of the durable inbox. *)
THEOREM Inductive == Spec => []IInv
<1>1. Init => TypeOK /\ IInv
  BY InitType, InitInv
<1>2. (TypeOK /\ IInv) /\ [Next]_vars => (TypeOK /\ IInv)'
  BY NextType, NextInv
<1>. QED  BY <1>1, <1>2, PTL DEF Spec

(* The cursor never passes a deposit that is not accounted for: for every *)
(* mailbox, however push, drain, re-feed, faults and crashes interleave. *)
THEOREM PruneSafe == Spec => []NoSilentPrune
<1>1. IInv => NoSilentPrune
  BY DEF IInv
<1>. QED  BY <1>1, Inductive, PTL

(* A dedup marker stands only on a deposit that is accounted for, so a dedup *)
(* hit in #processOne is always ack-safe. *)
THEOREM MarkerSafe == Spec => []MarkerIsDurable
<1>1. IInv => MarkerIsDurable
  BY DEF IInv
<1>. QED  BY <1>1, Inductive, PTL

(* Whatever will never be looked at again, by the node behind the cursor or *)
(* by this device behind a marker, is accounted for. *)
THEOREM CoveredSafe == Spec => []CoveredIsAccounted
<1>1. IInv => CoveredIsAccounted
  BY DEF IInv, CoveredIsAccounted
<1>. QED  BY <1>1, Inductive, PTL

-----------------------------------------------------------------------------
(* The promise about each piece of mail: where mail can be.                 *)

LEMMA SeqGrows ==
    ASSUME NEW S, NEW T, S \subseteq T, NEW s \in Seq(S)
    PROVE  s \in Seq(T)
OBVIOUS

HereJobs == {j \in Jobs : j.d <= arrived}

(* A chain of jobs that have arrived grows by such jobs, and loses its head. *)
LEMMA QueueHere ==
    ASSUME queue \in Seq(HereJobs), NEW j \in HereJobs,
           queue' = queue \/ queue' = Append(queue, j) \/ (queue # <<>> /\ queue' = Tail(queue)),
           UNCHANGED arrived
    PROVE  queue' \in Seq(HereJobs)' /\ HereJobs' = HereJobs
<1>1. HereJobs' = HereJobs
  BY DEF HereJobs
<1>2. queue' \in Seq(HereJobs)
  OBVIOUS
<1>. QED  BY <1>1, <1>2

LEMMA RetainedHere ==
    ASSUME retained \in Seq(Here), NEW d \in Here, Retain(d) \/ Release(d)
    PROVE  retained' \in Seq(Here)
<1>1. CASE Release(d)
  BY <1>1, WithoutType DEF Release
<1>2. CASE Retain(d) /\ d \in Elements(retained)
  BY <1>2 DEF Retain
<1>3. CASE Retain(d) /\ d \notin Elements(retained) /\ Len(retained) >= MaxPending
  <2>1. retained # <<>> /\ Len(retained) \in Nat
    BY <1>3
  <2>2. Tail(retained) \in Seq(Here)
    BY <2>1
  <2>3. retained' = Append(Tail(retained), d)
    BY <1>3 DEF Retain
  <2>. QED  BY <2>2, <2>3
<1>4. CASE Retain(d) /\ d \notin Elements(retained) /\ ~(Len(retained) >= MaxPending)
  <2>1. retained' = Append(retained, d)
    BY <1>4 DEF Retain
  <2>. QED  BY <2>1
<1>. QED  BY <1>1, <1>2, <1>3, <1>4

(* Handing over a result, or re-feeding, leaves only what has arrived. *)
LEMMA ConcludeHere ==
    ASSUME TypeOK, InTransit, step # "idle", cur \in Deposits, NEW consumed, NEW already, NEW ack,
           Conclude(cur, consumed, already, ack), UNCHANGED arrived
    PROVE  /\ queue' \in Seq(HereJobs)' /\ todo' \in Seq(Here) /\ retained' \in Seq(Here)
           /\ cur' = 0 /\ step' \in {"idle", "refeed"}
           /\ \A r \in replies' : r \in replies \/ r.gone = {}
<1>1. /\ queue \in Seq(HereJobs) /\ queue # <<>> /\ cur \in Here /\ retained \in Seq(Here)
      /\ todo \in Seq(Here) /\ arrived \in Nat
  BY DEF TypeOK, PipelineTypeOK, WorkerTypeOK, InTransit, HereJobs, Here, Deposits
<1>2. retained' \in Seq(Here)
  BY <1>1, RetainedHere DEF Conclude, ConcludeSubmit, ConcludeRefeed
<1>3. queue' = queue \/ queue' = Tail(queue)
  BY DEF Conclude, ConcludeSubmit, ConcludeRefeed, Resolve, StartRefeed
<1>4. queue' \in Seq(HereJobs)'
  <2>1. HereJobs' = HereJobs
    BY DEF HereJobs
  <2>2. queue' \in Seq(HereJobs)
    <3>1. Tail(queue) \in Seq(HereJobs)
      BY <1>1
    <3>. QED  BY <1>1, <1>3, <3>1
  <2>. QED  BY <2>1, <2>2
<1>5. todo' \in Seq(Here)
  <2>1. todo' \in {todo, <<>>, retained'}
    BY DEF Conclude, ConcludeSubmit, ConcludeRefeed, Resolve, StartRefeed
  <2>2. <<>> \in Seq(Here)
    OBVIOUS
  <2>. QED  BY <1>1, <1>2, <2>1, <2>2
<1>. QED  BY <1>2, <1>4, <1>5
          DEF Conclude, ConcludeSubmit, ConcludeRefeed, Resolve, StartRefeed, At, Reply

(* No step of the pipeline handles what has not arrived. *)
LEMMA PipelineTransit ==
    ASSUME TypeOK, InTransit, OpenedOnce, RetryIsOfOutbox, PipelineStep \/ Sweep,
           UNCHANGED <<arrived, last, pushable, notices>>
    PROVE  InTransit'
<1>1. /\ queue \in Seq(HereJobs) /\ retained \in Seq(Here) /\ todo \in Seq(Here)
      /\ cur <= arrived /\ 0 <= arrived
      /\ cur \in Deposits => cur \in Here
  BY DEF TypeOK, PipelineTypeOK, WorkerTypeOK, InTransit, HereJobs, Here, Deposits
<1>2. Here' = Here /\ HereJobs' = HereJobs
  BY DEF Here, HereJobs
<1>3. SUFFICES /\ queue' \in Seq(HereJobs) /\ retained' \in Seq(Here) /\ todo' \in Seq(Here)
               /\ cur' <= arrived /\ spent' \subseteq Here
  BY <1>2 DEF InTransit, HereJobs, Here
<1>. queue # <<>> => Head(queue) \in HereJobs /\ Tail(queue) \in Seq(HereJobs)
  BY <1>1
<1>. spent \subseteq Here /\ <<>> \in Seq(Here)
  BY DEF InTransit
<1>. USE <1>1 DEF pipelineVars, durableVars, workVars, bufferVars, retryVars, memoryVars, historyVars
<1>4. CASE StartSubmit
  BY <1>4 DEF StartSubmit, At, HereJobs
<1>5. CASE StartSweep
  BY <1>5 DEF StartSweep, Resolve, StartRefeed, At
<1>6. CASE RefeedEntry
  <2>1. Head(todo) \in Here /\ Tail(todo) \in Seq(Here)
    BY <1>6 DEF RefeedEntry
  <2>. QED  BY <1>6, <2>1 DEF RefeedEntry, At, Here
<1>7. CASE RefeedPass \/ RefeedDone
  <2>1. queue # <<>>
    BY <1>7 DEF RefeedPass, RefeedDone, TypeOK, PipelineTypeOK, WorkerTypeOK
  <2>2. /\ queue' \in {queue, Tail(queue)} /\ UNCHANGED <<retained, spent>>
        /\ todo' \in {retained, <<>>} /\ cur' \in {0, cur}
    BY <1>7 DEF RefeedPass, RefeedDone, Resolve, At
  <2>3. queue' \in Seq(HereJobs) /\ retained' \in Seq(Here) /\ todo' \in Seq(Here)
    BY <2>1, <2>2
  <2>4. cur' <= arrived /\ spent' \subseteq Here
    BY <2>2
  <2>. QED  BY <2>3, <2>4
<1>8. CASE SkipProcessed
  <2>1. cur \in Deposits
    BY <1>8 DEF SkipProcessed, TypeOK, PipelineTypeOK, WorkerTypeOK
  <2>2. UNCHANGED spent /\ step # "idle" /\ Conclude(cur, TRUE, TRUE, "ok")
    BY <1>8 DEF SkipProcessed
  <2>. QED  BY <1>2, <2>1, <2>2, ConcludeHere
<1>9. CASE ProcessDeposit
  <2>1. cur \in Here
    BY <1>9 DEF ProcessDeposit, TypeOK, PipelineTypeOK, WorkerTypeOK
  <2>2. /\ UNCHANGED <<queue, retained, todo>> /\ cur' = cur
        /\ spent' = spent \/ spent' = spent \cup {cur}
    BY <1>9 DEF ProcessDeposit, At
  <2>3. spent' \subseteq Here
    BY <2>1, <2>2
  <2>4. cur' <= arrived
    BY <2>2
  <2>. QED  BY <2>2, <2>3, <2>4
<1>10. CASE ProtocolThrows \/ Stage \/ Apply \/ Reconcile \/ Unstage
  BY <1>10 DEF ProtocolThrows, Stage, Apply, Reconcile, Unstage, At
<1>11. CASE MarkAndReturn
  <2>1. cur \in Deposits
    BY <1>11 DEF MarkAndReturn, TypeOK, PipelineTypeOK, WorkerTypeOK
  <2>2. /\ UNCHANGED spent /\ step # "idle"
        /\ Conclude(cur, "consumed" \in flags, FALSE, IF AckSafe THEN "ok" ELSE "left")
    BY <1>11 DEF MarkAndReturn
  <2>. QED  BY <1>2, <2>1, <2>2, ConcludeHere
<1>12. CASE StartRetry \/ RetryDone
  <2>1. queue' = queue \/ (queue # <<>> /\ queue' = Tail(queue))
    BY <1>12 DEF StartRetry, RetryDone, TypeOK, PipelineTypeOK, WorkerTypeOK
  <2>. QED  BY <1>12, <2>1 DEF StartRetry, RetryDone, At
<1>13. ASSUME NEW d \in Deposits, RetryApplies(d) \/ RetryGivesUp(d) \/ RetryFails(d)
       PROVE  /\ UNCHANGED <<queue, retained, todo, spent>>
              /\ cur' \in {cur, d}
  BY <1>13 DEF RetryApplies, RetryGivesUp, RetryFails, At
<1>14. CASE \E d \in Deposits : RetryApplies(d) \/ RetryGivesUp(d) \/ RetryFails(d)
  <2>1. PICK d \in Deposits : RetryApplies(d) \/ RetryGivesUp(d) \/ RetryFails(d)
    BY <1>14
  <2>2. d \in retryTodo
    BY <2>1 DEF RetryApplies, RetryGivesUp, RetryFails
  <2>3. d \in Here
    BY <2>2 DEF RetryIsOfOutbox, OpenedOnce
  <2>4. d <= arrived
    BY <2>3 DEF Here
  <2>5. UNCHANGED <<queue, retained, todo, spent>> /\ cur' \in {cur, d}
    BY <1>13, <2>1
  <2>. QED  BY <2>4, <2>5
<1>15. CASE Sweep
  <2>1. Job("sweep", 0) \in HereJobs
    BY JobType DEF HereJobs, Job
  <2>. QED  BY <1>15, <2>1 DEF Sweep
<1>. QED  BY <1>4, <1>5, <1>6, <1>7, <1>8, <1>9, <1>10, <1>11, <1>12, <1>14, <1>15
          DEF PipelineStep

(* What an apply stores, lets go or holds back was decrypted before. *)
LEMMA ApplyOpened ==
    ASSUME TypeOK, OpenedOnce, NEW d \in Deposits, d \in spent, ApplyReturns(d) \/ ApplyThrows(d)
    PROVE  store' \cup mislaid' \subseteq spent /\ held' \in [Peers -> Seq(spent)]
<1>. Peer[d] \in Peers /\ held \in [Peers -> Seq(spent)] /\ store \cup mislaid \subseteq spent
  BY DEF OpenedOnce
<1>1. CASE ApplyMessage(d)
  BY <1>1 DEF ApplyMessage
<1>2. CASE ApplyJoin(d)
  <2>1. Elements(held[Peer[d]]) \subseteq spent
    BY ElementsType
  <2>2. store' \subseteq spent
    BY <1>2, <2>1 DEF ApplyJoin
  <2>. QED  BY <1>2, <2>2 DEF ApplyJoin
<1>3. CASE SwallowJoin(d)
  BY <1>3 DEF SwallowJoin
<1>4. CASE ApplyGroup(d)
  <2>1. held' \in [Peers -> Seq(spent)]
    <3>. held[Peer[d]] \in Seq(spent) /\ Len(held[Peer[d]]) \in Nat
      OBVIOUS
    <3>1. CASE Defer(d) /\ Len(held[Peer[d]]) >= MaxHeld
      <4>1. Tail(held[Peer[d]]) \in Seq(spent)
        BY <3>1
      <4>2. Append(Tail(held[Peer[d]]), d) \in Seq(spent)
        BY <4>1
      <4>3. held' = [held EXCEPT ![Peer[d]] = Append(Tail(held[Peer[d]]), d)]
        BY <3>1 DEF Defer
      <4>. QED  BY <4>2, <4>3
    <3>2. CASE Defer(d) /\ ~(Len(held[Peer[d]]) >= MaxHeld)
      BY <3>2 DEF Defer
    <3>. QED  BY <1>4, <3>1, <3>2 DEF ApplyGroup
  <2>. QED  BY <1>4, <2>1 DEF ApplyGroup
<1>5. CASE ApplyThrows(d)
  BY <1>5 DEF ApplyThrows
<1>. QED  BY <1>1, <1>2, <1>3, <1>4, <1>5 DEF ApplyReturns

(* What one step may do to where mail is: nothing but the outbox is left, what *)
(* leaves it is somewhere else, what enters it was nowhere but in a notice, and *)
(* what is given up was in it. *)
MailStep ==
    /\ store \subseteq store' /\ notices \subseteq notices'
    /\ gaveUp \subseteq gaveUp' /\ mislaid \subseteq mislaid'
    /\ outbox \ outbox' \subseteq store \cup gaveUp \cup mislaid
    /\ (outbox' \ outbox) \cap (store \cup gaveUp \cup mislaid) = {}
    /\ gaveUp' \ gaveUp \subseteq outbox \cap outbox'
    /\ store' \cup outbox' \cup notices' \cup gaveUp' \cup mislaid' \subseteq Here
    /\ arrived' \in {arrived, arrived + 1}

(* What is decrypted once is staged once, and the retry works on the outbox. *)
LEMMA PipelineMoves ==
    ASSUME TypeOK, IInv, TrailIsTrue, PipelineStep \/ Sweep, UNCHANGED <<arrived, notices>>
    PROVE  OpenedOnce' /\ RetryIsOfOutbox' /\ MailStep
<1>. DEFINE Kept == outbox \cup store \cup gaveUp \cup mislaid
<1>1. /\ Kept \cup dropped \subseteq spent /\ spent \subseteq Here /\ notices \subseteq Here
      /\ held \in [Peers -> Seq(spent)]
      /\ \A r \in replies : r.gone \subseteq spent
      /\ step \notin {"idle", "refeed", "retry"} => cur \in Deposits
  BY DEF TrailIsTrue, InTransit, OpenedOnce, TypeOK, PipelineTypeOK, WorkerTypeOK
<1>. USE DEF pipelineVars, durableVars, workVars, bufferVars, retryVars, memoryVars, historyVars
(* Steps that leave the stores alone. *)
<1>2. ASSUME UNCHANGED <<outbox, store, gaveUp, mislaid, spent, held>>,
             retryTodo' = retryTodo, dropped' = dropped,
             \A r \in replies' : r \in replies \/ r.gone \subseteq spent,
             step' \in {"idle", "lookup", "mark", "refeed"},
             step \notin {"retry", "unstage"} \/ step' = step
      PROVE  OpenedOnce' /\ RetryIsOfOutbox' /\ MailStep
  <2>1. OpenedOnce'
    BY <1>1, <1>2 DEF OpenedOnce
  <2>2. RetryIsOfOutbox'
    BY <1>2 DEF RetryIsOfOutbox, TrailIsTrue
  <2>. QED  BY <1>1, <1>2, <2>1, <2>2 DEF MailStep
<1>3. CASE StartSubmit \/ StartSweep \/ RefeedEntry \/ RefeedPass \/ RefeedDone \/ ProtocolThrows
  <2>1. /\ UNCHANGED <<outbox, store, gaveUp, mislaid, spent, held, retryTodo, dropped>>
        /\ step' \in {"idle", "lookup", "mark", "refeed"}
        /\ step \notin {"retry", "unstage"}
    BY <1>3 DEF StartSubmit, StartSweep, RefeedEntry, RefeedPass, RefeedDone, ProtocolThrows,
                Resolve, StartRefeed, At
  <2>2. \A r \in replies' : r \in replies \/ r.gone = {}
    BY <1>3 DEF StartSubmit, StartSweep, RefeedEntry, RefeedPass, RefeedDone, ProtocolThrows,
                Resolve, StartRefeed, Reply
  <2>. QED  BY <1>2, <2>1, <2>2
<1>4. CASE SkipProcessed \/ MarkAndReturn
  <2>1. /\ UNCHANGED <<outbox, store, gaveUp, mislaid, spent, held, retryTodo, dropped>>
        /\ step \in {"lookup", "mark"}
    BY <1>4 DEF SkipProcessed, MarkAndReturn
  <2>2. step' \in {"idle", "refeed"} /\ \A r \in replies' : r \in replies \/ r.gone = {}
    BY <1>1, <1>4, <2>1, ConcludeHere DEF SkipProcessed, MarkAndReturn, TrailIsTrue
  <2>. QED  BY <1>2, <2>1, <2>2
<1>5. CASE ProcessDeposit
  <2>1. /\ UNCHANGED <<outbox, store, gaveUp, mislaid, held, retryTodo, dropped, replies>>
        /\ step = "lookup" /\ step' \in {"stage", "mark"} /\ cur' = cur
        /\ spent' = spent \/ (spent' = spent \cup {cur} /\ cur \notin spent)
        /\ step' = "stage" => cur \in spent' /\ cur \notin spent
    BY <1>5 DEF ProcessDeposit, At, Decryptable
  <2>2. held' \in [Peers -> Seq(spent')]
    <3>1. \A p \in Peers : held[p] \in Seq(spent')
      BY <1>1, <2>1, SeqGrows
    <3>. QED  BY <1>1, <2>1, <3>1
  <2>3. OpenedOnce'
    BY <1>1, <2>1, <2>2 DEF OpenedOnce
  <2>4. RetryIsOfOutbox'
    BY <2>1 DEF TrailIsTrue, RetryIsOfOutbox
  <2>. QED  BY <1>1, <2>1, <2>3, <2>4 DEF MailStep
<1>6. CASE Stage
  <2>1. /\ UNCHANGED <<store, gaveUp, mislaid, held, retryTodo, dropped, replies, spent>>
        /\ step = "stage" /\ step' = "apply" /\ cur' = cur
        /\ outbox' = outbox \/ outbox' = outbox \cup {cur}
    BY <1>6 DEF Stage, At
  <2>2. cur \in spent /\ cur \notin Kept
    BY <2>1 DEF TrailIsTrue, OpenedOnce
  <2>3. OpenedOnce'
    BY <1>1, <2>1, <2>2 DEF OpenedOnce
  <2>4. RetryIsOfOutbox'
    BY <2>1 DEF TrailIsTrue, RetryIsOfOutbox
  <2>. QED  BY <1>1, <2>1, <2>2, <2>3, <2>4 DEF MailStep
<1>7. CASE Apply
  <2>1. /\ UNCHANGED <<outbox, gaveUp, retryTodo, dropped, replies, spent>>
        /\ step = "apply" /\ step' \in {"reconcile", "mark"} /\ cur' = cur
        /\ ApplyReturns(cur) \/ ApplyThrows(cur)
    BY <1>7 DEF Apply, At, AfterApply
  <2>2. cur \in spent /\ cur \in Deposits
    BY <1>1, <2>1 DEF TrailIsTrue, OpenedOnce
  <2>3. store' \cup mislaid' \subseteq spent /\ held' \in [Peers -> Seq(spent)]
    BY <2>1, <2>2, ApplyOpened DEF TrailIsTrue
  <2>4. store \subseteq store' /\ mislaid \subseteq mislaid'
    BY <2>1, ApplyGrows
  <2>5. OpenedOnce'
    BY <1>1, <2>1, <2>2, <2>3 DEF OpenedOnce
  <2>6. RetryIsOfOutbox'
    BY <2>1 DEF TrailIsTrue, RetryIsOfOutbox
  <2>. QED  BY <1>1, <2>1, <2>3, <2>4, <2>5, <2>6 DEF MailStep
<1>8. CASE Reconcile
  <2>1. /\ UNCHANGED <<store, gaveUp, mislaid, held, retryTodo, dropped, replies, spent>>
        /\ step = "reconcile" /\ step' = "mark" /\ cur' = cur
        /\ outbox' = outbox \/ ("applied" \in flags /\ outbox' = outbox \ {cur})
    BY <1>8 DEF Reconcile, At
  <2>2. "applied" \in flags => cur \in store \cup mislaid
    BY <2>1 DEF IInv, WorkBacked
  <2>3. OpenedOnce'
    BY <1>1, <2>1 DEF OpenedOnce
  <2>4. RetryIsOfOutbox'
    BY <2>1 DEF TrailIsTrue, RetryIsOfOutbox
  <2>. QED  BY <1>1, <2>1, <2>2, <2>3, <2>4 DEF MailStep
<1>9. CASE Unstage
  <2>1. /\ UNCHANGED <<store, gaveUp, mislaid, held, retryTodo, dropped, replies, spent>>
        /\ step = "unstage" /\ step' = "retry"
        /\ outbox' = outbox \/ outbox' = outbox \ {cur}
    BY <1>9 DEF Unstage, At
  <2>2. cur \in store \cup mislaid \cup gaveUp /\ cur \notin retryTodo
    BY <2>1 DEF IInv, WorkBacked, TrailIsTrue, RetryIsOfOutbox
  <2>3. OpenedOnce'
    BY <1>1, <2>1 DEF OpenedOnce
  <2>4. RetryIsOfOutbox'
    BY <2>1, <2>2 DEF TrailIsTrue, RetryIsOfOutbox
  <2>. QED  BY <1>1, <2>1, <2>2, <2>3, <2>4 DEF MailStep
<1>10. CASE StartRetry \/ RetryDone
  <2>1. /\ UNCHANGED <<outbox, store, gaveUp, mislaid, held, spent>>
        /\ retryTodo' \in {{}, outbox} /\ step' \in {"retry", "idle"}
        /\ retryTodo' = {} \/ step' = "retry"
        /\ dropped' = {}
    BY <1>10 DEF StartRetry, RetryDone, At
  <2>2. \A r \in replies' : r \in replies \/ r.gone = dropped
    BY <1>10 DEF StartRetry, RetryDone, Reply
  <2>3. OpenedOnce'
    BY <1>1, <2>1, <2>2 DEF OpenedOnce
  <2>4. RetryIsOfOutbox'
    BY <2>1 DEF TrailIsTrue, RetryIsOfOutbox
  <2>. QED  BY <1>1, <2>1, <2>3, <2>4 DEF MailStep
<1>11. ASSUME NEW d \in Deposits, RetryApplies(d) \/ RetryFails(d) \/ RetryGivesUp(d)
       PROVE  OpenedOnce' /\ RetryIsOfOutbox' /\ MailStep
  <2>1. /\ UNCHANGED <<outbox, spent, replies>> /\ step = "retry" /\ d \in retryTodo
        /\ retryTodo' = retryTodo \ {d}
        /\ \/ step' = "unstage" /\ cur' = d
           \/ step' = "retry"
        /\ ApplyReturns(d) \/ ApplyThrows(d)
        /\ \/ UNCHANGED <<gaveUp, dropped>>
           \/ gaveUp' = gaveUp \cup {d} /\ dropped' = dropped \cup {d}
    BY <1>11 DEF RetryApplies, RetryFails, RetryGivesUp, At
  <2>2. d \in outbox /\ d \in spent
    BY <1>1, <2>1 DEF TrailIsTrue, RetryIsOfOutbox
  <2>3. store' \cup mislaid' \subseteq spent /\ held' \in [Peers -> Seq(spent)]
    BY <2>1, <2>2, ApplyOpened DEF TrailIsTrue
  <2>4. store \subseteq store' /\ mislaid \subseteq mislaid'
    BY <2>1, ApplyGrows
  <2>5. OpenedOnce'
    BY <1>1, <2>1, <2>2, <2>3 DEF OpenedOnce
  <2>6. RetryIsOfOutbox'
    BY <2>1 DEF TrailIsTrue, RetryIsOfOutbox
  <2>. QED  BY <1>1, <2>1, <2>2, <2>3, <2>4, <2>5, <2>6 DEF MailStep
<1>12. CASE Sweep
  <2>1. UNCHANGED <<outbox, store, gaveUp, mislaid, spent, held, retryTodo, dropped, replies, step, cur>>
    BY <1>12 DEF Sweep
  <2>2. OpenedOnce'
    BY <2>1 DEF OpenedOnce, TrailIsTrue
  <2>3. RetryIsOfOutbox'
    BY <2>1 DEF TrailIsTrue, RetryIsOfOutbox
  <2>. QED  BY <1>1, <2>1, <2>2, <2>3 DEF MailStep
<1>. QED  BY <1>3, <1>4, <1>5, <1>6, <1>7, <1>8, <1>9, <1>10, <1>11, <1>12 DEF PipelineStep

(* The submitters: they append jobs of what has arrived, and take replies. *)
LEMMA InboxMoves ==
    ASSUME TypeOK, TrailIsTrue,
           UNCHANGED <<outbox, store, gaveUp, mislaid, spent, held, retryTodo, dropped, step, cur,
                       todo, retained, arrived>>,
           NEW j \in HereJobs, queue' = queue \/ queue' = Append(queue, j),
           replies' \subseteq replies, pushable' \subseteq pushable, last' <= arrived,
           notices \subseteq notices', notices' \subseteq Here
    PROVE  TrailIsTrue' /\ MailStep
<1>1. OpenedOnce' /\ RetryIsOfOutbox'
  BY DEF TrailIsTrue, OpenedOnce, RetryIsOfOutbox
<1>2. queue' \in Seq(HereJobs)' /\ HereJobs' = HereJobs
  <2>1. queue \in Seq(HereJobs)
    BY DEF TrailIsTrue, InTransit, HereJobs
  <2>. QED  BY <2>1, QueueHere
<1>3. InTransit'
  <2>1. Here' = Here
    BY DEF Here
  <2>2. queue' \in Seq({k \in Jobs : k.d <= arrived'})
    BY <1>2 DEF HereJobs
  <2>3. /\ todo' \in Seq(Here') /\ retained' \in Seq(Here') /\ cur' <= arrived' /\ last' <= arrived'
        /\ pushable' \cup notices' \cup spent' \subseteq Here'
    BY <2>1 DEF TrailIsTrue, InTransit
  <2>. QED  BY <2>2, <2>3 DEF InTransit
<1>4. MailStep
  <2>1. outbox \cup store \cup gaveUp \cup mislaid \subseteq Here
    BY DEF TrailIsTrue, OpenedOnce, InTransit
  <2>. QED  BY <2>1 DEF MailStep
<1>. QED  BY <1>1, <1>3, <1>4 DEF TrailIsTrue

(* Every step keeps mail where it can be, and moves the cursor alone or not. *)
LEMMA NextTrail ==
    ASSUME TypeOK, IInv, TrailIsTrue, [Next]_vars
    PROVE  /\ TrailIsTrue' /\ MailStep
           /\ \/ UNCHANGED cursor
              \/ /\ UNCHANGED <<store, outbox, notices, gaveUp, mislaid, arrived>>
                 /\ cursor' \in cursor + 1 .. NumDeposits
<1>1. /\ arrived \in 0 .. NumDeposits /\ arrived \in Nat /\ last <= arrived /\ notices \subseteq Here
      /\ pushable \subseteq Here /\ cursor \in Nat
  BY DEF TypeOK, TrailIsTrue, InTransit
<1>2. Job("outbox", 0) \in HereJobs
  BY <1>1, JobType DEF HereJobs, Job
<1>3. \A d \in Here : d \in Deposits /\ Job("push", d) \in HereJobs /\ Job("drain", d) \in HereJobs
  <2>1. Here \subseteq Deposits /\ \A d \in Here : d <= arrived
    BY <1>1 DEF Here, Deposits
  <2>2. \A d \in Here : Job("push", d).d = d /\ Job("drain", d).d = d
    BY DEF Job
  <2>. QED  BY <2>1, <2>2, JobType DEF HereJobs
<1>. USE DEF pipelineVars, durableVars, workVars, bufferVars, retryVars, memoryVars, historyVars, drainVars
(* Requesting a drain, and ending a pass, queue an outbox retry at most. *)
<1>4. ASSUME RequestDrain \/ EndPass
      PROVE  /\ queue' = queue \/ queue' = Append(queue, Job("outbox", 0))
             /\ last' \in {0, last}
  BY <1>4 DEF RequestDrain, EndPass, Goto
<1>5. CASE Deposit
  <2>1. /\ arrived' = arrived + 1 /\ pushable' = pushable \cup {arrived + 1}
        /\ UNCHANGED <<outbox, store, gaveUp, mislaid, spent, held, retryTodo, dropped, step, cur,
                       todo, retained, queue, replies, last, notices, cursor>>
    BY <1>5 DEF Deposit
  <2>2. Here \subseteq Here' /\ arrived + 1 \in Here'
    BY <1>1, <2>1 DEF Here
  <2>3. HereJobs \subseteq HereJobs'
    <3>1. \A k \in Jobs : k.d \in 0 .. NumDeposits
      BY DEF Jobs, Deposits
    <3>. QED  BY <1>1, <2>1, <3>1 DEF HereJobs
  <2>4. todo' \in Seq(Here') /\ retained' \in Seq(Here')
    BY <2>1, <2>2, SeqGrows DEF TrailIsTrue, InTransit
  <2>5. queue' \in Seq(HereJobs')
    <3>1. queue \in Seq(HereJobs)
      BY DEF TrailIsTrue, InTransit, HereJobs
    <3>2. queue \in Seq(HereJobs')
      BY <2>3, <3>1, SeqGrows
    <3>. QED  BY <2>1, <3>2
  <2>6. cur' <= arrived' /\ last' <= arrived'
    <3>1. cur \in 0 .. NumDeposits /\ last \in 0 .. NumDeposits /\ cur <= arrived /\ last <= arrived
      BY DEF TypeOK, PipelineTypeOK, WorkerTypeOK, TrailIsTrue, InTransit
    <3>. QED  BY <1>1, <2>1, <3>1
  <2>7. pushable' \cup notices' \cup spent' \subseteq Here'
    BY <2>1, <2>2 DEF TrailIsTrue, InTransit
  <2>8. InTransit'
    BY <2>4, <2>5, <2>6, <2>7 DEF InTransit, HereJobs
  <2>9. OpenedOnce' /\ RetryIsOfOutbox'
    BY <2>1 DEF TrailIsTrue, OpenedOnce, RetryIsOfOutbox
  <2>10. MailStep
    <3>1. outbox \cup store \cup gaveUp \cup mislaid \cup notices \subseteq Here
      BY DEF TrailIsTrue, OpenedOnce, InTransit
    <3>. QED  BY <2>1, <3>1 DEF MailStep
  <2>. QED  BY <2>1, <2>8, <2>9, <2>10 DEF TrailIsTrue
<1>6. ASSUME NEW d \in Deposits, Push(d) \/ BackoffExpires(d)
      PROVE  TrailIsTrue' /\ MailStep /\ UNCHANGED cursor
  <2>1. CASE Push(d)
    <3>1. d \in Here
      BY <1>1, <2>1 DEF Push
    <3>. QED  BY <1>1, <1>3, <2>1, <3>1, InboxMoves DEF Push
  <2>2. CASE BackoffExpires(d)
    BY <1>1, <1>2, <2>2, InboxMoves DEF BackoffExpires
  <2>. QED  BY <1>6, <2>1, <2>2
<1>7. ASSUME NEW r \in replies, PushSettled(r)
      PROVE  TrailIsTrue' /\ MailStep /\ UNCHANGED cursor
  <2>1. /\ queue' = queue \/ queue' = Append(queue, Job("outbox", 0))
        /\ last' \in {0, last}
    BY <1>4, <1>7 DEF PushSettled
  <2>. QED  BY <1>1, <1>2, <1>7, <2>1, InboxMoves DEF PushSettled
<1>8. CASE Trigger
  BY <1>1, <1>2, <1>4, <1>8, InboxMoves DEF Trigger
<1>9. CASE PipelineAction
  <2>1. /\ PipelineStep \/ Sweep
        /\ UNCHANGED <<arrived, last, pushable, notices, cursor>>
    BY <1>9 DEF PipelineAction, inboxVars
  <2>. QED  BY <2>1, PipelineTransit, PipelineMoves DEF TrailIsTrue
<1>10. CASE DrainList
  <2>1. last' <= arrived
    <3>1. CASE cursor = arrived
      BY <1>1, <1>4, <1>10, <3>1 DEF DrainList
    <3>2. CASE cursor # arrived
      BY <1>1, <1>10, <3>2 DEF DrainList, Goto, MinOf
    <3>. QED  BY <3>1, <3>2
  <2>2. queue' = queue \/ queue' = Append(queue, Job("outbox", 0))
    BY <1>4, <1>10 DEF DrainList
  <2>. QED  BY <1>1, <1>2, <1>10, <2>1, <2>2, InboxMoves DEF DrainList
<1>11. CASE DrainListFails
  BY <1>1, <1>2, <1>11, InboxMoves DEF DrainListFails, Goto
<1>12. CASE DrainItem
  <2>1. item \in Here
    BY <1>1, <1>12 DEF DrainItem, TypeOK, Here
  <2>. QED  BY <1>1, <1>3, <1>12, <2>1, InboxMoves DEF DrainItem, Gap
<1>13. CASE DrainSkip \/ DrainAck
  <2>1. TrailIsTrue' /\ MailStep
    BY <1>1, <1>2, <1>13, InboxMoves DEF DrainSkip, DrainAck
  <2>2. cursor' # cursor => /\ UNCHANGED <<store, outbox, notices, gaveUp, mislaid, arrived>>
                            /\ cursor' = through /\ through > cursor
    BY <1>13 DEF DrainSkip, DrainAck
  <2>3. through \in 0 .. NumDeposits
    BY DEF TypeOK
  <2>. QED  BY <1>1, <2>1, <2>2, <2>3
<1>14. CASE DrainAckFails \/ DrainForget
  <2>1. /\ queue' = queue \/ queue' = Append(queue, Job("outbox", 0))
        /\ last' \in {0, last}
    BY <1>4, <1>14 DEF DrainAckFails, DrainForget, Goto
  <2>. QED  BY <1>1, <1>2, <1>14, <2>1, InboxMoves DEF DrainAckFails, DrainForget
<1>15. ASSUME NEW r \in replies, DrainSurface(r) \/ DrainConsumed(r) \/ DrainFailed(r) \/ DrainQuarantine(r)
       PROVE  TrailIsTrue' /\ MailStep /\ UNCHANGED cursor
  <2>1. CASE DrainSurface(r)
    <3>1. r.gone \subseteq Here
      BY DEF TrailIsTrue, OpenedOnce, InTransit
    <3>. QED  BY <1>1, <1>2, <2>1, <3>1, InboxMoves DEF DrainSurface, Goto
  <2>2. CASE DrainConsumed(r) \/ DrainFailed(r)
    BY <1>1, <1>2, <2>2, InboxMoves DEF DrainConsumed, DrainFailed, Gap
  <2>3. CASE DrainQuarantine(r)
    <3>1. item \in Here
      BY <1>1, <2>3 DEF DrainQuarantine, TypeOK, Here
    <3>. QED  BY <1>1, <1>2, <2>3, <3>1, InboxMoves DEF DrainQuarantine
  <2>. QED  BY <1>15, <2>1, <2>2, <2>3
<1>16. CASE Crash
  <2>1. /\ queue' = <<>> /\ todo' = <<>> /\ retained' = <<>> /\ cur' = 0 /\ last' = 0
        /\ step' = "idle" /\ retryTodo' = {} /\ dropped' = {} /\ replies' = {}
        /\ held' = [p \in Peers |-> <<>>]
        /\ UNCHANGED <<outbox, store, gaveUp, mislaid, spent, notices, arrived, cursor, pushable>>
    BY <1>16 DEF Crash, LoseMemory, At, Goto
  <2>2. InTransit'
    <3>1. Here' = Here /\ \A S : <<>> \in Seq(S)
      BY <2>1 DEF Here
    <3>2. pushable' \cup notices' \cup spent' \subseteq Here'
      BY <2>1, <3>1 DEF TrailIsTrue, InTransit
    <3>. QED  BY <1>1, <2>1, <3>1, <3>2 DEF InTransit
  <2>3. OpenedOnce' /\ RetryIsOfOutbox'
    BY <2>1 DEF TrailIsTrue, OpenedOnce, RetryIsOfOutbox
  <2>4. outbox \cup store \cup gaveUp \cup mislaid \cup notices \subseteq Here
    BY DEF TrailIsTrue, OpenedOnce, InTransit
  <2>. QED  BY <2>1, <2>2, <2>3, <2>4 DEF TrailIsTrue, MailStep
<1>17. CASE UNCHANGED vars
  BY <1>1, <1>2, <1>17, InboxMoves DEF vars, inboxVars
<1>. QED  BY <1>5, <1>6, <1>7, <1>8, <1>9, <1>10, <1>11, <1>12, <1>13, <1>14, <1>15, <1>16, <1>17
          DEF Next, DrainAction, DrainList, DrainListFails, DrainItem, DrainSkip, DrainAck,
              DrainAckFails, DrainForget, Trigger

-----------------------------------------------------------------------------
(* The promise is kept: every step moves mail as MailPromise allows.        *)

LEMMA InitTrail == Init => TrailIsTrue
<1>. SUFFICES ASSUME Init PROVE TrailIsTrue
  OBVIOUS
<1>1. InTransit
  <2>1. \A S : <<>> \in Seq(S)
    OBVIOUS
  <2>. QED  BY <2>1 DEF Init, PipelineInit, InTransit, Here
<1>. QED  BY <1>1 DEF Init, PipelineInit, TrailIsTrue, OpenedOnce, RetryIsOfOutbox

(* The fate of one piece of mail in a step that moves mail. *)
LEMMA FateMoves ==
    ASSUME MailStep, NEW d \in Deposits, arrived \in Nat, FateOf(d)' # FateOf(d)
    PROVE  FateOf(d)' \in Promise!MayBecome(FateOf(d))
<1>1. CASE d > arrived
  <2>1. d \notin store' \cup outbox' \cup notices' \cup gaveUp' \cup mislaid'
    BY <1>1 DEF MailStep, Here
  <2>2. d \notin store \cup outbox \cup notices \cup gaveUp \cup mislaid
    BY <2>1 DEF MailStep
  <2>3. FateOf(d) = "expected"
    BY <1>1, <2>2 DEF FateOf, Deposits
  <2>4. FateOf(d)' \in {"expected", "waiting"}
    BY <2>1 DEF FateOf
  <2>. QED  BY <2>3, <2>4 DEF Promise!MayBecome
<1>2. CASE d <= arrived
  <2>1. d <= arrived'
    BY <1>2 DEF MailStep, Deposits
  <2>2. FateOf(d) = "waiting" => FateOf(d)' \in {"waiting", "secured", "delivered", "surfaced", "deferred"}
    BY <1>2, <2>1 DEF FateOf, MailStep
  <2>3. FateOf(d) = "secured" => FateOf(d)' \in {"secured", "delivered", "surfaced", "abandoned", "deferred"}
    BY <1>2, <2>1 DEF FateOf, MailStep
  <2>4. FateOf(d) = "deferred" => FateOf(d)' \in {"deferred", "delivered", "surfaced"}
    BY <1>2, <2>1 DEF FateOf, MailStep
  <2>5. FateOf(d) = "surfaced" => FateOf(d)' \in {"surfaced", "secured", "delivered"}
    BY <1>2, <2>1 DEF FateOf, MailStep
  <2>6. FateOf(d) = "abandoned" => FateOf(d)' \in {"abandoned", "surfaced", "delivered"}
    BY <1>2, <2>1 DEF FateOf, MailStep
  <2>7. FateOf(d) = "delivered" => FateOf(d)' = "delivered"
    BY <1>2, <2>1 DEF FateOf, MailStep
  <2>8. FateOf(d) \in {"waiting", "secured", "delivered", "surfaced", "abandoned", "deferred"}
    BY <1>2 DEF FateOf
  <2>. QED  BY <2>2, <2>3, <2>4, <2>5, <2>6, <2>7, <2>8 DEF Promise!MayBecome
<1>. QED  BY <1>1, <1>2 DEF Deposits

LEMMA FateTyped == \A d \in Deposits : FateOf(d) \in Promise!Fates /\ FateOf(d)' \in Promise!Fates
BY DEF FateOf, Promise!Fates

LEMMA PromiseStep ==
    ASSUME TypeOK, IInv, IInv', TypeOK', TrailIsTrue, [Next]_vars
    PROVE  [Promise!Next]_(Promise!vars)
<1>. DEFINE AllMail == {d \in 1 .. NumDeposits : IsMail[d]}
            fate == [d \in {e \in Deposits : IsMail[e]} |-> FateOf(d)]
<1>1. AllMail = {e \in Deposits : IsMail[e]} /\ Promise!Mail = AllMail /\ AllMail \subseteq Deposits
  BY DEF Deposits, Promise!Mail
<1>2. MailStep /\ arrived \in Nat
  BY NextTrail DEF TypeOK
<1>3. CASE UNCHANGED cursor
  <2>1. fate' \in [Promise!Mail -> Promise!Fates]
    BY <1>1, FateTyped
  <2>2. \A d \in Promise!Mail : fate'[d] # fate[d] => fate'[d] \in Promise!MayBecome(fate[d])
    BY <1>1, <1>2, FateMoves
  <2>. QED  BY <1>3, <2>1, <2>2 DEF Promise!Next, Promise!Move
<1>4. CASE cursor' # cursor
  <2>1. UNCHANGED <<store, outbox, notices, gaveUp, mislaid, arrived>>
    BY <1>4, NextTrail
  <2>2. fate' = fate
    BY <2>1 DEF FateOf
  <2>3. cursor' \in cursor + 1 .. NumDeposits
    BY <1>4, NextTrail
  <2>4. ASSUME NEW d \in AllMail, d <= cursor'
        PROVE  fate[d] \notin {"expected", "waiting"}
    <3>1. Accounted(d)'
      <4>1. d \in 1 .. cursor'
        BY <2>3, <2>4
      <4>. QED  BY <4>1 DEF IInv, NoSilentPrune
    <3>2. Kind[d] \in Content \cup {"poison"} /\ d \in Deposits
      BY <1>1 DEF IsMail
    <3>3. d \in notices \cup store \cup outbox \cup gaveUp \cup mislaid
      BY <2>1, <3>1, <3>2 DEF Accounted, Content
    <3>. QED  BY <1>1, <3>2, <3>3 DEF FateOf
  <2>. QED  BY <1>1, <2>2, <2>3, <2>4 DEF Promise!Next, Promise!Prune
<1>. QED  BY <1>3, <1>4

(* Delivery from a durable home node keeps MailPromise: whatever the live push, *)
(* #drainDurable, the re-feed, retryApplyOutbox, faults and crashes do, a piece *)
(* of mail makes only the moves the promise allows, and the cursor passes only  *)
(* mail that no longer waits; for any number of deposits, peers and bounds.     *)
THEOREM Refines == Spec => KeepsPromise
<1>1. Init => Promise!Init
  <2>1. SUFFICES ASSUME Init PROVE Promise!Init
    OBVIOUS
  <2>2. \A d \in Deposits : FateOf(d) = "expected"
    <3>1. ASSUME NEW d \in Deposits PROVE FateOf(d) = "expected"
      <4>1. ~(d <= arrived)
        BY <2>1 DEF Init, Deposits
      <4>. QED  BY <2>1, <4>1 DEF Init, PipelineInit, FateOf
    <3>. QED  BY <3>1
  <2>. QED  BY <2>1, <2>2 DEF Promise!Init, Promise!Mail, Init, Deposits
<1>2. (TypeOK /\ IInv /\ TrailIsTrue) /\ [Next]_vars => (TypeOK /\ IInv /\ TrailIsTrue)'
  BY NextType, NextInv, NextTrail
<1>3. TypeOK /\ IInv /\ TypeOK' /\ IInv' /\ TrailIsTrue /\ [Next]_vars
        => [Promise!Next]_(Promise!vars)
  BY PromiseStep
<1>. QED  BY <1>1, <1>2, <1>3, InitType, InitInv, InitTrail, PTL
          DEF Spec, KeepsPromise, Promise!Spec

-----------------------------------------------------------------------------
(* No message of an established session is called undeliverable.            *)

(* The running job resolves: if it was the drain's, its reply takes its place. *)
LEMMA TailInOrder ==
    ASSUME WorkerTypeOK, DrainIsInOrder, queue # <<>>, queue' = Tail(queue),
           NEW job, job = Head(queue),
           NEW new, new.src = job.src, new.d = job.d, replies' \subseteq replies \cup {new},
           UNCHANGED inboxVars
    PROVE  DrainIsInOrder'
<1>1. queue \in Seq(Jobs) /\ Len(queue) \in Nat /\ Len(queue) >= 1 /\ Len(queue') = Len(queue) - 1
  BY DEF WorkerTypeOK
<1>2. \A i \in 1 .. Len(queue') : i + 1 \in 1 .. Len(queue) /\ queue'[i] = queue[i + 1] /\ i + 1 # 1
  BY <1>1
<1>3. 1 \in 1 .. Len(queue) /\ queue[1] = job
  BY <1>1
<1>4. UNCHANGED <<phase, item, cursor, through, passed>>
  BY DEF inboxVars, drainVars
<1>5. ASSUME NEW i \in 1 .. Len(queue'), queue'[i].src = "drain"
      PROVE  /\ phase' = "await" /\ queue'[i].d = item'
             /\ \A j \in 1 .. Len(queue') : queue'[j].src = "drain" => j = i
             /\ \A r \in replies' : r.src # "drain"
  <2>1. queue[i + 1].src = "drain" /\ i + 1 \in 1 .. Len(queue) /\ i + 1 # 1
    BY <1>2, <1>5
  <2>2. job.src # "drain"
    BY <1>3, <2>1 DEF DrainIsInOrder
  <2>3. \A j \in 1 .. Len(queue') : queue'[j].src = "drain" => j + 1 = i + 1
    BY <1>2, <2>1 DEF DrainIsInOrder
  <2>4. \A j \in 1 .. Len(queue') : queue'[j].src = "drain" => j = i
    BY <2>3
  <2>5. \A r \in replies : r.src # "drain"
    BY <2>1 DEF DrainIsInOrder
  <2>. QED  BY <1>2, <1>4, <2>1, <2>2, <2>4, <2>5 DEF DrainIsInOrder
<1>6. ASSUME NEW r \in replies', r.src = "drain"
      PROVE  /\ phase' = "await" /\ r.d = item'
             /\ \A q \in replies' : q.src = "drain" => q = r
  <2>1. CASE job.src = "drain"
    <3>1. \A q \in replies' : q.src = "drain" => q = new
      BY <1>3, <2>1 DEF DrainIsInOrder
    <3>. QED  BY <1>3, <1>4, <1>6, <2>1, <3>1 DEF DrainIsInOrder
  <2>2. CASE job.src # "drain"
    BY <1>4, <1>6, <2>2 DEF DrainIsInOrder
  <2>. QED  BY <2>1, <2>2
<1>. QED  BY <1>4, <1>5, <1>6 DEF DrainIsInOrder

(* Any job but the drain's is queued behind, and replies are taken. *)
LEMMA QueueInOrder ==
    ASSUME WorkerTypeOK, DrainIsInOrder, NEW j \in Jobs, j.src # "drain",
           queue' = queue \/ queue' = Append(queue, j), replies' \subseteq replies,
           UNCHANGED <<phase, item, cursor, through, passed>>
    PROVE  DrainIsInOrder'
<1>1. queue \in Seq(Jobs) /\ Len(queue) \in Nat
  BY DEF WorkerTypeOK
<1>2. \A i \in 1 .. Len(queue') : queue'[i].src = "drain"
         => i \in 1 .. Len(queue) /\ queue'[i] = queue[i] /\ queue[i].src = "drain"
  <2>1. CASE queue' = queue
    BY <2>1
  <2>2. CASE queue' = Append(queue, j)
    <3>1. Len(queue') = Len(queue) + 1 /\ queue'[Len(queue) + 1] = j
          /\ \A i \in 1 .. Len(queue) : queue'[i] = queue[i]
      BY <1>1, <2>2
    <3>. QED  BY <1>1, <3>1
  <2>. QED  BY <2>1, <2>2
<1>. QED  BY <1>2 DEF DrainIsInOrder

(* When the drain is not waiting for an item, no job and no reply is its. *)
LEMMA NoDrainJob ==
    ASSUME DrainIsInOrder, phase # "await"
    PROVE  /\ \A i \in 1 .. Len(queue) : queue[i].src # "drain"
           /\ \A r \in replies : r.src # "drain"
BY DEF DrainIsInOrder

LEMMA ConcludeInOrder ==
    ASSUME TypeOK, DrainIsInOrder, step # "idle", NEW consumed, NEW already, NEW ack,
           Conclude(cur, consumed, already, ack), UNCHANGED inboxVars
    PROVE  DrainIsInOrder'
<1>1. WorkerTypeOK /\ queue # <<>> /\ Job("sweep", 0) \in Jobs /\ Job("sweep", 0).src # "drain"
  BY JobType DEF TypeOK, PipelineTypeOK, WorkerTypeOK, Job
<1>2. CASE Resolve(ack)
  <2>1. PICK job : job = Head(queue)
    OBVIOUS
  <2>2. PICK new : /\ new.src = job.src /\ new.d = job.d /\ replies' \subseteq replies \cup {new}
    <3>1. LET new == Reply(job.src, job.d, ack, {})
          IN  new.src = job.src /\ new.d = job.d /\ replies' \subseteq replies \cup {new}
      BY <1>2, <2>1 DEF Resolve, Reply
    <3>. QED  BY <3>1
  <2>. QED  BY <1>1, <1>2, <2>1, <2>2, TailInOrder DEF Resolve
<1>3. CASE UNCHANGED <<queue, replies>>
  BY <1>1, <1>3, QueueInOrder DEF inboxVars, drainVars
<1>. QED  BY <1>2, <1>3 DEF Conclude, ConcludeSubmit, ConcludeRefeed, StartRefeed

LEMMA PipelineInOrder ==
    ASSUME TypeOK, IInv, DrainIsInOrder, PipelineStep \/ Sweep, UNCHANGED inboxVars
    PROVE  DrainIsInOrder'
<1>1. WorkerTypeOK /\ Job("sweep", 0) \in Jobs /\ Job("sweep", 0).src # "drain"
      /\ UNCHANGED <<phase, item, cursor, through, passed>>
  BY JobType DEF TypeOK, PipelineTypeOK, Job, inboxVars, drainVars
<1>. USE DEF memoryVars
<1>2. CASE StartSweep \/ RefeedDone \/ RetryDone
  <2>1. PICK job : job = Head(queue)
    OBVIOUS
  <2>2. queue # <<>>
    BY <1>1, <1>2 DEF StartSweep, RefeedDone, RetryDone, WorkerTypeOK
  <2>3. CASE UNCHANGED <<queue, replies>>
    BY <1>1, <2>3, QueueInOrder
  <2>4. CASE StartSweep \/ RefeedDone
    <3>1. UNCHANGED <<queue, replies>> \/ queue' = Tail(queue)
      BY <2>4 DEF StartSweep, RefeedDone, Resolve, StartRefeed
    <3>2. PICK new : /\ new.src = job.src /\ new.d = job.d /\ replies' \subseteq replies \cup {new}
      <4>1. PICK ack : Resolve(ack) \/ UNCHANGED replies
        BY <2>4 DEF StartSweep, RefeedDone, StartRefeed
      <4>2. LET new == Reply(job.src, job.d, ack, {})
            IN  new.src = job.src /\ new.d = job.d /\ replies' \subseteq replies \cup {new}
        BY <2>1, <4>1 DEF Resolve, Reply
      <4>. QED  BY <4>2
    <3>. QED  BY <1>1, <2>1, <2>2, <2>3, <3>1, <3>2, TailInOrder
  <2>5. CASE RetryDone
    <3>1. replies' = replies \cup {Reply("outbox", 0, "ok", dropped)} /\ queue' = Tail(queue)
      BY <2>5 DEF RetryDone
    <3>2. job.src = "outbox" /\ job.d = 0
      <4>1. job \in Jobs /\ job.src = "outbox"
        BY <1>1, <2>1, <2>2, <2>5 DEF RetryDone, WorkerTypeOK, IInv, RepliesBacked
      <4>. QED  BY <4>1 DEF Jobs, Deposits
    <3>3. LET new == Reply("outbox", 0, "ok", dropped) IN new.src = job.src /\ new.d = job.d
      BY <3>2 DEF Reply
    <3>. QED  BY <1>1, <2>1, <2>2, <3>1, <3>3, TailInOrder
  <2>. QED  BY <1>2, <2>4, <2>5
<1>3. CASE SkipProcessed \/ MarkAndReturn
  <2>1. step # "idle"
    BY <1>3 DEF SkipProcessed, MarkAndReturn
  <2>. QED  BY <1>3, <2>1, ConcludeInOrder DEF SkipProcessed, MarkAndReturn
<1>4. CASE Sweep
  BY <1>1, <1>4, QueueInOrder DEF Sweep
<1>5. CASE /\ ~(StartSweep \/ RefeedDone \/ RetryDone) /\ ~(SkipProcessed \/ MarkAndReturn) /\ ~Sweep
  <2>1. UNCHANGED <<queue, replies>>
    BY <1>5 DEF PipelineStep, StartSubmit, RefeedEntry, RefeedPass, ProcessDeposit, ProtocolThrows,
                Stage, Apply, Reconcile, StartRetry, Unstage, RetryApplies, RetryFails, RetryGivesUp
  <2>. QED  BY <1>1, <2>1, QueueInOrder
<1>. QED  BY <1>2, <1>3, <1>4, <1>5

LEMMA NextInOrder ==
    ASSUME TypeOK, IInv, DrainIsInOrder, [Next]_vars
    PROVE  DrainIsInOrder'
<1>1. /\ WorkerTypeOK /\ Job("outbox", 0) \in Jobs /\ Job("outbox", 0).src # "drain"
      /\ \A d \in Deposits : Job("push", d) \in Jobs /\ Job("push", d).src # "drain"
      /\ cursor \in Nat /\ through \in Nat /\ item \in Nat /\ NumDeposits \in Nat
  <2>1. \A d \in Deposits : Job("push", d).src # "drain"
    BY DEF Job
  <2>2. Job("outbox", 0).src # "drain"
    BY DEF Job
  <2>. QED  BY <2>1, <2>2, JobType DEF TypeOK, PipelineTypeOK
<1>. USE DEF pipelineVars, durableVars, workVars, bufferVars, retryVars, memoryVars, historyVars, drainVars
(* A pass starts or ends, with at most an outbox retry queued. *)
<1>2. ASSUME queue' = queue \/ queue' = Append(queue, Job("outbox", 0)), replies' \subseteq replies,
             phase # "await", phase' \in {"off", "outbox", "list"},
             through' = 0, passed' = {}, UNCHANGED cursor
      PROVE  DrainIsInOrder'
  <2>1. /\ \A i \in 1 .. Len(queue) : queue[i].src # "drain"
        /\ \A r \in replies' : r.src # "drain"
    BY <1>2, NoDrainJob
  <2>2. \A i \in 1 .. Len(queue') : queue'[i].src # "drain"
    <3>1. CASE queue' = queue
      BY <2>1, <3>1
    <3>2. CASE queue' = Append(queue, Job("outbox", 0))
      <4>1. queue \in Seq(Jobs) /\ Len(queue) \in Nat
        BY <1>1 DEF WorkerTypeOK
      <4>. QED  BY <1>1, <2>1, <3>2, <4>1
    <3>. QED  BY <1>2, <3>1, <3>2
  <2>. QED  BY <1>2, <2>1, <2>2 DEF DrainIsInOrder
<1>3. ASSUME RequestDrain, replies' \subseteq replies, UNCHANGED cursor
      PROVE  DrainIsInOrder'
  <2>1. CASE phase # "off"
    BY <1>1, <1>3, <2>1, QueueInOrder DEF RequestDrain
  <2>2. CASE phase = "off"
    BY <1>2, <1>3, <2>2 DEF RequestDrain, Goto
  <2>. QED  BY <2>1, <2>2
<1>4. ASSUME EndPass, phase # "await", UNCHANGED <<replies, cursor>>
      PROVE  DrainIsInOrder'
  BY <1>2, <1>4 DEF EndPass, Goto
<1>5. CASE Deposit
  BY <1>1, <1>5, QueueInOrder DEF Deposit
<1>6. ASSUME NEW d \in Deposits, Push(d) \/ BackoffExpires(d) PROVE DrainIsInOrder'
  BY <1>1, <1>6, QueueInOrder DEF Push, BackoffExpires
<1>7. ASSUME NEW r \in replies, PushSettled(r) PROVE DrainIsInOrder'
  <2>1. CASE r.status = "ok"
    BY <1>3, <1>7, <2>1 DEF PushSettled
  <2>2. CASE r.status # "ok"
    BY <1>1, <1>7, <2>2, QueueInOrder DEF PushSettled
  <2>. QED  BY <2>1, <2>2
<1>8. CASE Trigger
  BY <1>3, <1>8 DEF Trigger
<1>9. CASE PipelineAction
  BY <1>9, PipelineInOrder DEF PipelineAction
<1>10. CASE DrainList
  <2>1. CASE cursor = arrived
    BY <1>4, <1>10, <2>1 DEF DrainList
  <2>2. CASE cursor # arrived
    <3>1. /\ \A i \in 1 .. Len(queue) : queue[i].src # "drain"
          /\ \A r \in replies : r.src # "drain"
      BY <1>10, NoDrainJob DEF DrainList
    <3>2. /\ phase' = "item" /\ item' = cursor + 1 /\ through' = 0 /\ passed' = {}
          /\ UNCHANGED <<queue, replies, cursor>>
      BY <1>10, <2>2 DEF DrainList, Goto
    <3>. QED  BY <1>1, <3>1, <3>2 DEF DrainIsInOrder
  <2>. QED  BY <2>1, <2>2
<1>11. CASE DrainListFails
  BY <1>2, <1>11 DEF DrainListFails, Goto
<1>12. CASE DrainItem
  <2>1. /\ \A i \in 1 .. Len(queue) : queue[i].src # "drain"
        /\ \A r \in replies : r.src # "drain"
    BY <1>12, NoDrainJob DEF DrainItem
  <2>2. CASE item \in backoff
    <3>1. phase' = "item" /\ item' = item + 1 /\ UNCHANGED <<queue, replies, cursor, through, passed>>
      BY <1>12, <2>2 DEF DrainItem, Gap
    <3>2. item' > cursor' /\ through' < item'
      BY <1>1, <1>12, <3>1 DEF DrainIsInOrder, DrainItem
    <3>. QED  BY <2>1, <3>1, <3>2 DEF DrainIsInOrder
  <2>3. CASE item \notin backoff
    <3>1. /\ phase = "item" /\ phase' = "await" /\ UNCHANGED <<item, replies, cursor, through, passed>>
          /\ queue' = Append(queue, Job("drain", item))
      BY <1>12, <2>3 DEF DrainItem
    <3>2. queue \in Seq(Jobs) /\ Len(queue) \in Nat
      BY <1>1 DEF WorkerTypeOK
    <3>3. /\ Len(queue') = Len(queue) + 1 /\ queue'[Len(queue) + 1] = Job("drain", item)
          /\ \A i \in 1 .. Len(queue) : queue'[i] = queue[i]
      BY <3>1, <3>2
    <3>4. \A i \in 1 .. Len(queue') : queue'[i].src = "drain" => i = Len(queue) + 1
      BY <2>1, <3>2, <3>3
    <3>5. \A i \in 1 .. Len(queue') : queue'[i].src = "drain" => queue'[i].d = item
      BY <3>3, <3>4 DEF Job
    <3>. QED  BY <2>1, <3>1, <3>4, <3>5 DEF DrainIsInOrder
  <2>. QED  BY <2>2, <2>3
<1>13. CASE DrainSkip \/ DrainAck
  <2>1. /\ \A i \in 1 .. Len(queue) : queue[i].src # "drain"
        /\ \A r \in replies : r.src # "drain"
    BY <1>13, NoDrainJob DEF DrainSkip, DrainAck
  <2>2. UNCHANGED <<queue, replies, passed>>
    BY <1>13 DEF DrainSkip, DrainAck
  <2>3. item > cursor /\ through < item /\ passed \subseteq 1 .. through
    BY <1>13 DEF DrainIsInOrder, DrainSkip, DrainAck
  <2>4. CASE DrainSkip
    <3>1. phase' = "item" /\ item' = item + 1 /\ through' \in {item, through} /\ cursor' = cursor
      BY <2>4 DEF DrainSkip
    <3>2. item' > cursor' /\ through' < item' /\ passed' \subseteq 1 .. through'
      BY <1>1, <2>2, <2>3, <3>1
    <3>. QED  BY <2>1, <2>2, <3>1, <3>2 DEF DrainIsInOrder
  <2>5. CASE DrainAck
    <3>1. phase' = "forget" /\ UNCHANGED through /\ cursor' = IF through > cursor THEN through ELSE cursor
      BY <2>5 DEF DrainAck
    <3>. QED  BY <1>1, <2>1, <2>2, <2>3, <3>1 DEF DrainIsInOrder
  <2>. QED  BY <1>13, <2>4, <2>5
<1>14. CASE DrainAckFails
  BY <1>4, <1>14 DEF DrainAckFails
<1>15. CASE DrainForget
  <2>1. CASE gaps # {}
    BY <1>4, <1>15, <2>1 DEF DrainForget
  <2>2. CASE gaps = {}
    BY <1>2, <1>15, <2>2 DEF DrainForget, Goto
  <2>. QED  BY <2>1, <2>2
<1>16. ASSUME NEW r \in replies, DrainSurface(r) PROVE DrainIsInOrder'
  BY <1>2, <1>16 DEF DrainSurface, Goto
<1>17. ASSUME NEW r \in replies, DrainConsumed(r) \/ DrainFailed(r) \/ DrainQuarantine(r)
       PROVE  DrainIsInOrder'
  <2>1. /\ r.src = "drain" /\ phase = "await" /\ replies' = replies \ {r}
        /\ UNCHANGED <<queue, cursor>>
    BY <1>17 DEF DrainConsumed, DrainFailed, DrainQuarantine
  <2>2. \A i \in 1 .. Len(queue) : queue[i].src # "drain"
    BY <2>1 DEF DrainIsInOrder
  <2>3. item > cursor /\ through < item /\ passed \subseteq 1 .. through
    BY <2>1 DEF DrainIsInOrder
  <2>4. \/ phase' = "skip" /\ UNCHANGED <<item, through, passed>>
        \/ phase' = "item" /\ item' = item + 1 /\ UNCHANGED <<through, passed>>
        \/ phase' = "item" /\ item' = item + 1 /\ through' = item /\ passed' = passed \cup {item}
    BY <1>17 DEF DrainConsumed, DrainFailed, DrainQuarantine, Gap
  <2>5. item' > cursor' /\ through' < item' /\ passed' \subseteq 1 .. through'
    <3>1. passed \cup {item} \subseteq 1 .. item
      BY <1>1, <2>3
    <3>2. item \in Nat /\ through \in Nat /\ cursor \in Nat /\ cursor' = cursor
      BY <1>1, <2>1
    <3>3. CASE phase' = "skip" /\ UNCHANGED <<item, through, passed>>
      BY <2>3, <3>2, <3>3
    <3>4. CASE phase' = "item" /\ item' = item + 1 /\ UNCHANGED <<through, passed>>
      BY <2>3, <3>2, <3>4
    <3>5. CASE phase' = "item" /\ item' = item + 1 /\ through' = item /\ passed' = passed \cup {item}
      <4>1. item' > cursor' /\ through' < item'
        BY <2>3, <3>2, <3>5
      <4>2. passed' \subseteq 1 .. through'
        BY <3>1, <3>5
      <4>. QED  BY <4>1, <4>2
    <3>. QED  BY <2>4, <3>3, <3>4, <3>5
  <2>6. \A q \in replies' : q.src # "drain"
    BY <2>1 DEF DrainIsInOrder
  <2>. QED  BY <2>1, <2>2, <2>4, <2>5, <2>6 DEF DrainIsInOrder
<1>18. CASE Crash
  <2>1. /\ queue' = <<>> /\ replies' = {} /\ phase' = "off" /\ through' = 0 /\ passed' = {}
    BY <1>18 DEF Crash, LoseMemory, Goto
  <2>. QED  BY <2>1 DEF DrainIsInOrder
<1>19. CASE UNCHANGED vars
  BY <1>1, <1>19, QueueInOrder DEF vars, inboxVars
<1>. QED  BY <1>5, <1>6, <1>7, <1>8, <1>9, <1>10, <1>11, <1>12, <1>13, <1>14, <1>15, <1>16, <1>17,
             <1>18, <1>19 DEF Next, DrainAction

LEMMA SpentIsMail ==
    ASSUME OnlyMailIsSpent, [Next]_vars
    PROVE  OnlyMailIsSpent'
<1>1. CASE ProcessDeposit
  <2>1. /\ sessions \subseteq sessions'
        /\ spent' = spent \/ (spent' = spent \cup {cur} /\ Decryptable(cur))
    BY <1>1 DEF ProcessDeposit
  <2>. QED  BY <2>1 DEF OnlyMailIsSpent, Decryptable
<1>2. CASE ~ProcessDeposit
  <2>1. UNCHANGED <<sessions, spent>>
    <3>. USE DEF pipelineVars, durableVars, memoryVars
    <3>1. CASE PipelineStep \/ Sweep
      BY <1>2, <3>1 DEF PipelineStep, StartSubmit, StartSweep, RefeedEntry, RefeedPass, RefeedDone,
           SkipProcessed, ProtocolThrows, Stage, Apply, Reconcile, MarkAndReturn, StartRetry, Unstage,
           RetryDone, RetryApplies, RetryFails, RetryGivesUp, Sweep
    <3>2. CASE DrainAction
      BY <3>2 DEF DrainAction, DrainList, DrainListFails, DrainItem, DrainSkip, DrainAck, DrainAckFails,
           DrainForget, DrainSurface, DrainConsumed, DrainFailed, DrainQuarantine
    <3>3. CASE ~(PipelineStep \/ Sweep) /\ ~DrainAction
      BY <3>3 DEF Next, vars, PipelineAction, Deposit, Push, BackoffExpires, PushSettled, Trigger,
           Crash, LoseMemory
    <3>. QED  BY <3>1, <3>2, <3>3
  <2>. QED  BY <2>1 DEF OnlyMailIsSpent
<1>. QED  BY <1>1, <1>2

(* Without a fault, a frame that ends is answered "ok" or left for good. *)
LEMMA ConcludeRead ==
    ASSUME TypeOK, IInv, AllIsRead, step \in {"lookup", "mark"},
           NEW consumed, NEW already, NEW ack \in {"ok", "left"},
           ack = "left" => LeftForGood(cur), consumed /\ ~already => ack = "ok",
           Conclude(cur, consumed, already, ack),
           UNCHANGED inboxVars, UNCHANGED <<dropped, gaveUp>>
    PROVE  NothingGivenUp' /\ WorkIsRead' /\ DrainIsAnswered' /\ InHand' = {}
<1>1. step' \in {"idle", "refeed"} /\ flags' = {}
  BY DEF Conclude, ConcludeSubmit, ConcludeRefeed, Resolve, StartRefeed, At
<1>2. WorkIsRead' /\ InHand' = {}
  BY <1>1 DEF WorkIsRead, InHand
<1>3. UNCHANGED <<notices, cursor>>
  BY DEF inboxVars
<1>4. CASE Resolve(ack)
  <2>1. refeed' = {} /\ \A r \in replies' \ replies : r = Reply(Head(queue).src, Head(queue).d, ack, {})
    BY <1>4 DEF Resolve
  <2>2. NothingGivenUp'
    BY <2>1 DEF AllIsRead, NothingGivenUp, Reply
  <2>3. CASE "on" \notin refeed
    <3>1. Head(queue).d = cur
      BY <2>3 DEF IInv, RepliesBacked
    <3>2. \A r \in replies' \ replies : r.status = "left" => LeftForGood(r.d)'
      BY <1>3, <2>1, <3>1 DEF Reply, LeftForGood
    <3>3. \A r \in replies : r.src = "drain" /\ r.status = "left" => LeftForGood(r.d)'
      BY <1>3 DEF AllIsRead, DrainIsAnswered, LeftForGood
    <3>. QED  BY <1>2, <2>1, <2>2, <3>2, <3>3 DEF DrainIsAnswered, LeftForGood
  <2>4. CASE "on" \in refeed
    <3>1. queue' = Tail(queue) /\ queue' = queue
      BY <1>4, <2>4 DEF Conclude, ConcludeRefeed, Resolve
    <3>2. queue \in Seq(Jobs) /\ queue # <<>>
      BY DEF TypeOK, PipelineTypeOK, WorkerTypeOK
    <3>. QED  BY <3>1, <3>2
  <2>. QED  BY <2>3, <2>4
<1>5. CASE UNCHANGED <<queue, replies>> /\ (("on" \in refeed /\ refeed \subseteq refeed') \/ "ok" \in refeed')
  <2>1. NothingGivenUp'
    BY <1>5 DEF AllIsRead, NothingGivenUp
  <2>2. DrainIsAnswered'
    BY <1>3, <1>5 DEF AllIsRead, DrainIsAnswered, LeftForGood
  <2>. QED  BY <1>2, <2>1, <2>2
<1>6. \/ Resolve(ack)
      \/ UNCHANGED <<queue, replies>> /\ (("on" \in refeed /\ refeed \subseteq refeed') \/ "ok" \in refeed')
  BY DEF Conclude, ConcludeSubmit, ConcludeRefeed, StartRefeed
<1>. QED  BY <1>4, <1>5, <1>6

LEMMA PipelineRead ==
    ASSUME TypeOK, IInv, OnlyMailIsSpent, AllIsRead, ~Fault,
           PipelineStep \/ Sweep, UNCHANGED inboxVars
    PROVE  AllIsRead'
<1>1. UNCHANGED <<notices, cursor>>
  BY DEF inboxVars
<1>. USE DEF pipelineVars, durableVars, workVars, bufferVars, retryVars, memoryVars, historyVars
<1>2. WorkerTypeOK /\ queue \in Seq(Jobs)
  BY DEF TypeOK, PipelineTypeOK, WorkerTypeOK
(* Frame: the queue keeps its head and no reply is added. *)
<1>3. ASSUME UNCHANGED <<replies, dropped, gaveUp>>,
             refeed' = refeed \/ refeed' = refeed \ {"progress"},
             "on" \in refeed => Head(queue') = Head(queue)
      PROVE  NothingGivenUp' /\ DrainIsAnswered'
  <2>1. NothingGivenUp'
    BY <1>3 DEF AllIsRead, NothingGivenUp
  <2>3. DrainIsAnswered'
    BY <1>1, <1>3 DEF AllIsRead, DrainIsAnswered, LeftForGood
  <2>. QED  BY <2>1, <2>3
(* Between frames: nothing in hand before, nothing after. *)
<1>4. ASSUME step \in {"idle", "lookup", "refeed", "retry", "unstage"},
             step' \in {"idle", "lookup", "refeed", "retry", "unstage"}, flags' = {} \/ UNCHANGED workVars,
             UNCHANGED <<spent, processed>>
      PROVE  WorkIsRead' /\ SpentIsDone'
  <2>1. InHand = {} /\ InHand' = {}
    BY <1>4 DEF InHand
  <2>2. SpentIsDone'
    BY <1>1, <1>4, <2>1 DEF AllIsRead, SpentIsDone
  <2>3. WorkIsRead'
    <3>1. CASE flags' = {}
      BY <1>4, <3>1 DEF WorkIsRead
    <3>2. CASE UNCHANGED workVars
      BY <1>4, <3>2 DEF AllIsRead, WorkIsRead
    <3>. QED  BY <1>4, <3>1, <3>2
  <2>. QED  BY <2>2, <2>3
<1>5. CASE Sweep
  <2>1. UNCHANGED <<workVars, spent, processed, replies, refeed, dropped, gaveUp>>
        /\ queue' = Append(queue, Job("sweep", 0))
    BY <1>5 DEF Sweep
  <2>2. "on" \in refeed => Head(queue') = Head(queue)
    <3>1. "on" \in refeed => queue # <<>>
      BY <1>2 DEF WorkerTypeOK, IInv, RepliesBacked
    <3>. QED  BY <1>2, <2>1, <3>1
  <2>3. NothingGivenUp' /\ DrainIsAnswered'
    BY <1>3, <2>1, <2>2
  <2>4. WorkIsRead' /\ SpentIsDone'
    BY <1>1, <2>1 DEF AllIsRead, WorkIsRead, SpentIsDone, InHand, LeftForGood
  <2>. QED  BY <2>3, <2>4 DEF AllIsRead
<1>6. CASE StartSubmit \/ RefeedEntry \/ RefeedPass
  <2>1. NothingGivenUp' /\ DrainIsAnswered'
    BY <1>3, <1>6 DEF StartSubmit, RefeedEntry, RefeedPass
  <2>2. WorkIsRead' /\ SpentIsDone'
    BY <1>4, <1>6 DEF StartSubmit, RefeedEntry, RefeedPass, At
  <2>. QED  BY <2>1, <2>2 DEF AllIsRead
<1>7. CASE StartRetry \/ Unstage
  <2>1. dropped' = {} /\ UNCHANGED <<queue, refeed, replies, gaveUp>>
    BY <1>7 DEF StartRetry, Unstage, AllIsRead, NothingGivenUp
  <2>2. dropped = {}
    BY DEF AllIsRead, NothingGivenUp
  <2>3. NothingGivenUp' /\ DrainIsAnswered'
    BY <1>3, <2>1, <2>2
  <2>4. WorkIsRead' /\ SpentIsDone'
    BY <1>4, <1>7 DEF StartRetry, Unstage, At
  <2>. QED  BY <2>3, <2>4 DEF AllIsRead
<1>8. CASE StartSweep
  <2>1. UNCHANGED <<dropped, gaveUp, spent, processed>> /\ step = "idle" /\ Head(queue).src = "sweep"
    BY <1>8 DEF StartSweep
  <2>2. UNCHANGED replies /\ (refeed' = {} \/ queue' = queue) /\ step' \in {"idle", "refeed"} /\ flags' = {}
    BY <1>8, <2>1 DEF StartSweep, Resolve, StartRefeed, At
  <2>3. NothingGivenUp' /\ DrainIsAnswered'
    BY <1>1, <2>1, <2>2 DEF AllIsRead, NothingGivenUp, DrainIsAnswered, LeftForGood
  <2>4. WorkIsRead' /\ SpentIsDone'
    BY <1>4, <2>1, <2>2
  <2>. QED  BY <2>3, <2>4 DEF AllIsRead
<1>9. CASE RefeedDone
  <2>1. UNCHANGED <<dropped, gaveUp, spent, processed>> /\ step = "refeed" /\ step' = "idle" /\ flags' = {}
        /\ refeed' = {}
    BY <1>9 DEF RefeedDone, Resolve, At
  <2>2. \A r \in replies' \ replies : r.gone = {}
    BY <1>9 DEF RefeedDone, Resolve, Reply
  <2>3. \A r \in replies' \ replies : r.src = "drain" => r.status # "left"
    <3>1. "on" \in refeed
      BY <2>1 DEF IInv, RepliesBacked
    <3>2. \A r \in replies' \ replies : r.src = Head(queue).src /\ r.status = IF "ok" \in refeed THEN "ok" ELSE "left"
      BY <1>9 DEF RefeedDone, Resolve, Reply
    <3>. QED  BY <3>1, <3>2 DEF AllIsRead, DrainIsAnswered
  <2>4. NothingGivenUp' /\ DrainIsAnswered'
    BY <1>1, <2>1, <2>2, <2>3 DEF AllIsRead, NothingGivenUp, DrainIsAnswered, LeftForGood
  <2>5. WorkIsRead' /\ SpentIsDone'
    BY <1>4, <2>1
  <2>. QED  BY <2>4, <2>5 DEF AllIsRead
<1>10. CASE SkipProcessed
  <2>1. UNCHANGED <<dropped, gaveUp, spent, processed>> /\ step = "lookup"
        /\ Conclude(cur, TRUE, TRUE, "ok")
    BY <1>10 DEF SkipProcessed
  <2>2. NothingGivenUp' /\ WorkIsRead' /\ DrainIsAnswered' /\ InHand' = {}
    BY <2>1, ConcludeRead
  <2>3. SpentIsDone'
    BY <1>1, <2>1, <2>2 DEF AllIsRead, SpentIsDone, InHand
  <2>. QED  BY <2>2, <2>3 DEF AllIsRead
<1>11. CASE ProcessDeposit
  <2>1. cur \notin processed /\ step = "lookup" /\ InHand = {} /\ cur \in Deposits
        /\ UNCHANGED <<processed, queue, refeed, replies, dropped, gaveUp>>
    BY <1>2, <1>11 DEF ProcessDeposit, InHand, WorkerTypeOK
  <2>2. NothingGivenUp' /\ DrainIsAnswered'
    BY <1>3, <2>1
  <2>3. cur' = cur /\ InHand' = {cur} /\ spent' \subseteq spent \cup {cur}
    BY <1>11 DEF ProcessDeposit, At, InHand
  <2>4. SpentIsDone'
    BY <1>1, <2>1, <2>3 DEF AllIsRead, SpentIsDone
  <2>5. WorkIsRead'
    <3>1. CASE flags' = {}
      <4>1. step' = "mark" /\ UNCHANGED spent /\ Kind[cur] \notin {"handshake", "control"} /\ ~Decryptable(cur)
        BY <1>11, <3>1 DEF ProcessDeposit, At
      <4>2. cur \in spent => cur \in notices \/ cur <= cursor
        BY <2>1 DEF AllIsRead, SpentIsDone
      <4>3. Kind[cur] \in Kinds
        BY <2>1, PipelineAssumption
      <4>4. LeftForGood(cur)
        BY <4>1, <4>2, <4>3 DEF LeftForGood, Decryptable, Kinds, Content, OnlyMailIsSpent
      <4>. QED  BY <1>1, <2>3, <3>1, <4>1, <4>2, <4>4 DEF WorkIsRead, LeftForGood
    <3>2. CASE flags' # {}
      <4>1. "consumed" \in flags' /\ ("user" \in flags' => step' = "stage" /\ "decryptOk" \in flags')
            /\ (Kind[cur] # "control" => "decryptOk" \in flags')
        BY <1>11, <3>2 DEF ProcessDeposit, At, Decryptable, Content
      <4>. QED  BY <2>3, <4>1 DEF WorkIsRead
    <3>. QED  BY <3>1, <3>2
  <2>. QED  BY <2>2, <2>4, <2>5 DEF AllIsRead
<1>12. CASE Stage \/ Apply \/ Reconcile
  <2>1. cur' = cur /\ InHand = {cur} /\ InHand' = {cur} /\ flags \subseteq flags'
        /\ UNCHANGED <<spent, processed, queue, refeed, replies, dropped, gaveUp>>
    BY <1>12 DEF Stage, Apply, Reconcile, At, InHand, AfterApply
  <2>2. NothingGivenUp' /\ DrainIsAnswered'
    BY <1>3, <2>1
  <2>3. SpentIsDone'
    BY <1>1, <2>1 DEF AllIsRead, SpentIsDone
  <2>4. "user" \in flags /\ "consumed" \in flags
    BY <1>12 DEF Stage, Apply, Reconcile, IInv, WorkBacked, AllIsRead, WorkIsRead
  <2>5. "decryptOk" \in flags' /\ "consumed" \in flags' /\ "staged" \in flags'
    BY <1>12, <2>1, <2>4 DEF Stage, Apply, Reconcile, At, AllIsRead, WorkIsRead
  <2>6. WorkIsRead'
    BY <2>5 DEF WorkIsRead
  <2>. QED  BY <2>2, <2>3, <2>6 DEF AllIsRead
<1>13. CASE MarkAndReturn
  <2>1. step = "mark" /\ InHand = {cur} /\ UNCHANGED <<dropped, gaveUp, spent>>
        /\ processed' = (IF ShouldMark THEN processed \cup {cur} ELSE processed)
        /\ Conclude(cur, "consumed" \in flags, FALSE, IF AckSafe THEN "ok" ELSE "left")
    BY <1>13 DEF MarkAndReturn, InHand
  <2>2. "user" \in flags => DurableUserMessage /\ "decryptOk" \in flags /\ "consumed" \in flags
    BY <2>1 DEF AllIsRead, WorkIsRead, DurableUserMessage, IInv, WorkBacked
  <2>3. AckSafe <=> "consumed" \in flags
    BY <2>2 DEF AckSafe
  <2>4. "consumed" \notin flags => LeftForGood(cur)
    BY <2>1 DEF AllIsRead, WorkIsRead
  <2>5. NothingGivenUp' /\ WorkIsRead' /\ DrainIsAnswered' /\ InHand' = {}
    BY <2>1, <2>3, <2>4, ConcludeRead
  <2>6. cur \in spent => cur \in processed' \cup notices \/ cur <= cursor
    <3>1. CASE ShouldMark
      BY <2>1, <3>1
    <3>2. CASE ~ShouldMark
      <4>1. "decryptOk" \notin flags
        BY <2>2, <3>2 DEF ShouldMark
      <4>2. CASE "consumed" \notin flags
        BY <2>1, <4>2 DEF AllIsRead, WorkIsRead
      <4>3. CASE "consumed" \in flags
        BY <4>1, <4>3 DEF AllIsRead, WorkIsRead, OnlyMailIsSpent, Content
      <4>. QED  BY <4>2, <4>3
    <3>. QED  BY <3>1, <3>2
  <2>7. SpentIsDone'
    BY <1>1, <2>1, <2>5, <2>6 DEF AllIsRead, SpentIsDone
  <2>. QED  BY <2>5, <2>7 DEF AllIsRead
<1>14. CASE RetryDone
  <2>1. UNCHANGED <<gaveUp, spent, processed, refeed>> /\ dropped' = {} /\ step = "retry" /\ step' = "idle"
        /\ flags' = {} /\ replies' = replies \cup {Reply("outbox", 0, "ok", dropped)}
    BY <1>14 DEF RetryDone, At
  <2>2. dropped = {} /\ refeed = {}
    BY <2>1 DEF AllIsRead, NothingGivenUp, IInv, RepliesBacked
  <2>3. NothingGivenUp' /\ DrainIsAnswered'
    BY <1>1, <2>1, <2>2 DEF AllIsRead, NothingGivenUp, DrainIsAnswered, LeftForGood, Reply
  <2>4. WorkIsRead' /\ SpentIsDone'
    BY <1>4, <2>1
  <2>. QED  BY <2>3, <2>4 DEF AllIsRead
<1>15. ASSUME NEW d \in Deposits, RetryApplies(d) PROVE AllIsRead'
  <2>1. NothingGivenUp' /\ DrainIsAnswered'
    BY <1>3, <1>15 DEF RetryApplies
  <2>2. WorkIsRead' /\ SpentIsDone'
    BY <1>4, <1>15 DEF RetryApplies, At
  <2>. QED  BY <2>1, <2>2 DEF AllIsRead
(* Whatever else a step may be, it is a fault. *)
<1>16. ~ProtocolThrows /\ \A d \in Deposits : ~RetryFails(d) /\ ~RetryGivesUp(d)
  BY DEF ProtocolThrows, RetryFails, RetryGivesUp, ApplyThrows
<1>. QED  BY <1>5, <1>6, <1>7, <1>8, <1>9, <1>10, <1>11, <1>12, <1>13, <1>14, <1>15, <1>16 DEF PipelineStep

(* Faults and crashes are only counted up. *)
LEMMA FaultsCount ==
    ASSUME TypeOK, [Next]_vars, Unfaulted'
    PROVE  Unfaulted /\ ~Fault
<1>1. faults \in Nat /\ crashes \in Nat
  BY PipelineAssumption, DurableAssumption DEF TypeOK, PipelineTypeOK, DataTypeOK
<1>2. faults' = faults \/ faults' = faults + 1
  <2>. USE DEF pipelineVars, durableVars, memoryVars, historyVars, Fault, NoFault
  <2>1. CASE PipelineStep \/ Sweep
    <3>1. ASSUME NEW d, ApplyReturns(d) \/ ApplyThrows(d) PROVE faults' = faults \/ faults' = faults + 1
      BY <3>1 DEF ApplyReturns, ApplyMessage, ApplyJoin, SwallowJoin, ApplyGroup, ApplyThrows
    <3>. QED  BY <2>1, <3>1 DEF PipelineStep, StartSubmit, StartSweep, RefeedEntry, RefeedPass, RefeedDone,
           SkipProcessed, ProcessDeposit, ProtocolThrows, Stage, Apply, Reconcile, MarkAndReturn, StartRetry,
           Unstage, RetryDone, RetryApplies, RetryFails, RetryGivesUp, Sweep
  <2>2. CASE DrainAction
    BY <2>2 DEF DrainAction, DrainList, DrainListFails, DrainItem, DrainSkip, DrainAck, DrainAckFails,
         DrainForget, DrainSurface, DrainConsumed, DrainFailed, DrainQuarantine
  <2>3. CASE ~(PipelineStep \/ Sweep) /\ ~DrainAction
    BY <2>3 DEF Next, vars, PipelineAction, Deposit, Push, BackoffExpires, PushSettled, Trigger,
         Crash, LoseMemory
  <2>. QED  BY <2>1, <2>2, <2>3
<1>3. crashes' = crashes \/ crashes' = crashes + 1
  BY DEF Next, vars, inboxVars, PipelineAction, Deposit, Push, BackoffExpires, PushSettled, Trigger, Crash,
         DrainAction, DrainList, DrainListFails, DrainItem, DrainSkip, DrainAck, DrainAckFails,
         DrainForget, DrainSurface, DrainConsumed, DrainFailed, DrainQuarantine
<1>. QED  BY <1>1, <1>2, <1>3 DEF Unfaulted, Fault

LEMMA NextRead ==
    ASSUME TypeOK, IInv, DrainIsInOrder, ReadOnce, [Next]_vars
    PROVE  ReadOnce'
<1>1. SUFFICES ASSUME Unfaulted' PROVE AllIsRead'
  BY SpentIsMail DEF ReadOnce
<1>2. ~Fault /\ AllIsRead /\ OnlyMailIsSpent /\ Unfaulted
  BY <1>1, FaultsCount DEF ReadOnce
<1>3. queue \in Seq(Jobs) /\ ("on" \in refeed => queue # <<>>) /\ cursor \in Nat /\ through \in Nat /\ item \in Nat
      /\ spent \subseteq Deposits /\ NumDeposits \in Nat
  BY PipelineAssumption DEF TypeOK, PipelineTypeOK, DataTypeOK, WorkerTypeOK, IInv, RepliesBacked
<1>. USE DEF pipelineVars, durableVars, workVars, bufferVars, retryVars, memoryVars, historyVars
(* A step of the drain or the push bridge leaves the job in hand alone. *)
<1>4. ASSUME UNCHANGED <<workVars, spent, refeed, dropped, gaveUp>>,
             replies' \subseteq replies, notices \subseteq notices', cursor' \in Nat, cursor <= cursor',
             queue' = queue \/ \E j \in Jobs : queue' = Append(queue, j),
             processed \subseteq processed' \cup notices' \cup (1 .. cursor')
      PROVE  AllIsRead'
  <2>1. "on" \in refeed => Head(queue') = Head(queue)
    <3>1. ASSUME NEW j \in Jobs, queue # <<>>, queue' = Append(queue, j) PROVE Head(queue') = Head(queue)
      BY <1>3, <3>1, HeadAppend
    <3>. QED  BY <1>3, <1>4, <3>1
  <2>2. \A d \in Deposits : d <= cursor => d <= cursor'
    BY <1>3, <1>4
  <2>3. \A d \in 0 .. NumDeposits : LeftForGood(d) => LeftForGood(d)'
    BY <1>3, <1>4 DEF LeftForGood
  <2>4. cur \in 0 .. NumDeposits /\ \A r \in replies : r.d \in 0 .. NumDeposits
    BY DEF TypeOK, PipelineTypeOK, WorkerTypeOK, Replies
  <2>5. NothingGivenUp'
    BY <1>2, <1>4 DEF AllIsRead, NothingGivenUp
  <2>6. SpentIsDone'
    BY <1>2, <1>3, <1>4, <2>2 DEF AllIsRead, SpentIsDone, InHand
  <2>7. DrainIsAnswered'
    BY <1>2, <1>4, <2>1, <2>3, <2>4 DEF AllIsRead, DrainIsAnswered
  <2>8. WorkIsRead'
    <3>1. (cur \in spent /\ cur \in processed \cup notices) \/ cur <= cursor =>
            cur \in processed' \cup notices' \/ cur <= cursor'
      BY <1>3, <1>4, <2>4
    <3>. QED  BY <1>2, <1>4, <2>3, <2>4, <3>1 DEF AllIsRead, WorkIsRead
  <2>. QED  BY <2>5, <2>6, <2>7, <2>8 DEF AllIsRead
<1>5. CASE Deposit
  BY <1>3, <1>4, <1>5 DEF Deposit
<1>6. ASSUME NEW d \in Deposits, Push(d) \/ BackoffExpires(d) PROVE AllIsRead'
  BY <1>3, <1>4, <1>6, JobType DEF Push, BackoffExpires
<1>7. ASSUME RequestDrain \/ EndPass \/ UNCHANGED queue PROVE queue' = queue \/ \E j \in Jobs : queue' = Append(queue, j)
  BY <1>7, JobType DEF RequestDrain, EndPass
<1>8. ASSUME NEW r \in replies, PushSettled(r) PROVE AllIsRead'
  <2>1. RequestDrain \/ UNCHANGED queue
    BY <1>8 DEF PushSettled
  <2>. QED  BY <1>3, <1>4, <1>7, <1>8, <2>1 DEF PushSettled
<1>9. CASE Trigger
  BY <1>3, <1>4, <1>7, <1>9 DEF Trigger
<1>10. CASE PipelineAction
  BY <1>2, <1>10, PipelineRead DEF PipelineAction
<1>11. CASE DrainList \/ DrainListFails \/ DrainItem \/ DrainAckFails
  <2>1. queue' = queue \/ \E j \in Jobs : queue' = Append(queue, j)
    <3>1. CASE DrainItem
      <4>1. item \in Deposits
        BY <1>3, <3>1 DEF DrainItem, TypeOK, Deposits
      <4>. QED  BY <3>1, <4>1, JobType DEF DrainItem
    <3>. QED  BY <1>7, <1>11, <3>1 DEF DrainList, DrainListFails, DrainAckFails
  <2>. QED  BY <1>3, <1>4, <1>11, <2>1 DEF DrainList, DrainListFails, DrainItem, DrainAckFails
<1>12. CASE DrainSkip
  <2>1. item \in notices
    BY <1>12 DEF DrainSkip, IInv, DrainBacked
  <2>2. processed \subseteq processed' \cup notices'
    BY <1>12, <2>1 DEF DrainSkip
  <2>. QED  BY <1>3, <1>4, <1>12, <2>2 DEF DrainSkip
<1>13. CASE DrainAck
  BY <1>3, <1>4, <1>13 DEF DrainAck
<1>14. CASE DrainForget
  <2>1. queue' = queue \/ \E j \in Jobs : queue' = Append(queue, j)
    BY <1>7, <1>14 DEF DrainForget
  <2>2. passed \subseteq 1 .. cursor
    <3>1. passed \subseteq 1 .. through /\ through <= cursor
      BY <1>14 DEF DrainForget, DrainIsInOrder
    <3>. QED  BY <1>3, <3>1
  <2>3. processed \subseteq processed' \cup (1 .. cursor)
    BY <1>14, <2>2 DEF DrainForget
  <2>. QED  BY <1>3, <1>4, <1>14, <2>1, <2>3 DEF DrainForget
<1>15. ASSUME NEW r \in replies, DrainSurface(r) \/ DrainConsumed(r) \/ DrainFailed(r) \/ DrainQuarantine(r)
       PROVE  AllIsRead'
  BY <1>3, <1>4, <1>15 DEF DrainSurface, DrainConsumed, DrainFailed, DrainQuarantine
<1>16. ~Crash
  BY <1>2 DEF Crash, LoseMemory
<1>17. CASE UNCHANGED vars
  BY <1>3, <1>4, <1>17 DEF vars, inboxVars
<1>. QED  BY <1>5, <1>6, <1>8, <1>9, <1>10, <1>11, <1>12, <1>13, <1>14, <1>15, <1>16, <1>17 DEF Next, DrainAction

LEMMA InitRead == Init => DrainIsInOrder /\ ReadOnce
BY DEF Init, PipelineInit, DrainIsInOrder, ReadOnce, OnlyMailIsSpent, AllIsRead, NothingGivenUp, WorkIsRead,
       SpentIsDone, DrainIsAnswered, InHand

(* What a drain calls undeliverable, no session that stood from the start reads. *)
LEMMA PoisonStep ==
    ASSUME TypeOK, IInv, TrailIsTrue, DrainIsInOrder, ReadOnce, [Next]_vars,
           NEW d \in notices' \ notices, Unfaulted
    PROVE  Peer[d] \notin InitSessions \/ d \notin store
<1>1. AllIsRead /\ OnlyMailIsSpent
  BY DEF ReadOnce
<1>2. ASSUME NEW r \in replies, DrainSurface(r) PROVE FALSE
  BY <1>1, <1>2 DEF DrainSurface, AllIsRead, NothingGivenUp
<1>3. ASSUME NEW r \in replies, DrainQuarantine(r) PROVE Peer[d] \notin InitSessions \/ d \notin store
  <2>1. d = item /\ r.d = item /\ r.src = "drain" /\ r.status = "left" /\ item > cursor
    BY <1>3 DEF DrainQuarantine, DrainIsInOrder
  <2>2. LeftForGood(d)
    BY <1>1, <2>1 DEF AllIsRead, DrainIsAnswered
  <2>3. Kind[d] = "poison" \/ Peer[d] \notin InitSessions
    <3>1. ~(item <= cursor)
      BY <2>1 DEF TypeOK
    <3>. QED  BY <2>1, <2>2, <3>1 DEF LeftForGood
  <2>4. d \in store => d \in spent
    BY DEF TrailIsTrue, OpenedOnce
  <2>. QED  BY <1>1, <2>3, <2>4 DEF OnlyMailIsSpent, Content
<1>4. CASE ~\E r \in replies : DrainSurface(r) \/ DrainQuarantine(r)
  <2>1. UNCHANGED notices
    BY <1>4 DEF Next, vars, inboxVars, PipelineAction, Deposit, Push, BackoffExpires, PushSettled, Trigger,
         Crash, DrainAction, DrainList, DrainListFails, DrainItem, DrainSkip, DrainAck, DrainAckFails,
         DrainForget, DrainConsumed, DrainFailed
  <2>. QED  BY <2>1
<1>. QED  BY <1>2, <1>3, <1>4

(* Without faults and crashes, no message of an established session that was   *)
(* delivered is reported as undeliverable: ServerInboxCatchupService           *)
(* quarantines only what InboundDepositPipeline could never read.              *)
THEOREM PoisonIsTrue == Spec => NoFalsePoison
<1>1. Init => TypeOK /\ IInv /\ TrailIsTrue /\ DrainIsInOrder /\ ReadOnce
  BY InitType, InitInv, InitTrail, InitRead
<1>2. TypeOK /\ IInv /\ TrailIsTrue /\ DrainIsInOrder /\ ReadOnce /\ [Next]_vars
        => (TypeOK /\ IInv /\ TrailIsTrue /\ DrainIsInOrder /\ ReadOnce)'
  BY NextType, NextInv, NextTrail, NextInOrder, NextRead
<1>3. TypeOK /\ IInv /\ TrailIsTrue /\ DrainIsInOrder /\ ReadOnce /\ [Next]_vars
        => [\A d \in notices' \ notices :
               faults > 0 \/ crashes > 0 \/ Peer[d] \notin InitSessions \/ d \notin store]_vars
  <2>1. ASSUME TypeOK, ~(faults > 0), ~(crashes > 0) PROVE Unfaulted
    BY <2>1, PipelineAssumption, DurableAssumption DEF TypeOK, PipelineTypeOK, DataTypeOK, Unfaulted
  <2>. QED  BY <2>1, PoisonStep
<1>. QED  BY <1>1, <1>2, <1>3, PTL DEF Spec, NoFalsePoison

-----------------------------------------------------------------------------
(* The server's session with its home.                                      *)

Stages == {"none", "claim", "bind", "publish"}

HomeShaped ==
    /\ gate \in BOOLEAN /\ boot \in {"off", "connect", "services", "on", "stopped"}
    /\ pool \in {"idle", "up", "down", "hook", "closed"}
    /\ sess \subseteq {"claimed", "cursor"}
    /\ con \in Stages \cup {"dial"} /\ res \in Stages
    /\ up \in BOOLEAN /\ owed \in BOOLEAN /\ gap \in BOOLEAN
    /\ acct \in [client : BOOLEAN, dialing : BOOLEAN, waiting : Nat, working : Nat,
                 timer : BOOLEAN, closed : BOOLEAN]

\* The first connect and a restore are never in flight together: the one is for
\* a runtime that is not connected, the other for one that is.
OneBinds ==
    /\ con # "none" => ~up /\ res = "none"
    /\ res # "none" => up \/ boot = "stopped"

\* On a transport that lives, a bind past its claim has claimed, and one past
\* its device has bound the device where the home wants it.
BindsInOrder ==
    ~gap /\ Live =>
        \A s \in {con, res} : /\ s \in {"bind", "publish"} => "claimed" \in sess
                              /\ s = "publish" /\ gate => "cursor" \in sess

\* No bind outlives the transport it had begun on.
NoneIsStranded == ~gap /\ ~Live => con \in {"none", "dial"} /\ (pool = "down" => res = "none")

\* A dial of the account channel has somebody waiting for it.
DialIsAwaited == acct.dialing => acct.waiting > 0

HomeInv == HomeShaped /\ OneBinds /\ BindsInOrder /\ NoneIsStranded /\ DialIsAwaited
           /\ OnlineIsBound /\ ClientIsTimed

bindState == <<gate, boot, pool, sess, con, res, up, owed, status, gap>>

LEMMA HomeBegins == ASSUME HomeInit PROVE HomeInv
<1>1. gate \in BOOLEAN
  <2>1. gate = (left["gated"] > 0)
    BY DEF HomeInit
  <2>2. CASE left["gated"] > 0
    BY <2>1, <2>2
  <2>3. CASE ~ (left["gated"] > 0)
    BY <2>1, <2>3
  <2> QED BY <2>2, <2>3
<1>2. /\ boot = "off" /\ pool = "idle" /\ sess = {} /\ con = "none" /\ res = "none"
      /\ up = FALSE /\ owed = FALSE /\ gap = FALSE /\ acct = NoAcct
  BY DEF HomeInit
<1> QED BY <1>1, <1>2 DEF NoAcct, HomeInv, HomeShaped, OneBinds, BindsInOrder, NoneIsStranded,
           DialIsAwaited, OnlineIsBound, ClientIsTimed, Live, Online, Stages

(* A step that leaves the account channel and the bind alone keeps both.    *)
LEMMA AcctSame ==
    ASSUME DialIsAwaited, ClientIsTimed, acct' = acct PROVE DialIsAwaited' /\ ClientIsTimed'
BY DEF DialIsAwaited, ClientIsTimed, InFlight

LEMMA HomeSame == ASSUME HomeInv, UNCHANGED <<bindState, acct>> PROVE HomeInv'
BY DEF HomeInv, bindState, HomeShaped, OneBinds, BindsInOrder, NoneIsStranded, DialIsAwaited,
       OnlineIsBound, Bound, ClientIsTimed, InFlight, Live, Online

(* The first connect: it fails to dial, it dials, it is done.               *)
LEMMA DialStep ==
    ASSUME HomeInv, DialFails \/ DialSucceeds \/ ConnectDone \/ RestoreDone PROVE HomeInv'
<1> USE DEF HomeInv, wakeVars, uplinkRest, BindRest
<1>1. CASE DialFails
  <2>1. /\ con = "dial" /\ con' = "none" /\ owed' = TRUE /\ pool' = "down"
        /\ UNCHANGED <<gate, boot, sess, res, up, gap, acct>>
    BY <1>1 DEF DialFails
  <2> QED BY <2>1, AcctSame DEF HomeShaped, OneBinds, BindsInOrder, NoneIsStranded,
             OnlineIsBound, Live, Online, Stages
<1>2. CASE DialSucceeds
  <2>1. /\ con = "dial" /\ pool # "closed" /\ con' = "claim"
        /\ pool' = IF pool = "hook" THEN "hook" ELSE "up"
        /\ sess' = IF Live THEN sess ELSE {}
        /\ UNCHANGED <<gate, boot, res, up, owed, status, gap, acct>>
    BY <1>2 DEF DialSucceeds
  <2> QED BY <2>1, AcctSame DEF HomeShaped, OneBinds, BindsInOrder, NoneIsStranded,
             OnlineIsBound, Live, Online, Stages
<1>3. CASE ConnectDone
  <2>1. /\ con = "publish" /\ con' = "none" /\ up' = TRUE /\ owed' = FALSE
        /\ pool' = IF pool = "hook" THEN "up" ELSE pool
        /\ UNCHANGED <<gate, boot, sess, res, gap, acct>>
    BY <1>3 DEF ConnectDone
  <2> QED BY <2>1, AcctSame DEF HomeShaped, OneBinds, BindsInOrder, NoneIsStranded,
             OnlineIsBound, Bound, Live, Online, Stages
<1>4. CASE RestoreDone
  <2>1. /\ res = "publish" /\ res' = "none"
        /\ pool' = IF pool = "hook" THEN "up" ELSE pool
        /\ UNCHANGED <<gate, boot, sess, con, up, owed, gap, acct>>
    BY <1>4 DEF RestoreDone
  <2> QED BY <2>1, AcctSame DEF HomeShaped, OneBinds, BindsInOrder, NoneIsStranded,
             OnlineIsBound, Bound, Live, Online, Stages
<1> QED BY <1>1, <1>2, <1>3, <1>4

(* What Advance does to the two binds.                                      *)
LEMMA AdvanceIs ==
    ASSUME NEW s \in {"claim", "bind"}, Advance(s)
    PROVE  LET next == IF s = "claim" THEN "bind" ELSE "publish" IN
           \/ con = s /\ con' = next /\ res' = res
           \/ res = s /\ res' = next /\ con' = con
BY DEF Advance, ConnectAt, RestoreAt

LEMMA BindStep ==
    ASSUME HomeInv, ClaimAccepted \/ ClaimReminted \/ DeviceBound \/ DeviceUnbound
    PROVE  HomeInv'
<1> USE DEF HomeInv, BindRest
<1>1. CASE ClaimAccepted
  <2>1. /\ Live /\ sess' = sess \cup {"claimed"}
        /\ UNCHANGED <<gate, boot, pool, up, owed, status, gap, acct>>
    BY <1>1 DEF ClaimAccepted
  <2>2. \/ con = "claim" /\ con' = "bind" /\ res' = res
        \/ res = "claim" /\ res' = "bind" /\ con' = con
    BY <1>1, AdvanceIs DEF ClaimAccepted
  <2> QED BY <2>1, <2>2, AcctSame DEF HomeShaped, OneBinds, BindsInOrder, NoneIsStranded,
             OnlineIsBound, Bound, Live, Online, Stages
<1>2. CASE ClaimReminted
  BY <1>2, HomeSame DEF ClaimReminted, bindState
<1>3. CASE DeviceBound
  <2>1. /\ Live /\ sess' = sess \cup {"cursor"}
        /\ UNCHANGED <<gate, boot, pool, up, owed, status, gap, acct>>
    BY <1>3 DEF DeviceBound
  <2>2. \/ con = "bind" /\ con' = "publish" /\ res' = res
        \/ res = "bind" /\ res' = "publish" /\ con' = con
    BY <1>3, AdvanceIs DEF DeviceBound
  <2> QED BY <2>1, <2>2, AcctSame DEF HomeShaped, OneBinds, BindsInOrder, NoneIsStranded,
             OnlineIsBound, Bound, Live, Online, Stages
<1>4. CASE DeviceUnbound
  <2>1. /\ ~gate
        /\ UNCHANGED <<gate, boot, pool, sess, up, owed, status, gap, acct>>
    BY <1>4 DEF DeviceUnbound
  <2>2. \/ con = "bind" /\ con' = "publish" /\ res' = res
        \/ res = "bind" /\ res' = "publish" /\ con' = con
    BY <1>4, AdvanceIs DEF DeviceUnbound
  <2> QED BY <2>1, <2>2, AcctSame DEF HomeShaped, OneBinds, BindsInOrder, NoneIsStranded,
             OnlineIsBound, Bound, Live, Online, Stages
<1> QED BY <1>1, <1>2, <1>3, <1>4

LEMMA BindFailsStep == ASSUME HomeInv, BindFails PROVE HomeInv'
<1> USE DEF HomeInv, BindRest
<1>1. UNCHANGED <<gate, boot, acct>>
  BY DEF BindFails
<1>2. CASE Fatal(con) /\ ConnectThrows
  <2>1. /\ con \in {"claim", "bind"} /\ con' = "none"
        /\ UNCHANGED <<res, up, owed, status>>
    BY <1>2 DEF Fatal, ConnectThrows
  <2>2. gap' \in BOOLEAN /\ (gap => gap')
    BY <1>2, Zenon DEF ConnectThrows
  <2>3. \/ pool' = "down" /\ sess' = {}
        \/ UNCHANGED <<pool, sess>>
    BY <1>2 DEF ConnectThrows
  <2>4. HomeShaped' /\ OneBinds'
    BY <1>1, <2>1, <2>3, <2>2 DEF HomeShaped, OneBinds, Stages
  <2>5. up = FALSE /\ res = "none"
    BY <2>1 DEF OneBinds, HomeShaped
  <2>6. BindsInOrder' /\ NoneIsStranded' /\ OnlineIsBound'
    BY <2>1, <2>5 DEF BindsInOrder, NoneIsStranded, OnlineIsBound, Online
  <2> QED BY <1>1, <2>4, <2>6, AcctSame
<1>3. CASE Fatal(res) /\ RestoreThrows
  <2>1. /\ res \in {"claim", "bind"} /\ res' = "none" /\ pool' = "down" /\ sess' = {}
        /\ UNCHANGED <<con, up, owed, gap>>
    BY <1>3 DEF Fatal, RestoreThrows
  <2> QED BY <1>1, <2>1, AcctSame DEF HomeShaped, OneBinds, BindsInOrder, NoneIsStranded,
             OnlineIsBound, Live, Online, Stages
<1> QED BY <1>2, <1>3 DEF BindFails

LEMMA TransportStep == ASSUME HomeInv, LoseTransport \/ PoolReconnects PROVE HomeInv'
<1> USE DEF HomeInv
<1>1. CASE LoseTransport
  <2>1. /\ pool' = "down" /\ sess' = {} /\ con' = After(con) /\ res' = After(res)
        /\ gap' = \/ gap
                  \/ res # "none" /\ ~Fatal(res)
                  \/ con \notin {"none", "dial"} /\ ~(Fatal(con) /\ owed)
        /\ UNCHANGED <<gate, boot, up, owed, acct>>
    BY <1>1 DEF LoseTransport
  <2>2. HomeShaped' /\ OneBinds'
    BY <2>1 DEF HomeShaped, OneBinds, After, Fatal, Stages
  <2>3. NoneIsStranded'
    BY <2>1 DEF HomeShaped, NoneIsStranded, After, Fatal, Stages
  <2> QED BY <2>1, <2>2, <2>3, AcctSame DEF BindsInOrder, OnlineIsBound, Live
<1>2. CASE PoolReconnects
  <2>1. /\ pool = "down" /\ boot # "stopped" /\ sess' = {}
        /\ UNCHANGED <<gate, boot, up, owed, status, gap, acct>>
    BY <1>2 DEF PoolReconnects
  <2>2. CASE up
    <3>1. /\ pool' = "hook" /\ con' = con /\ res' = IF res = "none" THEN "claim" ELSE res
      BY <1>2, <2>2 DEF PoolReconnects
    <3> QED BY <2>1, <2>2, <3>1, AcctSame DEF HomeShaped, OneBinds, BindsInOrder,
               NoneIsStranded, OnlineIsBound, Live, Online, Stages
  <2>3. CASE ~up
    <3>1. /\ pool' \in {"hook", "up"} /\ res' = res
          /\ con' \in {con, IF con = "none" THEN "dial" ELSE con}
      BY <1>2, <2>3 DEF PoolReconnects, StartConnect
    <3> QED BY <2>1, <2>3, <3>1, AcctSame DEF HomeShaped, OneBinds, BindsInOrder,
               NoneIsStranded, OnlineIsBound, Live, Online, Stages
  <2> QED BY <2>2, <2>3
<1> QED BY <1>1, <1>2

LEMMA BootStep ==
    ASSUME HomeInv, Start \/ StartServices \/ Started \/ Stop \/ EnsureLive PROVE HomeInv'
<1> USE DEF HomeInv
<1>1. CASE Start
  <2>1. /\ boot' = "connect" /\ con' = "dial" /\ pool' = "idle" /\ sess' = {} /\ res' = "none"
        /\ up' = FALSE /\ owed' = FALSE /\ gap' = FALSE /\ acct' = NoAcct /\ gate' = gate
    BY <1>1 DEF Start
  <2> QED BY <2>1 DEF HomeShaped, OneBinds, BindsInOrder, NoneIsStranded, OnlineIsBound,
             DialIsAwaited, ClientIsTimed, NoAcct, Live, Online, Stages
<1>2. CASE StartServices \/ Started
  <2>1. /\ boot \in {"connect", "services"} /\ boot' \in {"services", "on"}
        /\ UNCHANGED <<gate, pool, sess, con, res, up, owed, status, gap, acct>>
    BY <1>2 DEF StartServices, Started, bindVars
  <2> QED BY <2>1, AcctSame DEF HomeShaped, OneBinds, BindsInOrder, NoneIsStranded,
             OnlineIsBound, Bound, Live, Online
<1>3. CASE Stop
  <2>1. boot' = "stopped" /\ owed' = FALSE /\ UNCHANGED <<gate, con, gap, acct>>
    BY <1>3 DEF Stop
  <2>2. CASE up
    <3>1. up' = FALSE /\ pool' = "closed" /\ sess' = {} /\ res' = After(res)
      BY <1>3, <2>2 DEF Stop
    <3> QED BY <2>1, <2>2, <3>1, AcctSame DEF HomeShaped, OneBinds, BindsInOrder,
               NoneIsStranded, OnlineIsBound, Live, Online, Stages, After
  <2>3. CASE ~up
    <3>1. UNCHANGED <<up, pool, sess, res>>
      BY <1>3, <2>3 DEF Stop
    <3>2. HomeShaped' /\ OneBinds'
      BY <2>1, <2>3, <3>1 DEF HomeShaped, OneBinds
    <3>3. BindsInOrder' /\ NoneIsStranded' /\ OnlineIsBound'
      BY <2>1, <2>3, <3>1 DEF BindsInOrder, NoneIsStranded, OnlineIsBound, Live, Online
    <3> QED BY <2>1, <3>2, <3>3, AcctSame
  <2> QED BY <2>2, <2>3
<1>4. CASE EnsureLive
  <2>1. /\ boot = "on" /\ UNCHANGED <<gate, boot, pool, sess, res, up, owed, status, gap, acct>>
        /\ con' = con \/ (~up /\ con' = IF con = "none" THEN "dial" ELSE con)
    BY <1>4 DEF EnsureLive, PassRest, StartConnect, Online
  <2> QED BY <2>1, AcctSame DEF HomeShaped, OneBinds, BindsInOrder, NoneIsStranded,
             OnlineIsBound, Bound, Live, Online, Stages
<1> QED BY <1>1, <1>2, <1>3, <1>4

(* The account session: opened by work, closed by a timer that the last     *)
(* piece of work arms.                                                      *)
LEMMA AcctStep ==
    ASSUME HomeInv,
           Execute \/ AccountDialed \/ WorkDone \/ IdleCloses \/ Suspend \/ CloseChannel
    PROVE  HomeInv'
<1>1. UNCHANGED bindState
  BY DEF Execute, AccountDialed, WorkDone, IdleCloses, Suspend, CloseChannel, AcctRest,
         bindVars, bindState
<1>2. HomeShaped /\ DialIsAwaited /\ ClientIsTimed
  BY DEF HomeInv
<1> DEFINE AcctType == [client : BOOLEAN, dialing : BOOLEAN, waiting : Nat, working : Nat,
                        timer : BOOLEAN, closed : BOOLEAN]
<1>3. acct' \in AcctType /\ DialIsAwaited' /\ ClientIsTimed'
  <2>1. acct \in AcctType
    BY <1>2 DEF HomeShaped
  <2>2. acct.waiting \in Nat /\ acct.working \in Nat /\ acct.waiting + acct.working \in Nat
    BY <2>1
  <2>3. ASSUME NEW a \in AcctType, acct' = Armed(a), a.dialing => a.waiting > 0
        PROVE  acct' \in AcctType /\ DialIsAwaited' /\ ClientIsTimed'
    BY <2>3 DEF Armed, DialIsAwaited, ClientIsTimed, InFlight
  <2>4. CASE Execute
    <3>1. CASE acct.client
      <4> DEFINE n == acct.working + 1
                 a == [acct EXCEPT !.timer = FALSE, !.working = n]
      <4>1. n \in Nat /\ n > 0
        BY <2>2
      <4>2. acct' = a
        BY <2>4, <3>1 DEF Execute
      <4> HIDE DEF n
      <4>3. a \in AcctType /\ a.dialing = acct.dialing /\ a.waiting = acct.waiting
        BY <2>1, <4>1
      <4>4. a.working = n
        BY <2>1
      <4> HIDE DEF a
      <4> QED BY <1>2, <2>2, <4>2, <4>3, <4>4, <4>1 DEF DialIsAwaited, ClientIsTimed, InFlight
    <3>2. CASE ~acct.client
      <4> DEFINE n == acct.waiting + 1
                 a == [acct EXCEPT !.timer = FALSE, !.waiting = n, !.dialing = TRUE]
      <4>1. n \in Nat /\ n > 0
        BY <2>2
      <4>2. acct' = a
        BY <2>4, <3>2 DEF Execute
      <4> HIDE DEF n
      <4>3. a \in AcctType /\ a.client = acct.client
        BY <2>1, <4>1
      <4>4. a.waiting = n
        BY <2>1
      <4> HIDE DEF a
      <4> QED BY <3>2, <4>2, <4>3, <4>4, <4>1 DEF DialIsAwaited, ClientIsTimed, InFlight
    <3> QED BY <3>1, <3>2
  <2>5. CASE AccountDialed
    <3> DEFINE n == acct.working + acct.waiting
               a == [acct EXCEPT !.dialing = FALSE, !.client = TRUE, !.working = n,
                                 !.waiting = 0]
               b == [acct EXCEPT !.dialing = FALSE, !.waiting = 0]
    <3>1. acct.waiting > 0
      BY <1>2, <2>5 DEF AccountDialed, DialIsAwaited
    <3>2. n \in Nat /\ n > 0
      BY <2>2, <3>1
    <3>3. acct' = a \/ acct' = Armed(b)
      BY <2>5 DEF AccountDialed
    <3> HIDE DEF n
    <3>4. a \in AcctType /\ a.dialing = FALSE /\ a.waiting = 0
      BY <2>1, <3>2
    <3>5. a.working = n
      BY <2>1
    <3>6. b \in AcctType /\ b.dialing = FALSE
      BY <2>1
    <3> HIDE DEF a, b
    <3>7. CASE acct' = a
      BY <3>4, <3>7, <3>5, <3>2 DEF DialIsAwaited, ClientIsTimed, InFlight
    <3>8. CASE acct' = Armed(b)
      BY <2>3, <3>6, <3>8
    <3> QED BY <3>3, <3>7, <3>8
  <2>6. CASE WorkDone
    <3> DEFINE a == [acct EXCEPT !.working = @ - 1]
    <3>1. acct' = Armed(a) /\ acct.working > 0
      BY <2>6 DEF WorkDone
    <3>2. a \in AcctType /\ a.dialing = acct.dialing /\ a.waiting = acct.waiting
      BY <2>1, <3>1
    <3> HIDE DEF a
    <3>3. a.dialing => a.waiting > 0
      BY <1>2, <3>2 DEF DialIsAwaited
    <3> QED BY <2>3, <3>1, <3>2, <3>3
  <2>7. CASE IdleCloses \/ Suspend \/ CloseChannel
    BY <1>2, <2>1, <2>7 DEF DialIsAwaited, ClientIsTimed, InFlight, IdleCloses, Suspend,
       CloseChannel
  <2> QED BY <2>4, <2>5, <2>6, <2>7
<1>4. HomeShaped' /\ OneBinds' /\ BindsInOrder' /\ NoneIsStranded' /\ OnlineIsBound'
  BY <1>1, <1>3 DEF HomeInv, bindState, HomeShaped, OneBinds, BindsInOrder, NoneIsStranded,
     OnlineIsBound, Bound, Live, Online
<1> QED BY <1>3, <1>4 DEF HomeInv

LEMMA HomeStepKeeps == ASSUME HomeInv, HomeStep PROVE HomeInv'
<1>1. CASE PeriodicDrain \/ DrainEnds \/ Wake \/ LiveAnswered \/ RenewLease \/ PassDrains
           \/ PassRepairs \/ LeaseAges \/ Reclaim
  <2>1. UNCHANGED <<bindState, acct>>
    BY <1>1 DEF PeriodicDrain, DrainEnds, Wake, LiveAnswered, RenewLease, PassDrains, PassRepairs,
       LeaseAges, Reclaim, PassRest, bindVars, bindState
  <2> QED BY <2>1, HomeSame
<1> QED BY <1>1, DialStep, BindStep, BindFailsStep, TransportStep, BootStep, AcctStep DEF HomeStep

-----------------------------------------------------------------------------
(* The conversation list: the writes of a thread and what they leave.       *)

(* A non-empty set of message places has a last one: with the fewest        *)
(* places after it.                                                         *)
LEMMA LastExists ==
    ASSUME NEW S \in SUBSET Nat, IsFiniteSet(S), S # {}
    PROVE  \E x \in S : \A y \in S : y <= x
<1> DEFINE below == OpToRel(<, Nat)
           Later(x) == {y \in S : y > x}
           sizes == {Cardinality(Later(x)) : x \in S}
<1>1. IsWellFoundedOn(below, Nat)
  BY NatLessThanWellFounded, Zenon
<1>2. \A x \in Nat, y \in Nat : y < x => <<y, x>> \in below
  BY DEF OpToRel
<1>3. \A x \in S : IsFiniteSet(Later(x)) /\ Cardinality(Later(x)) \in Nat
  BY FS_Subset, FS_CardinalityType
<1>4. sizes \subseteq Nat /\ sizes # {}
  BY <1>3
<1> HIDE DEF below
<1>5. PICK n \in sizes : \A k \in sizes : ~ (<<k, n>> \in below)
  <2> HIDE DEF sizes
  <2> QED BY <1>1, <1>4, WFMin
<1>6. PICK x \in S : n = Cardinality(Later(x))
  BY <1>5
<1>7. \A y \in S : y <= x
  <2> SUFFICES ASSUME NEW y \in S, y > x PROVE FALSE
    BY <1>6
  <2>1. Later(y) \subseteq Later(x) /\ y \in Later(x) /\ y \notin Later(y)
    BY <1>6
  <2>2. Later(y) # Later(x)
    BY <2>1
  <2>3. Cardinality(Later(y)) < Cardinality(Later(x))
    <3> HIDE DEF Later
    <3> QED BY <1>3, <1>6, <2>1, <2>2, FS_Subset
  <2>4. Cardinality(Later(y)) \in sizes
    OBVIOUS
  <2> QED BY <1>2, <1>3, <1>5, <1>6, <2>3, <2>4
<1> QED BY <1>6, <1>7

(* Latest is the last of a set of places, and 0 of none.                    *)
LEMMA LatestIs ==
    ASSUME NEW S \in SUBSET Key
    PROVE  Latest(S) \in Key /\ \A n \in S : n <= Latest(S)
<1>1. IsFiniteSet(Key) /\ Key \subseteq Nat
  BY MessageAssumption, FS_AddElement DEF Key
<1>2. CASE S = {}
  BY <1>2 DEF Latest, Key
<1>3. CASE S # {}
  <2>1. \E x \in S : \A y \in S : y <= x
    BY <1>1, <1>3, LastExists, FS_Subset
  <2> QED BY <1>3, <2>1 DEF Latest
<1> QED BY <1>2, <1>3

WriteKinds == {"upsert", "read", "chread", "remove", "ensure"}
MsgsOf(t) == {m \in Msgs : ThreadOf[m] = t}

\* A write of thread t's index, whoever asked for it.
IsWrite(t, op) ==
    /\ op \in [k : WriteKinds, m : Key, c : {op.c}, id : {op.id}, at : {"wait", "read", "saved"},
               snap : SUBSET MsgsOf(t), tips : {op.tips}]
    /\ op.k = "upsert" => op.m \in MsgsOf(t)

IsRow(t, r) == r \in Record /\ r.unread \subseteq MsgsOf(t)

ListShaped ==
    /\ stored \subseteq Msgs /\ due \subseteq Msgs
    /\ rec = [t \in Threads |-> rec[t]] /\ lock = [t \in Threads |-> lock[t]]
    /\ \A t \in Threads : rec[t] = NoRec \/ IsRow(t, rec[t])
    /\ \A t \in Threads : \E S : lock[t] \in Seq(S)
    /\ \A t \in Threads : \A i \in 1 .. Len(lock[t]) : IsWrite(t, lock[t][i])

\* The record says of m what the read markers say.
Exact(r, m) == m \in r.unread <=> m > Marker(r, ChanOf[m])

\* The index is still to be told of m.
Untold(t, m) ==
    \/ m \in due
    \/ \E i \in 1 .. Len(lock[t]) :
         lock[t][i].k = "upsert" /\ lock[t][i].m = m /\ lock[t][i].at # "saved"

\* What is stored is in the record as the markers want it, or still to come;
\* and what a write has not read is still to come.
RowsAreExact ==
    \A t \in Threads : \A m \in MessagesOf(t) :
        rec[t] # NoRec => Untold(t, m) \/ Exact(rec[t], m)
ReadsAreWhole ==
    \A t \in Threads : \A m \in MessagesOf(t) : \A i \in 1 .. Len(lock[t]) :
        lock[t][i].at = "read" => m \in lock[t][i].snap \/ Untold(t, m)

\* One write of a thread runs, the first of its queue.
OneRuns ==
    \A t \in Threads : \A i \in 1 .. Len(lock[t]) : i # 1 => lock[t][i].at = "wait"

ListInv == ListShaped /\ OneRuns /\ RowsAreExact /\ ReadsAreWhole

(* What a write leaves in the record is a record of the thread, and exact   *)
(* about every message it knows of.                                         *)
LEMMA WrittenIs ==
    ASSUME NEW t \in Threads, NEW op, IsWrite(t, op), NEW r, IsRow(t, r),
           NEW set \in SUBSET MsgsOf(t), op.k # "remove"
    PROVE  /\ IsRow(t, Written(op, r, set))
           /\ op.k = "ensure" /\ set = {} => Written(op, r, set) = r
           /\ ~(op.k = "ensure" /\ set = {}) =>
                \A m \in MsgsOf(t) : m \in set \/ (op.k = "upsert" /\ m = op.m)
                                       => Exact(Written(op, r, set), m)
<1>1. /\ r.act \in Key /\ r.mark \in Key /\ r.ch \in [Channels -> Key]
      /\ r.unread \subseteq MsgsOf(t) /\ MsgsOf(t) \subseteq Msgs /\ op.m \in Key
      /\ op.k \in WriteKinds /\ r \in Record /\ Msgs \subseteq Key
      /\ \A m \in Msgs : ChanOf[m] \in Channels
  BY WindowAssumption DEF IsRow, Record, IsWrite, MsgsOf, Key
<1>2. \A q : \A S \in SUBSET MsgsOf(t) : Unread(S, q) \subseteq MsgsOf(t)
  BY DEF Unread
<1>3. CASE op.k = "upsert"
  <2> DEFINE a == Latest({r.act, op.m})
             S == set \cup {op.m}
             w == [r EXCEPT !.act = a, !.unread = Unread(S, r)]
  <2>1. a \in Key
    BY <1>1, LatestIs
  <2>2. S \subseteq MsgsOf(t)
    BY <1>3 DEF IsWrite
  <2>3. Written(op, r, set) = w
    BY <1>3 DEF Written
  <2> HIDE DEF a, S
  <2>4. /\ w \in Record /\ w.unread = Unread(S, r) /\ w.ch = r.ch /\ w.mark = r.mark
    BY <1>1, <1>2, <2>1, <2>2 DEF Record
  <2>5. \A m \in S : Exact(w, m)
    BY <2>4 DEF Exact, Unread, Marker
  <2> HIDE DEF w
  <2> QED BY <1>2, <1>3, <2>2, <2>3, <2>4, <2>5 DEF IsRow, S
<1>4. CASE op.k = "read"
  <2> DEFINE a == Latest(set)
             ch == [c \in Channels |-> 0]
             w == [r EXCEPT !.unread = {}, !.mark = a, !.ch = ch]
  <2>1. a \in Key /\ (\A m \in set : m <= a) /\ ch \in [Channels -> Key]
    BY <1>1, LatestIs DEF Key
  <2>2. Written(op, r, set) = w
    BY <1>4 DEF Written
  <2>3. \A c \in Channels : ch[c] = 0
    OBVIOUS
  <2> HIDE DEF a, ch
  <2>4. w \in Record /\ w.unread = {} /\ w.ch = ch /\ w.mark = a
    BY <1>1, <2>1 DEF Record
  <2>5. ASSUME NEW m \in set PROVE Exact(w, m)
    <3>1. m \in Msgs /\ ChanOf[m] \in Channels
      BY <1>1
    <3>2. Marker(w, ChanOf[m]) = a
      BY <2>3, <2>4, <3>1 DEF Marker
    <3>3. m \in Nat /\ a \in Nat /\ m <= a
      BY <2>1, <3>1, MessageAssumption DEF Key
    <3> QED BY <2>4, <3>2, <3>3 DEF Exact
  <2> HIDE DEF w
  <2> QED BY <1>4, <2>2, <2>4, <2>5 DEF IsRow
<1>5. CASE op.k = "chread"
  <2> DEFINE seen == Latest(InChannel(set, op.c))
             v == IF seen = 0 THEN r ELSE [r EXCEPT !.ch[op.c] = seen]
             w == [v EXCEPT !.unread = Unread(set, v)]
  <2>1. seen \in Key
    BY <1>1, LatestIs DEF InChannel
  <2>2. Written(op, r, set) = w
    BY <1>5 DEF Written
  <2> HIDE DEF seen
  <2>3. v \in Record
    BY <1>1, <2>1 DEF Record
  <2> HIDE DEF v
  <2>4. w \in Record /\ w.unread = Unread(set, v) /\ w.ch = v.ch /\ w.mark = v.mark
    BY <1>1, <1>2, <2>3 DEF Record
  <2>5. \A m \in set : Exact(w, m)
    BY <2>4 DEF Exact, Unread, Marker
  <2> HIDE DEF w
  <2> QED BY <1>2, <1>5, <2>2, <2>4, <2>5 DEF IsRow
<1>6. CASE op.k = "ensure" /\ set # {}
  <2> DEFINE a == Latest(set)
             w == [r EXCEPT !.act = a, !.unread = Unread(set, r)]
  <2>1. a \in Key
    BY <1>1, LatestIs
  <2>2. Written(op, r, set) = w
    BY <1>6 DEF Written
  <2> HIDE DEF a
  <2>3. w \in Record /\ w.unread = Unread(set, r) /\ w.ch = r.ch /\ w.mark = r.mark
    BY <1>1, <1>2, <2>1 DEF Record
  <2>4. \A m \in set : Exact(w, m)
    BY <2>3 DEF Exact, Unread, Marker
  <2> HIDE DEF w
  <2> QED BY <1>2, <1>6, <2>2, <2>3, <2>4 DEF IsRow
<1>7. CASE op.k = "ensure" /\ set = {}
  <2>1. Written(op, r, set) = r
    BY <1>7 DEF Written
  <2> QED BY <1>7, <2>1
<1> QED BY <1>1, <1>3, <1>4, <1>5, <1>6, <1>7 DEF WriteKinds

(* A queue and what is added at its end, taken from its front, or changed   *)
(* in place.                                                                *)
LEMMA AddedLast ==
    ASSUME NEW s, \E S : s \in Seq(S), NEW x
    PROVE  /\ \E S : Append(s, x) \in Seq(S)
           /\ Len(s) \in Nat /\ Len(Append(s, x)) = Len(s) + 1
           /\ \A i \in 1 .. Len(s) : Append(s, x)[i] = s[i]
           /\ Append(s, x)[Len(s) + 1] = x
<1>1. PICK S : s \in Seq(S)
  OBVIOUS
<1> DEFINE T == S \cup {x}
<1>2. s \in Seq(T) /\ x \in T
  BY <1>1
<1> HIDE DEF T
<1> QED BY <1>2, AppendProperties

LEMMA RestIs ==
    ASSUME NEW S, NEW s, NEW n \in Nat, n > 0, \A i \in 1 .. n : s[i] \in S
    PROVE  /\ SubSeq(s, 2, n) \in Seq(S) /\ Len(SubSeq(s, 2, n)) = n - 1
           /\ \A i \in 1 .. n - 1 : SubSeq(s, 2, n)[i] = s[i + 1]
<1>1. 2 \in Int /\ n \in Int /\ \A i \in 2 .. n : s[i] \in S
  OBVIOUS
<1>2. /\ SubSeq(s, 2, n) \in Seq(S)
      /\ Len(SubSeq(s, 2, n)) = IF 2 <= n THEN n - 2 + 1 ELSE 0
      /\ \A i \in 1 .. n - 2 + 1 : SubSeq(s, 2, n)[i] = s[2 + i - 1]
  BY <1>1, SubSeqProperties
<1> QED BY <1>2

LEMMA FirstTaken ==
    ASSUME NEW s, \E S : s \in Seq(S), 1 \in 1 .. Len(s)
    PROVE  /\ \E S : RemoveAt(s, 1) \in Seq(S)
           /\ Len(s) \in Nat /\ Len(RemoveAt(s, 1)) = Len(s) - 1
           /\ \A i \in 1 .. Len(s) - 1 : RemoveAt(s, 1)[i] = s[i + 1]
<1>1. PICK S : s \in Seq(S)
  OBVIOUS
<1> DEFINE a == SubSeq(s, 1, 0)
           b == SubSeq(s, 2, Len(s))
<1>2. a = <<>>
  BY <1>1
<1>3. PICK n \in Nat : n = Len(s) /\ n > 0
  BY <1>1
<1>4. b \in Seq(S) /\ Len(b) = n - 1 /\ \A i \in 1 .. n - 1 : b[i] = s[i + 1]
  <2>1. \A i \in 1 .. n : s[i] \in S
    BY <1>1, <1>3
  <2>2. /\ SubSeq(s, 2, n) \in Seq(S) /\ Len(SubSeq(s, 2, n)) = n - 1
        /\ \A i \in 1 .. n - 1 : SubSeq(s, 2, n)[i] = s[i + 1]
    BY <1>3, <2>1, RestIs
  <2> QED BY <1>3, <2>2, Zenon
<1>5. RemoveAt(s, 1) = a \o b
  BY DEF RemoveAt
<1> HIDE DEF a, b
<1>6. a \o b = b
  BY <1>2, <1>4, ConcatEmptySeq
<1> QED BY <1>3, <1>4, <1>5, <1>6

listState == <<stored, due, rec, lock>>

LEMMA ListSame == ASSUME ListInv, UNCHANGED listState PROVE ListInv'
BY DEF ListInv, listState, ListShaped, OneRuns, RowsAreExact, ReadsAreWhole, Untold, MessagesOf

(* A write that joins the queue of its thread: all that was still to come   *)
(* still is, the message too whose write this is.                           *)
LEMMA JoinStep ==
    ASSUME ListInv, NEW t, NEW op, t \in Threads => IsWrite(t, op), op.at = "wait",
           lock' = Enqueued(t, op), UNCHANGED <<stored, rec>>,
           due' = due \/ (t \in Threads /\ op.k = "upsert" /\ due' = due \ {op.m})
    PROVE  ListInv'
<1>1. ListShaped /\ OneRuns /\ RowsAreExact /\ ReadsAreWhole
  BY DEF ListInv
<1>2. CASE t \notin Threads
  <2>1. lock' = lock /\ due' = due
    BY <1>1, <1>2 DEF Enqueued, ListShaped
  <2> QED BY <2>1, ListSame DEF listState
<1>3. CASE t \in Threads
  <2>1. lock' = [u \in Threads |-> lock'[u]] /\ lock'[t] = Append(lock[t], op)
        /\ \A u \in Threads : u # t => lock'[u] = lock[u]
    BY <1>1, <1>3 DEF Enqueued, ListShaped
  <2>2. \E S : lock[t] \in Seq(S)
    BY <1>1, <1>3 DEF ListShaped
  <2>3. /\ \E S : lock'[t] \in Seq(S)
        /\ Len(lock[t]) \in Nat /\ Len(lock'[t]) = Len(lock[t]) + 1
        /\ \A i \in 1 .. Len(lock[t]) : lock'[t][i] = lock[t][i]
        /\ lock'[t][Len(lock[t]) + 1] = op
    <3> DEFINE q == Append(lock[t], op)
    <3>1. /\ \E S : q \in Seq(S)
          /\ Len(lock[t]) \in Nat /\ Len(q) = Len(lock[t]) + 1
          /\ \A i \in 1 .. Len(lock[t]) : q[i] = lock[t][i]
          /\ q[Len(lock[t]) + 1] = op
      BY <2>2, AddedLast, Zenon
    <3>2. lock'[t] = q
      BY <2>1
    <3> HIDE DEF q
    <3> QED BY <3>1, <3>2
  <2>4. \A i \in 1 .. Len(lock'[t]) : i \in 1 .. Len(lock[t]) \/ lock'[t][i] = op
    BY <2>3
  <2>5. \A i \in 1 .. Len(lock[t]) : i \in 1 .. Len(lock'[t])
    BY <2>3
  <2>6. ListShaped'
    <3>1. /\ stored' \subseteq Msgs /\ due' \subseteq Msgs /\ rec' = [u \in Threads |-> rec'[u]]
          /\ \A u \in Threads : rec'[u] = NoRec \/ IsRow(u, rec'[u])
      BY <1>1 DEF ListShaped
    <3>2. \A u \in Threads : \E S : lock'[u] \in Seq(S)
      BY <1>1, <2>1, <2>3 DEF ListShaped
    <3>3. ASSUME NEW u \in Threads, NEW i \in 1 .. Len(lock'[u]) PROVE IsWrite(u, lock'[u][i])
      BY <1>1, <1>3, <2>1, <2>3, <2>4 DEF ListShaped
    <3> QED BY <2>1, <3>1, <3>2, <3>3 DEF ListShaped
  <2>7. ASSUME NEW u \in Threads, NEW m \in MessagesOf(u), Untold(u, m) PROVE Untold(u, m)'
    <3>1. CASE m \in due'
      BY <3>1 DEF Untold
    <3>2. CASE m \in due /\ m \notin due'
      <4>1. op.k = "upsert" /\ op.m = m /\ ThreadOf[m] = t
        BY <1>3, <3>2 DEF IsWrite, MsgsOf
      <4>2. u = t
        BY <4>1 DEF MessagesOf
      <4>3. Len(lock[t]) + 1 \in 1 .. Len(lock'[t])
        BY <2>3
      <4> QED BY <2>3, <4>1, <4>2, <4>3 DEF Untold
    <3>3. CASE m \notin due
      <4>1. PICK i \in 1 .. Len(lock[u]) :
              lock[u][i].k = "upsert" /\ lock[u][i].m = m /\ lock[u][i].at # "saved"
        BY <2>7, <3>3 DEF Untold
      <4>2. i \in 1 .. Len(lock'[u]) /\ lock'[u][i] = lock[u][i]
        BY <2>1, <2>3, <2>5, <4>1
      <4> QED BY <4>1, <4>2 DEF Untold
    <3> QED BY <3>1, <3>2, <3>3
  <2>8. RowsAreExact'
    BY <1>1, <2>7 DEF RowsAreExact, MessagesOf
  <2>9. ReadsAreWhole'
    <3> SUFFICES ASSUME NEW u \in Threads, NEW m \in MessagesOf(u), NEW i \in 1 .. Len(lock'[u]),
                        lock'[u][i].at = "read"
                 PROVE  m \in lock'[u][i].snap \/ Untold(u, m)'
      BY DEF ReadsAreWhole, MessagesOf
    <3>1. i \in 1 .. Len(lock[u]) /\ lock'[u][i] = lock[u][i]
      BY <2>1, <2>3, <2>4
    <3> QED BY <1>1, <2>7, <3>1 DEF ReadsAreWhole
  <2>10. OneRuns'
    <3> SUFFICES ASSUME NEW u \in Threads, NEW i \in 1 .. Len(lock'[u]), i # 1
                 PROVE  lock'[u][i].at = "wait"
      BY DEF OneRuns
    <3>1. CASE lock'[u][i] = op
      BY <3>1
    <3>2. CASE i \in 1 .. Len(lock[u]) /\ lock'[u][i] = lock[u][i]
      BY <1>1, <3>2 DEF OneRuns
    <3>3. lock'[u][i] = op \/ (i \in 1 .. Len(lock[u]) /\ lock'[u][i] = lock[u][i])
      <4>1. CASE u = t
        BY <2>3, <2>4, <4>1
      <4>2. CASE u # t
        BY <2>1, <4>2
      <4> QED BY <4>1, <4>2
    <3> QED BY <3>1, <3>2, <3>3
  <2> QED BY <2>6, <2>8, <2>9, <2>10 DEF ListInv
<1> QED BY <1>2, <1>3

(* A message is stored: its index entry is due.  A thread is deleted: its   *)
(* messages are not there to be counted.                                    *)
LEMMA StoreStep ==
    ASSUME ListInv, UNCHANGED <<rec, lock>>,
           \/ \E m \in Msgs : stored' = stored \cup {m} /\ due' = due \cup {m}
           \/ due' = due /\ stored' \subseteq stored
    PROVE  ListInv'
<1>1. ListShaped /\ OneRuns /\ RowsAreExact /\ ReadsAreWhole
  BY DEF ListInv
<1>2. stored' \subseteq Msgs /\ due' \subseteq Msgs /\ due \subseteq due' /\ stored' \ stored \subseteq due'
  BY <1>1 DEF ListShaped
<1>3. ListShaped'
  BY <1>1, <1>2 DEF ListShaped
<1>4. \A t, m : Untold(t, m) => Untold(t, m)'
  BY <1>2 DEF Untold
<1>5. \A t, m : m \in MessagesOf(t)' => m \in MessagesOf(t) \/ Untold(t, m)'
  BY <1>2 DEF MessagesOf, Untold
<1>6. RowsAreExact'
  BY <1>1, <1>4, <1>5 DEF RowsAreExact
<1>7. ReadsAreWhole'
  BY <1>1, <1>4, <1>5 DEF ReadsAreWhole
<1>8. OneRuns'
  BY <1>1 DEF OneRuns
<1> QED BY <1>3, <1>6, <1>7, <1>8 DEF ListInv

(* A write that runs reads the messages of its thread.                      *)
LEMMA ReadStep ==
    ASSUME ListInv, NEW t \in Threads, OpReads(t) PROVE ListInv'
<1>1. ListShaped /\ OneRuns /\ RowsAreExact /\ ReadsAreWhole
  BY DEF ListInv
<1>2. PICK k \in Running(t) :
        /\ lock[t][k].at = "wait"
        /\ lock' = [lock EXCEPT ![t][k].at = "read", ![t][k].snap = MessagesOf(t)]
        /\ UNCHANGED <<stored, due, rec>>
  BY DEF OpReads
<1> DEFINE op == [lock[t][k] EXCEPT !.at = "read", !.snap = MessagesOf(t)]
           q == [lock[t] EXCEPT ![k] = op]
<1>3. PICK S : lock[t] \in Seq(S)
  BY <1>1 DEF ListShaped
<1>4. k \in 1 .. Len(lock[t])
  BY <1>2, <1>3 DEF Running
<1>5. lock' = [lock EXCEPT ![t] = q]
  BY <1>1, <1>2, <1>3, <1>4 DEF ListShaped
<1>6. IsWrite(t, lock[t][k])
  BY <1>1, <1>4 DEF ListShaped
<1>7. MessagesOf(t) \subseteq MsgsOf(t)
  BY <1>1 DEF ListShaped, MessagesOf, MsgsOf
<1>8. /\ IsWrite(t, op) /\ op.at = "read" /\ op.snap = MessagesOf(t)
      /\ op.k = lock[t][k].k /\ op.m = lock[t][k].m
  BY <1>6, <1>7 DEF IsWrite
<1> HIDE DEF op
<1>9. /\ \E T : q \in Seq(T)
      /\ Len(q) = Len(lock[t]) /\ q[k] = op
      /\ \A i \in 1 .. Len(lock[t]) : i # k => q[i] = lock[t][i]
  <2> DEFINE T == S \cup {op}
  <2>1. lock[t] \in Seq(T) /\ op \in T
    BY <1>3
  <2> HIDE DEF T
  <2>2. /\ q \in Seq(T) /\ Len(q) = Len(lock[t])
        /\ \A i \in 1 .. Len(lock[t]) : q[i] = IF i = k THEN op ELSE lock[t][i]
    BY <1>4, <2>1, ExceptSeq
  <2> HIDE DEF q
  <2> QED BY <1>4, <2>2
<1> HIDE DEF q
<1>10. /\ lock' = [u \in Threads |-> lock'[u]] /\ lock'[t] = q
       /\ \A u \in Threads : u # t => lock'[u] = lock[u]
  BY <1>1, <1>5 DEF ListShaped
<1>11. ListShaped'
  <2>1. \A u \in Threads : \E T : lock'[u] \in Seq(T)
    BY <1>1, <1>9, <1>10 DEF ListShaped
  <2>2. ASSUME NEW u \in Threads, NEW i \in 1 .. Len(lock'[u]) PROVE IsWrite(u, lock'[u][i])
    <3>1. CASE u = t /\ i = k
      BY <1>8, <1>9, <1>10, <3>1
    <3>2. CASE ~ (u = t /\ i = k)
      <4>1. i \in 1 .. Len(lock[u]) /\ lock'[u][i] = lock[u][i]
        BY <1>9, <1>10, <3>2
      <4> QED BY <1>1, <4>1 DEF ListShaped
    <3> QED BY <3>1, <3>2
  <2> QED BY <1>1, <1>2, <1>10, <2>1, <2>2 DEF ListShaped
<1>12. ASSUME NEW u \in Threads, NEW m, Untold(u, m) PROVE Untold(u, m)'
  <2>1. CASE m \in due
    BY <1>2, <2>1 DEF Untold
  <2>2. CASE m \notin due
    <3>1. PICK i \in 1 .. Len(lock[u]) :
            lock[u][i].k = "upsert" /\ lock[u][i].m = m /\ lock[u][i].at # "saved"
      BY <1>12, <2>2 DEF Untold
    <3>2. i \in 1 .. Len(lock'[u]) /\ lock'[u][i].k = "upsert" /\ lock'[u][i].m = m
          /\ lock'[u][i].at # "saved"
      <4>1. CASE u = t /\ i = k
        BY <1>8, <1>9, <1>10, <3>1, <4>1
      <4>2. CASE ~ (u = t /\ i = k)
        BY <1>9, <1>10, <3>1, <4>2
      <4> QED BY <4>1, <4>2
    <3> QED BY <3>2 DEF Untold
  <2> QED BY <2>1, <2>2
<1>13. RowsAreExact'
  BY <1>1, <1>2, <1>12 DEF RowsAreExact, MessagesOf
<1>14. ReadsAreWhole'
  <2> SUFFICES ASSUME NEW u \in Threads, NEW m \in MessagesOf(u), NEW i \in 1 .. Len(lock'[u]),
                      lock'[u][i].at = "read"
               PROVE  m \in lock'[u][i].snap \/ Untold(u, m)'
    BY <1>2 DEF ReadsAreWhole, MessagesOf
  <2>1. CASE u = t /\ i = k
    BY <1>8, <1>9, <1>10, <2>1
  <2>2. CASE ~ (u = t /\ i = k)
    <3>1. i \in 1 .. Len(lock[u]) /\ lock'[u][i] = lock[u][i]
      BY <1>9, <1>10, <2>2
    <3> QED BY <1>1, <1>12, <3>1 DEF ReadsAreWhole
  <2> QED BY <2>1, <2>2
<1>15. OneRuns'
  <2> SUFFICES ASSUME NEW u \in Threads, NEW i \in 1 .. Len(lock'[u]), i # 1
               PROVE  lock'[u][i].at = "wait"
    BY DEF OneRuns
  <2>1. k = 1
    BY <1>2 DEF Running
  <2>2. i \in 1 .. Len(lock[u]) /\ lock'[u][i] = lock[u][i]
    BY <1>9, <1>10, <2>1
  <2> QED BY <1>1, <2>2 DEF OneRuns
<1> QED BY <1>11, <1>13, <1>14, <1>15 DEF ListInv

(* The list is saved, the write is over: it had told its message already.   *)
LEMMA EndStep ==
    ASSUME ListInv, NEW t \in Threads, OpEnds(t) PROVE ListInv'
<1>1. ListShaped /\ OneRuns /\ RowsAreExact /\ ReadsAreWhole
  BY DEF ListInv
<1>2. PICK k \in Running(t) :
        /\ lock[t][k].at = "saved"
        /\ lock' = [lock EXCEPT ![t] = RemoveAt(@, k)]
        /\ UNCHANGED <<stored, due, rec>>
  BY DEF OpEnds
<1> DEFINE q == RemoveAt(lock[t], 1)
<1>3. \E S : lock[t] \in Seq(S)
  BY <1>1 DEF ListShaped
<1>4. k = 1 /\ 1 \in 1 .. Len(lock[t])
  BY <1>2, <1>3 DEF Running
<1>5. /\ \E S : q \in Seq(S)
      /\ Len(lock[t]) \in Nat /\ Len(q) = Len(lock[t]) - 1
      /\ \A i \in 1 .. Len(lock[t]) - 1 : q[i] = lock[t][i + 1]
  BY <1>3, <1>4, FirstTaken, Zenon
<1>6. lock' = [lock EXCEPT ![t] = q]
  BY <1>2, <1>4
<1> HIDE DEF q
<1>7. /\ lock' = [u \in Threads |-> lock'[u]] /\ lock'[t] = q
      /\ \A u \in Threads : u # t => lock'[u] = lock[u]
  BY <1>1, <1>6 DEF ListShaped
\* Where a write that is left stood before.
<1>8. ASSUME NEW u \in Threads, NEW i \in 1 .. Len(lock'[u])
      PROVE  \E j \in 1 .. Len(lock[u]) : lock'[u][i] = lock[u][j]
  <2>1. CASE u = t
    <3>1. i + 1 \in 1 .. Len(lock[u]) /\ lock'[u][i] = lock[u][i + 1]
      BY <1>5, <1>7, <2>1
    <3> QED BY <3>1
  <2>2. CASE u # t
    BY <1>7, <2>2
  <2> QED BY <2>1, <2>2
<1>9. ASSUME NEW u \in Threads, NEW j \in 1 .. Len(lock[u]), lock[u][j].at # "saved"
      PROVE  \E i \in 1 .. Len(lock'[u]) : lock'[u][i] = lock[u][j]
  <2>1. CASE u = t
    <3>1. j # 1
      BY <1>2, <1>4, <1>9, <2>1
    <3>2. j - 1 \in 1 .. Len(lock'[u]) /\ j - 1 \in 1 .. Len(lock[t]) - 1 /\ (j - 1) + 1 = j
      BY <1>5, <1>7, <2>1, <3>1
    <3>3. lock'[u][j - 1] = lock[u][j]
      BY <1>5, <1>7, <2>1, <3>2
    <3> QED BY <3>2, <3>3
  <2>2. CASE u # t
    BY <1>7, <2>2
  <2> QED BY <2>1, <2>2
<1>10. ListShaped'
  <2>1. \A u \in Threads : \E S : lock'[u] \in Seq(S)
    BY <1>1, <1>5, <1>7 DEF ListShaped
  <2>2. \A u \in Threads : \A i \in 1 .. Len(lock'[u]) : IsWrite(u, lock'[u][i])
    BY <1>1, <1>8 DEF ListShaped
  <2> QED BY <1>1, <1>2, <1>7, <2>1, <2>2 DEF ListShaped
<1>11. ASSUME NEW u \in Threads, NEW m, Untold(u, m) PROVE Untold(u, m)'
  BY <1>2, <1>9, <1>11 DEF Untold
<1>12. RowsAreExact'
  BY <1>1, <1>2, <1>11 DEF RowsAreExact, MessagesOf
<1>13. ReadsAreWhole'
  <2> SUFFICES ASSUME NEW u \in Threads, NEW m \in MessagesOf(u), NEW i \in 1 .. Len(lock'[u]),
                      lock'[u][i].at = "read"
               PROVE  m \in lock'[u][i].snap \/ Untold(u, m)'
    BY <1>2 DEF ReadsAreWhole, MessagesOf
  <2>1. PICK j \in 1 .. Len(lock[u]) : lock'[u][i] = lock[u][j]
    BY <1>8
  <2> QED BY <1>1, <1>11, <2>1 DEF ReadsAreWhole
<1>14. OneRuns'
  <2> SUFFICES ASSUME NEW u \in Threads, NEW i \in 1 .. Len(lock'[u]), i # 1
               PROVE  lock'[u][i].at = "wait"
    BY DEF OneRuns
  <2>1. CASE u = t
    <3>1. i \in 1 .. Len(lock[t]) - 1 /\ lock'[u][i] = lock[u][i + 1]
      BY <1>5, <1>7, <2>1
    <3>2. i + 1 \in 1 .. Len(lock[u]) /\ i + 1 # 1
      BY <1>5, <2>1, <3>1
    <3> QED BY <1>1, <3>1, <3>2 DEF OneRuns
  <2>2. CASE u # t
    BY <1>1, <1>7, <2>2 DEF OneRuns
  <2> QED BY <2>1, <2>2
<1> QED BY <1>10, <1>12, <1>13, <1>14 DEF ListInv

(* The record is saved as the write makes it: what the write has read or    *)
(* brings is exact in it, the rest is still to come.                        *)
LEMMA SaveStep ==
    ASSUME ListInv, NEW t \in Threads, OpSaves(t) PROVE ListInv'
<1>1. ListShaped /\ OneRuns /\ RowsAreExact /\ ReadsAreWhole
  BY DEF ListInv
<1>2. PICK k \in Running(t) :
        /\ lock[t][k].at = "read"
        /\ rec' = [rec EXCEPT ![t] =
                     IF lock[t][k].k = "remove" THEN NoRec
                     ELSE IF Saves(lock[t][k], t)
                          THEN Written(lock[t][k], Existing(t), lock[t][k].snap) ELSE @]
        /\ lock' = [lock EXCEPT ![t][k].at = "saved", ![t][k].tips = tips]
        /\ UNCHANGED <<stored, due>>
  BY DEF OpSaves
<1> DEFINE old == lock[t][k]
           op == [old EXCEPT !.at = "saved", !.tips = tips]
           q == [lock[t] EXCEPT ![k] = op]
           w == Written(old, Existing(t), old.snap)
<1>3. PICK S : lock[t] \in Seq(S)
  BY <1>1 DEF ListShaped
<1>4. k \in 1 .. Len(lock[t])
  BY <1>2, <1>3 DEF Running
<1>5. lock' = [lock EXCEPT ![t] = q]
  BY <1>1, <1>2, <1>3, <1>4 DEF ListShaped
<1>6. IsWrite(t, old)
  BY <1>1, <1>4 DEF ListShaped
<1>7. IsWrite(t, op) /\ op.at = "saved"
  BY <1>6 DEF IsWrite
<1> HIDE DEF op
<1>8. /\ \E T : q \in Seq(T)
      /\ Len(q) = Len(lock[t]) /\ q[k] = op
      /\ \A i \in 1 .. Len(lock[t]) : i # k => q[i] = lock[t][i]
  <2> DEFINE T == S \cup {op}
  <2>1. lock[t] \in Seq(T) /\ op \in T
    BY <1>3
  <2> HIDE DEF T
  <2>2. /\ q \in Seq(T) /\ Len(q) = Len(lock[t])
        /\ \A i \in 1 .. Len(lock[t]) : q[i] = IF i = k THEN op ELSE lock[t][i]
    BY <1>4, <2>1, ExceptSeq
  <2> HIDE DEF q
  <2> QED BY <1>4, <2>2
<1> HIDE DEF q
<1>9. /\ lock' = [u \in Threads |-> lock'[u]] /\ lock'[t] = q
      /\ \A u \in Threads : u # t => lock'[u] = lock[u]
  BY <1>1, <1>5 DEF ListShaped
<1>10. /\ rec' = [u \in Threads |-> rec'[u]]
       /\ \A u \in Threads : u # t => rec'[u] = rec[u]
       /\ rec'[t] = IF old.k = "remove" THEN NoRec ELSE IF Saves(old, t) THEN w ELSE rec[t]
  BY <1>1, <1>2 DEF ListShaped
<1>11. IsRow(t, Existing(t)) /\ (rec[t] # NoRec => Existing(t) = rec[t])
  <2>1. IsRow(t, EmptyEntry)
    BY DEF IsRow, EmptyEntry, NoRec, Record, Key
  <2> QED BY <1>1, <2>1 DEF Existing, ListShaped
<1>12. old.snap \subseteq MsgsOf(t) /\ old.k \in WriteKinds
  BY <1>6 DEF IsWrite
<1> HIDE DEF old, w
<1>13. old.k # "remove" =>
         /\ IsRow(t, w)
         /\ old.k = "ensure" /\ old.snap = {} => w = Existing(t)
         /\ ~(old.k = "ensure" /\ old.snap = {}) =>
              \A m \in MsgsOf(t) : m \in old.snap \/ (old.k = "upsert" /\ m = old.m) => Exact(w, m)
  BY <1>6, <1>11, <1>12, WrittenIs DEF w
\* The record stays as it is, or is exact about what the write knows of.
<1>14. \/ rec'[t] = NoRec
       \/ rec'[t] = rec[t] /\ rec[t] # NoRec
       \/ /\ IsRow(t, rec'[t])
          /\ \A m \in MsgsOf(t) :
               m \in old.snap \/ (old.k = "upsert" /\ m = old.m) => Exact(rec'[t], m)
  <2>1. CASE old.k = "remove"
    BY <1>10, <2>1
  <2>2. CASE old.k = "ensure" /\ old.snap = {}
    <3>1. Saves(old, t) => rec[t] # NoRec
      BY <2>2 DEF Saves
    <3> QED BY <1>10, <1>11, <1>13, <2>2, <3>1
  <2>3. CASE old.k # "remove" /\ ~(old.k = "ensure" /\ old.snap = {})
    <3>1. Saves(old, t)
      BY <2>3 DEF Saves
    <3> QED BY <1>10, <1>13, <2>3, <3>1
  <2> QED BY <2>1, <2>2, <2>3
<1>15. ListShaped'
  <2>1. \A u \in Threads : \E T : lock'[u] \in Seq(T)
    BY <1>1, <1>8, <1>9 DEF ListShaped
  <2>2. ASSUME NEW u \in Threads, NEW i \in 1 .. Len(lock'[u]) PROVE IsWrite(u, lock'[u][i])
    <3>1. CASE u = t /\ i = k
      BY <1>7, <1>8, <1>9, <3>1
    <3>2. CASE ~ (u = t /\ i = k)
      <4>1. i \in 1 .. Len(lock[u]) /\ lock'[u][i] = lock[u][i]
        BY <1>8, <1>9, <3>2
      <4> QED BY <1>1, <4>1 DEF ListShaped
    <3> QED BY <3>1, <3>2
  <2>3. \A u \in Threads : rec'[u] = NoRec \/ IsRow(u, rec'[u])
    BY <1>1, <1>10, <1>14 DEF ListShaped
  <2> QED BY <1>1, <1>2, <1>9, <1>10, <2>1, <2>2, <2>3 DEF ListShaped
\* Only this write's own message is no longer to come.
<1>16. ASSUME NEW u \in Threads, NEW m, Untold(u, m)
       PROVE  Untold(u, m)' \/ (u = t /\ old.k = "upsert" /\ old.m = m)
  <2>1. CASE m \in due
    BY <1>2, <2>1 DEF Untold
  <2>2. CASE m \notin due
    <3>1. PICK i \in 1 .. Len(lock[u]) :
            lock[u][i].k = "upsert" /\ lock[u][i].m = m /\ lock[u][i].at # "saved"
      BY <1>16, <2>2 DEF Untold
    <3>2. CASE u = t /\ i = k
      BY <3>1, <3>2 DEF old
    <3>3. CASE ~ (u = t /\ i = k)
      <4>1. i \in 1 .. Len(lock'[u]) /\ lock'[u][i] = lock[u][i]
        BY <1>8, <1>9, <3>3
      <4> QED BY <3>1, <4>1 DEF Untold
    <3> QED BY <3>2, <3>3
  <2> QED BY <2>1, <2>2
<1>17. RowsAreExact'
  <2> SUFFICES ASSUME NEW u \in Threads, NEW m \in MessagesOf(u), rec'[u] # NoRec
               PROVE  Untold(u, m)' \/ Exact(rec'[u], m)
    BY <1>2 DEF RowsAreExact, MessagesOf
  <2>1. CASE u # t
    BY <1>1, <1>10, <1>16, <2>1 DEF RowsAreExact
  <2>2. CASE u = t
    <3>1. m \in MsgsOf(t) /\ m \in MessagesOf(t)
      BY <1>1, <2>2 DEF MessagesOf, MsgsOf, ListShaped
    <3>2. m \in old.snap \/ Untold(t, m)
      BY <1>1, <1>2, <1>4, <3>1 DEF ReadsAreWhole, old
    <3>3. m \in old.snap \/ (old.k = "upsert" /\ old.m = m) \/ Untold(t, m)'
      BY <1>16, <3>2
    <3>4. CASE rec'[t] = rec[t] /\ rec[t] # NoRec
      <4>1. Untold(t, m) \/ Exact(rec[t], m)
        BY <1>1, <3>1, <3>4 DEF RowsAreExact
      <4>2. CASE Exact(rec[t], m)
        BY <2>2, <3>4, <4>2
      <4>3. CASE Untold(t, m) /\ ~Untold(t, m)'
        <5>1. old.k = "upsert" /\ old.m = m
          BY <1>16, <4>3
        <5>2. Exact(w, m) /\ Saves(old, t)
          BY <1>13, <3>1, <5>1 DEF Saves
        <5> QED BY <1>10, <2>2, <5>1, <5>2
      <4> QED BY <2>2, <4>1, <4>2, <4>3
    <3> QED BY <1>14, <2>2, <3>1, <3>3, <3>4
  <2> QED BY <2>1, <2>2
<1>18. ReadsAreWhole'
  <2> SUFFICES ASSUME NEW u \in Threads, NEW m \in MessagesOf(u), NEW i \in 1 .. Len(lock'[u]),
                      lock'[u][i].at = "read"
               PROVE  m \in lock'[u][i].snap \/ Untold(u, m)'
    BY <1>2 DEF ReadsAreWhole, MessagesOf
  <2>1. ~ (u = t /\ i = k)
    BY <1>7, <1>8, <1>9
  <2>2. i \in 1 .. Len(lock[u]) /\ lock'[u][i] = lock[u][i]
    BY <1>8, <1>9, <2>1
  <2>3. m \in lock[u][i].snap \/ Untold(u, m)
    BY <1>1, <2>2 DEF ReadsAreWhole
  <2>4. k = 1
    BY <1>2 DEF Running
  <2>5. u # t
    BY <1>1, <2>1, <2>2, <2>4 DEF OneRuns
  <2> QED BY <1>16, <2>2, <2>3, <2>5
<1>19. OneRuns'
  <2> SUFFICES ASSUME NEW u \in Threads, NEW i \in 1 .. Len(lock'[u]), i # 1
               PROVE  lock'[u][i].at = "wait"
    BY DEF OneRuns
  <2>1. k = 1
    BY <1>2 DEF Running
  <2>2. i \in 1 .. Len(lock[u]) /\ lock'[u][i] = lock[u][i]
    BY <1>8, <1>9, <2>1
  <2> QED BY <1>1, <2>2 DEF OneRuns
<1> QED BY <1>15, <1>17, <1>18, <1>19 DEF ListInv

LEMMA ListBegins == ASSUME ThreadInit PROVE ListInv
<1>1. /\ stored = {} /\ due = {} /\ lock = [t \in Threads |-> <<>>]
      /\ rec = [t \in Threads |-> IF t \in own THEN EmptyEntry ELSE NoRec]
  BY DEF ThreadInit
<1>2. \A t \in Threads : IsRow(t, EmptyEntry)
  BY DEF IsRow, EmptyEntry, NoRec, Record, Key
<1>3. \A t \in Threads : lock[t] \in Seq({}) /\ Len(lock[t]) = 0
  BY <1>1
<1>4. ListShaped
  BY <1>1, <1>2, <1>3 DEF ListShaped
<1>5. OneRuns /\ RowsAreExact /\ ReadsAreWhole
  BY <1>1, <1>3 DEF OneRuns, RowsAreExact, ReadsAreWhole, MessagesOf
<1> QED BY <1>4, <1>5 DEF ListInv

(* A write that is asked for by a call is a write of whatever thread.       *)
LEMMA CallIsWrite ==
    ASSUME NEW t, NEW k \in {"read", "chread", "remove", "ensure"}, NEW c, NEW id
    PROVE  LET op == Write(k, 0, c, id) IN
           IsWrite(t, op) /\ op.at = "wait" /\ op.k # "upsert"
BY DEF Write, IsWrite, WriteKinds, Key

LEMMA CallStep ==
    ASSUME ListInv, NEW id,
           \/ TakeRead(id) \/ TakeState(id) \/ TakeCreate(id) \/ TakeDelete(id)
           \/ DeleteChecks(id) \/ TakeList(id) \/ ListReads(id) \/ ListAnswers(id)
    PROVE  ListInv'
<1>1. ASSUME NEW t, NEW k \in {"read", "chread", "remove", "ensure"}, NEW c,
             lock' = Enqueued(t, Write(k, 0, c, id)), UNCHANGED <<stored, rec, due>>
      PROVE  ListInv'
  BY <1>1, CallIsWrite, JoinStep
<1>2. ASSUME UNCHANGED listState PROVE ListInv'
  BY <1>2, ListSame
<1>3. CASE TakeRead(id)
  BY <1>1, <1>3 DEF TakeRead
<1>4. CASE TakeState(id)
  BY <1>2, <1>4 DEF TakeState, threadVars, listState
<1>5. CASE TakeCreate(id)
  BY <1>1, <1>2, <1>5 DEF TakeCreate, listState
<1>6. CASE TakeDelete(id)
  <2>1. due' = due /\ stored' \subseteq stored /\ UNCHANGED <<rec, lock>>
    BY <1>6 DEF TakeDelete
  <2> QED BY <2>1, StoreStep
<1>7. CASE DeleteChecks(id)
  BY <1>1, <1>2, <1>7 DEF DeleteChecks, listState
<1>8. CASE TakeList(id)
  BY <1>2, <1>8 DEF TakeList, listState
<1>9. CASE ListReads(id)
  BY <1>1, <1>2, <1>9 DEF ListReads, listState
<1>10. CASE ListAnswers(id)
  BY <1>2, <1>10 DEF ListAnswers, listState
<1> QED BY <1>3, <1>4, <1>5, <1>6, <1>7, <1>8, <1>9, <1>10

LEMMA ListStepKeeps == ASSUME ListInv, Receives \/ ThreadStep PROVE ListInv'
<1>1. CASE Receives
  <2>1. PICK m \in Msgs : stored' = stored \cup {m} /\ due' = due \cup {m}
                          /\ UNCHANGED <<rec, lock>>
    BY <1>1 DEF Receives, Persist
  <2> QED BY <2>1, StoreStep
<1>2. ASSUME NEW m \in Msgs, IndexMessage(m) PROVE ListInv'
  <2> DEFINE t == ThreadOf[m]
             op == Write("upsert", m, ChanOf[m], 0)
  <2>1. /\ due' = due \ {m} /\ lock' = Enqueued(t, op) /\ UNCHANGED <<stored, rec>>
    BY <1>2 DEF IndexMessage
  <2>2. t \in Threads /\ m \in MsgsOf(t) /\ m \in Key
    BY WindowAssumption DEF MsgsOf, Key
  <2>3. op.k = "upsert" /\ op.m = m /\ op.at = "wait"
    BY DEF Write
  <2>4. IsWrite(t, op)
    BY <2>2 DEF Write, IsWrite, WriteKinds
  <2> HIDE DEF t, op
  <2> QED BY <2>1, <2>2, <2>3, <2>4, JoinStep
<1>3. CASE UserActs
  <2>1. UNCHANGED threadVars
    BY <1>3 DEF UserActs, Acts
  <2> QED BY <2>1, ListSame DEF threadVars, listState
<1> QED BY <1>1, <1>2, <1>3, ReadStep, SaveStep, EndStep, CallStep DEF ThreadStep

-----------------------------------------------------------------------------
(* The server.                                                              *)

ServerInv == HomeInv /\ ListInv

(* The strengthened invariant of the running server: binds in order and one *)
(* at a time, no bind on a lost transport (ServerRuntimeService.js:169-430), *)
(* and of every stored message that its record is exact about it or its     *)
(* index write still to come (ChatThreadIndex.js:173-409).                  *)
THEOREM ServerAlways == ServerSpec => []ServerInv
<1>1. ServerInit => ServerInv
  BY HomeBegins, ListBegins DEF ServerInit, ServerInv
<1>2. ServerInv /\ [ServerNext]_serverVars => ServerInv'
  <2> SUFFICES ASSUME ServerInv, [ServerNext]_serverVars PROVE ServerInv'
    OBVIOUS
  <2>1. HomeInv /\ ListInv
    BY DEF ServerInv
  <2>2. ASSUME UNCHANGED threadVars PROVE ListInv'
    BY <2>1, <2>2, ListSame DEF threadVars, listState
  <2>3. ASSUME UNCHANGED homeVars PROVE HomeInv'
    BY <2>1, <2>3, HomeSame DEF homeVars, bindVars, bindState
  <2>4. CASE HostStep
    BY <2>2, <2>3, <2>4 DEF HostStep, ServerInv
  <2>5. CASE SessionStep
    BY <2>1, <2>2, <2>5, HomeStepKeeps DEF SessionStep, ServerInv
  <2>6. CASE ListStep
    BY <2>1, <2>3, <2>6, ListStepKeeps DEF ListStep, ServerInv
  <2>7. CASE UNCHANGED serverVars
    BY <2>2, <2>3, <2>7 DEF serverVars, ServerInv
  <2> QED BY <2>4, <2>5, <2>6, <2>7 DEF ServerNext
<1> QED BY <1>1, <1>2, PTL DEF ServerSpec

(* A thread of which nothing is under way has nothing that is still to come. *)
LEMMA CountsAreExact == ASSUME ListInv PROVE CountIsExact
<1>1. ListShaped /\ RowsAreExact
  BY DEF ListInv
<1> SUFFICES ASSUME NEW t \in Threads, ~Settling(t), rec[t] # NoRec
             PROVE  rec[t].unread \cap stored = Unread(MessagesOf(t), rec[t])
  BY DEF CountIsExact
<1>2. Len(lock[t]) = 0 /\ \A m \in due : ThreadOf[m] # t
  BY DEF Settling
<1>3. \A m \in MessagesOf(t) : ~Untold(t, m)
  BY <1>2 DEF Untold, MessagesOf
<1>4. \A m \in MessagesOf(t) : Exact(rec[t], m)
  BY <1>1, <1>3 DEF RowsAreExact
<1>5. rec[t].unread \subseteq MsgsOf(t)
  BY <1>1 DEF ListShaped, IsRow
<1> QED BY <1>4, <1>5 DEF Exact, Unread, MessagesOf, MsgsOf

(* What the server keeps is right: an app that was told it is connected has *)
(* a bound session, an idle account session has its timer, and a thread at  *)
(* rest counts exactly what is stored beyond its read markers.              *)
THEOREM ServerSound == ServerSpec => []ServerIsSound
<1>1. ServerInv => ServerIsSound
  BY CountsAreExact DEF ServerInv, HomeInv, ServerIsSound
<1> QED BY <1>1, ServerAlways, PTL
=============================================================================
