---------------------------- MODULE DeviceFanout ----------------------------
(***************************************************************************)
(* The delivery of one message to every device of the peer: the resolution *)
(* of the peer's published device set (ServerDeviceSetService), one sealed *)
(* copy per device, the durable cache of sealed copies                     *)
(* (DeviceFanoutCacheStore) and the outcome the send or the sweep gets     *)
(* (ServerMessagesService.#fanOutToPeerDevices).                           *)
(*                                                                         *)
(* A behaviour has the fan-out gate open or closed throughout. Closed, it  *)
(* is a behaviour of OutboundMessages; open, a fan-out stands where a      *)
(* single copy was sent. The copies of one message go out concurrently,    *)
(* and a send and the sweep may fan out the same message at once.          *)
(***************************************************************************)
EXTENDS OutboundMessages, Sequences

CONSTANTS
  Devices,    \* devices of the peer
  Primary,    \* the one whose inbox the thread names
  PeerSet,    \* the device set of each revision the peer publishes
  FanLimits   \* allowances that go with each of Limits

FanBounds == {"gate",    \* 1: the fan-out gate is open
              "first",   \* the revision the peer has published at first
              "change",  \* the peer publishes its next device set
              "stale",   \* the overlay returns an older set
              "age"}     \* 1: a message is tried for longer than 72 hours

(* The devices that the peer's home lists at each authority epoch; it      *)
(* publishes no set when the home cannot say (#accountDeviceSetFromHome).  *)
Revisions == DOMAIN PeerSet
Sweep == NoMessage
Callers == Messages \cup {Sweep}

ASSUME PrimaryAssumption == Primary \in Devices
ASSUME PeerSetAssumption == PeerSet \in Seq((SUBSET Devices) \ {{}})
ASSUME FanLimitsAssumption ==
  FanLimits \in [Limits -> SUBSET {l \in [FanBounds -> Nat] : l["first"] <= Len(PeerSet)}]

VARIABLES
  published,    \* revision of the set the peer has on the overlay (0: none)
  resolved,     \* memory: #resolved, the revision cached for the peer
  cache,        \* durable: the cache entry of each message and device
  fan,          \* the fan-out of each send and of the sweep
  outstanding,  \* memory: inboxes whose frames a tracked message awaits
  anyDelivered, \* memory: tracked messages one of whose frames said so
  copies,       \* sealed copies on their way to a device
  deviceQueue,  \* copies the node queues
  deviceFrames, \* EVT_OUTBOUND_STATUS frames, by inbox
  spare,        \* what remains of each bound
  handed,       \* history: copies that the mesh took or the node queued
  sealings      \* history: how many sealings of it can have left for a device

fanMemory == <<resolved, outstanding, anyDelivered>>
fanNetwork == <<copies, deviceQueue, deviceFrames>>
history == <<handed, sealings>>
fanVars == <<published, fanMemory, cache, fan, fanNetwork, spare, history>>
allVars == <<vars, fanVars>>

Open == spare["gate"] > 0
Use(b) == spare[b] > 0 /\ spare' = [spare EXCEPT ![b] = @ - 1]

(* A device's part of a fan-out, by its next step or its outcome.          *)
Parts == {"none", "get", "seal", "dispatch", "skipped", "sent", "queued", "failed"}
Ended == {"none", "skipped", "sent", "queued", "failed"}

(* rev: the revision known before a fetch, then the one fanned out to.     *)
Idle == [at |-> "idle", rev |-> 0, part |-> [d \in Devices |-> "none"]]
Fanning(r) == [at |-> "devices", rev |-> r,
               part |-> [d \in Devices |-> IF d \in PeerSet[r] THEN "get" ELSE "none"]]

Of(c) == IF c = Sweep THEN sweep.at ELSE c
Called(c) == IF c = Sweep THEN sweep.at # NoMessage ELSE call[c] = "deliver"

FanInit ==
  /\ Init
  /\ resolved = 0
  /\ cache = [m \in Messages |-> [d \in Devices |-> "none"]]
  /\ fan = [c \in Callers |-> Idle]
  /\ outstanding = [m \in Messages |-> {}] /\ anyDelivered = {}
  /\ copies = {} /\ deviceQueue = {} /\ deviceFrames = {}
  /\ spare \in FanLimits[left] /\ published = spare["first"]
  /\ handed = {}
  /\ sealings = [m \in Messages |-> [d \in Devices |-> "none"]]

-----------------------------------------------------------------------------
(* The peer's device set.                                                  *)

(* publishForPeer on the peer's home, at the next authority epoch.         *)
Publish ==
  /\ Use("change")
  /\ published + 1 \in Revisions
  /\ published' = published + 1
  /\ UNCHANGED <<vars, fanMemory, cache, fan, fanNetwork, history>>

(* What durableRecords.get answers: the record the peer has there, or an   *)
(* older one.                                                              *)
Fetched(r) ==
  \/ r = published /\ UNCHANGED spare
  \/ r \in 0..(published - 1) /\ Use("stale")

(* resolveForPeer: a set fetched less than five minutes ago is used again. *)
ResolveCached(c) ==
  /\ Called(c) /\ fan[c] = Idle /\ resolved > 0
  /\ fan' = [fan EXCEPT ![c] = Fanning(resolved)]
  /\ UNCHANGED <<vars, published, fanMemory, cache, fanNetwork, spare, history>>

(* Otherwise it is fetched, and what was known is remembered across that.  *)
ResolveBegin(c) ==
  /\ Called(c) /\ fan[c] = Idle
  /\ fan' = [fan EXCEPT ![c] = [Idle EXCEPT !.at = "fetch", !.rev = resolved]]
  /\ UNCHANGED <<vars, published, fanMemory, cache, fanNetwork, spare, history>>

(* ingestPeerDeviceSet: an older set than the one known is a rollback, and *)
(* the one known is kept.                                                  *)
Ingest(known, r) == IF r < known THEN known ELSE r

(* A peer without a published set has one device, and its cached set goes. *)
ResolveEnd(c, r) ==
  /\ fan[c].at = "fetch" /\ Fetched(r)
  /\ IF r = 0
       THEN resolved' = 0 /\ fan' = [fan EXCEPT ![c] = [Idle EXCEPT !.at = "legacy"]]
       ELSE LET s == Ingest(fan[c].rev, r) IN
              /\ resolved' = IF s = r THEN r ELSE resolved
              /\ fan' = [fan EXCEPT ![c] = Fanning(s)]
  /\ UNCHANGED <<vars, published, outstanding, anyDelivered, cache, fanNetwork, history>>

-----------------------------------------------------------------------------
(* The devices' parts.                                                     *)

Part(c, d, s) == fan' = [fan EXCEPT ![c].part[d] = s]

(* DeviceFanoutCacheStore.get. History: two fan-outs of one message that   *)
(* both miss seal twice.                                                   *)
DeviceGet(c, d) ==
  LET m == Of(c)
      both == \E b \in Callers \ {c} : Of(b) = m /\ fan[b].part[d] = "seal" IN
  /\ fan[c].part[d] = "get"
  /\ \/ cache[m][d] = "none" /\ Part(c, d, "seal")
     \/ cache[m][d] = "sealed" /\ Part(c, d, "dispatch")
     \/ cache[m][d] = "delivered" /\ Part(c, d, "skipped")
  /\ sealings' = IF cache[m][d] = "none" /\ both
              THEN [sealings EXCEPT ![m][d] = "excused"] ELSE sealings
  /\ UNCHANGED <<vars, published, fanMemory, cache, fanNetwork, spare, handed>>

(* History: one more copy of it is sealed.                                 *)
SealedAgain(m, d) ==
  sealings' = [sealings EXCEPT ![m][d] =
                 IF @ = "none" THEN "one" ELSE IF @ = "one" THEN "two" ELSE @]

(* Wrong variant: the sealed copy is not kept.                             *)
SealUncached(c, d) ==
  /\ fan[c].part[d] = "seal"
  /\ Part(c, d, "dispatch") /\ SealedAgain(Of(c), d)
  /\ UNCHANGED <<vars, published, fanMemory, cache, fanNetwork, spare, handed>>

(* sealForPeerDevice, then put; either may fail. Nothing leaves before the *)
(* put: a copy lost in between costs a step of the sender's ratchet, and   *)
(* counts as not sealed.                                                   *)
DeviceSeal(c, d) ==
  /\ fan[c].part[d] = "seal"
  /\ \/ /\ Part(c, d, "dispatch") /\ SealedAgain(Of(c), d) /\ UNCHANGED left
        /\ cache' = [cache EXCEPT ![Of(c)][d] = "sealed"]
     \/ /\ Part(c, d, "failed") /\ Spend("throw") /\ UNCHANGED <<cache, sealings>>
  /\ UNCHANGED <<durable, call, memory, checked, sweep, ack, ui, network, crashed,
                 published, fanMemory, fanNetwork, spare, handed>>

(* The mesh takes the copy, the node queues it, or the dispatch rejects    *)
(* (before or after the mesh took it).                                     *)
DeviceDispatch(c, d) ==
  LET m == Of(c) IN
  /\ fan[c].part[d] = "dispatch"
  /\ \/ /\ Part(c, d, "sent") /\ copies' = copies \cup {<<m, d>>}
        /\ handed' = handed \cup {<<m, d>>} /\ UNCHANGED <<deviceQueue, left>>
     \/ /\ Part(c, d, "queued") /\ deviceQueue' = deviceQueue \cup {<<m, d>>}
        /\ handed' = handed \cup {<<m, d>>} /\ UNCHANGED <<copies, left>>
     \/ /\ Part(c, d, "failed") /\ Spend("throw")
        /\ copies' \in {copies, copies \cup {<<m, d>>}} /\ UNCHANGED <<deviceQueue, handed>>
  /\ UNCHANGED <<durable, call, memory, checked, sweep, ack, ui, network, crashed,
                 published, fanMemory, cache, deviceFrames, spare, sealings>>

-----------------------------------------------------------------------------
(* The outcome.                                                            *)

With(c, outcome) == {d \in Devices : fan[c].part[d] = outcome}
Done(c) == fan[c].at = "devices" /\ \A d \in Devices : fan[c].part[d] \in Ended

(* markDelivered, for the devices dispatched to; an entry that is gone is  *)
(* left gone.                                                              *)
Marked(c) ==
  [cache EXCEPT ![Of(c)] =
     [d \in Devices |-> IF d \in With(c, "sent") \cup With(c, "queued") /\ @[d] # "none"
                          THEN "delivered" ELSE @[d]]]

(* How the caller goes on: "throw", or what the send reports. The sweep    *)
(* does not look.                                                          *)
Return(c, result, inboxes) ==
  LET m == Of(c) IN
  /\ IF c = Sweep
       THEN sweep' = SweepNext(m) /\ UNCHANGED <<call, ui, outstanding, anyDelivered>>
       ELSE /\ call' = [call EXCEPT ![m] = IF result = "throw" THEN "idle" ELSE result]
            /\ IF result = "throw" THEN Show(m, "failed") ELSE UNCHANGED ui
            /\ outstanding' = [outstanding EXCEPT ![m] = inboxes]
            /\ anyDelivered' = anyDelivered \ {m}
            /\ UNCHANGED sweep
  /\ UNCHANGED <<durable, memory, checked, ack, network, crashed>>

(* Wrong variant: one device reached is a success.                         *)
ResultOfAny(c) == IF With(c, "sent") \cup With(c, "skipped") # {} THEN "sent" ELSE "queued"

(* A device that failed fails the whole.                                   *)
Result(c) ==
  IF With(c, "failed") # {} THEN "throw"
  ELSE IF With(c, "sent") \cup With(c, "skipped") # {} THEN "sent" ELSE "queued"

FanEnd(c) ==
  /\ Done(c)
  /\ cache' = Marked(c)
  /\ Return(c, Result(c), With(c, "queued"))
  /\ fan' = [fan EXCEPT ![c] = Idle]
  /\ UNCHANGED <<left, published, resolved, fanNetwork, spare, handed, sealings>>

LegacyEnd(c) ==
  /\ fan[c].at = "legacy"
  /\ \/ copies' = copies \cup {<<Of(c), Primary>>} /\ UNCHANGED deviceQueue
        /\ Return(c, "sent", {})
     \/ deviceQueue' = deviceQueue \cup {<<Of(c), Primary>>} /\ UNCHANGED copies
        /\ Return(c, "queued", {Primary})
  /\ fan' = [fan EXCEPT ![c] = Idle]
  /\ UNCHANGED <<left, published, resolved, cache, deviceFrames, spare, history>>

(* The set cannot be resolved, which is no reason to send to one device    *)
(* instead, or the dispatch to the one device rejects.                     *)
FanThrows(c) ==
  /\ \/ fan[c].at = "fetch" /\ UNCHANGED copies
     \/ fan[c].at = "legacy" /\ copies' \in {copies, copies \cup {<<Of(c), Primary>>}}
  /\ Spend("throw")
  /\ Return(c, "throw", {})
  /\ fan' = [fan EXCEPT ![c] = Idle]
  /\ UNCHANGED <<published, resolved, cache, deviceQueue, deviceFrames, spare, history>>

-----------------------------------------------------------------------------
(* The sweep, the network, the frames of each inbox and time.              *)

(* #retryPendingCommit drops the cached set before it sends.               *)
RetryAndInvalidate(m) ==
  /\ RetryRow(m)
  /\ resolved' = IF m \in fact THEN 0 ELSE resolved
  /\ UNCHANGED <<published, outstanding, anyDelivered, cache, fan, fanNetwork, spare, history>>

LoseCopy ==
  /\ Spend("loss")
  /\ \/ \E p \in copies : copies' = copies \ {p} /\ UNCHANGED deviceFrames
     \/ \E f \in deviceFrames : deviceFrames' = deviceFrames \ {f} /\ UNCHANGED copies
  /\ UNCHANGED <<durable, call, memory, checked, sweep, ack, ui, network, crashed,
                 published, fanMemory, cache, fan, deviceQueue, spare, history>>

DeviceSettles(m, d) ==
  /\ <<m, d>> \in deviceQueue
  /\ deviceQueue' = deviceQueue \ {<<m, d>>}
  /\ \/ /\ copies' = copies \cup {<<m, d>>} /\ UNCHANGED left
        /\ deviceFrames' = deviceFrames \cup {<<"delivered", d>>}
     \/ /\ Spend("expiry") /\ UNCHANGED copies
        /\ deviceFrames' = deviceFrames \cup {<<"expired", d>>}
  /\ UNCHANGED <<durable, call, memory, checked, sweep, ack, ui, network, crashed,
                 published, fanMemory, cache, fan, spare, history>>

DeviceReceive(m, d) ==
  /\ <<m, d>> \in copies
  /\ copies' = copies \ {<<m, d>>}
  /\ committed' = committed \cup {m}
  /\ Acknowledge(m)
  /\ UNCHANGED <<durable, call, memory, checked, sweep, ack, ui, wire, nodeQueue, frames,
                 crashed, published, fanMemory, cache, fan, deviceQueue, deviceFrames,
                 spare, history>>

(* #applyOutboundStatusToMessage, with a queued copy at several inboxes:   *)
(* the first that is delivered makes the message sent, and it fails when   *)
(* the last expires and none was delivered.                                *)
HandleDeviceStatus(f, d) ==
  LET hit == {m \in tracked : d \in outstanding[m]}
      last == {m \in hit : outstanding[m] = {d}}
      settled == (IF f = "delivered" THEN hit ELSE last) \ anyDelivered
      s == IF f = "delivered" THEN "sent" ELSE "failed" IN
  /\ <<f, d>> \in deviceFrames
  /\ deviceFrames' = deviceFrames \ {<<f, d>>}
  /\ row' = [m \in Messages |->
                IF m \in settled THEN SetMessageStatus(row, m, s)[m] ELSE row[m]]
  /\ ui' = [m \in Messages |-> IF m \in settled /\ ui[m] # "none" THEN s ELSE ui[m]]
  /\ ackPending' = IF f = "delivered" THEN ackPending \cup settled ELSE ackPending
  /\ anyDelivered' = IF f = "delivered" THEN anyDelivered \cup settled ELSE anyDelivered
  /\ queued' = queued \ settled
  /\ tracked' = tracked \ last
  /\ outstanding' = [m \in Messages |-> outstanding[m] \ (IF m \in hit THEN {d} ELSE {})]
  /\ UNCHANGED <<fact, commit, call, checked, sweep, ack, network, left, crashed,
                 published, resolved, cache, fan, copies, deviceQueue, spare, history>>

(* An entry older than 72 hours is a miss (and prune drops it at a start). *)
Age(m, d) ==
  /\ spare["age"] > 0 /\ cache[m][d] # "none"
  /\ cache' = [cache EXCEPT ![m][d] = "none"]
  /\ sealings' = [sealings EXCEPT ![m][d] = "excused"]
  /\ UNCHANGED <<vars, published, fanMemory, fan, fanNetwork, spare, handed>>

(* The recovered messages are tracked for the thread's inbox alone.        *)
RestartFan ==
  /\ Restart
  /\ resolved' = 0 /\ anyDelivered' = {} /\ deviceFrames' = {}
  /\ outstanding' = [m \in Messages |-> {Primary}]
  /\ fan' = [c \in Callers |-> Idle]
  /\ UNCHANGED <<published, cache, copies, deviceQueue, spare, history>>

-----------------------------------------------------------------------------
Also(A) == A /\ UNCHANGED fanVars
FanStep(c) ==
  \/ ResolveCached(c) \/ ResolveBegin(c) \/ (\E r \in Revisions \cup {0} : ResolveEnd(c, r))
  \/ \E d \in Devices : DeviceGet(c, d) \/ DeviceSeal(c, d) \/ DeviceDispatch(c, d)
  \/ FanEnd(c) \/ LegacyEnd(c) \/ FanThrows(c)

(* The steps that a fan-out neither replaces nor adds to.                  *)
Shared ==
  \/ \E m \in Messages :
       \/ Send(m) \/ Track(m) \/ Settle(m) \/ OpenPendingCommit(m) \/ DeleteLocal(m)
       \/ DeliveryAckCheck(m) \/ DeliveryAckSettle(m) \/ CommitAckBegin(m)
  \/ \E due \in SUBSET Messages : SweepStart(due)
  \/ CommitAckConsume \/ CommitAckSettle \/ Lose

FanNext ==
  \/ ~Open /\ Also(Next)
  \/ /\ Open
     /\ \/ Also(Shared)
        \/ \E c \in Callers : FanStep(c)
        \/ \E m \in Messages : RetryAndInvalidate(m)
        \/ \E m \in Messages, d \in Devices :
              DeviceSettles(m, d) \/ DeviceReceive(m, d) \/ Age(m, d)
        \/ \E f \in {"delivered", "expired"}, d \in Devices : HandleDeviceStatus(f, d)
        \/ Publish \/ LoseCopy \/ RestartFan

FanSpec == FanInit /\ [][FanNext]_allVars

(* The event loop runs every call on, the timer makes every row due again  *)
(* and again, the network is slow, not closed, and a cached copy grows old *)
(* while its message is tried. Asked of signed messages only.              *)
Going(m) == Track(m) \/ Settle(m) \/ OpenPendingCommit(m)
Trying(m) ==
  IF Open THEN FanStep(m) \/ RetryAndInvalidate(m)
  ELSE Also(Deliver(m) \/ RetryRow(m) \/ RetryDeliver(m))
Queue(m) == IF Open THEN \E d \in Devices : DeviceSettles(m, d) ELSE Also(NodeSettles(m))
Arrive(m) == IF Open THEN \E d \in Devices : DeviceReceive(m, d) ELSE Also(Receive(m))

FairFanSpec ==
  /\ FanSpec
  /\ \A m \in Signed :
       /\ WF_allVars(Also(Going(m)))
       /\ WF_allVars(Trying(m)) /\ WF_allVars(Queue(m)) /\ SF_allVars(Arrive(m))
       /\ SF_allVars(Also(\E due \in SUBSET Messages : m \in due /\ SweepStart(due)))
       /\ SF_allVars(Also(CommitAckBegin(m)))
       /\ WF_allVars(Open /\ \E d \in Devices : Age(m, d))
  /\ WF_allVars(Open /\ FanStep(Sweep))
  /\ WF_allVars(Also(CommitAckConsume \/ CommitAckSettle))

-----------------------------------------------------------------------------
FanTypeOK ==
  /\ TypeOK
  /\ published \in Revisions \cup {0} /\ resolved \in Revisions \cup {0}
  /\ cache \in [Messages -> [Devices -> {"none", "sealed", "delivered"}]]
  /\ fan \in [Callers -> [at : {"idle", "fetch", "devices", "legacy"},
                          rev : Revisions \cup {0}, part : [Devices -> Parts]]]
  /\ outstanding \in [Messages -> SUBSET Devices] /\ anyDelivered \subseteq Messages
  /\ copies \subseteq Messages \X Devices /\ deviceQueue \subseteq Messages \X Devices
  /\ deviceFrames \subseteq {"delivered", "expired"} \X Devices
  /\ spare \in [FanBounds -> Nat]
  /\ handed \subseteq Messages \X Devices
  /\ sealings \in [Messages -> [Devices -> {"none", "one", "two", "excused"}]]

(* A send that is reported as a success had a copy for every device of the *)
(* set it resolved taken by the mesh or the node, then or in an earlier    *)
(* attempt, across failed devices, crashes and changes of the set          *)
(* (#fanOutToPeerDevices).                                                 *)
Succeeds(m) == call[m] = "deliver" /\ call'[m] \in {"sent", "queued"}
SuccessIsWhole ==
  [][\A m \in Messages : Succeeds(m) /\ fan[m].at = "devices" =>
        \A d \in PeerSet[fan[m].rev] : <<m, d>> \in handed]_allVars

(* However often a message is tried and whatever crashes in between, what  *)
(* leaves for a device is one sealing of it, so that the recipient's       *)
(* ratchet advances once. Excused are a copy kept for too long and two     *)
(* attempts that both found none (DeviceFanoutCacheStore,                  *)
(* #fanOutToPeerDevices).                                                  *)
SealedOnce == \A m \in Messages, d \in Devices : sealings[m][d] # "two"

-----------------------------------------------------------------------------
(* What makes the two inductive.                                           *)

(* A fan-out runs only with the gate open and for a caller that waits for  *)
(* it, and has a part for each device of its set.                          *)
FansAreCalled ==
  /\ sweep.at \in sweep.todo \cup {NoMessage}
  /\ \A c \in Callers : fan[c] # Idle => Open /\ Called(c)
  /\ \A c \in Callers : fan[c].at = "devices" =>
       fan[c].rev \in Revisions /\ \A d \in PeerSet[fan[c].rev] : fan[c].part[d] # "none"

(* Whatever a fan-out calls done, or the cache delivered, was handed over. *)
DoneIsHanded ==
  /\ \A c \in Callers, d \in Devices :
       fan[c].part[d] \in {"sent", "queued", "skipped"} => <<Of(c), d>> \in handed
  /\ \A m \in Messages, d \in Devices : cache[m][d] = "delivered" => <<m, d>> \in handed

(* What was sealed is in the cache and nobody seals it again; what was not *)
(* is sealed by one fan-out at most.                                       *)
Sealing(c, m, d) == Of(c) = m /\ fan[c].part[d] = "seal"
SealedIsCached ==
  \A m \in Messages, d \in Devices :
    /\ sealings[m][d] = "one" =>
         cache[m][d] # "none" /\ \A c \in Callers : ~Sealing(c, m, d)
    /\ sealings[m][d] = "none" =>
         \A b, c \in Callers : Sealing(b, m, d) /\ Sealing(c, m, d) => b = c

FanInv == FanTypeOK /\ FansAreCalled /\ DoneIsHanded /\ SealedOnce /\ SealedIsCached
=============================================================================
