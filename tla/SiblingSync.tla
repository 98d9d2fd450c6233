------------------------------ MODULE SiblingSync ------------------------------
(***************************************************************************)
(* Anti-entropy between two devices of one account over the signed facts of *)
(* one conversation (ServerSiblingSyncService): a digest that differs is    *)
(* answered with an inventory, an inventory with the facts it lacks, and    *)
(* every transferred fact is admitted as if it were new.                    *)
(*                                                                         *)
(* External: the sealed channel between the devices, whose inbox keeps the  *)
(* order and delivers its head again after a crash, and the home, which     *)
(* says whose certificates are revoked.                                     *)
(***************************************************************************)
EXTENDS Naturals, Sequences, FiniteSets, FiniteSetsExt

CONSTANTS Devices,          \* two devices of the account
          Facts,            \* signed facts, numbered in fingerprint order
          Own,              \* those this account signs itself
          InventoryMax,     \* fingerprints an inventory lists (the code: 2000)
          RoundsPerWindow   \* rounds of one origin in a window (the code: 6)

VARIABLES
    known,      \* devices at which the peer is an active contact
    kind,       \* the conversation: "direct" or "group"
    log,        \* per device: the immutable facts it holds
    rejected,   \* per device, in memory: facts it will not ask for again
    roundCount, \* per device, in memory: rounds allowed in this window
    box,        \* per device: what its sibling sent, in order
    task,       \* per device: how far it is in the transfer at the head
    revoked,    \* facts whose certificate is revoked
    vetted,     \* history: what a device found unrevoked, or received live
    allowance   \* what is left of the bounds

memory == <<rejected, roundCount, task>>
logVars == <<kind, log, memory, box, revoked, vetted, allowance>>

Sibling(d) == CHOOSE e \in Devices : e # d
Idle == [at |-> "no", todo |-> {}, got |-> FALSE]
Bounds == {"lose", "fault", "crash", "revoke", "hurry"}

Digest(fs) == [op |-> "digest", facts |-> fs, reply |-> FALSE]
Inventory(fs, reply) == [op |-> "inventory", facts |-> fs, reply |-> reply]
Transfer(fs) == [op |-> "transfer", facts |-> fs, reply |-> FALSE]

LogsTypeOK ==
    /\ kind \in {"direct", "group"}
    /\ log \in [Devices -> SUBSET Facts]
    /\ rejected \in [Devices -> SUBSET Facts]
    /\ roundCount \in [Devices -> 0 .. RoundsPerWindow]
    /\ \A d \in Devices : \A i \in DOMAIN box[d] :
          box[d][i] \in [op : {"digest", "inventory", "transfer"},
                         facts : SUBSET Facts, reply : BOOLEAN]
    /\ task \in [Devices -> [at : {"no", "check", "append"}, todo : SUBSET Facts,
                             got : BOOLEAN]]
    /\ revoked \subseteq Facts
    /\ vetted \subseteq Devices \X Facts

LogsInit(thread, limits) ==
    /\ kind = thread
    /\ log = [d \in Devices |-> {}]
    /\ rejected = [d \in Devices |-> {}]
    /\ roundCount = [d \in Devices |-> 0]
    /\ box = [d \in Devices |-> <<>>]
    /\ task = [d \in Devices |-> Idle]
    /\ revoked = {} /\ vetted = {} /\ allowance = limits

Spend(b) == allowance[b] > 0 /\ allowance' = [allowance EXCEPT ![b] = @ - 1]
Free == UNCHANGED allowance

-----------------------------------------------------------------------------
(* Facts that come from elsewhere.                                          *)

\* The inbound seam takes a fact into the conversation: of a direct one, what
\* an active contact signed; what the account signed itself is refused there,
\* whose peer it is not (the binding of a direct thread to its peer).
Admits(d, f) == kind = "group" \/ (f \notin Own /\ d \in known)

\* A fact names the conversation as its author knows it.
NamesThread(f) == kind = "group" \/ f \in Own

Records(d, f) == log' = [log EXCEPT ![d] = @ \cup {f}]

\* A message of the peer is delivered to this device, its sibling may miss it;
\* or the user of this device writes one.
Lives(d, f) ==
    /\ f \notin log[d]
    /\ IF f \in Own THEN \A e \in Devices : f \notin log[e] ELSE Admits(d, f)
    /\ Records(d, f)
    /\ vetted' = vetted \cup {<<d, f>>}
    /\ UNCHANGED <<kind, memory, box, revoked, allowance>>

Revoke(f) ==
    /\ f \notin revoked /\ Spend("revoke")
    /\ revoked' = revoked \cup {f}
    /\ UNCHANGED <<kind, log, memory, box, vetted>>

-----------------------------------------------------------------------------
(* The exchange.                                                            *)

\* The boxes after d is done with what it handled and has sent ms, which are
\* lost when the targets cannot be established or a dispatch fails.
Sends(d, done, ms) ==
    LET left == IF done THEN [box EXCEPT ![d] = Tail(@)] ELSE box IN
    \/ box' = [left EXCEPT ![Sibling(d)] = @ \o ms] /\ Free
    \/ ms # <<>> /\ box' = left /\ Spend("lose")

Head1(d, op) == task[d] = Idle /\ box[d] # <<>> /\ Head(box[d]).op = op
Allowed(d) == roundCount[d] < RoundsPerWindow
CountRound(d) == roundCount' = [roundCount EXCEPT ![d] = @ + 1]

\* syncAll, on a connect and throttled to once a minute: as a rule all that was
\* sent before is handled by then, and the windows of ten minutes have passed.
Quiet == \A d \in Devices : box[d] = <<>>
Announce(d) ==
    /\ Quiet
    /\ roundCount' = [e \in Devices |-> 0]
    /\ Sends(d, FALSE, <<Digest(log[d])>>)
    /\ UNCHANGED <<kind, log, rejected, task, revoked, vetted>>

\* Or sooner: amid an exchange or after it in the same window.
Hurries(d) ==
    /\ Len(box[Sibling(d)]) <= 1 /\ Spend("hurry")
    /\ box' = [box EXCEPT ![Sibling(d)] = Append(@, Digest(log[d]))]
    /\ UNCHANGED <<kind, log, memory, revoked, vetted>>

\* The first of the sorted fingerprints.
Listed(fs) == {f \in fs : Cardinality({g \in fs : g < f}) < InventoryMax}

Differs(d) == Head(box[d]).facts # log[d]

HandleDigest(d) ==
    /\ Head1(d, "digest")
    /\ IF Differs(d) /\ Allowed(d)
       THEN CountRound(d) /\ Sends(d, TRUE, <<Inventory(Listed(log[d]), TRUE)>>)
       ELSE Sends(d, TRUE, <<>>) /\ UNCHANGED roundCount
    /\ UNCHANGED <<kind, log, rejected, task, revoked, vetted>>

\* Wrong variant: what the sibling lacks is taken from the inventory itself.
LacksListed(d) == Head(box[d]).facts \ log[d]
Lacks(d) == log[d] \ Head(box[d]).facts
Missing(d) == Head(box[d]).facts \ (log[d] \cup rejected[d])

\* What the sibling lacks is sent; what this device lacks is asked for by the
\* inventory that ends the exchange.
HandleInventory(d) ==
    /\ Head1(d, "inventory")
    /\ LET push == IF Lacks(d) = {} THEN <<>> ELSE <<Transfer(Lacks(d))>>
           asks == Head(box[d]).reply /\ Missing(d) # {} /\ Allowed(d)
       IN /\ Sends(d, TRUE, IF asks THEN Append(push, Inventory(Listed(log[d]), FALSE))
                            ELSE push)
          /\ IF asks THEN CountRound(d) ELSE UNCHANGED roundCount
    /\ UNCHANGED <<kind, log, rejected, task, revoked, vetted>>

TakeTransfer(d) ==
    /\ Head1(d, "transfer")
    /\ task' = [task EXCEPT ![d] = [Idle EXCEPT !.at = "check",
                                               !.todo = Head(box[d]).facts]]
    /\ UNCHANGED <<kind, log, rejected, roundCount, box, revoked, vetted, allowance>>

Current(d) == Min(task[d].todo)
NextFact(d, got) ==
    task' = [task EXCEPT ![d] = [at |-> "check", todo |-> task[d].todo \ {Current(d)},
                                 got |-> task[d].got \/ got]]

\* The source of revocations is out of reach: deferred.
Defers(d) == Spend("fault") /\ NextFact(d, FALSE) /\ UNCHANGED rejected

\* #admitFact up to the seam: a revoked signer, a fact it has, or a new one.
CheckFact(d) ==
    /\ task[d].at = "check" /\ task[d].todo # {}
    /\ LET f == Current(d) IN
       \/ Defers(d) /\ UNCHANGED vetted
       \/ /\ f \in revoked /\ Free
          /\ rejected' = [rejected EXCEPT ![d] = @ \cup {f}]
          /\ NextFact(d, FALSE) /\ UNCHANGED vetted
       \/ /\ f \notin revoked /\ Free /\ UNCHANGED rejected
          /\ vetted' = vetted \cup {<<d, f>>}
          /\ IF f \in log[d] /\ NamesThread(f) THEN NextFact(d, TRUE)
             ELSE task' = [task EXCEPT ![d].at = "append"]
    /\ UNCHANGED <<kind, log, roundCount, box, revoked>>

\* The seam, and the look whether it landed, by the name the fact gives.
AppendFact(d) ==
    /\ task[d].at = "append"
    /\ LET f == Current(d) IN
       IF Admits(d, f) THEN Records(d, f) /\ NextFact(d, NamesThread(f))
       ELSE UNCHANGED log /\ NextFact(d, FALSE)
    /\ UNCHANGED <<kind, rejected, roundCount, box, revoked, vetted, allowance>>

\* Acknowledged; and the digest again when something was admitted.
TransferDone(d) ==
    /\ task[d].at = "check" /\ task[d].todo = {}
    /\ task' = [task EXCEPT ![d] = Idle]
    /\ IF task[d].got /\ Allowed(d)
       THEN CountRound(d) /\ Sends(d, TRUE, <<Digest(log[d])>>)
       ELSE Sends(d, TRUE, <<>>) /\ UNCHANGED roundCount
    /\ UNCHANGED <<kind, log, rejected, revoked, vetted>>

\* The process dies: what it rejected and counted is forgotten.
Restart(d) ==
    /\ Spend("crash")
    /\ rejected' = [rejected EXCEPT ![d] = {}]
    /\ roundCount' = [roundCount EXCEPT ![d] = 0]
    /\ task' = [task EXCEPT ![d] = Idle]
    /\ UNCHANGED <<kind, log, box, revoked, vetted>>

Handles(d) ==
    \/ HandleDigest(d) \/ HandleInventory(d) \/ TakeTransfer(d) \/ CheckFact(d)
    \/ AppendFact(d) \/ TransferDone(d)

LogsNext ==
    \/ \E d \in Devices :
          \/ \E f \in Facts : Lives(d, f)
          \/ Announce(d) \/ Hurries(d) \/ Handles(d) \/ Restart(d)
    \/ \E f \in Facts : Revoke(f)
=============================================================================
