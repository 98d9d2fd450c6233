----------------------------- MODULE ThreadStore -----------------------------
(***************************************************************************)
(* The recipient's side of one thread: signed facts (messages, edits,      *)
(* tombstones, reactions) arrive in any order, some of them twice, and are *)
(* appended to the immutable log and folded into the rows the user sees    *)
(* (ServerEventService, ChatThreadStore). A mutation that arrives before   *)
(* its message waits in a durable buffer.                                  *)
(*                                                                         *)
(* The inbound pipeline admits one fact at a time. Each key-value write of *)
(* an operation is a step, because the process can die between two of      *)
(* them; the apply-outbox then delivers the fact again. The user's local   *)
(* delete comes between any two operations that take the thread lock.      *)
(***************************************************************************)
EXTENDS Naturals, Sequences

CONSTANTS
  Accounts, NoOne,
  Mids,            \* message ids, chosen by the senders
  Texts, NoText,   \* message bodies; a fingerprint tells them apart
  Facts, NoFact,   \* the signed facts the senders emit on this thread
  MaxPendingMutations,
  MaxRedeliveries, \* facts sent again by a sender that missed the ack
  MaxDeletes, MaxCrashes

Kinds == {"message", "edit", "tombstone", "add", "remove"}
Fact == [kind : Kinds, mid : Mids, by : Accounts, text : Texts \cup {NoText}, at : Nat]

ASSUME FactsAssumption == Facts \subseteq Fact /\ NoFact \notin Facts
ASSUME NoneAssumption == NoOne \notin Accounts /\ NoText \notin Texts
ASSUME StampsAssumption == \A f \in Facts : f.kind \in {"edit", "tombstone"} => f.at > 0
(* A fact is kept under its fingerprint, which a message's text stands for. *)
ASSUME FingerprintAssumption ==
  \A f \in Facts : f.kind = "message" =>
    /\ f.text # NoText
    /\ \A g \in Facts : g.kind = "message" /\ <<g.by, g.mid, g.text>> = <<f.by, f.mid, f.text>> => g = f
ASSUME BoundsAssumption ==
  /\ MaxPendingMutations \in Nat \ {0}
  /\ MaxRedeliveries \in Nat /\ MaxDeletes \in Nat /\ MaxCrashes \in Nat

(* <<m, NoOne>> is the id m, <<m, a>> the id m@a.                          *)
Ids == Mids \X (Accounts \cup {NoOne})

VARIABLES
  rows,      \* durable: the projection rows by id (by = NoOne: no row)
  flagged,   \* durable: ids of the rows marked conflicted
  log,       \* durable: the originals log
  index,     \* durable: message facts entered in the originals index
  pending,   \* durable: buffered mutations by target id, oldest first
  step,      \* what the application of the current fact does next
  fact,      \* the current fact
  drained,   \* how many buffered mutations it has applied
  done,      \* facts whose application has returned at least once
  left       \* remaining redeliveries, local deletes and crashes

vars == <<rows, flagged, log, index, pending, step, fact, drained, done, left>>

Row == [by : Accounts \cup {NoOne}, text : Texts \cup {NoText},
        hash : Texts \cup {NoText}, edited : Nat, gone : Nat,
        reactions : SUBSET Accounts]
NoRow == [by |-> NoOne, text |-> NoText, hash |-> NoText, edited |-> 0,
          gone |-> 0, reactions |-> {}]
Exists(id) == rows[id].by # NoOne

Steps == {"idle", "append", "index", "flag", "apply", "drain"}
Budgets == {"redelivery", "delete", "crash"}
Spend(b) == left[b] > 0 /\ left' = [left EXCEPT ![b] = @ - 1]

Init ==
  /\ rows = [id \in Ids |-> NoRow] /\ flagged = {}
  /\ log = {} /\ index = {}
  /\ pending = [m \in Mids |-> <<>>]
  /\ step = "idle" /\ fact = NoFact /\ drained = 0 /\ done = {}
  /\ left = [b \in Budgets |-> IF b = "redelivery" THEN MaxRedeliveries
                               ELSE IF b = "delete" THEN MaxDeletes ELSE MaxCrashes]

-----------------------------------------------------------------------------
(* What each mutation makes of a row; a refused one leaves it alone.       *)

(* Wrong variant: anyone's edit is taken.                                  *)
EditedByAnyone(r, f) ==
  IF r.gone # 0 \/ (r.edited # 0 /\ r.edited >= f.at)
    THEN r ELSE [r EXCEPT !.text = f.text, !.edited = f.at]

(* Wrong variant: a deleted message can still be edited.                   *)
EditedWhenGone(r, f) ==
  IF r.by # f.by \/ (r.edited # 0 /\ r.edited >= f.at)
    THEN r ELSE [r EXCEPT !.text = f.text, !.edited = f.at]

Edited(r, f) ==
  IF r.gone # 0 \/ r.by # f.by \/ (r.edited # 0 /\ r.edited >= f.at)
    THEN r ELSE [r EXCEPT !.text = f.text, !.edited = f.at]

(* The payload goes with the text, and the fingerprint with the payload.   *)
Tombstoned(r, f) ==
  IF r.by # f.by \/ r.gone # 0
    THEN r ELSE [r EXCEPT !.text = NoText, !.hash = NoText, !.gone = f.at]

Reacted(r, f) ==
  [r EXCEPT !.reactions = IF f.kind = "add" THEN @ \cup {f.by} ELSE @ \ {f.by}]

Mutated(r, f) ==
  IF f.kind = "edit" THEN Edited(r, f)
  ELSE IF f.kind = "tombstone" THEN Tombstoned(r, f)
  ELSE Reacted(r, f)

(* The row a fact of this message id names.                                *)
Target(f) == <<f.mid, NoOne>>

-----------------------------------------------------------------------------
Finish == step' = "idle" /\ fact' = NoFact /\ drained' = 0 /\ done' = done \cup {fact}

(* A fact arrives, for the first time or again.                            *)
Deliver(f) ==
  /\ step = "idle"
  /\ \/ f \notin done /\ UNCHANGED left
     \/ f \in done /\ Spend("redelivery")
  /\ step' = "append" /\ fact' = f
  /\ UNCHANGED <<rows, flagged, log, index, pending, drained, done>>

(* appendOriginalFact, before the projection is touched: the fact itself,  *)
(* unless it is held already ...                                           *)
AppendFact ==
  /\ step = "append"
  /\ log' = log \cup {fact}
  /\ step' = IF fact \notin log /\ fact.kind = "message" THEN "index" ELSE "apply"
  /\ UNCHANGED <<rows, flagged, index, pending, fact, drained, done, left>>

Rivals(f) == {g \in index : g.by = f.by /\ g.mid = f.mid /\ g # f}

(* ... then the index by author and id, which finds a conflict.            *)
AppendIndex ==
  /\ step = "index"
  /\ index' = index \cup {fact}
  /\ step' = IF Rivals(fact) # {} THEN "flag" ELSE "apply"
  /\ UNCHANGED <<rows, flagged, log, pending, fact, drained, done, left>>

(* markMessageConflicted looks the row up by the message id alone.         *)
FlagConflict ==
  /\ step = "flag"
  /\ flagged' = IF Exists(Target(fact)) THEN flagged \cup {Target(fact)} ELSE flagged
  /\ step' = "apply"
  /\ UNCHANGED <<rows, log, index, pending, fact, drained, done, left>>

(* upsertDepositedMessage. The same sender again: a different fingerprint  *)
(* flags the row, anything else collapses. Another sender under the same   *)
(* id gets a row of its own, and collapses only with that.                 *)
EffectiveId(f) ==
  IF Exists(Target(f)) /\ rows[Target(f)].by # f.by THEN <<f.mid, f.by>> ELSE Target(f)

(* Wrong variant: the same id again is always the same message.            *)
CollapseSilently(f) ==
  /\ Exists(EffectiveId(f))
  /\ Finish
  /\ UNCHANGED <<rows, flagged, log, index, pending, left>>

Collapse(f) ==
  LET id == EffectiveId(f)
      r == rows[id]
  IN  /\ Exists(id)
      /\ flagged' = IF id = Target(f) /\ r.hash # NoText /\ r.hash # f.text
                      THEN flagged \cup {id} ELSE flagged
      /\ Finish
      /\ UNCHANGED <<rows, log, index, pending, left>>

NewRow(f) == [by |-> f.by, text |-> f.text, hash |-> f.text, edited |-> 0,
              gone |-> 0, reactions |-> {}]

Insert(f) ==
  /\ ~Exists(EffectiveId(f))
  /\ rows' = [rows EXCEPT ![EffectiveId(f)] = NewRow(f)]
  /\ step' = "drain"
  /\ UNCHANGED <<flagged, log, index, pending, fact, drained, done, left>>

UpsertDepositedMessage ==
  /\ step = "apply" /\ fact.kind = "message"
  /\ Collapse(fact) \/ Insert(fact)

(* _drainPendingMutations: the mutations buffered for the new row's id,    *)
(* one write each, then the buffer is deleted. Senders name only original  *)
(* ids, so nothing is ever buffered for an id m@a.                         *)
Buffered(id) == IF id[2] = NoOne THEN pending[id[1]] ELSE <<>>

(* Wrong variant: the buffered mutations are passed over.                  *)
DrainNothing(id) ==
  /\ step = "drain" /\ drained < Len(Buffered(id))
  /\ drained' = drained + 1
  /\ UNCHANGED <<rows, flagged, log, index, pending, step, fact, done, left>>

DrainOne(id) ==
  /\ step = "drain" /\ drained < Len(Buffered(id))
  /\ rows' = [rows EXCEPT ![id] = Mutated(@, Buffered(id)[drained + 1])]
  /\ drained' = drained + 1
  /\ UNCHANGED <<flagged, log, index, pending, step, fact, done, left>>

DrainDone(id) ==
  /\ step = "drain" /\ drained >= Len(Buffered(id))
  /\ pending' = IF id[2] = NoOne THEN [pending EXCEPT ![id[1]] = <<>>] ELSE pending
  /\ Finish
  /\ UNCHANGED <<rows, flagged, log, index, left>>

Drain == DrainOne(EffectiveId(fact)) \/ DrainDone(EffectiveId(fact))

(* The buffer keeps the newest.                                            *)
Newest(q) ==
  IF Len(q) > MaxPendingMutations
    THEN SubSeq(q, Len(q) - MaxPendingMutations + 1, Len(q)) ELSE q

(* applyEdit, applyTombstone, applyReaction.                               *)
ApplyMutation ==
  /\ step = "apply" /\ fact.kind # "message"
  /\ \/ /\ Exists(Target(fact))
        /\ rows' = [rows EXCEPT ![Target(fact)] = Mutated(@, fact)]
        /\ UNCHANGED pending
     \/ /\ ~Exists(Target(fact))
        /\ pending' = [pending EXCEPT ![fact.mid] = Newest(Append(@, fact))]
        /\ UNCHANGED rows
  /\ Finish
  /\ UNCHANGED <<flagged, log, index, left>>

(* applyLocalDelete: the row goes, and its flag with it; the log stays.    *)
LocalDelete(id) ==
  /\ step \in {"idle", "append", "flag", "apply"}
  /\ Exists(id) /\ Spend("delete")
  /\ rows' = [rows EXCEPT ![id] = NoRow]
  /\ flagged' = flagged \ {id}
  /\ UNCHANGED <<log, index, pending, step, fact, drained, done>>

Crash ==
  /\ step # "idle" /\ Spend("crash")
  /\ step' = "idle" /\ fact' = NoFact /\ drained' = 0
  /\ UNCHANGED <<rows, flagged, log, index, pending, done>>

Next ==
  \/ \E f \in Facts : Deliver(f)
  \/ AppendFact \/ AppendIndex \/ FlagConflict
  \/ UpsertDepositedMessage \/ Drain \/ ApplyMutation
  \/ \E id \in Ids : LocalDelete(id)
  \/ Crash

Spec == Init /\ [][Next]_vars

-----------------------------------------------------------------------------
TypeOK ==
  /\ rows \in [Ids -> Row] /\ flagged \subseteq Ids
  /\ log \subseteq Facts /\ index \subseteq Facts /\ done \subseteq Facts
  /\ pending \in [Mids -> Seq(Facts)]
  /\ step \in Steps /\ fact \in Facts \cup {NoFact} /\ drained \in Nat
  /\ left \in [Budgets -> Nat]

Authored(a, m, kinds) == {f \in Facts : f.by = a /\ f.mid = m /\ f.kind \in kinds}

TextIsAuthored(r, m) ==
  r.text = NoText \/ \E f \in Authored(r.by, m, {"message", "edit"}) : f.text = r.text
DeletionIsAuthored(r, m) ==
  r.gone = 0 \/ \E f \in Authored(r.by, m, {"tombstone"}) : f.at = r.gone

(* Whatever the order, the repeats, the shared ids and the crashes, what a *)
(* row shows is its author's: the text comes from a message or an edit of  *)
(* theirs under that id, the deletion from a tombstone of theirs, also     *)
(* when it was buffered before anyone knew who owns the id                 *)
(* (_applyEditCoreUnlocked, _applyTombstoneCoreUnlocked, the drain).       *)
RowsAreAuthored ==
  \A id \in Ids : TextIsAuthored(rows[id], id[1]) /\ DeletionIsAuthored(rows[id], id[1])

BufferIsKeyed ==
  \A m \in Mids : \A i \in 1..Len(pending[m]) : pending[m][i].mid = m
FactIsSet == step # "idle" => fact \in Facts

(* The inductive form of RowsAreAuthored: a buffered mutation waits under  *)
(* the id it names, and a step has a fact.                                 *)
IInv == TypeOK /\ BufferIsKeyed /\ FactIsSet /\ RowsAreAuthored

StaysGone(id) ==
  rows[id].gone # 0 =>
    rows'[id] = NoRow \/ (rows'[id].gone = rows[id].gone /\ rows'[id].text = rows[id].text)

(* A deleted message never shows a text again as long as its row exists: a *)
(* late, repeated or buffered edit is refused (the tombstonedAtMs check of *)
(* _applyEditCoreUnlocked).                                                *)
TombstoneIsFinal == [][\A id \in Ids : StaysGone(id)]_vars

NoCrash == left["crash"] = MaxCrashes
NoDelete == left["delete"] = MaxDeletes
MessagesUnder(m) == {f \in log : f.kind = "message" /\ f.mid = m}
OneAuthor(m) == \A f, g \in MessagesUnder(m) : f.by = g.by

(* The reference fold of the facts about a message: a tombstone wins, then *)
(* the edit with the greatest stamp, then the message. It knows no order.  *)
(* Edits of one message have distinct stamps.                              *)
Latest(E) == CHOOSE f \in E : \A g \in E : g.at <= f.at
Folded(b) ==
  LET edits == Authored(b.by, b.mid, {"edit"}) \cap done
      tombstones == Authored(b.by, b.mid, {"tombstone"}) \cap done
  IN  IF tombstones # {} THEN NoText
      ELSE IF edits # {} THEN Latest(edits).text ELSE b.text

ShowsFold == \A b \in done : MessagesUnder(b.mid) = {b} => rows[Target(b)].text = Folded(b)

(* Between two operations, a message that shares its id with no other      *)
(* shows the reference fold of the facts applied so far, in whatever order *)
(* and however often they came, buffered or not, as long as nothing        *)
(* crashed and nothing was deleted here (upsertDepositedMessage, the       *)
(* drain, the stamp test of _applyEditCoreUnlocked).                       *)
Converged == step = "idle" /\ NoCrash /\ NoDelete => ShowsFold

(* Two different messages of one author under one id, used by no other     *)
(* author, are never collapsed in silence: once both have been applied the *)
(* row bears the conflict flag, also when a crash cut the append short, as *)
(* long as the row still has its fingerprint (appendOriginalFact,          *)
(* markMessageConflicted, the fingerprint test of upsertDepositedMessage). *)
ConflictIsFlagged ==
  step = "idle" /\ NoDelete =>
    \A f, g \in done :
      /\ f # g /\ {f, g} \subseteq MessagesUnder(f.mid) /\ OneAuthor(f.mid)
      /\ NoCrash \/ Authored(f.by, f.mid, {"tombstone"}) \cap log = {}
      => Target(f) \in flagged

(* A row is called conflicted only when its author signed two messages     *)
(* under its id; a repeat of an edited message is none (the fingerprint    *)
(* stays with the row). Ids used by several authors are excepted.          *)
FlagIsDeserved ==
  \A id \in flagged : OneAuthor(id[1]) =>
    \E f, g \in MessagesUnder(id[1]) : f # g /\ f.by = rows[id].by

(* A conflict is flagged, and only a conflict is.                          *)
FlagsAreRight == ConflictIsFlagged /\ FlagIsDeserved

(* Why: what is applied is logged and indexed, what is buffered is logged, *)
(* and a row comes from a logged message whose fingerprint it keeps until  *)
(* its author deletes it, ...                                              *)
NoneTombstoned(a, m) == Authored(a, m, {"tombstone"}) \cap log = {}
LogIsBase ==
  /\ index \subseteq {f \in log : f.kind = "message"}
  /\ \A m \in Mids : \A i \in 1..Len(pending[m]) : pending[m][i] \in log
  /\ step \notin {"idle", "append"} => fact \in log
  /\ step \in {"index", "flag", "drain"} => fact.kind = "message"
  /\ step = "flag" => fact \in index /\ Rivals(fact) # {}
  /\ step = "drain" => Exists(EffectiveId(fact))
  /\ done \subseteq log
  /\ left["delete"] <= MaxDeletes /\ left["crash"] <= MaxCrashes
RowsAreSent ==
  \A id \in Ids : Exists(id) =>
    /\ \E f \in MessagesUnder(id[1]) : f.by = rows[id].by
    /\ rows[id].hash # NoText => \E f \in MessagesUnder(id[1]) : f.by = rows[id].by /\ f.text = rows[id].hash
    /\ NoneTombstoned(rows[id].by, id[1]) => rows[id].hash # NoText
(* ... a message the row took in bears its fingerprint or made it flagged, *)
(* and without crashes each later rival went through the index.            *)
Taken(f) == f.kind = "message" /\ (f \in done \/ (step = "drain" /\ fact = f))
TakenIsShown ==
  NoDelete => \A f \in Facts : Taken(f) /\ OneAuthor(f.mid) =>
    /\ Exists(Target(f))
    /\ NoneTombstoned(f.by, f.mid) => rows[Target(f)].hash = f.text \/ Target(f) \in flagged
IndexFindsRivals ==
  NoCrash /\ NoDelete =>
    /\ \A f \in log : f \in done \/ (step # "idle" /\ fact = f)
    /\ \A f \in log : f.kind = "message" => f \in index \/ (step = "index" /\ fact = f)
    /\ \A f \in done, g \in log :
         /\ f # g /\ {f, g} \subseteq MessagesUnder(f.mid) /\ OneAuthor(f.mid)
         /\ ~(step \in {"index", "flag"} /\ fact = g)
         => Target(f) \in flagged
FlagInv ==
  /\ LogIsBase /\ RowsAreSent /\ TakenIsShown /\ IndexFindsRivals
  /\ \A id \in flagged : Exists(id)
  /\ FlagIsDeserved

(* Why the rows converge: until the message comes, every mutation of it is *)
(* in the buffer; from then on its row is the fold of what it has seen,    *)
(* while the buffer is drained the drained part and after that everything. *)
Shows(r, b, S) ==
  LET edits == S \cap Authored(b.by, b.mid, {"edit"})
      tombstones == S \cap Authored(b.by, b.mid, {"tombstone"})
  IN  IF tombstones # {} THEN r.gone # 0 /\ r.text = NoText
      ELSE /\ r.gone = 0
           /\ edits = {} => r.edited = 0 /\ r.text = b.text
           /\ edits # {} => \E f \in edits : /\ r.edited = f.at /\ r.text = f.text
                                             /\ \A g \in edits : g.at <= f.at
Draining(m) == step = "drain" /\ fact.mid = m /\ EffectiveId(fact) = Target(fact)
Seen(m) == IF step = "drain" /\ fact.mid = m THEN {pending[m][i] : i \in 1..drained} ELSE done
BufferKeeps ==
  /\ step # "drain" => drained = 0
  /\ step = "drain" => drained <= Len(Buffered(EffectiveId(fact)))
  /\ \A m \in Mids : \A i \in 1..Len(pending[m]) : pending[m][i] \in done
  /\ \A f \in done : f.kind # "message" /\ (~Exists(Target(f)) \/ Draining(f.mid)) =>
       \E i \in 1..Len(pending[f.mid]) : pending[f.mid][i] = f
RowsFold ==
  \A b \in log : MessagesUnder(b.mid) = {b} /\ Exists(Target(b)) =>
    Shows(rows[Target(b)], b, Seen(b.mid))
FoldInv == NoCrash /\ NoDelete => BufferKeeps /\ RowsFold

(* What convergence rests on: no buffer is full, so that none drops its    *)
(* oldest mutation (MAX_PENDING_MUTATIONS), and an author's edits of one   *)
(* message bear distinct stamps.                                           *)
BuffersHaveRoom == \A m \in Mids : Len(pending[m]) < MaxPendingMutations
StampsTellEdits ==
  \A f, g \in Facts : /\ f.kind = "edit" /\ g.kind = "edit"
                      /\ f.by = g.by /\ f.mid = g.mid /\ f.at = g.at => f.text = g.text
=============================================================================
