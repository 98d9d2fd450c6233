------------------------- MODULE ThreadStore_proofs -------------------------
(***************************************************************************)
(* For every set of accounts, ids, texts and facts: a row only ever shows  *)
(* what its author wrote, a deleted message stays deleted, and two rival   *)
(* messages are flagged as a conflict, and only they.                      *)
(***************************************************************************)
EXTENDS ThreadStore, SequenceTheorems, TLAPS

(* What a row shows is its author's.                                       *)
RowIsAuthored(r, m) == TextIsAuthored(r, m) /\ DeletionIsAuthored(r, m)

-----------------------------------------------------------------------------
(* A mutation that names a row's id keeps the row's author and leaves it   *)
(* authored: the sender tests of _applyEditCoreUnlocked and                *)
(* _applyTombstoneCoreUnlocked.                                            *)
LEMMA MutatedAuthored ==
  ASSUME NEW r \in Row, NEW f \in Facts, RowIsAuthored(r, f.mid)
  PROVE  Mutated(r, f) \in Row /\ RowIsAuthored(Mutated(r, f), f.mid)
<1>0. f \in Fact
  BY FactsAssumption
<1>1. CASE Mutated(r, f) = r
  BY <1>1
<1>2. CASE f.kind = "edit" /\ r.by = f.by /\ Mutated(r, f) = [r EXCEPT !.text = f.text, !.edited = f.at]
  <2>1. f \in Authored(r.by, f.mid, {"message", "edit"})
    BY <1>2 DEF Authored
  <2>2. Mutated(r, f) \in Row
    BY <1>0, <1>2 DEF Row, Fact
  <2>3. Mutated(r, f).by = r.by /\ Mutated(r, f).gone = r.gone /\ Mutated(r, f).text = f.text
    BY <1>2 DEF Row
  <2> QED
    BY <2>1, <2>2, <2>3 DEF RowIsAuthored, TextIsAuthored, DeletionIsAuthored
<1>3. CASE f.kind = "tombstone" /\ r.by = f.by
             /\ Mutated(r, f) = [r EXCEPT !.text = NoText, !.hash = NoText, !.gone = f.at]
  <2>1. f \in Authored(r.by, f.mid, {"tombstone"})
    BY <1>3 DEF Authored
  <2>2. Mutated(r, f) \in Row
    BY <1>0, <1>3 DEF Row, Fact
  <2>3. Mutated(r, f).by = r.by /\ Mutated(r, f).gone = f.at /\ Mutated(r, f).text = NoText
    BY <1>3 DEF Row
  <2> QED
    BY <2>1, <2>2, <2>3 DEF RowIsAuthored, TextIsAuthored, DeletionIsAuthored
<1>4. CASE f.kind \notin {"edit", "tombstone"}
  <2>1. PICK A \in SUBSET Accounts : Mutated(r, f) = [r EXCEPT !.reactions = A]
    <3>1. r.reactions \cup {f.by} \in SUBSET Accounts /\ r.reactions \ {f.by} \in SUBSET Accounts
      BY <1>0 DEF Row, Fact
    <3> QED
      BY <1>4, <3>1 DEF Mutated, Reacted
  <2>2. Mutated(r, f) \in Row
    BY <2>1 DEF Row
  <2>3. Mutated(r, f).by = r.by /\ Mutated(r, f).gone = r.gone /\ Mutated(r, f).text = r.text
    BY <2>1 DEF Row
  <2> QED
    BY <2>2, <2>3 DEF RowIsAuthored, TextIsAuthored, DeletionIsAuthored
<1> QED
  BY <1>1, <1>2, <1>3, <1>4 DEF Mutated, Edited, Tombstoned

(* No mutation brings the text of a deleted row back.                      *)
LEMMA MutatedStaysGone ==
  ASSUME NEW r \in Row, NEW f \in Facts, r.gone # 0
  PROVE  Mutated(r, f).gone = r.gone /\ Mutated(r, f).text = r.text
BY DEF Mutated, Edited, Tombstoned, Reacted, Row

(* A row that does not exist was never deleted: no fact is nobody's.       *)
LEMMA NobodysRow ==
  ASSUME IInv, NEW id \in Ids, ~Exists(id)
  PROVE  rows[id].gone = 0
<1>1. \A f \in Facts : f.by # NoOne
  BY FactsAssumption, NoneAssumption DEF Fact
<1> QED
  BY <1>1 DEF IInv, RowsAreAuthored, DeletionIsAuthored, Authored, Exists

(* The ids a fact can name.                                                *)
LEMMA IdsOf ==
  ASSUME NEW f \in Facts
  PROVE  /\ Target(f) \in Ids /\ Target(f)[1] = f.mid /\ Target(f)[2] = NoOne
         /\ EffectiveId(f) \in Ids /\ EffectiveId(f)[1] = f.mid
         /\ f.mid \in Mids /\ f.by \in Accounts /\ f.text \in Texts \cup {NoText} /\ f.at \in Nat
BY FactsAssumption DEF Fact, Target, EffectiveId, Ids

(* Trimming the buffer keeps only what was in it.                          *)
LEMMA NewestOf ==
  ASSUME NEW S, NEW q \in Seq(S)
  PROVE  /\ Newest(q) \in Seq(S)
         /\ \A i \in 1..Len(Newest(q)) : \E j \in 1..Len(q) : Newest(q)[i] = q[j]
<1>1. CASE Len(q) > MaxPendingMutations
  <2> DEFINE from == Len(q) - MaxPendingMutations + 1
  <2>1. from \in 1..Len(q) /\ Len(q) \in Nat
    BY <1>1, BoundsAssumption
  <2>2. Newest(q) = SubSeq(q, from, Len(q))
    BY <1>1 DEF Newest
  <2>3. SubSeq(q, from, Len(q)) \in Seq(S)
    BY <2>1
  <2>4. \A i \in 1..Len(Newest(q)) : Newest(q)[i] = q[from + i - 1] /\ from + i - 1 \in 1..Len(q)
    BY <2>1, <2>2
  <2> QED
    BY <2>2, <2>3, <2>4
<1>2. CASE ~(Len(q) > MaxPendingMutations)
  BY <1>2 DEF Newest
<1> QED
  BY <1>1, <1>2

-----------------------------------------------------------------------------
LEMMA InitOK == Init => IInv
<1> SUFFICES ASSUME Init PROVE IInv
  OBVIOUS
<1>1. NoRow \in Row
  BY DEF NoRow, Row
<1>2. TypeOK
  <2>1. rows \in [Ids -> Row] /\ flagged \subseteq Ids
    BY <1>1 DEF Init
  <2>2. log \subseteq Facts /\ index \subseteq Facts /\ done \subseteq Facts
    BY DEF Init
  <2>3. pending \in [Mids -> Seq(Facts)]
    BY DEF Init
  <2>4. step \in Steps /\ fact \in Facts \cup {NoFact} /\ drained \in Nat
    BY DEF Init, Steps
  <2>5. left \in [Budgets -> Nat]
    BY BoundsAssumption DEF Init
  <2> QED
    BY <2>1, <2>2, <2>3, <2>4, <2>5 DEF TypeOK
<1>3. BufferIsKeyed
  BY DEF Init, BufferIsKeyed
<1>4. FactIsSet
  BY DEF Init, FactIsSet
<1>5. RowsAreAuthored
  BY DEF Init, NoRow, RowsAreAuthored, TextIsAuthored, DeletionIsAuthored
<1> QED
  BY <1>2, <1>3, <1>4, <1>5 DEF IInv

(* Spending keeps the budgets numbers.                                     *)
LEMMA SpendType ==
  ASSUME left \in [Budgets -> Nat], NEW b \in Budgets, Spend(b)
  PROVE  left' \in [Budgets -> Nat]
BY DEF Spend

(* A row changed at one id, to an authored row, leaves the rows authored.  *)
LEMMA OneRow ==
  ASSUME IInv, NEW id \in Ids, NEW r \in Row, RowIsAuthored(r, id[1]),
         rows' = [rows EXCEPT ![id] = r]
  PROVE  rows' \in [Ids -> Row] /\ RowsAreAuthored'
<1>1. rows' \in [Ids -> Row]
  BY DEF IInv, TypeOK
<1>2. ASSUME NEW k \in Ids PROVE RowIsAuthored(rows'[k], k[1])
  BY DEF IInv, TypeOK, RowsAreAuthored, RowIsAuthored
<1> QED
  BY <1>1, <1>2 DEF RowsAreAuthored, RowIsAuthored, TextIsAuthored, DeletionIsAuthored, Authored

(* Steps that touch neither the rows nor the buffer.                       *)
LEMMA BookkeepingStep ==
  ASSUME IInv, UNCHANGED <<rows, pending>>,
         flagged' \subseteq Ids, log' \subseteq Facts, index' \subseteq Facts, done' \subseteq Facts,
         step' \in Steps, fact' \in Facts \cup {NoFact}, drained' \in Nat, left' \in [Budgets -> Nat],
         step' # "idle" => fact' \in Facts
  PROVE  IInv'
<1>1. TypeOK'
  BY DEF IInv, TypeOK
<1>2. BufferIsKeyed' /\ FactIsSet'
  BY DEF IInv, BufferIsKeyed, FactIsSet
<1>3. RowsAreAuthored'
  BY DEF IInv, RowsAreAuthored, TextIsAuthored, DeletionIsAuthored, Authored
<1> QED
  BY <1>1, <1>2, <1>3 DEF IInv

(* Every step preserves the inductive invariant.                           *)
LEMMA StepOK == IInv /\ [Next]_vars => IInv'
<1> SUFFICES ASSUME IInv, [Next]_vars PROVE IInv'
  OBVIOUS
<1>t. TypeOK /\ BufferIsKeyed /\ FactIsSet /\ RowsAreAuthored
  BY DEF IInv
<1>1. ASSUME NEW f \in Facts, Deliver(f) PROVE IInv'
  <2>1. left' \in [Budgets -> Nat]
    BY <1>1, <1>t, SpendType DEF Deliver, TypeOK, Budgets
  <2>2. step' = "append" /\ fact' = f /\ "append" \in Steps
    BY <1>1 DEF Deliver, Steps
  <2> QED
    BY <1>1, <1>t, <2>1, <2>2, BookkeepingStep DEF Deliver, TypeOK
<1>2. ASSUME AppendFact PROVE IInv'
  <2>1. fact \in Facts
    BY <1>2, <1>t DEF AppendFact, FactIsSet
  <2>2. step' \in Steps
    BY <1>2 DEF AppendFact, Steps
  <2> QED
    BY <1>2, <1>t, <2>1, <2>2, BookkeepingStep DEF AppendFact, TypeOK
<1>3. ASSUME AppendIndex PROVE IInv'
  <2>1. fact \in Facts
    BY <1>3, <1>t DEF AppendIndex, FactIsSet
  <2>2. step' \in Steps
    BY <1>3 DEF AppendIndex, Steps
  <2> QED
    BY <1>3, <1>t, <2>1, <2>2, BookkeepingStep DEF AppendIndex, TypeOK
<1>4. ASSUME FlagConflict PROVE IInv'
  <2>1. fact \in Facts
    BY <1>4, <1>t DEF FlagConflict, FactIsSet
  <2>2. step' \in Steps /\ flagged' \subseteq Ids
    BY <1>4, <1>t, <2>1, IdsOf DEF FlagConflict, Steps, TypeOK
  <2> QED
    BY <1>4, <1>t, <2>1, <2>2, BookkeepingStep DEF FlagConflict, TypeOK
<1>5. ASSUME step = "apply", Collapse(fact) PROVE IInv'
  <2>1. fact \in Facts
    BY <1>5, <1>t DEF FactIsSet
  <2>2. flagged' \subseteq Ids
    BY <1>5, <1>t, <2>1, IdsOf DEF Collapse, TypeOK
  <2>3. step' = "idle" /\ fact' = NoFact /\ drained' = 0 /\ done' = done \cup {fact} /\ "idle" \in Steps
    BY <1>5 DEF Collapse, Finish, Steps
  <2> QED
    BY <1>5, <1>t, <2>1, <2>2, <2>3, BookkeepingStep DEF Collapse, TypeOK
<1>6. ASSUME step = "apply", fact.kind = "message", Insert(fact) PROVE IInv'
  <2>0. PICK r : r = NewRow(fact)
    OBVIOUS
  <2>1. fact \in Facts
    BY <1>6, <1>t DEF FactIsSet
  <2>2. r \in Row /\ r.by = fact.by /\ r.text = fact.text /\ r.gone = 0
    <3>1. fact.by \in Accounts \cup {NoOne} /\ fact.text \in Texts \cup {NoText}
      BY <2>1, IdsOf
    <3> QED
      BY <2>0, <3>1 DEF NewRow, Row
  <2>3. fact \in Authored(r.by, fact.mid, {"message", "edit"})
    BY <1>6, <2>1, <2>2 DEF Authored
  <2>4. RowIsAuthored(r, fact.mid)
    BY <2>2, <2>3 DEF RowIsAuthored, TextIsAuthored, DeletionIsAuthored
  <2>5. rows' \in [Ids -> Row] /\ RowsAreAuthored'
    <3>1. PICK id : id = EffectiveId(fact)
      OBVIOUS
    <3>2. id \in Ids /\ id[1] = fact.mid
      BY <2>1, <3>1, IdsOf
    <3>3. rows' = [rows EXCEPT ![id] = r]
      BY <1>6, <2>0, <3>1 DEF Insert
    <3> QED
      BY <2>2, <2>4, <3>2, <3>3, OneRow
  <2>6. step' = "drain" /\ "drain" \in Steps
    BY <1>6 DEF Insert, Steps
  <2>7. TypeOK'
    BY <1>6, <1>t, <2>5, <2>6 DEF Insert, TypeOK
  <2>8. BufferIsKeyed' /\ FactIsSet'
    BY <1>6, <1>t, <2>1 DEF Insert, BufferIsKeyed, FactIsSet
  <2> QED
    BY <2>5, <2>7, <2>8 DEF IInv
<1>7. ASSUME DrainOne(EffectiveId(fact)) PROVE IInv'
  <2>1. fact \in Facts
    BY <1>7, <1>t DEF DrainOne, FactIsSet
  <2>2. PICK id : id = EffectiveId(fact)
    OBVIOUS
  <2>3. id \in Ids /\ id[1] \in Mids
    BY <2>1, <2>2, IdsOf
  <2>4. PICK f : f = Buffered(id)[drained + 1]
    OBVIOUS
  <2>5. f \in Facts /\ f.mid = id[1]
    <3>1. step = "drain" /\ drained < Len(Buffered(id)) /\ drained \in Nat
      BY <1>7, <1>t, <2>2 DEF DrainOne, TypeOK
    <3>2. Buffered(id) = pending[id[1]]
      BY <3>1 DEF Buffered
    <3>3. pending[id[1]] \in Seq(Facts)
      BY <1>t, <2>3 DEF TypeOK
    <3>4. drained + 1 \in 1..Len(pending[id[1]])
      BY <3>1, <3>2, <3>3
    <3> QED
      BY <1>t, <2>3, <2>4, <3>2, <3>3, <3>4 DEF BufferIsKeyed
  <2>6. rows[id] \in Row /\ RowIsAuthored(rows[id], f.mid)
    BY <1>t, <2>3, <2>5 DEF TypeOK, RowsAreAuthored, RowIsAuthored
  <2>7. Mutated(rows[id], f) \in Row /\ RowIsAuthored(Mutated(rows[id], f), id[1])
    BY <2>5, <2>6, MutatedAuthored
  <2>8. rows' = [rows EXCEPT ![id] = Mutated(rows[id], f)]
    BY <1>7, <2>2, <2>4 DEF DrainOne
  <2>9. rows' \in [Ids -> Row] /\ RowsAreAuthored'
    BY <2>3, <2>7, <2>8, OneRow
  <2>10. TypeOK'
    BY <1>7, <1>t, <2>9 DEF DrainOne, TypeOK
  <2>11. BufferIsKeyed' /\ FactIsSet'
    BY <1>7, <1>t, <2>1 DEF DrainOne, BufferIsKeyed, FactIsSet
  <2> QED
    BY <2>9, <2>10, <2>11 DEF IInv
<1>8. ASSUME DrainDone(EffectiveId(fact)) PROVE IInv'
  <2>1. fact \in Facts
    BY <1>8, <1>t DEF DrainDone, FactIsSet
  <2>2. PICK id : id = EffectiveId(fact)
    OBVIOUS
  <2>3. id \in Ids /\ id[1] \in Mids
    BY <2>1, <2>2, IdsOf
  <2>4. pending' = pending \/ pending' = [pending EXCEPT ![id[1]] = <<>>]
    <3>1. pending' = IF id[2] = NoOne THEN [pending EXCEPT ![id[1]] = <<>>] ELSE pending
      BY <1>8, <2>2 DEF DrainDone
    <3> QED
      BY <3>1
  <2>5. pending' \in [Mids -> Seq(Facts)] /\ BufferIsKeyed'
    <3>1. <<>> \in Seq(Facts) /\ Len(<<>>) = 0
      OBVIOUS
    <3>2. CASE pending' = pending
      BY <1>t, <3>2 DEF TypeOK, BufferIsKeyed
    <3>3. CASE pending' = [pending EXCEPT ![id[1]] = <<>>]
      BY <1>t, <2>3, <3>1, <3>3 DEF TypeOK, BufferIsKeyed
    <3> QED
      BY <2>4, <3>2, <3>3
  <2>6. /\ step' = "idle" /\ fact' = NoFact /\ drained' = 0 /\ done' = done \cup {fact} /\ "idle" \in Steps
        /\ UNCHANGED <<rows, flagged, log, index, left>>
    BY <1>8 DEF DrainDone, Finish, Steps
  <2>7. TypeOK'
    BY <1>t, <2>1, <2>5, <2>6 DEF TypeOK
  <2>8. FactIsSet' /\ RowsAreAuthored'
    BY <1>t, <2>6 DEF FactIsSet, RowsAreAuthored, TextIsAuthored, DeletionIsAuthored, Authored
  <2> QED
    BY <2>5, <2>7, <2>8 DEF IInv
<1>9. ASSUME ApplyMutation PROVE IInv'
  <2>1. fact \in Facts
    BY <1>9, <1>t DEF ApplyMutation, FactIsSet
  <2>2. /\ step' = "idle" /\ fact' = NoFact /\ drained' = 0 /\ done' = done \cup {fact} /\ "idle" \in Steps
        /\ UNCHANGED <<flagged, log, index, left>>
    BY <1>9 DEF ApplyMutation, Finish, Steps
  <2>3. CASE rows' = [rows EXCEPT ![Target(fact)] = Mutated(@, fact)] /\ UNCHANGED pending
    <3>1. PICK f, id : f = fact /\ id = Target(fact)
      OBVIOUS
    <3>2. id \in Ids /\ f \in Facts /\ id[1] = f.mid
      BY <2>1, <3>1, IdsOf
    <3>3. rows[id] \in Row /\ RowIsAuthored(rows[id], f.mid)
      BY <1>t, <3>2 DEF TypeOK, RowsAreAuthored, RowIsAuthored
    <3>4. Mutated(rows[id], f) \in Row /\ RowIsAuthored(Mutated(rows[id], f), id[1])
      BY <3>2, <3>3, MutatedAuthored
    <3>5. rows' = [rows EXCEPT ![id] = Mutated(rows[id], f)]
      BY <2>3, <3>1
    <3>6. rows' \in [Ids -> Row] /\ RowsAreAuthored'
      BY <3>2, <3>4, <3>5, OneRow
    <3>7. TypeOK'
      BY <1>t, <2>1, <2>2, <2>3, <3>6 DEF TypeOK
    <3>8. BufferIsKeyed' /\ FactIsSet'
      BY <1>t, <2>2, <2>3 DEF BufferIsKeyed, FactIsSet
    <3> QED
      BY <3>6, <3>7, <3>8 DEF IInv
  <2>4. CASE pending' = [pending EXCEPT ![fact.mid] = Newest(Append(@, fact))] /\ UNCHANGED rows
    <3>1. PICK q : q = Append(pending[fact.mid], fact)
      OBVIOUS
    <3>2. fact.mid \in Mids /\ pending[fact.mid] \in Seq(Facts)
      BY <1>t, <2>1, IdsOf DEF TypeOK
    <3>3. q \in Seq(Facts) /\ \A j \in 1..Len(q) : q[j].mid = fact.mid
      BY <1>t, <2>1, <3>1, <3>2 DEF BufferIsKeyed
    <3>4. Newest(q) \in Seq(Facts) /\ \A i \in 1..Len(Newest(q)) : Newest(q)[i].mid = fact.mid
      BY <3>3, NewestOf
    <3>5. pending' = [pending EXCEPT ![fact.mid] = Newest(q)]
      BY <2>4, <3>1
    <3>6. pending' \in [Mids -> Seq(Facts)] /\ BufferIsKeyed'
      BY <1>t, <3>2, <3>4, <3>5 DEF TypeOK, BufferIsKeyed
    <3>7. TypeOK'
      BY <1>t, <2>1, <2>2, <2>4, <3>6 DEF TypeOK
    <3>8. FactIsSet' /\ RowsAreAuthored'
      BY <1>t, <2>2, <2>4 DEF FactIsSet, RowsAreAuthored, TextIsAuthored, DeletionIsAuthored, Authored
    <3> QED
      BY <3>6, <3>7, <3>8 DEF IInv
  <2> QED
    BY <1>9, <2>3, <2>4 DEF ApplyMutation
<1>10. ASSUME NEW id \in Ids, LocalDelete(id) PROVE IInv'
  <2>1. left' \in [Budgets -> Nat]
    BY <1>10, <1>t, SpendType DEF LocalDelete, TypeOK, Budgets
  <2>2. NoRow \in Row /\ RowIsAuthored(NoRow, id[1])
    BY DEF NoRow, Row, RowIsAuthored, TextIsAuthored, DeletionIsAuthored
  <2>3. rows' \in [Ids -> Row] /\ RowsAreAuthored'
    BY <1>10, <2>2, OneRow DEF LocalDelete
  <2>4. TypeOK'
    BY <1>10, <1>t, <2>1, <2>3 DEF LocalDelete, TypeOK
  <2>5. BufferIsKeyed' /\ FactIsSet'
    BY <1>10, <1>t DEF LocalDelete, BufferIsKeyed, FactIsSet
  <2> QED
    BY <2>3, <2>4, <2>5 DEF IInv
<1>11. ASSUME Crash PROVE IInv'
  <2>1. left' \in [Budgets -> Nat]
    BY <1>11, <1>t, SpendType DEF Crash, TypeOK, Budgets
  <2>2. step' = "idle" /\ "idle" \in Steps
    BY <1>11 DEF Crash, Steps
  <2> QED
    BY <1>11, <1>t, <2>1, <2>2, BookkeepingStep DEF Crash, TypeOK
<1>12. ASSUME UNCHANGED vars PROVE IInv'
  BY <1>12, <1>t, BookkeepingStep DEF vars, TypeOK, FactIsSet
<1> QED
  BY <1>1, <1>2, <1>3, <1>4, <1>5, <1>6, <1>7, <1>8, <1>9, <1>10, <1>11, <1>12
     DEF Next, UpsertDepositedMessage, Drain

(* The inductive invariant of the thread store always holds.               *)
THEOREM Inductive == Spec => []IInv
BY InitOK, StepOK, PTL DEF Spec

(* A row only ever shows what its own author wrote under its id: no other  *)
(* account's edit or tombstone gets in, early, late or repeated.           *)
THEOREM AuthorsOwnRows == Spec => []RowsAreAuthored
<1>1. IInv => RowsAreAuthored
  BY DEF IInv
<1> QED
  BY <1>1, Inductive, PTL

-----------------------------------------------------------------------------
(* One step on the row of one id.                                          *)
LEMMA RowStaysGone ==
  ASSUME IInv, [Next]_vars, NEW k \in Ids
  PROVE  StaysGone(k)
<1> SUFFICES ASSUME rows[k].gone # 0
             PROVE  rows'[k] = NoRow \/ (rows'[k].gone = rows[k].gone /\ rows'[k].text = rows[k].text)
  BY DEF StaysGone
<1>t. TypeOK /\ FactIsSet /\ BufferIsKeyed
  BY DEF IInv
<1>0. rows[k] \in Row /\ rows \in [Ids -> Row]
  BY <1>t DEF TypeOK
<1>1. CASE UNCHANGED rows
  BY <1>1
<1>2. CASE step = "apply" /\ Insert(fact)
  <2>1. fact \in Facts
    BY <1>2, <1>t DEF FactIsSet
  <2>2. EffectiveId(fact) # k
    BY <1>2, NobodysRow DEF Insert
  <2> QED
    BY <1>2, <1>0, <2>2 DEF Insert
<1>3. CASE DrainOne(EffectiveId(fact))
  <2>1. PICK id, f : id = EffectiveId(fact) /\ f = Buffered(id)[drained + 1]
    OBVIOUS
  <2>2. f \in Facts
    <3>1. step = "drain" /\ drained < Len(Buffered(id)) /\ drained \in Nat /\ fact \in Facts
      BY <1>3, <1>t, <2>1 DEF DrainOne, TypeOK, FactIsSet
    <3>2. id[1] \in Mids
      BY <2>1, <3>1, IdsOf
    <3>3. Buffered(id) = pending[id[1]] /\ pending[id[1]] \in Seq(Facts)
      BY <1>t, <3>1, <3>2 DEF Buffered, TypeOK
    <3> QED
      BY <2>1, <3>1, <3>3
  <2>3. rows' = [rows EXCEPT ![id] = Mutated(rows[id], f)]
    BY <1>3, <2>1 DEF DrainOne
  <2>4. CASE id = k
    BY <1>0, <2>2, <2>3, <2>4, MutatedStaysGone
  <2>5. CASE id # k
    BY <1>0, <2>3, <2>5
  <2> QED
    BY <2>4, <2>5
<1>4. CASE ApplyMutation /\ rows' = [rows EXCEPT ![Target(fact)] = Mutated(@, fact)]
  <2>1. PICK id, f : id = Target(fact) /\ f = fact
    OBVIOUS
  <2>2. f \in Facts
    BY <1>4, <1>t, <2>1 DEF ApplyMutation, FactIsSet
  <2>3. rows' = [rows EXCEPT ![id] = Mutated(rows[id], f)]
    BY <1>4, <2>1
  <2>4. CASE id = k
    BY <1>0, <2>2, <2>3, <2>4, MutatedStaysGone
  <2>5. CASE id # k
    BY <1>0, <2>3, <2>5
  <2> QED
    BY <2>4, <2>5
<1>5. ASSUME NEW id \in Ids, LocalDelete(id) PROVE rows'[k] = NoRow \/ rows'[k] = rows[k]
  BY <1>0, <1>5 DEF LocalDelete
<1> QED
  BY <1>1, <1>2, <1>3, <1>4, <1>5
     DEF Next, vars, Deliver, AppendFact, AppendIndex, FlagConflict, UpsertDepositedMessage,
         Collapse, Drain, DrainDone, ApplyMutation, Crash

(* A deleted message stays deleted: no step of the system gives its row a  *)
(* text again.                                                             *)
THEOREM DeletedForGood == Spec => TombstoneIsFinal
<1>1. IInv /\ [Next]_vars => \A id \in Ids : StaysGone(id)
  BY RowStaysGone
<1> QED
  BY <1>1, Inductive, PTL DEF Spec, TombstoneIsFinal

-----------------------------------------------------------------------------
(* A conflict is flagged, and only a conflict is.                          *)

(* A mutation keeps the author; only the author's tombstone takes the      *)
(* fingerprint away.                                                       *)
LEMMA MutatedHash ==
  ASSUME NEW r \in Row, NEW f \in Facts
  PROVE  /\ Mutated(r, f).by = r.by
         /\ Mutated(r, f).hash = r.hash \/ f \in Authored(r.by, f.mid, {"tombstone"})
BY DEF Mutated, Edited, Tombstoned, Reacted, Row, Authored

(* What only grows, and what is only spent.                                *)
LEMMA Backward ==
  ASSUME IInv, LogIsBase, [Next]_vars
  PROVE  /\ log \subseteq log' /\ log' \subseteq Facts
         /\ log' = log \/ step = "append"
         /\ index \subseteq index' /\ done \subseteq done'
         /\ NoDelete' => NoDelete /\ flagged \subseteq flagged' /\ \A id \in Ids : ~LocalDelete(id)
         /\ NoCrash' => NoCrash /\ ~Crash
<1>1. /\ left["delete"] \in Nat /\ left["crash"] \in Nat /\ left \in [Budgets -> Nat]
      /\ "delete" \in Budgets /\ "crash" \in Budgets /\ "redelivery" \in Budgets
  BY DEF IInv, TypeOK, Budgets
<1>2. ASSUME NEW b \in Budgets, Spend(b)
      PROVE  left'[b] < left[b] /\ \A c \in Budgets : c # b => left'[c] = left[c]
  BY <1>1, <1>2 DEF Spend
<1>3. CASE \E id \in Ids : LocalDelete(id)
  <2>1. ~NoDelete' /\ UNCHANGED <<log, index, done>> /\ left'["crash"] = left["crash"]
    BY <1>1, <1>2, <1>3, BoundsAssumption DEF LocalDelete, NoDelete, LogIsBase
  <2>2. ~Crash
    BY <1>1, <1>2, <2>1 DEF Crash
  <2> QED
    BY <2>1, <2>2 DEF NoCrash, IInv, TypeOK
<1>4. CASE Crash
  <2>1. ~NoCrash' /\ UNCHANGED <<log, index, done, flagged>> /\ left'["delete"] = left["delete"]
    BY <1>1, <1>2, <1>4, BoundsAssumption DEF Crash, NoCrash, LogIsBase
  <2>2. \A id \in Ids : ~LocalDelete(id)
    BY <1>1, <1>2, <2>1 DEF LocalDelete
  <2> QED
    BY <2>1, <2>2 DEF NoDelete, IInv, TypeOK
<1>5. CASE ~(\E id \in Ids : LocalDelete(id)) /\ ~Crash
  <2>1. left'["delete"] = left["delete"] /\ left'["crash"] = left["crash"]
    BY <1>1, <1>2, <1>5 DEF Next, vars, Deliver, AppendFact, AppendIndex, FlagConflict, UpsertDepositedMessage,
         Collapse, Insert, Drain, DrainOne, DrainDone, ApplyMutation
  <2>2. log \subseteq log' /\ (log' = log \/ (step = "append" /\ log' = log \cup {fact}))
        /\ index \subseteq index' /\ done \subseteq done' /\ flagged \subseteq flagged'
    BY <1>5 DEF Next, vars, Deliver, AppendFact, AppendIndex, FlagConflict, UpsertDepositedMessage,
         Collapse, Insert, Drain, DrainOne, DrainDone, ApplyMutation, Finish
  <2>3. step = "append" => fact \in Facts
    BY DEF IInv, FactIsSet
  <2> QED
    BY <1>5, <2>1, <2>2, <2>3 DEF NoDelete, NoCrash, IInv, TypeOK
<1> QED
  BY <1>3, <1>4, <1>5

(* As the log grows, fewer ids have one author and fewer are undeleted.    *)
LEMMA LogGrows ==
  ASSUME log \subseteq log'
  PROVE  /\ \A m : MessagesUnder(m) \subseteq MessagesUnder(m)'
         /\ \A m : OneAuthor(m)' => OneAuthor(m)
         /\ \A a, m : NoneTombstoned(a, m)' => NoneTombstoned(a, m)
BY DEF MessagesUnder, OneAuthor, NoneTombstoned, Authored

(* The row of a message whose id nobody else uses is its author's.         *)
LEMMA SoleRow ==
  ASSUME IInv, RowsAreSent, NEW f \in log, f.kind = "message", OneAuthor(f.mid)
  PROVE  /\ Exists(Target(f)) => rows[Target(f)].by = f.by
         /\ EffectiveId(f) = Target(f)
<1>1. f \in Facts /\ f \in MessagesUnder(f.mid) /\ Target(f) \in Ids /\ Target(f)[1] = f.mid
  BY IdsOf DEF IInv, TypeOK, MessagesUnder
<1>2. Exists(Target(f)) => rows[Target(f)].by = f.by
  BY <1>1 DEF RowsAreSent, OneAuthor
<1> QED
  BY <1>2 DEF EffectiveId

(* What a step makes of the row of an id.                                  *)
RowStays(id) == rows'[id] = rows[id]
RowInserted(id) ==
  /\ step = "apply" /\ Insert(fact) /\ fact.kind = "message"
  /\ ~Exists(id) /\ id = EffectiveId(fact) /\ rows'[id] = NewRow(fact)
RowMutated(id) ==
  Exists(id) /\ \E f \in log : f.mid = id[1] /\ rows'[id] = Mutated(rows[id], f)
RowDeleted(id) == LocalDelete(id) /\ rows'[id] = NoRow
LEMMA RowStep ==
  ASSUME IInv, LogIsBase, [Next]_vars, NEW k \in Ids
  PROVE  RowStays(k) \/ RowInserted(k) \/ RowMutated(k) \/ RowDeleted(k)
<1>t. TypeOK /\ FactIsSet /\ BufferIsKeyed
  BY DEF IInv
<1>0. rows \in [Ids -> Row]
  BY <1>t DEF TypeOK
<1>1. CASE UNCHANGED rows
  BY <1>1 DEF RowStays
<1>2. CASE step = "apply" /\ fact.kind = "message" /\ Insert(fact)
  <2>1. fact \in Facts
    BY <1>2, <1>t DEF FactIsSet
  <2>2. EffectiveId(fact) \in Ids
    BY <2>1, IdsOf
  <2> QED
    BY <1>0, <1>2, <2>2 DEF Insert, RowStays, RowInserted
<1>3. CASE DrainOne(EffectiveId(fact))
  <2>1. PICK id, f : id = EffectiveId(fact) /\ f = Buffered(id)[drained + 1]
    OBVIOUS
  <2>2. f \in log /\ f.mid = id[1] /\ id \in Ids /\ Exists(id)
    <3>1. step = "drain" /\ drained < Len(Buffered(id)) /\ drained \in Nat /\ fact \in Facts
      BY <1>3, <1>t, <2>1 DEF DrainOne, TypeOK, FactIsSet
    <3>2. id \in Ids /\ id[1] \in Mids
      BY <2>1, <3>1, IdsOf
    <3>3. Buffered(id) = pending[id[1]] /\ pending[id[1]] \in Seq(Facts)
      BY <1>t, <3>1, <3>2 DEF Buffered, TypeOK
    <3>4. drained + 1 \in 1..Len(pending[id[1]])
      BY <3>1, <3>3
    <3> QED
      BY <1>t, <2>1, <3>1, <3>2, <3>3, <3>4 DEF BufferIsKeyed, LogIsBase
  <2>3. rows' = [rows EXCEPT ![id] = Mutated(rows[id], f)]
    BY <1>3, <2>1 DEF DrainOne
  <2> QED
    BY <1>0, <2>2, <2>3 DEF RowStays, RowMutated
<1>4. CASE ApplyMutation /\ Exists(Target(fact)) /\ rows' = [rows EXCEPT ![Target(fact)] = Mutated(@, fact)]
  <2>1. fact \in Facts /\ fact \in log
    BY <1>4, <1>t DEF ApplyMutation, FactIsSet, LogIsBase
  <2>2. Target(fact) \in Ids /\ Target(fact)[1] = fact.mid
    BY <2>1, IdsOf
  <2> QED
    BY <1>0, <1>4, <2>1, <2>2 DEF RowStays, RowMutated
<1>5. ASSUME NEW id \in Ids, LocalDelete(id) PROVE RowStays(k) \/ RowDeleted(k)
  BY <1>0, <1>5 DEF LocalDelete, RowStays, RowDeleted
<1> QED
  BY <1>1, <1>2, <1>3, <1>4, <1>5
     DEF Next, vars, Deliver, AppendFact, AppendIndex, FlagConflict, UpsertDepositedMessage,
         Collapse, Drain, DrainDone, ApplyMutation, Crash

(* The author of a row stays, as long as the row does.                     *)
LEMMA ByStays ==
  ASSUME IInv, LogIsBase, [Next]_vars, NEW id \in Ids, Exists(id)
  PROVE  RowDeleted(id) \/ (rows'[id].by = rows[id].by /\ Exists(id)')
<1>1. rows[id] \in Row /\ log \subseteq Facts
  BY DEF IInv, TypeOK
<1>2. CASE RowMutated(id)
  BY <1>1, <1>2, MutatedHash DEF RowMutated, Exists
<1> QED
  BY <1>2, RowStep DEF RowStays, RowInserted, Exists

-----------------------------------------------------------------------------
LEMMA RowsStaySent ==
  ASSUME IInv, LogIsBase, RowsAreSent, [Next]_vars
  PROVE  RowsAreSent'
<1>0. log \subseteq log' /\ log \subseteq Facts /\ rows \in [Ids -> Row]
  BY Backward DEF IInv, TypeOK
<1> SUFFICES ASSUME NEW id \in Ids, Exists(id)'
             PROVE /\ \E f \in MessagesUnder(id[1])' : f.by = rows'[id].by
                   /\ rows'[id].hash # NoText =>
                        \E f \in MessagesUnder(id[1])' : f.by = rows'[id].by /\ f.text = rows'[id].hash
                   /\ NoneTombstoned(rows[id].by, id[1])' => rows'[id].hash # NoText
  BY DEF RowsAreSent
<1>1. CASE RowStays(id)
  BY <1>0, <1>1, LogGrows DEF RowStays, RowsAreSent, Exists
<1>2. CASE RowInserted(id)
  <2>1. fact \in log /\ fact \in Facts /\ fact.kind = "message" /\ id[1] = fact.mid
    BY <1>2, IdsOf DEF RowInserted, IInv, FactIsSet, LogIsBase
  <2>2. rows'[id].by = fact.by /\ rows'[id].hash = fact.text /\ fact.text # NoText
    BY <1>2, <2>1, FingerprintAssumption DEF RowInserted, NewRow
  <2>3. fact \in MessagesUnder(id[1])'
    BY <1>0, <2>1 DEF MessagesUnder
  <2> QED
    BY <2>2, <2>3
<1>3. CASE RowMutated(id)
  <2>1. PICK f \in log : f.mid = id[1] /\ rows'[id] = Mutated(rows[id], f)
    BY <1>3 DEF RowMutated
  <2>2. rows'[id].by = rows[id].by
        /\ (rows'[id].hash = rows[id].hash \/ f \in Authored(rows[id].by, id[1], {"tombstone"}))
    BY <1>0, <2>1, MutatedHash
  <2>3. Exists(id)
    BY <1>3 DEF RowMutated
  <2>4. CASE rows'[id].hash = rows[id].hash
    BY <1>0, <2>2, <2>3, <2>4, LogGrows DEF RowsAreSent
  <2>5. CASE rows'[id].hash # rows[id].hash
    <3>1. f \in Authored(rows[id].by, id[1], {"tombstone"}) \cap log'
      BY <1>0, <2>2, <2>5
    <3>2. rows'[id].hash = NoText
      BY <1>0, <2>1, <2>5 DEF Mutated, Edited, Tombstoned, Reacted, Row
    <3>3. ~NoneTombstoned(rows[id].by, id[1])'
      BY <2>2, <3>1 DEF NoneTombstoned, Authored
    <3> QED
      BY <1>0, <2>2, <2>3, <3>2, <3>3, LogGrows DEF RowsAreSent
  <2> QED
    BY <2>4, <2>5
<1>4. CASE RowDeleted(id)
  BY <1>4 DEF RowDeleted, Exists, NoRow
<1> QED
  BY <1>1, <1>2, <1>3, <1>4, RowStep

(* What a step adds to the flags: a row that exists.                       *)
LEMMA FlagsAdded ==
  ASSUME IInv, LogIsBase, [Next]_vars, NEW id \in flagged' \ flagged
  PROVE  /\ fact \in log /\ fact.kind = "message" /\ id = Target(fact) /\ Exists(id)
         /\ UNCHANGED <<rows, log>>
         /\ \/ Rivals(fact) # {} /\ fact \in index
            \/ rows[id].hash # NoText /\ rows[id].hash # fact.text
<1>1. step \notin {"idle", "append"} => fact \in log
  BY DEF LogIsBase
<1>2. CASE FlagConflict
  BY <1>1, <1>2 DEF FlagConflict, LogIsBase
<1>3. CASE step = "apply" /\ fact.kind = "message" /\ Collapse(fact)
  BY <1>1, <1>3 DEF Collapse
<1>4. CASE ~FlagConflict /\ ~(step = "apply" /\ fact.kind = "message" /\ Collapse(fact))
  BY <1>4 DEF Next, vars, Deliver, AppendFact, AppendIndex, UpsertDepositedMessage, Insert, Drain, DrainOne,
       DrainDone, ApplyMutation, LocalDelete, Crash
<1> QED
  BY <1>2, <1>3, <1>4

LEMMA FlagsStayDeserved ==
  ASSUME IInv, LogIsBase, RowsAreSent, \A id \in flagged : Exists(id), FlagIsDeserved, [Next]_vars
  PROVE  (\A id \in flagged : Exists(id))' /\ FlagIsDeserved'
<1>0. log \subseteq log' /\ flagged \subseteq Ids /\ log \subseteq Facts
  BY Backward DEF IInv, TypeOK
<1>1. ASSUME NEW id \in flagged', id \in flagged
      PROVE  Exists(id)' /\ (OneAuthor(id[1])' => \E f, g \in MessagesUnder(id[1])' : f # g /\ f.by = rows'[id].by)
  <2>1. ~RowDeleted(id)
    BY <1>1 DEF RowDeleted, LocalDelete
  <2>2. rows'[id].by = rows[id].by /\ Exists(id)'
    BY <1>0, <1>1, <2>1, ByStays
  <2> QED
    BY <1>0, <1>1, <2>2, LogGrows DEF FlagIsDeserved
<1>2. ASSUME NEW id \in flagged', id \notin flagged
      PROVE  Exists(id)' /\ (OneAuthor(id[1])' => \E f, g \in MessagesUnder(id[1])' : f # g /\ f.by = rows'[id].by)
  <2>1. /\ fact \in log /\ fact.kind = "message" /\ id = Target(fact) /\ Exists(id)
        /\ UNCHANGED <<rows, log>>
    BY <1>2, FlagsAdded
  <2>2. fact \in Facts /\ id \in Ids /\ id[1] = fact.mid /\ fact \in MessagesUnder(id[1])
    BY <1>0, <2>1, IdsOf DEF MessagesUnder
  <2>3. ASSUME OneAuthor(id[1]) PROVE \E f, g \in MessagesUnder(id[1]) : f # g /\ f.by = rows[id].by
    <3>1. rows[id].by = fact.by
      BY <2>1, <2>2, <2>3, SoleRow
    <3>2. CASE Rivals(fact) # {}
      <4>1. PICK g \in Rivals(fact) : TRUE
        BY <3>2
      <4>2. g \in MessagesUnder(id[1]) /\ g # fact
        BY <2>2, <4>1 DEF Rivals, LogIsBase, MessagesUnder
      <4> QED
        BY <2>2, <3>1, <4>2
    <3>3. CASE rows[id].hash # NoText /\ rows[id].hash # fact.text
      <4>1. PICK g \in MessagesUnder(id[1]) : g.by = rows[id].by /\ g.text = rows[id].hash
        BY <2>1, <2>2, <3>3 DEF RowsAreSent
      <4> QED
        BY <2>2, <3>1, <3>3, <4>1
    <3> QED
      BY <1>2, <3>2, <3>3, FlagsAdded
  <2> QED
    BY <2>1, <2>3 DEF Exists, OneAuthor, MessagesUnder
<1> QED
  BY <1>1, <1>2 DEF FlagIsDeserved

-----------------------------------------------------------------------------
LEMMA TakenStaysShown ==
  ASSUME IInv, LogIsBase, RowsAreSent, TakenIsShown, [Next]_vars
  PROVE  TakenIsShown'
<1>0. log \subseteq log' /\ log \subseteq Facts /\ done \subseteq log /\ rows \in [Ids -> Row]
  BY Backward DEF IInv, TypeOK, LogIsBase
<1> SUFFICES ASSUME NoDelete', NEW f \in Facts, Taken(f)', OneAuthor(f.mid)'
             PROVE  /\ Exists(Target(f))'
                    /\ NoneTombstoned(f.by, f.mid)' => rows'[Target(f)].hash = f.text \/ Target(f) \in flagged'
  BY DEF TakenIsShown, Target
<1>1. NoDelete /\ OneAuthor(f.mid) /\ flagged \subseteq flagged' /\ \A id \in Ids : ~LocalDelete(id)
  BY <1>0, Backward, LogGrows
<1>2. Target(f) \in Ids /\ Target(f)[1] = f.mid
  BY IdsOf
<1>3. CASE Taken(f)
  <2>1. f \in log /\ f.kind = "message"
    BY <1>0, <1>3 DEF Taken, LogIsBase
  <2>2. Exists(Target(f)) /\ rows[Target(f)].by = f.by
    BY <1>1, <1>3, <2>1, SoleRow DEF TakenIsShown
  <2>3. Exists(Target(f))'
    BY <1>1, <1>2, <2>2, ByStays DEF RowDeleted
  <2>4. ASSUME NoneTombstoned(f.by, f.mid)' PROVE rows'[Target(f)].hash = rows[Target(f)].hash
    <3>1. NoneTombstoned(f.by, f.mid)
      BY <1>0, <2>4, LogGrows
    <3>2. CASE RowMutated(Target(f))
      <4>1. PICK g \in log : g.mid = Target(f)[1] /\ rows'[Target(f)] = Mutated(rows[Target(f)], g)
        BY <3>2 DEF RowMutated
      <4>2. g \notin Authored(f.by, f.mid, {"tombstone"})
        BY <3>1, <4>1 DEF NoneTombstoned
      <4> QED
        BY <1>0, <1>2, <2>2, <4>1, <4>2, MutatedHash
    <3> QED
      BY <1>1, <1>2, <2>2, <3>2, RowStep DEF RowStays, RowInserted, RowDeleted
  <2>5. NoneTombstoned(f.by, f.mid)' => NoneTombstoned(f.by, f.mid)
    BY <1>0, LogGrows
  <2> QED
    BY <1>1, <1>3, <2>3, <2>4, <2>5 DEF TakenIsShown
<1>4. CASE ~Taken(f)
  <2>1. f = fact /\ fact.kind = "message" /\ step = "apply" /\ (Insert(fact) \/ Collapse(fact))
    <3>1. f.kind = "message" /\ f \notin done /\ ~(step = "drain" /\ fact = f)
          /\ (f \in done' \/ (step' = "drain" /\ fact' = f))
      BY <1>4 DEF Taken
    <3>2. CASE step = "apply" /\ fact.kind = "message" /\ (Insert(fact) \/ Collapse(fact))
      BY <3>1, <3>2 DEF Insert, Collapse, Finish
    <3>3. CASE Drain \/ ApplyMutation
      BY <3>1, <3>3 DEF Drain, DrainOne, DrainDone, ApplyMutation, Finish
    <3>4. CASE (\E g \in Facts : Deliver(g)) \/ AppendFact \/ AppendIndex \/ FlagConflict \/ Crash \/ UNCHANGED vars
               \/ \E id \in Ids : LocalDelete(id)
      BY <3>1, <3>4 DEF vars, Deliver, AppendFact, AppendIndex, FlagConflict, LocalDelete, Crash
    <3> QED
      BY <3>2, <3>3, <3>4 DEF Next, UpsertDepositedMessage
  <2>2. f \in log
    BY <2>1 DEF LogIsBase
  <2>3. EffectiveId(f) = Target(f) /\ (Exists(Target(f)) => rows[Target(f)].by = f.by)
    BY <1>1, <2>1, <2>2, SoleRow
  <2>4. CASE Insert(fact)
    <3>1. rows'[Target(f)] = NewRow(f)
      BY <1>0, <1>2, <2>1, <2>3, <2>4 DEF Insert
    <3>2. f.by # NoOne
      BY FactsAssumption, NoneAssumption DEF Fact
    <3> QED
      BY <3>1, <3>2 DEF NewRow, Exists, Target
  <2>5. CASE Collapse(fact)
    <3>1. Exists(Target(f)) /\ UNCHANGED <<rows, log>>
          /\ (rows[Target(f)].hash # NoText /\ rows[Target(f)].hash # f.text => Target(f) \in flagged')
      BY <2>1, <2>3, <2>5 DEF Collapse
    <3>2. NoneTombstoned(f.by, f.mid) => rows[Target(f)].hash # NoText
      BY <1>2, <2>3, <3>1 DEF RowsAreSent
    <3> QED
      BY <3>1, <3>2 DEF Exists, Target, NoneTombstoned, Authored
  <2> QED
    BY <2>1, <2>4, <2>5
<1> QED
  BY <1>3, <1>4

-----------------------------------------------------------------------------
(* Which row a message goes to does not change while rows keep their       *)
(* authors.                                                                *)
LEMMA SameTarget ==
  ASSUME NEW f, \A id \in Ids : rows'[id].by = rows[id].by, Target(f) \in Ids, EffectiveId(f) \in Ids
  PROVE  /\ EffectiveId(f)' = EffectiveId(f)
         /\ Exists(EffectiveId(f)) => Exists(EffectiveId(f))'
BY DEF EffectiveId, Exists, Target

LEMMA LogStaysBase ==
  ASSUME IInv, LogIsBase, [Next]_vars
  PROVE  LogIsBase'
<1>t. /\ log \subseteq Facts /\ pending \in [Mids -> Seq(Facts)] /\ step \in Steps
      /\ step # "idle" => fact \in Facts
      /\ rows \in [Ids -> Row] /\ left \in [Budgets -> Nat]
  BY DEF IInv, TypeOK, FactIsSet
<1>0. log \subseteq log'
  BY Backward
<1>1. left'["delete"] <= MaxDeletes /\ left'["crash"] <= MaxCrashes
  <2>1. left' = left \/ \E b \in Budgets : left' = [left EXCEPT ![b] = @ - 1]
    BY DEF Next, vars, Deliver, AppendFact, AppendIndex, FlagConflict, UpsertDepositedMessage, Collapse, Insert,
         Drain, DrainOne, DrainDone, ApplyMutation, LocalDelete, Crash, Spend, Budgets
  <2>2. \A b \in Budgets : left[b] \in Nat /\ left'[b] <= left[b]
    BY <1>t, <2>1
  <2>3. "delete" \in Budgets /\ "crash" \in Budgets
    BY DEF Budgets
  <2>4. left["delete"] <= MaxDeletes /\ left["crash"] <= MaxCrashes
    BY DEF LogIsBase
  <2>5. left'["delete"] \in Nat /\ left'["crash"] \in Nat
    BY StepOK, <2>3 DEF IInv, TypeOK
  <2> QED
    BY <2>2, <2>3, <2>4, <2>5, BoundsAssumption
<1>2. done' \subseteq log'
  BY <1>0 DEF Next, vars, Deliver, AppendFact, AppendIndex, FlagConflict, UpsertDepositedMessage, Collapse, Insert,
       Drain, DrainOne, DrainDone, ApplyMutation, LocalDelete, Crash, Finish, LogIsBase
<1>3. index' \subseteq {f \in log' : f.kind = "message"}
  <2>1. CASE AppendIndex
    BY <1>0, <2>1 DEF AppendIndex, LogIsBase
  <2>2. CASE ~AppendIndex
    <3>1. index' = index
      BY <2>2 DEF Next, vars, Deliver, AppendFact, FlagConflict, UpsertDepositedMessage, Collapse, Insert,
           Drain, DrainOne, DrainDone, ApplyMutation, LocalDelete, Crash
    <3> QED
      BY <1>0, <3>1 DEF LogIsBase
  <2> QED
    BY <2>1, <2>2
<1>4. \A m \in Mids : \A i \in 1..Len(pending'[m]) : pending'[m][i] \in log'
  <2>1. CASE UNCHANGED pending
    BY <1>0, <2>1 DEF LogIsBase
  <2>2. CASE DrainDone(EffectiveId(fact))
    <3>1. PICK m : pending' = pending \/ pending' = [pending EXCEPT ![m] = <<>>]
      BY <2>2 DEF DrainDone
    <3>2. \A k \in Mids : pending'[k] = pending[k] \/ pending'[k] = <<>>
      BY <1>t, <3>1
    <3>3. Len(<<>>) = 0
      OBVIOUS
    <3> QED
      BY <1>0, <3>2, <3>3 DEF LogIsBase
  <2>3. CASE ApplyMutation /\ pending' = [pending EXCEPT ![fact.mid] = Newest(Append(@, fact))]
    <3>1. fact \in log /\ fact \in Facts /\ fact.mid \in Mids /\ log' = log
      BY <1>t, <2>3, IdsOf DEF ApplyMutation, LogIsBase
    <3>2. PICK q : q = Append(pending[fact.mid], fact)
      OBVIOUS
    <3>3. pending[fact.mid] \in Seq(log)
      <4>1. pending[fact.mid] \in Seq(Facts)
        BY <1>t, <3>1
      <4>2. \A i \in 1..Len(pending[fact.mid]) : pending[fact.mid][i] \in log
        BY <3>1 DEF LogIsBase
      <4> QED
        BY <4>1, <4>2
    <3>4. q \in Seq(log)
      BY <3>1, <3>2, <3>3
    <3>5. Newest(q) \in Seq(log)
      BY <3>4, NewestOf
    <3>6. \A m \in Mids : pending'[m] = pending[m] \/ pending'[m] = Newest(q)
      BY <1>t, <2>3, <3>2
    <3> QED
      BY <3>1, <3>5, <3>6 DEF LogIsBase
  <2> QED
    BY <2>1, <2>2, <2>3 DEF Next, vars, Deliver, AppendFact, AppendIndex, FlagConflict, UpsertDepositedMessage,
         Collapse, Insert, Drain, DrainOne, ApplyMutation, LocalDelete, Crash
<1>5. /\ step' \notin {"idle", "append"} => fact' \in log'
      /\ step' \in {"index", "flag", "drain"} => fact'.kind = "message"
      /\ step' = "flag" => fact' \in index' /\ Rivals(fact)' # {}
      /\ step' = "drain" => Exists(EffectiveId(fact))'
  <2>1. CASE step' \in {"idle", "append"}
    BY <2>1
  <2>2. CASE AppendFact
    BY <2>2 DEF AppendFact
  <2>3. CASE AppendIndex
    <3>1. fact \in log /\ fact.kind = "message" /\ UNCHANGED <<fact, log>> /\ fact \in index' /\ index \subseteq index'
      BY <2>3 DEF AppendIndex, LogIsBase
    <3>2. step' = "flag" => Rivals(fact)' # {}
      BY <2>3, <3>1 DEF AppendIndex, Rivals
    <3> QED
      BY <2>3, <3>1, <3>2 DEF AppendIndex
  <2>4. CASE FlagConflict
    BY <2>4 DEF FlagConflict, LogIsBase
  <2>5. CASE step = "apply" /\ fact.kind = "message" /\ Insert(fact)
    <3>1. fact \in Facts /\ fact \in log /\ fact.by # NoOne
      BY <1>t, <2>5, FactsAssumption, NoneAssumption DEF Fact, LogIsBase
    <3>2. Target(fact) \in Ids /\ EffectiveId(fact) \in Ids /\ fact.mid \in Mids /\ fact.by \in Accounts
      BY <3>1, IdsOf
    <3>3. rows' = [rows EXCEPT ![EffectiveId(fact)] = NewRow(fact)] /\ UNCHANGED <<fact, log>> /\ step' = "drain"
      BY <2>5 DEF Insert
    <3>4. rows'[EffectiveId(fact)].by = fact.by
      BY <1>t, <3>2, <3>3 DEF NewRow
    <3>5. EffectiveId(fact)' = EffectiveId(fact)
      <4>1. CASE EffectiveId(fact) = Target(fact)
        BY <3>1, <3>3, <3>4, <4>1 DEF EffectiveId, Target, Exists
      <4>2. CASE EffectiveId(fact) # Target(fact)
        <5>1. rows'[Target(fact)] = rows[Target(fact)]
          BY <1>t, <3>2, <3>3, <4>2
        <5> QED
          BY <3>3, <4>2, <5>1 DEF EffectiveId, Target, Exists
      <4> QED
        BY <4>1, <4>2
    <3> QED
      BY <2>5, <3>1, <3>3, <3>4, <3>5 DEF Exists
  <2>6. CASE DrainOne(EffectiveId(fact))
    <3>1. fact \in Facts /\ fact \in log /\ fact.kind = "message" /\ UNCHANGED <<fact, log, step>> /\ step = "drain"
          /\ Exists(EffectiveId(fact))
      BY <1>t, <2>6 DEF DrainOne, LogIsBase
    <3>2. \A id \in Ids : rows'[id].by = rows[id].by
      <4>1. PICK id : id = EffectiveId(fact)
        OBVIOUS
      <4>2. id \in Ids /\ Exists(id)
        BY <3>1, <4>1, IdsOf
      <4>3. rows' = [rows EXCEPT ![id] = Mutated(rows[id], Buffered(id)[drained + 1])]
        BY <2>6, <4>1 DEF DrainOne
      <4>4. rows'[id].by = rows[id].by
        <5>1. ~LocalDelete(id)
          BY <3>1 DEF LocalDelete
        <5> QED
          BY <4>2, <5>1, ByStays DEF RowDeleted
      <4> QED
        BY <1>t, <4>2, <4>3, <4>4
    <3> QED
      BY <3>1, <3>2, SameTarget, IdsOf
  <2>7. ASSUME NEW id \in Ids, LocalDelete(id)
        PROVE  /\ step' \notin {"idle", "append"} => fact' \in log'
               /\ step' \in {"index", "flag", "drain"} => fact'.kind = "message"
               /\ step' = "flag" => fact' \in index' /\ Rivals(fact)' # {}
               /\ step' = "drain" => Exists(EffectiveId(fact))'
    BY <2>7 DEF LocalDelete, LogIsBase, Rivals
  <2>8. CASE UNCHANGED vars
    BY <2>8 DEF vars, LogIsBase, Rivals, Exists, EffectiveId, Target
  <2> QED
    BY <2>1, <2>2, <2>3, <2>4, <2>5, <2>6, <2>7, <2>8
       DEF Next, Deliver, UpsertDepositedMessage, Collapse, Drain, DrainDone, ApplyMutation, Crash, Finish
<1> QED
  BY <1>1, <1>2, <1>3, <1>4, <1>5 DEF LogIsBase

-----------------------------------------------------------------------------
(* Without a crash, whatever is logged goes through the index.             *)
LEMMA IndexStillFinds ==
  ASSUME IInv, LogIsBase, RowsAreSent, TakenIsShown, IndexFindsRivals, [Next]_vars
  PROVE  IndexFindsRivals'
<1>0. /\ log \subseteq log' /\ index \subseteq index' /\ done \subseteq done' /\ log \subseteq Facts
      /\ log' \subseteq Facts
  BY Backward DEF IInv, TypeOK
<1> SUFFICES ASSUME NoCrash', NoDelete'
             PROVE  /\ \A f \in log' : f \in done' \/ (step' # "idle" /\ fact' = f)
                    /\ \A f \in log' : f.kind = "message" => f \in index' \/ (step' = "index" /\ fact' = f)
                    /\ \A f \in done', g \in log' :
                         /\ f # g /\ {f, g} \subseteq MessagesUnder(f.mid)' /\ OneAuthor(f.mid)'
                         /\ ~(step' \in {"index", "flag"} /\ fact' = g)
                         => Target(f) \in flagged'
  BY DEF IndexFindsRivals, Target
<1>1. /\ NoCrash /\ NoDelete /\ flagged \subseteq flagged'
      /\ ~Crash /\ \A id \in Ids : ~LocalDelete(id)
  BY Backward
<1>2. \A f \in log : f \in done \/ (step # "idle" /\ fact = f)
  BY <1>1 DEF IndexFindsRivals
<1>3. \A f \in log : f.kind = "message" => f \in index \/ (step = "index" /\ fact = f)
  BY <1>1 DEF IndexFindsRivals
<1>4. ASSUME NEW f \in done, NEW g \in log, f # g, {f, g} \subseteq MessagesUnder(f.mid), OneAuthor(f.mid),
             ~(step \in {"index", "flag"} /\ fact = g)
      PROVE  Target(f) \in flagged
  BY <1>1, <1>4 DEF IndexFindsRivals
<1>5. \A f \in log' : f \in done' \/ (step' # "idle" /\ fact' = f)
  BY <1>0, <1>1, <1>2 DEF Next, vars, Deliver, AppendFact, AppendIndex, FlagConflict, UpsertDepositedMessage,
       Collapse, Insert, Drain, DrainOne, DrainDone, ApplyMutation, Finish
<1>6. \A f \in log' : f.kind = "message" => f \in index' \/ (step' = "index" /\ fact' = f)
  BY <1>0, <1>1, <1>3 DEF Next, vars, Deliver, AppendFact, AppendIndex, FlagConflict, UpsertDepositedMessage,
       Collapse, Insert, Drain, DrainOne, DrainDone, ApplyMutation, Finish
<1>7. ASSUME NEW f \in done', NEW g \in log', f # g, {f, g} \subseteq MessagesUnder(f.mid)', OneAuthor(f.mid)',
             ~(step' \in {"index", "flag"} /\ fact' = g)
      PROVE  Target(f) \in flagged'
  <2>1. /\ f \in Facts /\ g \in Facts /\ f.kind = "message" /\ g.kind = "message" /\ g.mid = f.mid
        /\ f.by = g.by /\ OneAuthor(f.mid) /\ Target(g) = Target(f)
    BY <1>0, <1>7, LogGrows DEF MessagesUnder, OneAuthor, Target
  <2>2. CASE f \in done /\ g \in log /\ ~(step \in {"index", "flag"} /\ fact = g)
    <3>1. {f, g} \subseteq MessagesUnder(f.mid)
      BY <2>1, <2>2 DEF MessagesUnder, LogIsBase
    <3> QED
      BY <1>1, <1>4, <1>7, <2>1, <2>2, <3>1
  <2>3. CASE g \notin log
    <3>1. AppendFact /\ g = fact
      BY <2>3, <1>0, <1>1 DEF Next, vars, Deliver, AppendFact, AppendIndex, FlagConflict, UpsertDepositedMessage,
           Collapse, Insert, Drain, DrainOne, DrainDone, ApplyMutation
    <3> QED
      BY <1>7, <2>1, <2>3, <3>1 DEF AppendFact
  <2>4. CASE g \in log /\ step \in {"index", "flag"} /\ fact = g
    <3>1. f \in done /\ f \in log
      BY <2>4, <1>1, <1>7 DEF Next, vars, Deliver, AppendFact, AppendIndex, FlagConflict, UpsertDepositedMessage,
           Collapse, Insert, Drain, DrainOne, DrainDone, ApplyMutation, LogIsBase
    <3>2. CASE AppendIndex
      <4>1. f \in index
        BY <1>3, <1>7, <2>1, <2>4, <3>1
      <4>2. f \in Rivals(g)
        BY <1>7, <2>1, <4>1 DEF Rivals
      <4> QED
        BY <1>7, <2>4, <3>2, <4>2 DEF AppendIndex
    <3>3. CASE FlagConflict
      <4>1. Exists(Target(f))
        BY <1>1, <2>1, <3>1 DEF TakenIsShown, Taken
      <4> QED
        BY <2>1, <2>4, <3>3, <4>1 DEF FlagConflict
    <3> QED
      BY <1>1, <1>7, <2>4, <3>2, <3>3 DEF Next, vars, Deliver, AppendFact, UpsertDepositedMessage,
         Collapse, Insert, Drain, DrainOne, DrainDone, ApplyMutation
  <2>5. CASE f \notin done /\ g \in log /\ ~(step \in {"index", "flag"} /\ fact = g)
    <3>1. fact = f /\ step \in {"apply", "drain"}
      BY <1>1, <1>7, <2>5 DEF Next, vars, Deliver, AppendFact, AppendIndex, FlagConflict, UpsertDepositedMessage,
         Collapse, Insert, Drain, DrainOne, DrainDone, ApplyMutation, Finish
    <3>2. g \in done /\ f \in log
      BY <1>2, <1>7, <2>5, <3>1 DEF LogIsBase
    <3>3. {g, f} \subseteq MessagesUnder(g.mid)
      BY <2>1, <2>5, <3>2 DEF MessagesUnder
    <3> QED
      BY <1>1, <1>4, <1>7, <2>1, <3>1, <3>2, <3>3
  <2> QED
    BY <2>2, <2>3, <2>4, <2>5
<1> QED
  BY <1>5, <1>6, <1>7

-----------------------------------------------------------------------------
LEMMA InitFlags == Init => FlagInv
BY BoundsAssumption DEF Init, FlagInv, LogIsBase, RowsAreSent, TakenIsShown, IndexFindsRivals, FlagIsDeserved,
     Exists, NoRow, Taken, Budgets

LEMMA StepFlags == IInv /\ FlagInv /\ [Next]_vars => FlagInv'
BY LogStaysBase, RowsStaySent, TakenStaysShown, IndexStillFinds, FlagsStayDeserved DEF FlagInv

(* Two messages that were both taken are flagged, crash or no crash.       *)
LEMMA FlagsFollow == IInv /\ FlagInv => FlagsAreRight
<1> SUFFICES ASSUME IInv, FlagInv, step = "idle", NoDelete, NEW f \in done, NEW g \in done, f # g,
                    {f, g} \subseteq MessagesUnder(f.mid), OneAuthor(f.mid),
                    NoCrash \/ Authored(f.by, f.mid, {"tombstone"}) \cap log = {}
             PROVE  Target(f) \in flagged
  BY DEF FlagsAreRight, ConflictIsFlagged, FlagInv
<1>1. /\ f \in Facts /\ g \in Facts /\ f.kind = "message" /\ g.kind = "message" /\ g.mid = f.mid
      /\ f.by = g.by /\ OneAuthor(g.mid) /\ Target(g) = Target(f)
  BY DEF IInv, TypeOK, MessagesUnder, OneAuthor, Target
<1>2. CASE NoCrash
  BY <1>2 DEF FlagInv, LogIsBase, IndexFindsRivals
<1>3. CASE Authored(f.by, f.mid, {"tombstone"}) \cap log = {}
  <2>1. NoneTombstoned(f.by, f.mid) /\ NoneTombstoned(g.by, g.mid)
    BY <1>1, <1>3 DEF NoneTombstoned
  <2>2. \A h \in {f, g} : rows[Target(f)].hash = h.text \/ Target(f) \in flagged
    BY <1>1, <2>1 DEF FlagInv, TakenIsShown, Taken
  <2>3. f.text # g.text
    BY <1>1, FingerprintAssumption
  <2> QED
    BY <2>2, <2>3
<1> QED
  BY <1>2, <1>3

(* Two different messages of one author under one id are never collapsed   *)
(* in silence, and no row is called conflicted that is not.                *)
THEOREM ConflictsAreFlagged == Spec => []FlagsAreRight
<1>1. Init => IInv /\ FlagInv
  BY InitOK, InitFlags
<1>2. IInv /\ FlagInv /\ [Next]_vars => (IInv /\ FlagInv)'
  BY StepOK, StepFlags
<1>3. IInv /\ FlagInv => FlagsAreRight
  BY FlagsFollow
<1> QED
  BY <1>1, <1>2, <1>3, PTL DEF Spec

-----------------------------------------------------------------------------
(* A message alone under its id shows the fold of its mutations.           *)

LEMMA ShowsNew ==
  ASSUME NEW b \in Facts
  PROVE  Shows(NewRow(b), b, {})
BY DEF Shows, NewRow

\* Only mutations of that message count.
LEMMA ShowsSame ==
  ASSUME NEW r, NEW b, NEW S, NEW T, Shows(r, b, S), S \subseteq Facts, T \subseteq Facts,
         \A f \in Facts : f.mid = b.mid /\ f.kind # "message" => (f \in S <=> f \in T)
  PROVE  Shows(r, b, T)
<1>1. /\ S \cap Authored(b.by, b.mid, {"edit"}) = T \cap Authored(b.by, b.mid, {"edit"})
      /\ S \cap Authored(b.by, b.mid, {"tombstone"}) = T \cap Authored(b.by, b.mid, {"tombstone"})
  BY DEF Authored
<1> QED
  BY <1>1 DEF Shows

\* One mutation more, wherever it comes in the order.
LEMMA ShowsStep ==
  ASSUME NEW r \in Row, NEW b \in Facts, NEW f \in Facts, NEW S \in SUBSET Facts,
         f.mid = b.mid, r.by = b.by, Shows(r, b, S)
  PROVE  Shows(Mutated(r, f), b, S \cup {f})
<1> DEFINE edits == S \cap Authored(b.by, b.mid, {"edit"})
           tombstones == S \cap Authored(b.by, b.mid, {"tombstone"})
           edits2 == (S \cup {f}) \cap Authored(b.by, b.mid, {"edit"})
           tombstones2 == (S \cup {f}) \cap Authored(b.by, b.mid, {"tombstone"})
<1>1. /\ r.edited \in Nat /\ r.gone \in Nat
      /\ \A g \in Facts : g.at \in Nat /\ (g.kind = "edit" => g.at > 0) /\ (g.kind = "tombstone" => g.at > 0)
  BY FactsAssumption, StampsAssumption DEF Row, Fact
<1>2. /\ tombstones # {} => r.gone # 0 /\ r.text = NoText
      /\ tombstones = {} =>
           /\ r.gone = 0
           /\ edits = {} => r.edited = 0 /\ r.text = b.text
           /\ edits # {} => \E e \in edits : /\ r.edited = e.at /\ r.text = e.text
                                             /\ \A g \in edits : g.at <= e.at
  BY DEF Shows
<1> DEFINE r2 == Mutated(r, f)
<1>3. SUFFICES /\ tombstones2 # {} => r2.gone # 0 /\ r2.text = NoText
               /\ tombstones2 = {} =>
                    /\ r2.gone = 0
                    /\ edits2 = {} => r2.edited = 0 /\ r2.text = b.text
                    /\ edits2 # {} => \E e \in edits2 : /\ r2.edited = e.at /\ r2.text = e.text
                                                        /\ \A g \in edits2 : g.at <= e.at
  BY DEF Shows
<1>4. CASE f \in Authored(b.by, b.mid, {"edit"})
  <2>1. f.kind = "edit" /\ f.by = r.by /\ r2 = Edited(r, f) /\ edits2 = edits \cup {f} /\ tombstones2 = tombstones
    BY <1>4 DEF Authored, Mutated
  <2>2. CASE r.gone # 0
    BY <1>2, <2>1, <2>2 DEF Edited
  <2>3. CASE r.gone = 0 /\ r.edited # 0 /\ r.edited >= f.at
    <3>1. r2 = r /\ edits # {} /\ tombstones = {}
      BY <1>2, <2>1, <2>3 DEF Edited
    <3>2. PICK e \in edits : r.edited = e.at /\ r.text = e.text /\ \A g \in edits : g.at <= e.at
      BY <1>2, <3>1
    <3>3. e \in edits2 /\ \A g \in edits2 : g.at <= e.at
      BY <2>1, <2>3, <3>2
    <3> QED
      BY <2>1, <2>3, <3>1, <3>2, <3>3
  <2>4. CASE r.gone = 0 /\ (r.edited = 0 \/ r.edited < f.at)
    <3>1. r2.text = f.text /\ r2.edited = f.at /\ r2.gone = 0 /\ tombstones = {}
      BY <1>1, <1>2, <2>1, <2>4 DEF Edited, Row
    <3>2. \A g \in edits : g.at <= f.at
      BY <1>1, <1>2, <2>4, <3>1 DEF Authored
    <3>3. f \in edits2 /\ \A g \in edits2 : g.at <= f.at
      BY <1>1, <2>1, <3>2
    <3> QED
      BY <2>1, <3>1, <3>3
  <2> QED
    BY <1>1, <2>2, <2>3, <2>4
<1>5. CASE f \in Authored(b.by, b.mid, {"tombstone"})
  <2>1. f.kind = "tombstone" /\ f.by = r.by /\ r2 = Tombstoned(r, f) /\ edits2 = edits /\ f \in tombstones2
    BY <1>5 DEF Authored, Mutated
  <2>2. r2.gone # 0 /\ r2.text = NoText
    BY <1>1, <1>2, <2>1 DEF Tombstoned, Row
  <2> QED
    BY <2>1, <2>2
<1>6. CASE f \notin Authored(b.by, b.mid, {"edit"}) /\ f \notin Authored(b.by, b.mid, {"tombstone"})
  <2>1. edits2 = edits /\ tombstones2 = tombstones
    BY <1>6
  <2>2. ~(f.by = r.by /\ f.kind \in {"edit", "tombstone"})
    BY <1>6 DEF Authored
  <2>3. r2.text = r.text /\ r2.gone = r.gone /\ r2.edited = r.edited
    BY <2>2 DEF Mutated, Edited, Tombstoned, Reacted, Row
  <2> QED
    BY <1>2, <2>1, <2>3
<1> QED
  BY <1>4, <1>5, <1>6

(* A step that deletes no row leaves each where it was and whose it was.   *)
LEMMA RowsKept ==
  ASSUME IInv, LogIsBase, [Next]_vars, \A id \in Ids : ~LocalDelete(id), NEW k \in Ids, Exists(k)
  PROVE  Exists(k)' /\ rows'[k].by = rows[k].by
BY ByStays DEF RowDeleted

\* A buffer with room has dropped nothing.
LEMMA NoTrim ==
  ASSUME NEW q \in Seq(Facts), Len(Newest(q)) < MaxPendingMutations
  PROVE  Newest(q) = q
<1>1. CASE Len(q) > MaxPendingMutations
  <2> DEFINE from == Len(q) - MaxPendingMutations + 1
  <2>1. from \in 1..Len(q) /\ Len(q) \in Nat /\ MaxPendingMutations \in Nat
    BY <1>1, BoundsAssumption
  <2>2. Newest(q) = SubSeq(q, from, Len(q))
    BY <1>1 DEF Newest
  <2>3. Len(Newest(q)) = Len(q) - from + 1
    BY <2>1, <2>2
  <2> QED
    BY <2>1, <2>3
<1>2. CASE ~(Len(q) > MaxPendingMutations)
  BY <1>2 DEF Newest
<1> QED
  BY <1>1, <1>2

LEMMA BufferStillKeeps ==
  ASSUME IInv, LogIsBase, BufferKeeps, [Next]_vars, BuffersHaveRoom',
         ~Crash, \A id \in Ids : ~LocalDelete(id)
  PROVE  BufferKeeps'
<1>t. /\ log \subseteq Facts /\ done \subseteq Facts /\ pending \in [Mids -> Seq(Facts)] /\ step \in Steps
      /\ step # "idle" => fact \in Facts
      /\ rows \in [Ids -> Row] /\ drained \in Nat
  BY DEF IInv, TypeOK, FactIsSet
<1>0. \A k \in Ids : Exists(k) => Exists(k)' /\ rows'[k].by = rows[k].by
  BY RowsKept
<1>k. /\ step # "drain" => drained = 0
      /\ step = "drain" => drained <= Len(Buffered(EffectiveId(fact)))
      /\ \A m \in Mids : \A i \in 1..Len(pending[m]) : pending[m][i] \in done
      /\ \A f \in done : f.kind # "message" /\ (~Exists(Target(f)) \/ Draining(f.mid)) =>
           \E i \in 1..Len(pending[f.mid]) : pending[f.mid][i] = f
  BY DEF BufferKeeps
<1> DEFINE K1 == step' # "drain" => drained' = 0
           K2 == step' = "drain" => drained' <= Len(Buffered(EffectiveId(fact))')
           K3 == \A m \in Mids : \A i \in 1..Len(pending'[m]) : pending'[m][i] \in done'
           K4 == \A f \in done' : f.kind # "message" /\ (~Exists(Target(f))' \/ Draining(f.mid)') =>
                   \E i \in 1..Len(pending'[f.mid]) : pending'[f.mid][i] = f
<1> SUFFICES K1 /\ K2 /\ K3 /\ K4
  BY DEF BufferKeeps, Target
<1>1. CASE (\E f \in Facts : Deliver(f)) \/ AppendFact \/ AppendIndex \/ FlagConflict
           \/ (step = "apply" /\ fact.kind = "message" /\ Collapse(fact))
  <2>1. /\ UNCHANGED <<rows, pending>> /\ step # "drain" /\ step' # "drain"
        /\ drained' = drained \/ drained' = 0
    BY <1>1 DEF Deliver, AppendFact, AppendIndex, FlagConflict, Collapse, Finish
  <2>2. done' = done \/ (done' = done \cup {fact} /\ fact.kind = "message")
    BY <1>1 DEF Deliver, AppendFact, AppendIndex, FlagConflict, Collapse, Finish
  <2>3. done \subseteq done' /\ \A f \in done' : f.kind # "message" => f \in done
    BY <2>2
  <2> QED
    BY <1>k, <2>1, <2>3 DEF Draining, Exists, Target
<1>2. CASE UNCHANGED vars
  BY <1>2, <1>k DEF vars, Draining, Exists, Target, EffectiveId, Buffered
<1>3. CASE step = "apply" /\ fact.kind = "message" /\ Insert(fact)
  <2>1. /\ UNCHANGED <<fact, pending, drained, done>> /\ step' = "drain" /\ drained = 0
        /\ rows' = [rows EXCEPT ![EffectiveId(fact)] = NewRow(fact)] /\ ~Exists(EffectiveId(fact))
    BY <1>3, <1>k DEF Insert
  <2>2. fact \in Facts /\ Target(fact) \in Ids /\ EffectiveId(fact) \in Ids /\ fact.mid \in Mids
    BY <1>3, <1>t, IdsOf
  <2>3. K2
    <3>1. Buffered(EffectiveId(fact))' \in Seq(Facts)
      <4>1. EffectiveId(fact)'[1] = fact.mid
        BY <2>1 DEF EffectiveId, Target
      <4> QED
        BY <1>t, <2>1, <2>2, <4>1 DEF Buffered
    <3> QED
      BY <2>1, <3>1
  <2>4. ASSUME NEW f \in done, f.kind # "message", ~Exists(Target(f))' \/ Draining(f.mid)'
        PROVE  \E i \in 1..Len(pending[f.mid]) : pending[f.mid][i] = f
    <3>1. f \in Facts /\ Target(f) \in Ids
      BY <1>t, IdsOf
    <3>2. CASE ~Exists(Target(f))
      BY <1>k, <2>4, <3>2
    <3>3. CASE Exists(Target(f))
      <4>1. Draining(f.mid)'
        BY <1>0, <2>4, <3>1, <3>3
      <4>2. f.mid = fact.mid /\ EffectiveId(fact)' = Target(fact) /\ Target(f) = Target(fact)
        BY <2>1, <4>1 DEF Draining, Target
      <4>3. EffectiveId(fact) # Target(fact) /\ rows[Target(fact)].by # fact.by
        BY <2>1, <3>3, <4>2 DEF EffectiveId
      <4>4. rows'[Target(fact)] = rows[Target(fact)]
        BY <1>t, <2>1, <2>2, <4>3
      <4>5. EffectiveId(fact)' = <<fact.mid, fact.by>>
        BY <2>1, <3>3, <4>2, <4>3, <4>4 DEF EffectiveId, Exists, Target
      <4>6. fact.by # NoOne
        BY <2>2, IdsOf, NoneAssumption
      <4> QED
        BY <4>2, <4>5, <4>6 DEF Target
    <3> QED
      BY <3>2, <3>3
  <2> QED
    BY <1>k, <2>1, <2>3, <2>4
<1>4. CASE DrainOne(EffectiveId(fact))
  <2>1. /\ step = "drain" /\ UNCHANGED <<fact, pending, done, step>> /\ drained' = drained + 1
        /\ drained < Len(Buffered(EffectiveId(fact)))
    BY <1>4 DEF DrainOne
  <2>2. fact \in Facts /\ Target(fact) \in Ids /\ EffectiveId(fact) \in Ids /\ fact.mid \in Mids
        /\ EffectiveId(fact)[1] = fact.mid
    BY <1>t, <2>1, IdsOf
  <2>3. \A k \in Ids : rows'[k].by = rows[k].by
    <3>1. ASSUME NEW k \in Ids, ~Exists(k) PROVE rows'[k] = rows[k]
      <4>1. k # EffectiveId(fact)
        BY <2>1, <3>1 DEF LogIsBase
      <4> QED
        BY <1>4, <1>t, <2>2, <4>1 DEF DrainOne
    <3> QED
      BY <1>0, <3>1
  <2>4. EffectiveId(fact)' = EffectiveId(fact)
    BY <2>1, <2>2, <2>3 DEF EffectiveId, Exists, Target
  <2>5. Buffered(EffectiveId(fact))' = Buffered(EffectiveId(fact)) /\ Len(Buffered(EffectiveId(fact))) \in Nat
    <3>1. Buffered(EffectiveId(fact)) \in Seq(Facts)
      BY <1>t, <2>2 DEF Buffered
    <3> QED
      BY <2>1, <2>4, <3>1 DEF Buffered
  <2>6. K2
    BY <1>t, <2>1, <2>5
  <2>7. \A f \in done : (~Exists(Target(f))' <=> ~Exists(Target(f))) /\ (Draining(f.mid)' <=> Draining(f.mid))
    <3>1. \A f \in done : Target(f) \in Ids
      BY <1>t, IdsOf
    <3> QED
      BY <2>1, <2>3, <2>4, <3>1 DEF Exists, Target, Draining
  <2> QED
    BY <1>k, <2>1, <2>6, <2>7
<1>5. CASE DrainDone(EffectiveId(fact))
  <2>1. /\ step = "drain" /\ UNCHANGED rows /\ step' = "idle" /\ drained' = 0 /\ done' = done \cup {fact}
        /\ fact \in Facts /\ fact.kind = "message" /\ Exists(EffectiveId(fact))
    BY <1>5, <1>t DEF DrainDone, Finish, LogIsBase
  <2>2. PICK id : id = EffectiveId(fact)
    OBVIOUS
  <2>3. id \in Ids /\ id[1] = fact.mid /\ fact.mid \in Mids
    BY <2>1, <2>2, IdsOf
  <2>4. pending' = IF id[2] = NoOne THEN [pending EXCEPT ![id[1]] = <<>>] ELSE pending
    BY <1>5, <2>2 DEF DrainDone
  <2>5. K3
    <3>1. \A m \in Mids : pending'[m] = pending[m] \/ pending'[m] = <<>>
      BY <1>t, <2>3, <2>4
    <3>2. Len(<<>>) = 0
      OBVIOUS
    <3> QED
      BY <1>k, <2>1, <3>1, <3>2
  <2>6. ASSUME NEW f \in done, f.kind # "message", ~Exists(Target(f))
        PROVE  \E i \in 1..Len(pending'[f.mid]) : pending'[f.mid][i] = f
    <3>1. id[2] = NoOne => id = Target(fact)
      BY <2>1, <2>2, IdsOf, NoneAssumption DEF EffectiveId
    <3>2. id[2] = NoOne => f.mid # id[1]
      BY <2>1, <2>2, <2>3, <2>6, <3>1 DEF Target
    <3>3. f.mid \in Mids
      BY <1>t, IdsOf
    <3>4. pending'[f.mid] = pending[f.mid]
      BY <1>t, <2>3, <2>4, <3>2, <3>3
    <3> QED
      BY <1>k, <2>6, <3>4
  <2>7. K4
    BY <2>1, <2>6 DEF Draining, Exists, Target
  <2> QED
    BY <2>1, <2>5, <2>7
<1>6. CASE ApplyMutation
  <2>1. /\ step = "apply" /\ step' = "idle" /\ drained' = 0 /\ done' = done \cup {fact} /\ fact \in Facts
    BY <1>6, <1>t DEF ApplyMutation, Finish
  <2>2. fact.mid \in Mids /\ Target(fact) \in Ids /\ pending[fact.mid] \in Seq(Facts)
    BY <1>t, <2>1, IdsOf
  <2>3. CASE Exists(Target(fact)) /\ UNCHANGED pending
    <3>1. \A f \in done' : ~Exists(Target(f))' => f \in done /\ ~Exists(Target(f))
      <4>1. \A f \in done' : Target(f) \in Ids
        BY <1>t, <2>1, IdsOf
      <4> QED
        BY <1>0, <2>1, <2>2, <2>3, <4>1
    <3> QED
      BY <1>k, <2>1, <2>3, <3>1 DEF Draining
  <2>4. CASE ~Exists(Target(fact)) /\ pending' = [pending EXCEPT ![fact.mid] = Newest(Append(@, fact))] /\ UNCHANGED rows
    <3>1. PICK q : q = Append(pending[fact.mid], fact)
      OBVIOUS
    <3>2. q \in Seq(Facts) /\ Len(q) = Len(pending[fact.mid]) + 1 /\ q[Len(q)] = fact
          /\ \A i \in 1..Len(pending[fact.mid]) : q[i] = pending[fact.mid][i]
      BY <2>1, <2>2, <3>1
    <3>3. pending'[fact.mid] = Newest(q)
      BY <1>t, <2>2, <2>4, <3>1
    <3>4. Newest(q) = q
      BY <2>2, <3>2, <3>3, NoTrim DEF BuffersHaveRoom
    <3>5. pending'[fact.mid] = q /\ \A m \in Mids : m # fact.mid => pending'[m] = pending[m]
      BY <1>t, <2>4, <3>3, <3>4
    <3>6. Len(pending[fact.mid]) \in Nat
      BY <2>2
    <3>7. \A i \in 1..Len(q) : i = Len(q) \/ i \in 1..Len(pending[fact.mid])
      BY <3>2, <3>6
    <3>8. K3
      <4>1. \A i \in 1..Len(q) : q[i] \in done'
        BY <1>k, <2>1, <2>2, <3>2, <3>7
      <4>2. ASSUME NEW m \in Mids PROVE \A i \in 1..Len(pending'[m]) : pending'[m][i] \in done'
        <5>1. CASE m = fact.mid
          BY <3>5, <4>1, <5>1
        <5>2. CASE m # fact.mid
          BY <1>k, <2>1, <3>5, <5>2
        <5> QED
          BY <5>1, <5>2
      <4> QED
        BY <4>2
    <3>9. Len(q) \in 1..Len(q) /\ 1..Len(pending[fact.mid]) \subseteq 1..Len(q)
      BY <3>2, <3>6
    <3>10. ASSUME NEW f \in done', f.kind # "message", ~Exists(Target(f))
           PROVE  \E i \in 1..Len(pending'[f.mid]) : pending'[f.mid][i] = f
      <4>1. CASE f = fact
        BY <3>2, <3>5, <3>9, <4>1
      <4>2. CASE f # fact
        <5>1. f \in done /\ f.mid \in Mids
          BY <1>t, <2>1, <4>2, IdsOf
        <5>2. PICK i \in 1..Len(pending[f.mid]) : pending[f.mid][i] = f
          BY <1>k, <3>10, <5>1
        <5> QED
          BY <3>2, <3>5, <3>9, <5>1, <5>2
      <4> QED
        BY <4>1, <4>2
    <3>11. K4
      BY <2>1, <2>4, <3>10 DEF Draining, Exists, Target
    <3> QED
      BY <2>1, <3>8, <3>11
  <2> QED
    BY <1>6, <2>3, <2>4 DEF ApplyMutation
<1> QED
  BY <1>1, <1>2, <1>3, <1>4, <1>5, <1>6 DEF Next, UpsertDepositedMessage, Drain

LEMMA RowsStillFold ==
  ASSUME IInv, LogIsBase, RowsAreSent, BufferKeeps, RowsFold, [Next]_vars,
         ~Crash, \A id \in Ids : ~LocalDelete(id)
  PROVE  RowsFold'
<1>t. /\ log \subseteq Facts /\ done \subseteq Facts /\ pending \in [Mids -> Seq(Facts)] /\ step \in Steps
      /\ step # "idle" => fact \in Facts
      /\ rows \in [Ids -> Row] /\ drained \in Nat
  BY DEF IInv, TypeOK, FactIsSet
<1>l. /\ log \subseteq log' /\ done \subseteq done' /\ done' \subseteq Facts
      /\ log' = log \/ (log' = log \cup {fact} /\ UNCHANGED rows)
  BY Backward, StepOK DEF IInv, TypeOK, Next, vars, Deliver, AppendFact, AppendIndex, FlagConflict,
     UpsertDepositedMessage, Collapse, Insert, Drain, DrainOne, DrainDone, ApplyMutation
<1> SUFFICES ASSUME NEW b \in log', MessagesUnder(b.mid)' = {b}, Exists(Target(b))'
             PROVE  Shows(rows'[Target(b)], b, Seen(b.mid)')
  BY DEF RowsFold, Target
<1> DEFINE m == b.mid
           id == Target(b)
<1>0. b.kind = "message"
  BY DEF MessagesUnder
<1>b. b \in log
  <2>1. CASE b \notin log
    <3>1. UNCHANGED rows /\ b \in Facts
      BY <1>l, <2>1, StepOK DEF IInv, TypeOK
    <3>2. Exists(id) /\ id \in Ids /\ id[1] = m
      BY <3>1, IdsOf DEF Exists, Target
    <3>3. MessagesUnder(m) # {}
      BY <3>2 DEF RowsAreSent
    <3>4. MessagesUnder(m) \subseteq {b}
      BY <1>l, LogGrows
    <3>5. MessagesUnder(m) \subseteq log
      BY DEF MessagesUnder
    <3> QED
      BY <2>1, <3>3, <3>4, <3>5
  <2> QED
    BY <2>1
<1>m. MessagesUnder(m) = {b} /\ OneAuthor(m)
  BY <1>0, <1>b, <1>l, LogGrows DEF MessagesUnder, OneAuthor
<1>i. /\ b \in Facts /\ id \in Ids /\ id[1] = m /\ m \in Mids /\ EffectiveId(b) = id
      /\ Exists(id) => rows[id].by = b.by
  BY <1>0, <1>b, <1>m, <1>t, SoleRow, IdsOf
<1>f. ASSUME step \notin {"idle", "append"}, fact.kind = "message", fact.mid = m PROVE fact = b
  BY <1>f, <1>m, <1>t DEF LogIsBase, MessagesUnder
<1>r. Exists(id) => Shows(rows[id], b, Seen(m))
  BY <1>b, <1>m DEF RowsFold
<1>n. ASSUME step # "drain", step' # "drain", rows'[id] = rows[id],
             \A f \in Facts : f.mid = m /\ f.kind # "message" => (f \in done <=> f \in done')
      PROVE  Shows(rows'[id], b, Seen(m)')
  <2>1. Exists(id) /\ Seen(m) = done /\ Seen(m)' = done'
    BY <1>n DEF Exists, Seen, Target
  <2>2. Shows(rows[id], b, done)
    BY <1>r, <2>1
  <2>3. Shows(rows[id], b, done')
    BY <1>l, <1>n, <1>t, <2>2, ShowsSame
  <2> QED
    BY <1>n, <2>1, <2>3
<1>1. CASE (\E f \in Facts : Deliver(f)) \/ AppendFact \/ AppendIndex \/ FlagConflict
           \/ (step = "apply" /\ fact.kind = "message" /\ Collapse(fact))
  <2>1. UNCHANGED rows /\ step # "drain" /\ step' # "drain"
    BY <1>1 DEF Deliver, AppendFact, AppendIndex, FlagConflict, Collapse, Finish
  <2>2. \A f \in Facts : f.kind # "message" => (f \in done <=> f \in done')
    BY <1>1 DEF Deliver, AppendFact, AppendIndex, FlagConflict, Collapse, Finish
  <2> QED
    BY <1>n, <2>1, <2>2
<1>2. CASE UNCHANGED vars
  <2>1. Seen(m)' = Seen(m) /\ rows'[id] = rows[id] /\ Exists(id)
    BY <1>2 DEF vars, Seen, Exists, Target
  <2> QED
    BY <1>r, <2>1
<1>3. CASE step = "apply" /\ fact.kind = "message" /\ Insert(fact)
  <2>1. /\ UNCHANGED <<fact, pending, drained, done>> /\ step' = "drain" /\ drained = 0
        /\ rows' = [rows EXCEPT ![EffectiveId(fact)] = NewRow(fact)]
    BY <1>3 DEF Insert, BufferKeeps
  <2>2. CASE fact.mid = m
    <3>1. fact = b
      BY <1>3, <1>f, <2>2
    <3>2. rows'[id] = NewRow(b)
      BY <1>i, <1>t, <2>1, <3>1
    <3>3. Seen(m)' = {}
      BY <2>1, <2>2 DEF Seen
    <3> QED
      BY <1>i, <3>2, <3>3, ShowsNew
  <2>3. CASE fact.mid # m
    <3>1. EffectiveId(fact)[1] # m
      BY <1>3, <1>t, <2>3, IdsOf
    <3>2. rows'[id] = rows[id] /\ Exists(id)
      BY <1>i, <1>t, <2>1, <3>1 DEF Exists, Target
    <3>3. Seen(m)' = done /\ Seen(m) = done
      BY <1>3, <2>1, <2>3 DEF Seen
    <3> QED
      BY <1>r, <3>2, <3>3
  <2> QED
    BY <2>2, <2>3
<1>4. CASE DrainOne(EffectiveId(fact))
  <2>1. /\ step = "drain" /\ UNCHANGED <<fact, pending, done, step>> /\ drained' = drained + 1
        /\ drained < Len(Buffered(EffectiveId(fact))) /\ fact \in Facts /\ fact.kind = "message"
    BY <1>4, <1>t DEF DrainOne, LogIsBase
  <2>2. CASE fact.mid = m
    <3>1. fact = b
      BY <1>f, <2>1, <2>2
    <3>2. Buffered(EffectiveId(fact)) = pending[m] /\ EffectiveId(fact) = id /\ Exists(id)
      BY <1>i, <2>1, <3>1 DEF Buffered, Target, LogIsBase
    <3>3. PICK f : f = pending[m][drained + 1]
      OBVIOUS
    <3>4. pending[m] \in Seq(Facts) /\ drained + 1 \in 1..Len(pending[m]) /\ 1..drained \subseteq 1..Len(pending[m])
      BY <1>i, <1>t, <2>1, <3>2
    <3>5. f \in Facts /\ f.mid = m
      BY <1>i, <3>3, <3>4 DEF IInv, BufferIsKeyed
    <3>6. rows'[id] = Mutated(rows[id], f)
      BY <1>4, <1>i, <1>t, <3>2, <3>3 DEF DrainOne
    <3>7. Seen(m) = {pending[m][i] : i \in 1..drained} /\ Seen(m)' = {pending[m][i] : i \in 1..drained'}
      BY <2>1, <2>2 DEF Seen
    <3>8. 1..drained' = (1..drained) \cup {drained + 1}
      BY <1>t, <2>1
    <3>9. Seen(m)' = Seen(m) \cup {f}
      BY <3>3, <3>7, <3>8
    <3>10. Seen(m) \in SUBSET Facts
      BY <3>4, <3>7
    <3>11. rows[id] \in Row /\ rows[id].by = b.by /\ Shows(rows[id], b, Seen(m))
      BY <1>i, <1>r, <1>t, <3>2
    <3>12. Shows(Mutated(rows[id], f), b, Seen(m) \cup {f})
      BY <1>i, <3>5, <3>10, <3>11, ShowsStep
    <3> QED
      BY <3>6, <3>9, <3>12
  <2>3. CASE fact.mid # m
    <3>1. EffectiveId(fact)[1] # m
      BY <2>1, <2>3, IdsOf
    <3>2. rows'[id] = rows[id]
      BY <1>4, <1>i, <1>t, <3>1 DEF DrainOne
    <3>3. Seen(m)' = done /\ Seen(m) = done /\ Exists(id)
      BY <2>1, <2>3, <3>2 DEF Seen, Exists, Target
    <3> QED
      BY <1>r, <3>2, <3>3
  <2> QED
    BY <2>2, <2>3
<1>5. CASE DrainDone(EffectiveId(fact))
  <2>1. /\ step = "drain" /\ UNCHANGED rows /\ step' = "idle" /\ done' = done \cup {fact}
        /\ drained >= Len(Buffered(EffectiveId(fact))) /\ fact \in Facts /\ fact.kind = "message"
        /\ drained <= Len(Buffered(EffectiveId(fact)))
    BY <1>5, <1>t DEF DrainDone, Finish, LogIsBase, BufferKeeps
  <2>2. Exists(id) /\ Seen(m)' = done'
    BY <2>1 DEF Exists, Target, Seen
  <2>3. CASE fact.mid = m
    <3>1. fact = b
      BY <1>f, <2>1, <2>3
    <3>2. Buffered(EffectiveId(fact)) = pending[m] /\ EffectiveId(fact) = id
      BY <1>i, <3>1 DEF Buffered, Target
    <3>3. drained = Len(pending[m]) /\ pending[m] \in Seq(Facts)
      BY <1>i, <1>t, <2>1, <3>2
    <3>4. Seen(m) = {pending[m][i] : i \in 1..Len(pending[m])}
      BY <2>1, <2>3, <3>3 DEF Seen
    <3>5. Draining(m)
      BY <2>1, <3>1, <3>2 DEF Draining
    <3>6. \A f \in Facts : f.mid = m /\ f.kind # "message" => (f \in Seen(m) <=> f \in done')
      <4>1. ASSUME NEW f \in Facts, f.mid = m, f.kind # "message" PROVE f \in Seen(m) <=> f \in done
        BY <1>i, <3>4, <3>5, <4>1 DEF BufferKeeps
      <4> QED
        BY <2>1, <4>1
    <3>7. Seen(m) \subseteq Facts
      BY <3>3, <3>4
    <3>8. Shows(rows[id], b, done')
      BY <1>l, <1>r, <2>2, <3>6, <3>7, ShowsSame
    <3> QED
      BY <2>1, <2>2, <3>8
  <2>4. CASE fact.mid # m
    <3>1. Seen(m) = done
      BY <2>4 DEF Seen
    <3>2. \A f \in Facts : f.mid = m /\ f.kind # "message" => (f \in done <=> f \in done')
      BY <2>1, <2>4
    <3>3. Shows(rows[id], b, done')
      BY <1>l, <1>r, <1>t, <2>2, <3>1, <3>2, ShowsSame
    <3> QED
      BY <2>1, <2>2, <3>3
  <2> QED
    BY <2>3, <2>4
<1>6. CASE ApplyMutation
  <2>1. /\ step = "apply" /\ step' = "idle" /\ done' = done \cup {fact} /\ fact \in Facts
    BY <1>6, <1>t DEF ApplyMutation, Finish
  <2>2. CASE fact.mid = m
    <3>1. Target(fact) = id
      BY <2>2 DEF Target
    <3>2. Exists(id) /\ rows'[id] = Mutated(rows[id], fact)
      BY <1>6, <1>i, <1>t, <3>1 DEF ApplyMutation, Exists, Target
    <3>3. Seen(m) = done /\ Seen(m)' = done \cup {fact}
      BY <2>1 DEF Seen
    <3>4. Shows(Mutated(rows[id], fact), b, done \cup {fact})
      BY <1>i, <1>r, <1>t, <2>1, <2>2, <3>2, <3>3, ShowsStep
    <3> QED
      BY <3>2, <3>3, <3>4
  <2>3. CASE fact.mid # m
    <3>1. Target(fact)[1] # m
      BY <2>3 DEF Target
    <3>2. rows'[id] = rows[id]
      BY <1>6, <1>i, <1>t, <3>1 DEF ApplyMutation
    <3> QED
      BY <1>n, <2>1, <2>3, <3>2
  <2> QED
    BY <2>2, <2>3
<1> QED
  BY <1>1, <1>2, <1>3, <1>4, <1>5, <1>6 DEF Next, UpsertDepositedMessage, Drain

LEMMA InitFolds == Init => FoldInv
BY DEF Init, FoldInv, BufferKeeps, RowsFold

LEMMA StepFolds == IInv /\ FlagInv /\ FoldInv /\ BuffersHaveRoom' /\ [Next]_vars => FoldInv'
<1> SUFFICES ASSUME IInv, FlagInv, FoldInv, BuffersHaveRoom', [Next]_vars, NoCrash', NoDelete'
             PROVE  BufferKeeps' /\ RowsFold'
  BY DEF FoldInv
<1>1. LogIsBase /\ RowsAreSent
  BY DEF FlagInv
<1>2. NoCrash /\ NoDelete /\ ~Crash /\ \A id \in Ids : ~LocalDelete(id)
  BY <1>1, Backward
<1>3. BufferKeeps /\ RowsFold
  BY <1>2 DEF FoldInv
<1> QED
  BY <1>1, <1>2, <1>3, BufferStillKeeps, RowsStillFold

(* A row that shows the fold of all that was applied shows the reference.  *)
LEMMA FoldFollows ==
  ASSUME StampsTellEdits, IInv, FlagInv, FoldInv
  PROVE  Converged
<1> SUFFICES ASSUME step = "idle", NoCrash, NoDelete, NEW b \in done, MessagesUnder(b.mid) = {b}
             PROVE  rows[Target(b)].text = Folded(b)
  BY DEF Converged, ShowsFold
<1>1. b \in log /\ b \in Facts /\ done \subseteq Facts /\ b.kind = "message" /\ OneAuthor(b.mid)
  BY DEF IInv, TypeOK, MessagesUnder, OneAuthor
<1>2. Exists(Target(b))
  BY <1>1 DEF FlagInv, TakenIsShown, Taken
<1>3. Shows(rows[Target(b)], b, done)
  BY <1>1, <1>2 DEF FoldInv, RowsFold, Seen
<1> DEFINE r == rows[Target(b)]
           edits == Authored(b.by, b.mid, {"edit"}) \cap done
           tombstones == Authored(b.by, b.mid, {"tombstone"}) \cap done
<1>4. /\ tombstones # {} => r.text = NoText
      /\ tombstones = {} /\ edits = {} => r.text = b.text
      /\ tombstones = {} /\ edits # {} => \E f \in edits : r.text = f.text /\ \A g \in edits : g.at <= f.at
  BY <1>3 DEF Shows
<1>5. CASE tombstones = {} /\ edits # {}
  <2>1. PICK f \in edits : r.text = f.text /\ \A g \in edits : g.at <= f.at
    BY <1>4, <1>5
  <2>2. PICK h : h = Latest(edits)
    OBVIOUS
  <2>3. h \in edits /\ \A g \in edits : g.at <= h.at
    BY <2>1, <2>2 DEF Latest
  <2>4. f.at \in Nat /\ h.at \in Nat /\ f \in Facts /\ h \in Facts
    BY <2>1, <2>3, IdsOf DEF Authored
  <2>5. f.at = h.at
    BY <2>1, <2>3, <2>4
  <2>6. f.text = h.text
    BY <2>1, <2>3, <2>4, <2>5 DEF StampsTellEdits, Authored
  <2> QED
    BY <1>5, <2>1, <2>2, <2>6 DEF Folded
<1>6. CASE ~(tombstones = {} /\ edits # {})
  BY <1>4, <1>6 DEF Folded
<1> QED
  BY <1>5, <1>6

(* Whatever the order and however often the facts come, a message alone    *)
(* under its id ends up showing the reference fold of what was applied, in *)
(* every run in which no buffer of early mutations fills up.               *)
THEOREM RowsConverge ==
  ASSUME StampsTellEdits
  PROVE  Spec /\ []BuffersHaveRoom => []Converged
<1>1. Init => IInv /\ FlagInv /\ FoldInv
  BY InitOK, InitFlags, InitFolds
<1>2. IInv /\ FlagInv /\ FoldInv /\ BuffersHaveRoom' /\ [Next]_vars => (IInv /\ FlagInv /\ FoldInv)'
  BY StepOK, StepFlags, StepFolds
<1>3. IInv /\ FlagInv /\ FoldInv => Converged
  BY FoldFollows
<1> QED
  BY <1>1, <1>2, <1>3, PTL DEF Spec

=============================================================================
