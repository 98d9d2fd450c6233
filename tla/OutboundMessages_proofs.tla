----------------------- MODULE OutboundMessages_proofs -----------------------
(***************************************************************************)
(* Proofs about the sender: a row says "delivered" only for a message the  *)
(* recipient stored, a delivered row never goes back, and what left and is *)
(* not proven stays on the durable retry list.                             *)
(***************************************************************************)
EXTENDS DeviceFanout, TLAPS

USE DEF RecordPending, RecordFact, PutPendingCommit, CommitAcked, Unestablished

(* A refused status change leaves the row as it is; an accepted one writes *)
(* the new status (the store's setMessageStatus).                          *)
LEMMA StatusWrite ==
  ASSUME NEW r \in [Messages -> Statuses], NEW m \in Messages, NEW to \in Statuses
  PROVE  /\ SetMessageStatus(r, m, to) \in [Messages -> Statuses]
         /\ \A n \in Messages : n # m => SetMessageStatus(r, m, to)[n] = r[n]
         /\ SetMessageStatus(r, m, to)[m] \in {r[m], to}
         /\ r[m] \in {"none", "delivered"} => SetMessageStatus(r, m, to)[m] = r[m]
  BY DEF SetMessageStatus, CanTransitionStatus, Statuses

(* Spending a bound keeps the bounds natural numbers.                      *)
LEMMA SpendType ==
  ASSUME left \in [Bounds -> Nat], NEW b \in Bounds, Spend(b)
  PROVE  left' \in [Bounds -> Nat]
  BY DEF Spend

(* So does spending two of them at once (a first send whose fact fails).   *)
LEMMA SpendBothType ==
  ASSUME left \in [Bounds -> Nat], NEW b \in Bounds, NEW c \in Bounds, b # c, Spend2(b, c)
  PROVE  left' \in [Bounds -> Nat]
  BY DEF Spend2

(* The initial state satisfies the inductive invariant.                    *)
LEMMA InitOK == Init => IInv
  <1> SUFFICES ASSUME Init PROVE IInv
    OBVIOUS
  <1>1. left \in [Bounds -> Nat]
    BY LimitsAssumption DEF Init
  <1>2. NoSweep \in [todo : SUBSET Messages, at : Messages \cup {NoMessage}]
    BY DEF NoSweep
  <1>4. TypeOK
    BY <1>1, <1>2 DEF Init, TypeOK, Statuses, Steps
  <1>5. DeliveredIsReal /\ EvidenceIsReal /\ NewHasNoRow
    BY DEF Init, DeliveredIsReal, EvidenceIsReal, NewHasNoRow
  <1> QED BY <1>4, <1>5 DEF IInv

(* Every step keeps the variables in their types.                          *)
LEMMA TypeStep ==
  ASSUME TypeOK, [Next]_vars
  PROVE  TypeOK'
  <1> USE DEF TypeOK, durable, memory, network, Statuses, Steps
  <1>0. \A b \in Bounds : Spend(b) => left' \in [Bounds -> Nat]
    BY SpendType
  <1>1. ASSUME NEW m \in Messages, Send(m) PROVE TypeOK'
    <2>1. left' \in [Bounds -> Nat]
      <3>1. \/ \E b \in {"new", "resend"} : Spend(b)
            \/ Spend2("new", "fault")
        BY <1>1 DEF Send
      <3>2. CASE Spend2("new", "fault")
        BY <3>2, SpendBothType DEF Bounds
      <3> QED BY <1>0, <3>1, <3>2 DEF Bounds
    <2>2. row' \in [Messages -> Statuses] /\ ui' \in [Messages -> Statuses \cup {"new"}]
      BY <1>1 DEF Send
    <2>3. call' \in [Messages -> Steps] /\ fact' \subseteq Messages
      BY <1>1 DEF Send
    <2>4. ackPending' \subseteq Messages /\ queued' \subseteq Messages /\ tracked' \subseteq Messages
      BY <1>1 DEF Send, Forget
    <2> QED BY <1>1, <2>1, <2>2, <2>3, <2>4 DEF Send
  <1>2. ASSUME NEW m \in Messages, Deliver(m) PROVE TypeOK'
    BY <1>2, <1>0, SMTT(30) DEF Deliver, Dispatched, NodeQueued, DispatchThrows, Show, Bounds
  <1>3. ASSUME NEW m \in Messages, Track(m) PROVE TypeOK'
    BY <1>3, SMTT(30) DEF Track, Bounds
  <1>4. ASSUME NEW m \in Messages, Settle(m) PROVE TypeOK'
    BY <1>4, StatusWrite, SMTT(30) DEF Settle, Show, Bounds
  <1>5. ASSUME NEW m \in Messages, OpenPendingCommit(m) PROVE TypeOK'
    BY <1>5, SMTT(30) DEF OpenPendingCommit, Show, Bounds
  <1>6. ASSUME NEW m \in Messages, DeleteLocal(m) PROVE TypeOK'
    BY <1>6, SMTT(30) DEF DeleteLocal, Bounds
  <1>7. ASSUME NEW m \in Messages, RetryRow(m) PROVE TypeOK'
    <2>1. sweep' \in [todo : SUBSET Messages, at : Messages \cup {NoMessage}]
      <3>1. CASE m \in fact
        BY <1>7, <3>1 DEF RetryRow
      <3>2. CASE m \notin fact
        BY <1>7, <3>2 DEF RetryRow, SweepNext
      <3> QED BY <3>1, <3>2
    <2>2. commit' \subseteq Messages
      BY <1>7 DEF RetryRow
    <2> QED BY <1>7, <2>1, <2>2 DEF RetryRow
  <1>8. ASSUME NEW m \in Messages, RetryDeliver(m) PROVE TypeOK'
    BY <1>8, <1>0, SMTT(30) DEF RetryDeliver, Dispatched, NodeQueued, DispatchThrows, SweepNext, Bounds
  <1>9. ASSUME NEW m \in Messages, NodeSettles(m) PROVE TypeOK'
    <2>1. left' \in [Bounds -> Nat]
      BY <1>9, <1>0 DEF NodeSettles, Bounds
    <2>2. /\ wire' \subseteq Messages /\ nodeQueue' \subseteq Messages
          /\ frames' \subseteq {"delivered", "expired"}
      BY <1>9 DEF NodeSettles
    <2> QED BY <1>9, <2>1, <2>2 DEF NodeSettles
  <1>10. ASSUME NEW m \in Messages, Receive(m) PROVE TypeOK'
    BY <1>10, <1>0, SMTT(30) DEF Receive, Acknowledge, Bounds
  <1>11. ASSUME NEW m \in Messages, DeliveryAckCheck(m) PROVE TypeOK'
    BY <1>11, SMTT(30) DEF DeliveryAckCheck, Bounds
  <1>12. ASSUME NEW m \in Messages, DeliveryAckSettle(m) PROVE TypeOK'
    BY <1>12, StatusWrite, SMTT(30) DEF DeliveryAckSettle, Forget, Show, Bounds
  <1>13. ASSUME NEW m \in Messages, CommitAckBegin(m) PROVE TypeOK'
    <2>1. left' \in [Bounds -> Nat]
      BY <1>13, <1>0 DEF CommitAckBegin, Bounds
    <2>2. ack' \in {NoAck} \cup [of : Messages, at : {"pending", "factOnly", "consumed"}]
      BY <1>13 DEF CommitAckBegin
    <2>3. acks' \subseteq Messages
      BY <1>13 DEF CommitAckBegin
    <2> QED BY <1>13, <2>1, <2>2, <2>3 DEF CommitAckBegin
  <1>14. ASSUME NEW due \in SUBSET Messages, SweepStart(due) PROVE TypeOK'
    BY <1>14, SMTT(30) DEF SweepStart, Bounds
  <1>15. ASSUME NEW f \in {"delivered", "expired"}, HandleOutboundStatus(f) PROVE TypeOK'
    <2> DEFINE s == IF f = "delivered" THEN "sent" ELSE "failed"
    <2>1. s \in Statuses /\ SettleTracked(f, s)
      BY <1>15 DEF HandleOutboundStatus
    <2> HIDE DEF s
    <2>2. \A m \in Messages : SetMessageStatus(row, m, s)[m] \in Statuses
      BY <2>1, StatusWrite
    <2>3. row' \in [Messages -> Statuses]
      BY <2>1, <2>2 DEF SettleTracked
    <2>4. ui' \in [Messages -> Statuses \cup {"new"}]
      BY <2>1 DEF SettleTracked
    <2>5. /\ ackPending' \subseteq Messages /\ queued' \subseteq Messages
          /\ tracked' \subseteq Messages /\ frames' \subseteq {"delivered", "expired"}
      BY <2>1 DEF SettleTracked
    <2> QED BY <2>1, <2>3, <2>4, <2>5 DEF SettleTracked
  <1>16. CASE CommitAckConsume
    BY <1>16, SMTT(30) DEF CommitAckConsume, NoAck
  <1>17. CASE CommitAckSettle
    <2>1. ack.of \in Messages
      BY <1>17 DEF CommitAckSettle, NoAck
    <2>2. row' \in [Messages -> Statuses]
      BY <1>17, <2>1, StatusWrite DEF CommitAckSettle
    <2>3. ui' \in [Messages -> Statuses \cup {"new"}]
      BY <1>17, <2>1 DEF CommitAckSettle, Show
    <2>4. /\ ackPending' \subseteq Messages /\ queued' \subseteq Messages
          /\ tracked' \subseteq Messages
          /\ acks' \subseteq Messages
      BY <1>17, <2>1 DEF CommitAckSettle, Forget
    <2> QED BY <1>17, <2>2, <2>3, <2>4 DEF CommitAckSettle
  <1>18. CASE Lose
    <2>1. left' \in [Bounds -> Nat]
      BY <1>18, <1>0 DEF Lose, Bounds
    <2>2. /\ wire' \subseteq Messages /\ acks' \subseteq Messages
          /\ legacyAcks' \subseteq Messages /\ frames' \subseteq {"delivered", "expired"}
      BY <1>18 DEF Lose
    <2> QED BY <1>18, <2>1, <2>2 DEF Lose
  <1>19. CASE Restart
    BY <1>19, <1>0, SMTT(30) DEF Restart, NoSweep, NoAck, Bounds
  <1>20. CASE UNCHANGED vars
    BY <1>20, SMTT(30) DEF vars, Bounds
  <1> QED BY <1>1, <1>2, <1>3, <1>4, <1>5, <1>6, <1>7, <1>8, <1>9, <1>10, <1>11, <1>12, <1>13, <1>14, <1>15, <1>16, <1>17, <1>18, <1>19, <1>20 DEF Next

(* A status other than "delivered" makes no row delivered.                 *)
LEMMA OtherStatus ==
  ASSUME TypeOK, DeliveredIsReal, NEW m \in Messages,
         NEW to \in Statuses \ {"delivered"},
         row' = SetMessageStatus(row, m, to), committed \subseteq committed'
  PROVE  DeliveredIsReal'
  <1>1. /\ row' \in [Messages -> Statuses]
        /\ \A n \in Messages : n # m => row'[n] = row[n]
        /\ row'[m] \in {row[m], to}
    <2>1. to \in Statuses /\ row \in [Messages -> Statuses]
      BY DEF TypeOK
    <2> QED BY <2>1, StatusWrite
  <1> QED BY <1>1 DEF DeliveredIsReal

(* "delivered" is written for a message the recipient has stored.          *)
LEMMA DeliveredStatus ==
  ASSUME TypeOK, DeliveredIsReal, NEW m \in Messages, m \in committed,
         row' = SetMessageStatus(row, m, "delivered"), committed' = committed
  PROVE  DeliveredIsReal'
  <1>1. /\ row' \in [Messages -> Statuses]
        /\ \A n \in Messages : n # m => row'[n] = row[n]
    BY StatusWrite DEF TypeOK, Statuses
  <1> QED BY <1>1 DEF DeliveredIsReal

(* Every step keeps the rows and the evidence real.                        *)
LEMMA RealStep ==
  ASSUME IInv, [Next]_vars
  PROVE  DeliveredIsReal' /\ EvidenceIsReal'
  <1> USE DEF durable, memory, network
  <1>0. TypeOK /\ DeliveredIsReal /\ EvidenceIsReal
    BY DEF IInv
  <1>1. ASSUME NEW m \in Messages, Send(m) PROVE DeliveredIsReal' /\ EvidenceIsReal'
    BY <1>0, <1>1 DEF Send, DeliveredIsReal, EvidenceIsReal, TypeOK
  <1>2. ASSUME NEW m \in Messages, Deliver(m) PROVE DeliveredIsReal' /\ EvidenceIsReal'
    BY <1>0, <1>2 DEF Deliver, Dispatched, NodeQueued, DispatchThrows, DeliveredIsReal, EvidenceIsReal
  <1>3. ASSUME NEW m \in Messages, Track(m) PROVE DeliveredIsReal' /\ EvidenceIsReal'
    BY <1>0, <1>3 DEF Track, DeliveredIsReal, EvidenceIsReal
  <1>4. ASSUME NEW m \in Messages, Settle(m) PROVE DeliveredIsReal' /\ EvidenceIsReal'
    <2>1. EvidenceIsReal'
      BY <1>0, <1>4 DEF Settle, EvidenceIsReal
    <2>2. PICK to \in {"sent", "queued"} : row' = SetMessageStatus(row, m, to)
      BY <1>4 DEF Settle
    <2>3. committed' = committed
      BY <1>4 DEF Settle
    <2> QED BY <1>0, <2>1, <2>2, <2>3, OtherStatus DEF Statuses
  <1>5. ASSUME NEW m \in Messages, OpenPendingCommit(m) PROVE DeliveredIsReal' /\ EvidenceIsReal'
    BY <1>0, <1>5 DEF OpenPendingCommit, DeliveredIsReal, EvidenceIsReal
  <1>6. ASSUME NEW m \in Messages, DeleteLocal(m) PROVE DeliveredIsReal' /\ EvidenceIsReal'
    BY <1>0, <1>6 DEF DeleteLocal, DeliveredIsReal, EvidenceIsReal, TypeOK
  <1>7. ASSUME NEW m \in Messages, RetryRow(m) PROVE DeliveredIsReal' /\ EvidenceIsReal'
    BY <1>0, <1>7 DEF RetryRow, DeliveredIsReal, EvidenceIsReal
  <1>8. ASSUME NEW m \in Messages, RetryDeliver(m) PROVE DeliveredIsReal' /\ EvidenceIsReal'
    BY <1>0, <1>8 DEF RetryDeliver, Dispatched, NodeQueued, DispatchThrows, DeliveredIsReal, EvidenceIsReal
  <1>9. ASSUME NEW m \in Messages, NodeSettles(m) PROVE DeliveredIsReal' /\ EvidenceIsReal'
    BY <1>0, <1>9 DEF NodeSettles, DeliveredIsReal, EvidenceIsReal
  <1>10. ASSUME NEW m \in Messages, Receive(m) PROVE DeliveredIsReal' /\ EvidenceIsReal'
    <2>1. DeliveredIsReal'
      BY <1>0, <1>10 DEF Receive, DeliveredIsReal
    <2>2. EvidenceIsReal'
      BY <1>0, <1>10 DEF Receive, Acknowledge, EvidenceIsReal
    <2> QED BY <2>1, <2>2
  <1>11. ASSUME NEW m \in Messages, DeliveryAckCheck(m) PROVE DeliveredIsReal' /\ EvidenceIsReal'
    BY <1>0, <1>11 DEF DeliveryAckCheck, DeliveredIsReal, EvidenceIsReal
  <1>12. ASSUME NEW m \in Messages, DeliveryAckSettle(m) PROVE DeliveredIsReal' /\ EvidenceIsReal'
    <2>1. EvidenceIsReal' /\ m \in committed /\ committed' = committed
      BY <1>0, <1>12 DEF DeliveryAckSettle, EvidenceIsReal
    <2>2. row' = SetMessageStatus(row, m, "delivered")
      BY <1>12 DEF DeliveryAckSettle
    <2> QED BY <1>0, <2>1, <2>2, DeliveredStatus
  <1>13. ASSUME NEW m \in Messages, CommitAckBegin(m) PROVE DeliveredIsReal' /\ EvidenceIsReal'
    BY <1>0, <1>13 DEF CommitAckBegin, DeliveredIsReal, EvidenceIsReal
  <1>14. ASSUME NEW due \in SUBSET Messages, SweepStart(due) PROVE DeliveredIsReal' /\ EvidenceIsReal'
    BY <1>0, <1>14 DEF SweepStart, DeliveredIsReal, EvidenceIsReal
  <1>15. ASSUME NEW f \in {"delivered", "expired"}, HandleOutboundStatus(f)
        PROVE  DeliveredIsReal' /\ EvidenceIsReal'
    <2>1. PICK s \in {"sent", "failed"} : SettleTracked(f, s)
      BY <1>15 DEF HandleOutboundStatus
    <2>2. EvidenceIsReal' /\ committed' = committed
      BY <1>0, <2>1 DEF SettleTracked, EvidenceIsReal
    <2>3. \A m \in Messages : SetMessageStatus(row, m, s)[m] \in {row[m], s}
      BY <1>0, StatusWrite DEF TypeOK, Statuses
    <2>4. \A m \in Messages : row'[m] \in {row[m], s}
      BY <2>1, <2>3 DEF SettleTracked
    <2> QED BY <1>0, <2>2, <2>4 DEF DeliveredIsReal
  <1>16. CASE CommitAckConsume
    BY <1>0, <1>16 DEF CommitAckConsume, DeliveredIsReal, EvidenceIsReal, TypeOK, NoAck
  <1>17. CASE CommitAckSettle
    <2>1. ack # NoAck /\ ack.of \in Messages
      BY <1>0, <1>17 DEF CommitAckSettle, NoAck, TypeOK
    <2>2. ack.of \in committed /\ committed' = committed
      BY <1>0, <1>17, <2>1 DEF CommitAckSettle, EvidenceIsReal
    <2>3. EvidenceIsReal'
      BY <1>0, <1>17 DEF CommitAckSettle, EvidenceIsReal
    <2>4. PICK m \in Messages : m \in committed /\ row' = SetMessageStatus(row, m, "delivered")
      BY <1>17, <2>1, <2>2 DEF CommitAckSettle
    <2> QED BY <1>0, <2>2, <2>3, <2>4, DeliveredStatus
  <1>18. CASE Lose
    BY <1>0, <1>18 DEF Lose, DeliveredIsReal, EvidenceIsReal
  <1>19. CASE Restart
    <2>1. \A m \in Messages : row'[m] \in {row[m], "failed"}
      BY <1>0, <1>19 DEF Restart
    <2>2. EvidenceIsReal' /\ committed' = committed
      BY <1>0, <1>19 DEF Restart, EvidenceIsReal
    <2> QED BY <1>0, <2>1, <2>2 DEF DeliveredIsReal
  <1>20. CASE UNCHANGED vars
    BY <1>0, <1>20 DEF vars, DeliveredIsReal, EvidenceIsReal
  <1> QED BY <1>1, <1>2, <1>3, <1>4, <1>5, <1>6, <1>7, <1>8, <1>9, <1>10, <1>11, <1>12, <1>13, <1>14, <1>15, <1>16, <1>17, <1>18, <1>19, <1>20 DEF Next

(* What the actions that write one status through the store have in common: *)
(* no row appears, and no delivered row goes back.                         *)
StoreStep ==
  \A n \in Messages : row[n] \in {"none", "delivered"} => row'[n] = row[n]

LEMMA StatusStep ==
  ASSUME TypeOK, NEW m \in Messages, NEW to \in Statuses,
         row' = SetMessageStatus(row, m, to)
  PROVE  StoreStep
  <1>1. row \in [Messages -> Statuses]
    BY DEF TypeOK
  <1>2. /\ \A n \in Messages : n # m => row'[n] = row[n]
        /\ row[m] \in {"none", "delivered"} => row'[m] = row[m]
    BY <1>1, StatusWrite
  <1> QED BY <1>2 DEF StoreStep

(* Apart from a send and a local delete, every step writes rows through    *)
(* the store, or fails queued rows at start, and no bubble becomes new.    *)
LEMMA OtherSteps ==
  ASSUME IInv, [Next]_vars,
         \A m \in Messages : ~Send(m) /\ ~DeleteLocal(m)
  PROVE  StoreStep /\ \A n \in Messages : ui'[n] = "new" => ui[n] = "new"
  <1> USE DEF durable, memory, network
  <1> DEFINE NoneNew == \A n \in Messages : ui'[n] = "new" => ui[n] = "new"
  <1>0. TypeOK
    BY DEF IInv
  <1>1. ASSUME row' = row, ui' = ui PROVE StoreStep /\ NoneNew
    BY <1>1 DEF StoreStep
  <1>2. ASSUME NEW m \in Messages, NEW s \in Statuses, Show(m, s) PROVE NoneNew
    BY <1>0, <1>2 DEF Show, TypeOK, Statuses
  <1>3. ASSUME NEW m \in Messages, Deliver(m) PROVE StoreStep /\ NoneNew
    <2>1. row' = row /\ (ui' = ui \/ Show(m, "failed"))
      BY <1>3 DEF Deliver
    <2> QED BY <1>1, <1>2, <2>1 DEF StoreStep, Statuses
  <1>4. ASSUME NEW m \in Messages, Settle(m) PROVE StoreStep /\ NoneNew
    <2>1. PICK s \in {"sent", "queued"} : row' = SetMessageStatus(row, m, s) /\ Show(m, s)
      BY <1>4 DEF Settle
    <2>2. s \in Statuses
      BY DEF Statuses
    <2> QED BY <1>0, <1>2, <2>1, <2>2, StatusStep
  <1>5. ASSUME NEW m \in Messages, OpenPendingCommit(m) PROVE StoreStep /\ NoneNew
    <2>1. row' = row /\ Show(m, "sent")
      BY <1>5 DEF OpenPendingCommit
    <2> QED BY <1>2, <2>1 DEF StoreStep, Statuses
  <1>6. ASSUME NEW m \in Messages, DeliveryAckSettle(m) PROVE StoreStep /\ NoneNew
    <2>1. row' = SetMessageStatus(row, m, "delivered") /\ Show(m, "delivered")
      BY <1>6 DEF DeliveryAckSettle
    <2>2. "delivered" \in Statuses
      BY DEF Statuses
    <2> QED BY <1>0, <1>2, <2>1, <2>2, StatusStep
  <1>7. CASE CommitAckSettle
    <2>1. ack.of \in Messages
      BY <1>0, <1>7 DEF CommitAckSettle, NoAck, TypeOK
    <2>2. PICK m \in Messages : row' = SetMessageStatus(row, m, "delivered") /\ Show(m, "delivered")
      BY <1>7, <2>1 DEF CommitAckSettle
    <2>3. "delivered" \in Statuses
      BY DEF Statuses
    <2> QED BY <1>0, <1>2, <2>2, <2>3, StatusStep
  <1>8. ASSUME NEW f \in {"delivered", "expired"}, HandleOutboundStatus(f)
        PROVE  StoreStep /\ NoneNew
    <2>1. PICK s \in {"sent", "failed"} : SettleTracked(f, s)
      BY <1>8 DEF HandleOutboundStatus
    <2>2. \A m \in Messages : row[m] \in {"none", "delivered"} => SetMessageStatus(row, m, s)[m] = row[m]
      BY <1>0, StatusWrite DEF TypeOK, Statuses
    <2>3. StoreStep
      BY <2>1, <2>2 DEF SettleTracked, StoreStep
    <2>4. NoneNew
      BY <2>1 DEF SettleTracked
    <2> QED BY <2>3, <2>4
  <1>9. CASE Restart
    <2>1. StoreStep
      BY <1>9 DEF Restart, StoreStep
    <2>2. row' \in [Messages -> Statuses]
      BY <1>0, <1>9 DEF Restart, TypeOK, Statuses
    <2>3. NoneNew
      BY <1>9, <2>2 DEF Restart, Statuses
    <2> QED BY <2>1, <2>3
  <1>10. ASSUME NEW m \in Messages,
                \/ Track(m) \/ RetryRow(m) \/ RetryDeliver(m) \/ NodeSettles(m)
                \/ Receive(m) \/ DeliveryAckCheck(m) \/ CommitAckBegin(m)
         PROVE  StoreStep /\ NoneNew
    <2>1. row' = row /\ ui' = ui
      BY <1>10 DEF Track, RetryRow, RetryDeliver, NodeSettles, Receive, DeliveryAckCheck, CommitAckBegin
    <2> QED BY <1>1, <2>1
  <1>11. ASSUME CommitAckConsume \/ Lose \/ UNCHANGED vars
                  \/ \E due \in SUBSET Messages : SweepStart(due)
         PROVE  StoreStep /\ NoneNew
    <2>1. row' = row /\ ui' = ui
      BY <1>11 DEF CommitAckConsume, Lose, vars, SweepStart
    <2> QED BY <1>1, <2>1
  <1> QED BY <1>3, <1>4, <1>5, <1>6, <1>7, <1>8, <1>9, <1>10, <1>11 DEF Next

(* Every step keeps the bubbles that were never sent without a row.        *)
LEMMA NewStep ==
  ASSUME IInv, [Next]_vars
  PROVE  NewHasNoRow'
  <1>0. TypeOK /\ NewHasNoRow
    BY DEF IInv
  <1>1. ASSUME NEW m \in Messages, Send(m) PROVE NewHasNoRow'
    BY <1>0, <1>1 DEF Send, NewHasNoRow, TypeOK
  <1>2. ASSUME NEW m \in Messages, DeleteLocal(m) PROVE NewHasNoRow'
    BY <1>0, <1>2 DEF DeleteLocal, NewHasNoRow, TypeOK
  <1>3. ASSUME \A m \in Messages : ~Send(m) /\ ~DeleteLocal(m) PROVE NewHasNoRow'
    <2>1. StoreStep /\ \A n \in Messages : ui'[n] = "new" => ui[n] = "new"
      BY <1>3, OtherSteps
    <2> QED BY <1>0, <2>1 DEF StoreStep, NewHasNoRow
  <1> QED BY <1>1, <1>2, <1>3

-----------------------------------------------------------------------------
(* What left and is not proven is on the retry list.                       *)
OnList(m) == Unproven(m) /\ m \in fact => m \in commit \/ (ack.of = m /\ ack.at = "consumed")
Kept(m) == OnList(m) /\ InFlight(m) /\ Settling(m)

(* One message: the only ways its row becomes "sent" or "queued", its call *)
(* ends, its fact is written or its pending-commit row goes.               *)
LEMMA KeptStep ==
  ASSUME IInv, [Next]_vars, ~crashed', NEW m \in Messages, Kept(m)
  PROVE  Kept(m)'
  <1> USE DEF durable, memory, network
  <1>0. TypeOK /\ row \in [Messages -> Statuses] /\ call \in [Messages -> Steps] /\ m # NoMessage
    BY NoMessageAssumption DEF IInv, TypeOK
  <1>d. \A s : SetMessageStatus(row, m, s)[m] \in {row[m], s}
               /\ (row[m] \in {"pending", "queued", "sent"} => SetMessageStatus(row, m, "delivered")[m] = "delivered")
               /\ \A n \in Messages : n # m => SetMessageStatus(row, n, s)[m] = row[m]
    BY <1>0 DEF SetMessageStatus, CanTransitionStatus
  (* Nothing of it changes, or only for the better.                        *)
  <1>1. ASSUME row'[m] = row[m] \/ row'[m] \in {"none", "delivered"}, call'[m] = call[m],
               m \in tracked' => m \in tracked, m \in fact' => m \in fact,
               m \in commit => m \in commit' \/ (ack'.of = m /\ ack'.at = "consumed"),
               ack' = ack \/ ~(ack.of = m /\ ack.at = "consumed") \/ row'[m] \notin {"sent", "queued"}
        PROVE  Kept(m)'
    BY <1>1 DEF Kept, OnList, Settling, InFlight, Unproven
  <1>2. ASSUME NEW n \in Messages, Send(n) PROVE Kept(m)'
    <2>1. CASE n = m
      <3>1. call'[m] = "deliver" /\ m \notin tracked' /\ row'[m] = "pending"
        BY <1>0, <1>2, <2>1 DEF Send, Forget
      <3> QED BY <3>1 DEF Kept, OnList, Settling, InFlight, Unproven
    <2>2. CASE n # m
      <3>1. row'[m] = row[m] /\ call'[m] = call[m] /\ (m \in tracked' => m \in tracked)
            /\ (m \in fact' => m \in fact) /\ UNCHANGED <<commit, ack>>
        BY <1>0, <1>2, <2>2 DEF Send, Forget
      <3> QED BY <1>1, <3>1
    <2> QED BY <2>1, <2>2
  <1>3. ASSUME NEW n \in Messages, Deliver(n) \/ Track(n) \/ Settle(n) \/ OpenPendingCommit(n), n # m
        PROVE  Kept(m)'
    <2>1. call'[m] = call[m] /\ (m \in tracked' => m \in tracked) /\ (m \in commit => m \in commit')
          /\ UNCHANGED <<fact, ack>>
      BY <1>0, <1>3 DEF Deliver, Track, Settle, OpenPendingCommit
    <2>2. row'[m] = row[m]
      BY <1>d, <1>3 DEF Deliver, Track, Settle, OpenPendingCommit
    <2> QED BY <1>1, <2>1, <2>2
  <1>4. CASE Deliver(m)
    <2>1. call[m] = "deliver" /\ call'[m] \in {"sent", "queued", "idle"} /\ UNCHANGED <<row, tracked>>
      BY <1>0, <1>4 DEF Deliver
    <2> QED BY <2>1 DEF Kept, OnList, Settling, InFlight, Unproven
  <1>5. CASE Track(m)
    <2>1. /\ UNCHANGED row
          /\ \/ call[m] = "sent" /\ call'[m] = "settleSent" /\ UNCHANGED tracked
             \/ call'[m] = "settleQueued"
      BY <1>0, <1>5 DEF Track
    <2> QED BY <2>1 DEF Kept, OnList, Settling, InFlight, Unproven
  <1>6. CASE Settle(m)
    <2>1. call'[m] = "open" /\ UNCHANGED tracked
      BY <1>0, <1>6 DEF Settle
    <2>2. row'[m] # "pending"
      BY <1>0, <1>6 DEF Settle, SetMessageStatus, CanTransitionStatus
    <2> QED BY <2>1, <2>2 DEF Kept, OnList, Settling, InFlight, Unproven
  <1>7. CASE OpenPendingCommit(m)
    <2>1. call[m] = "open" /\ call'[m] = "idle" /\ (m \in Signed => m \in commit') /\ UNCHANGED <<row, tracked>>
      BY <1>0, <1>7 DEF OpenPendingCommit
    <2> QED BY <2>1 DEF Kept, OnList, Settling, InFlight, Unproven
  <1>8. ASSUME NEW n \in Messages, DeleteLocal(n) PROVE Kept(m)'
    <2>1. row'[m] = row[m] \/ row'[m] = "none"
      BY <1>0, <1>8 DEF DeleteLocal
    <2> QED BY <1>1, <1>8, <2>1 DEF DeleteLocal
  <1>9. ASSUME NEW n \in Messages, RetryRow(n) PROVE Kept(m)'
    <2>1. m \in fact => (m \in commit => m \in commit')
      BY <1>9 DEF RetryRow
    <2>2. UNCHANGED <<row, call, tracked, fact, ack>>
      BY <1>9 DEF RetryRow
    <2> QED BY <2>1, <2>2 DEF Kept, OnList, Settling, InFlight, Unproven
  <1>10. ASSUME NEW n \in Messages,
                \/ RetryDeliver(n) \/ NodeSettles(n) \/ Receive(n) \/ DeliveryAckCheck(n)
         PROVE  Kept(m)'
    <2>1. UNCHANGED <<row, call, tracked, fact, commit, ack>>
      BY <1>10 DEF RetryDeliver, NodeSettles, Receive, DeliveryAckCheck
    <2> QED BY <1>1, <2>1
  <1>11. ASSUME NEW n \in Messages, DeliveryAckSettle(n) PROVE Kept(m)'
    <2>1. row'[m] = row[m] \/ row'[m] = "delivered"
      BY <1>d, <1>11 DEF DeliveryAckSettle
    <2> QED BY <1>1, <1>11, <2>1 DEF DeliveryAckSettle, Forget
  <1>12. ASSUME NEW n \in Messages, CommitAckBegin(n) PROVE Kept(m)'
    <2>1. UNCHANGED <<row, call, tracked, fact, commit>> /\ (ack' = ack \/ ack = NoAck)
      BY <1>12 DEF CommitAckBegin
    <2> QED BY <1>0, <1>1, <2>1 DEF NoAck
  <1>13. CASE CommitAckConsume
    <2>1. UNCHANGED <<row, call, tracked, fact>> /\ ack.at # "consumed"
          /\ ack'.of = ack.of /\ ack'.at = "consumed" /\ (commit' = commit \/ commit' = commit \ {ack.of})
      <3>1. ack \in [of : Messages, at : {"pending", "factOnly", "consumed"}]
        BY <1>0, <1>13 DEF CommitAckConsume, TypeOK, NoAck
      <3> QED BY <1>13, <3>1 DEF CommitAckConsume
    <2> QED BY <1>1, <2>1
  <1>14. CASE CommitAckSettle
    <2>1. ack.of \in Messages
      BY <1>0, <1>14 DEF CommitAckSettle, NoAck, TypeOK
    <2>2. UNCHANGED <<call, fact, commit>> /\ (m \in tracked' => m \in tracked)
      BY <1>14 DEF CommitAckSettle, Forget
    <2>3. CASE ack.of = m
      <3>1. row'[m] = row[m] \/ row'[m] = "delivered"
        BY <1>d, <1>14, <2>3 DEF CommitAckSettle
      <3>2. row'[m] \notin {"sent", "queued"}
        BY <1>d, <1>14, <2>3 DEF CommitAckSettle
      <3> QED BY <1>1, <2>2, <3>1, <3>2
    <2>4. CASE ack.of # m
      <3>1. row'[m] = row[m]
        BY <1>d, <1>14, <2>1, <2>4 DEF CommitAckSettle
      <3> QED BY <1>1, <2>2, <2>4, <3>1
    <2> QED BY <2>3, <2>4
  <1>15. ASSUME NEW f \in {"delivered", "expired"}, HandleOutboundStatus(f) PROVE Kept(m)'
    <2>1. PICK s \in {"sent", "failed"} : SettleTracked(f, s)
      BY <1>15 DEF HandleOutboundStatus
    <2>2. UNCHANGED <<call, fact, commit, ack>> /\ m \notin tracked'
      BY <2>1 DEF SettleTracked
    <2>3. CASE m \notin tracked
      <3>1. row'[m] = row[m]
        BY <2>1, <2>3 DEF SettleTracked
      <3> QED BY <1>1, <2>2, <3>1
    <2>4. CASE m \in tracked
      <3>1. row'[m] = SetMessageStatus(row, m, s)[m]
        BY <2>1, <2>4 DEF SettleTracked
      <3>2. row'[m] \in {"sent", "queued"} => row[m] \in {"pending", "queued", "sent"}
        BY <1>0, <3>1 DEF SetMessageStatus, CanTransitionStatus
      <3>3. call[m] \notin {"deliver", "sent", "queued"}
        BY <2>4 DEF Kept, InFlight
      <3>4. row[m] = "pending" => call[m] = "settleQueued"
        BY <2>4 DEF Kept, Settling
      <3> QED BY <2>2, <3>2, <3>3, <3>4 DEF Kept, OnList, Settling, InFlight, Unproven
    <2> QED BY <2>3, <2>4
  <1>16. ASSUME Lose \/ UNCHANGED vars \/ \E due \in SUBSET Messages : SweepStart(due) PROVE Kept(m)'
    <2>1. UNCHANGED <<row, call, tracked, fact, commit, ack>>
      BY <1>16 DEF Lose, vars, SweepStart
    <2> QED BY <1>1, <2>1
  <1>17. ~Restart
    BY DEF Restart
  <1> QED BY <1>2, <1>3, <1>4, <1>5, <1>6, <1>7, <1>8, <1>9, <1>10, <1>11, <1>12, <1>13, <1>14, <1>15, <1>16, <1>17
          DEF Next

-----------------------------------------------------------------------------
(* The fan-out: the gate open, and the copies of every device.             *)
Fans == [at : {"idle", "fetch", "devices", "legacy"}, rev : Revisions \cup {0}, part : [Devices -> Parts]]

(* A fan-out at rest and a fresh one over a published set are well-typed.  *)
LEMMA FanTypes ==
  /\ Idle \in Fans
  /\ \A r \in Revisions \cup {0} : [Idle EXCEPT !.at = "fetch", !.rev = r] \in Fans
  /\ [Idle EXCEPT !.at = "legacy"] \in Fans
  /\ \A r \in Revisions : Fanning(r) \in Fans
  BY DEF Idle, Fanning, Fans, Parts

(* A device's part changes, and nothing else of any fan-out.               *)
LEMMA PartStep ==
  ASSUME fan \in [Callers -> Fans], NEW c \in Callers, NEW d \in Devices, NEW s \in Parts, Part(c, d, s)
  PROVE  /\ fan' \in [Callers -> Fans]
         /\ \A b \in Callers : b # c => fan'[b] = fan[b]
         /\ fan'[c].at = fan[c].at /\ fan'[c].rev = fan[c].rev
         /\ \A e \in Devices : fan'[c].part[e] = IF e = d THEN s ELSE fan[c].part[e]
  <1>1. fan' = [fan EXCEPT ![c] = [fan[c] EXCEPT !.part = [fan[c].part EXCEPT ![d] = s]]]
    BY DEF Part
  <1>2. fan[c] \in Fans
    OBVIOUS
  <1>3. [fan[c].part EXCEPT ![d] = s] \in [Devices -> Parts]
    BY <1>2 DEF Fans
  <1>4. [fan[c] EXCEPT !.part = [fan[c].part EXCEPT ![d] = s]] \in Fans
    BY <1>2, <1>3 DEF Fans
  <1>5. fan'[c] = [fan[c] EXCEPT !.part = [fan[c].part EXCEPT ![d] = s]]
    BY <1>1
  <1>6. /\ fan'[c].at = fan[c].at /\ fan'[c].rev = fan[c].rev
        /\ fan'[c].part = [fan[c].part EXCEPT ![d] = s]
    BY <1>2, <1>5 DEF Fans
  <1>7. fan[c].part \in [Devices -> Parts]
    BY <1>2 DEF Fans
  <1> QED BY <1>1, <1>4, <1>6, <1>7

(* The message of a running fan-out is one of the messages.                *)
LEMMA OfRunning ==
  ASSUME FanInv, NEW c \in Callers, fan[c] # Idle
  PROVE  Of(c) \in Messages /\ Called(c) /\ Open
  <1>1. Called(c) /\ Open
    BY DEF FanInv, FansAreCalled
  <1>2. sweep.at \in Messages \cup {NoMessage}
    BY DEF FanInv, FanTypeOK, TypeOK
  <1> QED BY <1>1, <1>2 DEF Called, Of, Callers, Sweep

(* What the steps of the open gate do to the sender: a step of its own, a  *)
(* spent bound, the outcome of a fan-out, a copy received or a frame.      *)
LeftOnly ==
  /\ left' \in [Bounds -> Nat]
  /\ UNCHANGED <<durable, call, memory, checked, sweep, ack, ui, network, crashed>>
Reported ==
  /\ left' \in [Bounds -> Nat]
  /\ \/ sweep' = SweepNext(sweep.at) /\ UNCHANGED <<call, ui>>
     \/ \E m \in Messages :
          /\ call[m] = "deliver" /\ UNCHANGED sweep
          /\ \/ call' = [call EXCEPT ![m] = "idle"] /\ Show(m, "failed")
             \/ \E s \in {"sent", "queued"} : call' = [call EXCEPT ![m] = s] /\ UNCHANGED ui
  /\ UNCHANGED <<durable, memory, checked, ack, network, crashed>>
Stored ==
  /\ \E m \in Messages : committed' = committed \cup {m} /\ Acknowledge(m)
  /\ UNCHANGED <<durable, call, memory, checked, sweep, ack, ui, wire, nodeQueue, frames, crashed>>
Framed ==
  /\ \E s \in {"sent", "failed"}, settled \in SUBSET tracked :
       /\ row' = [m \in Messages |->
                     IF m \in settled THEN SetMessageStatus(row, m, s)[m] ELSE row[m]]
       /\ ui' = [m \in Messages |-> IF m \in settled /\ ui[m] # "none" THEN s ELSE ui[m]]
       /\ ackPending' \in {ackPending, ackPending \cup settled} /\ queued' = queued \ settled
  /\ tracked' \subseteq tracked
  /\ UNCHANGED <<fact, commit, call, checked, sweep, ack, network, left, crashed>>
OpenStep == [Next]_vars \/ LeftOnly \/ Reported \/ Stored \/ Framed

(* The result of a fan-out is one of three.                                *)
LEMMA ReturnStep ==
  ASSUME FanInv, NEW c \in Callers, fan[c] # Idle, left' \in [Bounds -> Nat],
         NEW r \in {"throw", "sent", "queued"}, NEW in, Return(c, r, in)
  PROVE  Reported
  <1>1. CASE c = Sweep
    BY <1>1 DEF Return, Reported, Of
  <1>2. CASE c # Sweep
    <2>1. c \in Messages /\ Of(c) = c /\ call[c] = "deliver"
      BY <1>2, OfRunning DEF Callers, Of, Called
    <2> QED BY <1>2, <2>1 DEF Return, Reported
  <1> QED BY <1>1, <1>2

(* The kinds of steps.                                                     *)
LEMMA Kinds ==
  ASSUME FanInv, [FanNext]_allVars
  PROVE  OpenStep
  <1> USE DEF durable, memory, network, vars
  <1>0. TypeOK /\ left \in [Bounds -> Nat]
    BY DEF FanInv, FanTypeOK, TypeOK
  <1>l. \A b \in Bounds : Spend(b) => left' \in [Bounds -> Nat]
    BY <1>0, SpendType
  <1>k. \A c \in Callers : fan[c].at # "idle" => fan[c] # Idle
    BY DEF Idle
  <1>1. CASE Also(Next) \/ UNCHANGED allVars
    BY <1>1 DEF Also, allVars, OpenStep
  <1>2. CASE Also(Shared)
    BY <1>2 DEF Also, Shared, Next, OpenStep
  <1>3. ASSUME NEW c \in Callers, FanStep(c) PROVE OpenStep
    <2>1. CASE ResolveCached(c) \/ ResolveBegin(c) \/ \E r \in Revisions \cup {0} : ResolveEnd(c, r)
      BY <2>1 DEF ResolveCached, ResolveBegin, ResolveEnd, OpenStep
    <2>2. ASSUME NEW d \in Devices, DeviceGet(c, d) PROVE OpenStep
      BY <2>2 DEF DeviceGet, OpenStep
    <2>3. ASSUME NEW d \in Devices, DeviceSeal(c, d) PROVE OpenStep
      <3>1. left' \in [Bounds -> Nat]
        BY <1>0, <1>l, <2>3 DEF DeviceSeal, Bounds
      <3> QED BY <2>3, <3>1 DEF DeviceSeal, LeftOnly, OpenStep
    <2>4. ASSUME NEW d \in Devices, DeviceDispatch(c, d) PROVE OpenStep
      <3>1. left' \in [Bounds -> Nat]
        BY <1>0, <1>l, <2>4 DEF DeviceDispatch, Bounds
      <3> QED BY <2>4, <3>1 DEF DeviceDispatch, LeftOnly, OpenStep
    <2>5. CASE FanEnd(c)
      <3>1. Result(c) \in {"throw", "sent", "queued"} /\ Return(c, Result(c), With(c, "queued"))
        BY <2>5 DEF FanEnd, Result
      <3>2. fan[c] # Idle /\ left' \in [Bounds -> Nat]
        BY <1>0, <1>k, <2>5 DEF FanEnd, Done
      <3> QED BY <3>1, <3>2, ReturnStep DEF OpenStep
    <2>6. CASE LegacyEnd(c)
      <3>1. Return(c, "sent", {}) \/ Return(c, "queued", {Primary})
        BY <2>6 DEF LegacyEnd
      <3>2. fan[c] # Idle /\ left' \in [Bounds -> Nat]
        BY <1>0, <1>k, <2>6 DEF LegacyEnd
      <3> QED BY <3>1, <3>2, ReturnStep DEF OpenStep
    <2>7. CASE FanThrows(c)
      <3>1. Return(c, "throw", {}) /\ fan[c] # Idle /\ left' \in [Bounds -> Nat]
        BY <1>l, <1>k, <2>7 DEF FanThrows, Bounds
      <3> QED BY <3>1, ReturnStep DEF OpenStep
    <2> QED BY <1>3, <2>1, <2>2, <2>3, <2>4, <2>5, <2>6, <2>7 DEF FanStep
  <1>4. ASSUME NEW m \in Messages, RetryAndInvalidate(m) PROVE OpenStep
    BY <1>4 DEF RetryAndInvalidate, Next, OpenStep
  <1>5. ASSUME NEW m \in Messages, NEW d \in Devices, DeviceSettles(m, d) PROVE OpenStep
    <2>1. left' \in [Bounds -> Nat]
      BY <1>0, <1>l, <1>5 DEF DeviceSettles, Bounds
    <2> QED BY <1>5, <2>1 DEF DeviceSettles, LeftOnly, OpenStep
  <1>6. ASSUME NEW m \in Messages, NEW d \in Devices, DeviceReceive(m, d) PROVE OpenStep
    BY <1>6 DEF DeviceReceive, Stored, OpenStep
  <1>7. ASSUME NEW m \in Messages, NEW d \in Devices, Age(m, d) PROVE OpenStep
    BY <1>7 DEF Age, OpenStep
  <1>8. ASSUME NEW f \in {"delivered", "expired"}, NEW d \in Devices, HandleDeviceStatus(f, d) PROVE OpenStep
    <2> DEFINE hit == {m \in tracked : d \in outstanding[m]}
               last == {m \in hit : outstanding[m] = {d}}
               settled == (IF f = "delivered" THEN hit ELSE last) \ anyDelivered
               s == IF f = "delivered" THEN "sent" ELSE "failed"
    <2>1. settled \in SUBSET tracked /\ s \in {"sent", "failed"}
      OBVIOUS
    <2>2. /\ row' = [m \in Messages |->
                       IF m \in settled THEN SetMessageStatus(row, m, s)[m] ELSE row[m]]
          /\ ui' = [m \in Messages |-> IF m \in settled /\ ui[m] # "none" THEN s ELSE ui[m]]
          /\ ackPending' \in {ackPending, ackPending \cup settled} /\ queued' = queued \ settled
          /\ tracked' = tracked \ last
          /\ UNCHANGED <<fact, commit, call, checked, sweep, ack, network, left, crashed>>
      BY <1>8 DEF HandleDeviceStatus
    <2> HIDE DEF settled, last, s
    <2> QED BY <2>1, <2>2 DEF Framed, OpenStep
  <1>9. CASE Publish
    BY <1>9 DEF Publish, OpenStep
  <1>10. CASE LoseCopy
    <2>1. left' \in [Bounds -> Nat]
      BY <1>l, <1>10 DEF LoseCopy, Bounds
    <2> QED BY <1>10, <2>1 DEF LoseCopy, LeftOnly, OpenStep
  <1>11. CASE RestartFan
    BY <1>11 DEF RestartFan, Next, OpenStep
  <1> QED BY <1>1, <1>2, <1>3, <1>4, <1>5, <1>6, <1>7, <1>8, <1>9, <1>10, <1>11 DEF FanNext

(* A frame changes the status of rows it names through the store.          *)
LEMMA FramedRows ==
  ASSUME TypeOK, Framed
  PROVE  \E s \in {"sent", "failed"} :
           /\ row' \in [Messages -> Statuses] /\ ui' \in [Messages -> Statuses \cup {"new"}]
           /\ \A m \in Messages :
                \/ row'[m] = row[m]
                \/ m \in tracked /\ row'[m] = s /\ CanTransitionStatus(row[m], s) /\ row[m] # "none"
           /\ \A m \in Messages : ui'[m] = ui[m] \/ ui'[m] = s
  <1>0. row \in [Messages -> Statuses] /\ ui \in [Messages -> Statuses \cup {"new"}]
    BY DEF TypeOK
  <1>1. PICK s \in {"sent", "failed"}, settled \in SUBSET tracked :
          /\ row' = [m \in Messages |->
                        IF m \in settled THEN SetMessageStatus(row, m, s)[m] ELSE row[m]]
          /\ ui' = [m \in Messages |-> IF m \in settled /\ ui[m] # "none" THEN s ELSE ui[m]]
    BY DEF Framed
  <1>2. \A m \in Messages :
          \/ SetMessageStatus(row, m, s)[m] = row[m]
          \/ SetMessageStatus(row, m, s)[m] = s /\ CanTransitionStatus(row[m], s) /\ row[m] # "none"
    BY <1>0 DEF SetMessageStatus
  <1>3. s \in Statuses
    BY DEF Statuses
  <1>4. \A m \in Messages :
          \/ row'[m] = row[m]
          \/ m \in tracked /\ row'[m] = s /\ CanTransitionStatus(row[m], s) /\ row[m] # "none"
    BY <1>1, <1>2
  <1>5. \A m \in Messages : ui'[m] = ui[m] \/ ui'[m] = s
    BY <1>1
  <1>6. row' \in [Messages -> Statuses]
    <2>1. \A m \in Messages : row'[m] \in Statuses
      BY <1>0, <1>3, <1>4
    <2> QED BY <1>1, <2>1
  <1>7. ui' \in [Messages -> Statuses \cup {"new"}]
    <2>1. \A m \in Messages : ui'[m] \in Statuses \cup {"new"}
      BY <1>0, <1>3, <1>5
    <2> QED BY <1>1, <2>1
  <1> QED BY <1>4, <1>5, <1>6, <1>7

(* The types of the sender's state, gate open or closed.                   *)
LEMMA OpenTypeStep ==
  ASSUME TypeOK, OpenStep
  PROVE  TypeOK'
  <1> USE DEF TypeOK, durable, memory, network
  <1>1. CASE [Next]_vars
    BY <1>1, TypeStep
  <1>2. CASE LeftOnly
    BY <1>2 DEF LeftOnly
  <1>3. CASE Reported
    <2>1. sweep' \in [todo : SUBSET Messages, at : Messages \cup {NoMessage}]
      BY <1>3 DEF Reported, SweepNext
    <2>2. call' \in [Messages -> Steps] /\ ui' \in [Messages -> Statuses \cup {"new"}]
      BY <1>3 DEF Reported, Steps, Show, Statuses
    <2> QED BY <1>3, <2>1, <2>2 DEF Reported
  <1>4. CASE Stored
    <2>1. /\ acks' \subseteq Messages /\ legacyAcks' \subseteq Messages /\ committed' \subseteq Messages
          /\ left' \in [Bounds -> Nat]
      BY <1>4, SpendType DEF Stored, Acknowledge, Bounds
    <2> QED BY <1>4, <2>1 DEF Stored
  <1>5. CASE Framed
    <2>1. row' \in [Messages -> Statuses] /\ ui' \in [Messages -> Statuses \cup {"new"}]
      BY <1>5, FramedRows
    <2>2. tracked' \subseteq Messages /\ queued' \subseteq Messages /\ ackPending' \subseteq Messages
      BY <1>5 DEF Framed
    <2> QED BY <1>5, <2>1, <2>2 DEF Framed
  <1> QED BY <1>1, <1>2, <1>3, <1>4, <1>5 DEF OpenStep

(* The open gate's own steps keep what is real, and a delivered row.       *)
LEMMA OpenRealStep ==
  ASSUME IInv, OpenStep
  PROVE  DeliveredIsReal' /\ EvidenceIsReal' /\ NewHasNoRow'
  <1> USE DEF durable, memory, network
  <1>0. TypeOK /\ DeliveredIsReal /\ EvidenceIsReal /\ NewHasNoRow
    BY DEF IInv
  <1>1. CASE [Next]_vars
    BY <1>1, RealStep, NewStep
  <1>2. CASE LeftOnly
    BY <1>0, <1>2 DEF LeftOnly, DeliveredIsReal, EvidenceIsReal, NewHasNoRow
  <1>3. CASE Reported
    <2>1. DeliveredIsReal' /\ EvidenceIsReal'
      BY <1>0, <1>3 DEF Reported, DeliveredIsReal, EvidenceIsReal
    <2>2. \A m \in Messages : ui'[m] = "new" => ui[m] = "new"
      BY <1>0, <1>3 DEF Reported, Show, TypeOK
    <2>3. row' = row
      BY <1>3 DEF Reported
    <2> QED BY <1>0, <2>1, <2>2, <2>3 DEF NewHasNoRow
  <1>4. CASE Stored
    <2>1. DeliveredIsReal' /\ NewHasNoRow'
      BY <1>0, <1>4 DEF Stored, DeliveredIsReal, NewHasNoRow
    <2>2. EvidenceIsReal'
      BY <1>0, <1>4 DEF Stored, Acknowledge, EvidenceIsReal
    <2> QED BY <2>1, <2>2
  <1>5. CASE Framed
    <2>1. EvidenceIsReal' /\ committed' = committed
      BY <1>0, <1>5 DEF Framed, EvidenceIsReal
    <2>2. PICK s \in {"sent", "failed"} :
            \A m \in Messages :
              /\ row'[m] = row[m] \/ (row'[m] = s /\ row[m] # "none")
              /\ ui'[m] = ui[m] \/ ui'[m] = s
      BY <1>0, <1>5, FramedRows
    <2>3. DeliveredIsReal'
      BY <1>0, <2>1, <2>2 DEF DeliveredIsReal
    <2> QED BY <1>0, <2>1, <2>2, <2>3 DEF NewHasNoRow
  <1> QED BY <1>1, <1>2, <1>3, <1>4, <1>5 DEF OpenStep

-----------------------------------------------------------------------------
(* The fan-out's own invariant.                                            *)
LEMMA FanInitOK == FanInit => FanInv
  <1> SUFFICES ASSUME FanInit PROVE FanInv
    OBVIOUS
  <1>1. Init /\ left \in Limits
    BY DEF FanInit, Init
  <1>2. TypeOK
    BY <1>1, InitOK DEF IInv
  <1>3. spare \in [FanBounds -> Nat] /\ published \in Revisions \cup {0}
    <2>1. /\ FanLimits[left] \in SUBSET {l \in [FanBounds -> Nat] : l["first"] <= Len(PeerSet)}
          /\ spare \in FanLimits[left] /\ published = spare["first"]
      BY <1>1, FanLimitsAssumption DEF FanInit
    <2>2. spare \in [FanBounds -> Nat] /\ published \in Nat /\ published <= Len(PeerSet)
      BY <2>1 DEF FanBounds
    <2> QED BY <2>2, PeerSetAssumption DEF Revisions
  <1>4. fan \in [Callers -> Fans] /\ \A c \in Callers : fan[c] = Idle
    BY FanTypes DEF FanInit
  <1>5. FanTypeOK
    BY <1>2, <1>3, <1>4 DEF FanInit, FanTypeOK, Fans
  <1>6. FansAreCalled
    BY <1>1, <1>4 DEF Init, NoSweep, FansAreCalled, Idle
  <1>7. DoneIsHanded
    BY <1>4 DEF FanInit, DoneIsHanded, Idle
  <1>8. SealedOnce /\ SealedIsCached
    BY <1>4 DEF FanInit, SealedOnce, SealedIsCached, Sealing, Idle
  <1> QED BY <1>5, <1>6, <1>7, <1>8 DEF FanInv

(* Spending one of the fan-out's bounds; the gate stays as it is.          *)
LEMMA UseType ==
  ASSUME spare \in [FanBounds -> Nat], NEW b \in FanBounds, Use(b)
  PROVE  spare' \in [FanBounds -> Nat] /\ (b # "gate" => Open' = Open)
  BY DEF Use, Open, FanBounds

(* One entry changes of a table by message and device.                     *)
LEMMA CellType ==
  ASSUME NEW S, NEW f \in [Messages -> [Devices -> S]],
         NEW m \in Messages, NEW d \in Devices, NEW v \in S,
         NEW g, g = [f EXCEPT ![m] = [f[m] EXCEPT ![d] = v]]
  PROVE  g \in [Messages -> [Devices -> S]]
  <1>1. [f[m] EXCEPT ![d] = v] \in [Devices -> S]
    OBVIOUS
  <1> QED BY <1>1

(* The types of the fan-out's state.                                       *)
LEMMA FanTypeStep ==
  ASSUME FanInv, [FanNext]_allVars
  PROVE  FanTypeOK'
  <1> USE DEF fanMemory, fanNetwork, history
  <1>0. FanTypeOK /\ TypeOK
    BY DEF FanInv, FanTypeOK
  <1>t. TypeOK'
    BY <1>0, Kinds, OpenTypeStep
  <1>f. fan \in [Callers -> Fans]
    BY <1>0 DEF FanTypeOK, Fans
  <1>s. fan' \in [Callers -> Fans] => fan' \in [Callers -> [at : {"idle", "fetch", "devices", "legacy"},
                          rev : Revisions \cup {0}, part : [Devices -> Parts]]]
    BY DEF Fans
  <1>z. Sweep \in Callers /\ (\A c \in Callers : fan[c].at # "idle" => fan[c] # Idle)
    BY DEF Callers, Idle
  <1>1. CASE UNCHANGED fanVars
    BY <1>0, <1>t, <1>1 DEF fanVars, FanTypeOK
  <1>3. ASSUME NEW c \in Callers, FanStep(c) PROVE FanTypeOK'
    <2>1. CASE ResolveCached(c)
      <3>1. resolved \in Revisions
        BY <1>0, <2>1, PeerSetAssumption DEF FanTypeOK, ResolveCached, Revisions
      <3>2. fan' \in [Callers -> Fans]
        BY <1>f, <2>1, <3>1, FanTypes DEF ResolveCached
      <3> QED BY <1>0, <1>t, <1>s, <2>1, <3>2 DEF FanTypeOK, ResolveCached
    <2>2. CASE ResolveBegin(c)
      <3>1. [Idle EXCEPT !.at = "fetch", !.rev = resolved] \in Fans
        BY <1>0, FanTypes DEF FanTypeOK
      <3>2. fan' \in [Callers -> Fans]
        BY <1>f, <2>2, <3>1 DEF ResolveBegin
      <3> QED BY <1>0, <1>t, <1>s, <2>2, <3>2 DEF FanTypeOK, ResolveBegin
    <2>3. ASSUME NEW r \in Revisions \cup {0}, ResolveEnd(c, r) PROVE FanTypeOK'
      <3>1. spare' \in [FanBounds -> Nat]
        BY <1>0, <2>3, UseType DEF ResolveEnd, Fetched, FanTypeOK, FanBounds
      <3>2. CASE r = 0
        <4>1. fan' \in [Callers -> Fans] /\ resolved' = 0
          BY <1>f, <2>3, <3>2, FanTypes DEF ResolveEnd
        <4> QED BY <1>0, <1>t, <1>s, <2>3, <3>1, <4>1 DEF FanTypeOK, ResolveEnd
      <3>3. CASE r # 0
        <4> DEFINE s == Ingest(fan[c].rev, r)
        <4>1. r \in Revisions /\ fan[c].rev \in Revisions \cup {0}
          BY <1>f, <3>3 DEF Fans
        <4>2. s \in Revisions
          BY <4>1, PeerSetAssumption DEF Ingest, Revisions
        <4>3. resolved' \in Revisions \cup {0} /\ fan' = [fan EXCEPT ![c] = Fanning(s)]
          BY <1>0, <2>3, <3>3 DEF ResolveEnd, FanTypeOK
        <4> HIDE DEF s
        <4>4. fan' \in [Callers -> Fans]
          BY <1>f, <4>2, <4>3, FanTypes
        <4> QED BY <1>0, <1>t, <1>s, <2>3, <3>1, <4>3, <4>4 DEF FanTypeOK, ResolveEnd
      <3> QED BY <3>2, <3>3
    <2>4. ASSUME NEW d \in Devices, DeviceGet(c, d) PROVE FanTypeOK'
      <3>0. Of(c) \in Messages
        <4>1. fan[c] # Idle
          BY <2>4 DEF DeviceGet, Idle
        <4> QED BY <4>1, OfRunning
      <3>1. PICK s \in Parts : Part(c, d, s)
        BY <2>4 DEF DeviceGet, Parts
      <3>2. fan' \in [Callers -> Fans]
        BY <1>f, <3>1, PartStep
      <3>3. sealings' \in [Messages -> [Devices -> {"none", "one", "two", "excused"}]]
        <4>1. \/ sealings' = sealings
              \/ sealings' = [sealings EXCEPT ![Of(c)] = [sealings[Of(c)] EXCEPT ![d] = "excused"]]
          BY <2>4 DEF DeviceGet
        <4> DEFINE S == {"none", "one", "two", "excused"}
        <4>2. sealings \in [Messages -> [Devices -> S]] /\ "excused" \in S
          BY <1>0 DEF FanTypeOK
        <4> HIDE DEF S
        <4>3. sealings' \in [Messages -> [Devices -> S]]
          BY <3>0, <4>1, <4>2, CellType, Zenon
        <4> QED BY <4>3 DEF S
      <3> QED BY <1>0, <1>t, <1>s, <2>4, <3>2, <3>3 DEF FanTypeOK, DeviceGet
    <2>5. ASSUME NEW d \in Devices, DeviceSeal(c, d) PROVE FanTypeOK'
      <3>0. Of(c) \in Messages
        <4>1. fan[c] # Idle
          BY <2>5 DEF DeviceSeal, Idle
        <4> QED BY <4>1, OfRunning
      <3>1. PICK s \in Parts : Part(c, d, s)
        BY <2>5 DEF DeviceSeal, Parts
      <3>2. fan' \in [Callers -> Fans]
        BY <1>f, <3>1, PartStep
      <3>3. sealings' \in [Messages -> [Devices -> {"none", "one", "two", "excused"}]]
        <4>1. \/ sealings' = sealings
              \/ \E v \in {"one", "two", "excused"} :
                   sealings' = [sealings EXCEPT ![Of(c)] = [sealings[Of(c)] EXCEPT ![d] = v]]
          BY <1>0, <2>5, <3>0 DEF DeviceSeal, SealedAgain, FanTypeOK
        <4> DEFINE S == {"none", "one", "two", "excused"}
        <4>2. sealings \in [Messages -> [Devices -> S]] /\ \A v \in {"one", "two", "excused"} : v \in S
          BY <1>0 DEF FanTypeOK
        <4> HIDE DEF S
        <4>3. sealings' \in [Messages -> [Devices -> S]]
          BY <3>0, <4>1, <4>2, CellType, Zenon
        <4> QED BY <4>3 DEF S
      <3>4. cache' \in [Messages -> [Devices -> {"none", "sealed", "delivered"}]]
        <4>1. \/ cache' = cache
              \/ cache' = [cache EXCEPT ![Of(c)] = [cache[Of(c)] EXCEPT ![d] = "sealed"]]
          BY <2>5 DEF DeviceSeal
        <4> DEFINE S == {"none", "sealed", "delivered"}
        <4>2. cache \in [Messages -> [Devices -> S]] /\ "sealed" \in S
          BY <1>0 DEF FanTypeOK
        <4> HIDE DEF S
        <4>3. cache' \in [Messages -> [Devices -> S]]
          BY <3>0, <4>1, <4>2, CellType, Zenon
        <4> QED BY <4>3 DEF S
      <3> QED BY <1>0, <1>t, <1>s, <2>5, <3>2, <3>3, <3>4 DEF FanTypeOK, DeviceSeal
    <2>6. ASSUME NEW d \in Devices, DeviceDispatch(c, d) PROVE FanTypeOK'
      <3>0. Of(c) \in Messages
        <4>1. fan[c] # Idle
          BY <2>6 DEF DeviceDispatch, Idle
        <4> QED BY <4>1, OfRunning
      <3>1. PICK s \in Parts : Part(c, d, s)
        BY <2>6 DEF DeviceDispatch, Parts
      <3>2. fan' \in [Callers -> Fans]
        BY <1>f, <3>1, PartStep
      <3>3. /\ copies' \subseteq Messages \X Devices /\ deviceQueue' \subseteq Messages \X Devices
            /\ handed' \subseteq Messages \X Devices
        BY <1>0, <2>6, <3>0 DEF DeviceDispatch, FanTypeOK
      <3> QED BY <1>0, <1>t, <1>s, <2>6, <3>2, <3>3 DEF FanTypeOK, DeviceDispatch
    <2>7. ASSUME fan[c] # Idle, NEW r, NEW in \in SUBSET Devices, Return(c, r, in)
          PROVE  outstanding' \in [Messages -> SUBSET Devices] /\ anyDelivered' \subseteq Messages
      BY <1>0, <2>7, OfRunning DEF Return, FanTypeOK
    <2>8. ASSUME fan' = [fan EXCEPT ![c] = Idle] PROVE fan' \in [Callers -> Fans]
      BY <1>f, <2>8, FanTypes
    <2>9. CASE FanEnd(c)
      <3>0. fan[c] # Idle /\ fan' \in [Callers -> Fans]
        BY <1>z, <2>8, <2>9 DEF FanEnd, Done
      <3>1. Of(c) \in Messages
        BY <3>0, OfRunning
      <3>2. outstanding' \in [Messages -> SUBSET Devices] /\ anyDelivered' \subseteq Messages
        <4>1. With(c, "queued") \in SUBSET Devices
          BY DEF With
        <4> QED BY <2>7, <2>9, <3>0, <4>1 DEF FanEnd
      <3>3. cache' \in [Messages -> [Devices -> {"none", "sealed", "delivered"}]]
        <4> DEFINE new == [d \in Devices |-> IF d \in With(c, "sent") \cup With(c, "queued") /\ cache[Of(c)][d] # "none"
                                           THEN "delivered" ELSE cache[Of(c)][d]]
        <4>1. cache' = [cache EXCEPT ![Of(c)] = new]
          BY <2>9 DEF FanEnd, Marked
        <4>2. new \in [Devices -> {"none", "sealed", "delivered"}]
          BY <1>0, <3>1 DEF FanTypeOK
        <4> HIDE DEF new
        <4> QED BY <1>0, <4>1, <4>2 DEF FanTypeOK
      <3>4. UNCHANGED <<published, resolved, copies, deviceQueue, deviceFrames, spare, handed, sealings>>
        BY <2>9 DEF FanEnd
      <3> QED BY <1>0, <1>t, <1>s, <3>0, <3>2, <3>3, <3>4 DEF FanTypeOK
    <2>10. CASE LegacyEnd(c)
      <3>0. fan[c] # Idle /\ fan' \in [Callers -> Fans]
        BY <1>z, <2>8, <2>10 DEF LegacyEnd
      <3>1. Of(c) \in Messages /\ Primary \in Devices
        BY <3>0, OfRunning, PrimaryAssumption
      <3>2. outstanding' \in [Messages -> SUBSET Devices] /\ anyDelivered' \subseteq Messages
        BY <2>7, <2>10, <3>0, <3>1 DEF LegacyEnd
      <3>3. copies' \subseteq Messages \X Devices /\ deviceQueue' \subseteq Messages \X Devices
        BY <1>0, <2>10, <3>1 DEF LegacyEnd, FanTypeOK
      <3>4. UNCHANGED <<published, resolved, cache, deviceFrames, spare, handed, sealings>>
        BY <2>10 DEF LegacyEnd
      <3> QED BY <1>0, <1>t, <1>s, <3>0, <3>2, <3>3, <3>4 DEF FanTypeOK
    <2>11. CASE FanThrows(c)
      <3>0. fan[c] # Idle /\ fan' \in [Callers -> Fans]
        BY <1>z, <2>8, <2>11 DEF FanThrows
      <3>1. Of(c) \in Messages /\ Primary \in Devices
        BY <3>0, OfRunning, PrimaryAssumption
      <3>2. outstanding' \in [Messages -> SUBSET Devices] /\ anyDelivered' \subseteq Messages
        BY <2>7, <2>11, <3>0 DEF FanThrows
      <3>3. copies' \subseteq Messages \X Devices
        BY <1>0, <2>11, <3>1 DEF FanThrows, FanTypeOK
      <3>4. UNCHANGED <<published, resolved, cache, deviceQueue, deviceFrames, spare, handed, sealings>>
        BY <2>11 DEF FanThrows
      <3> QED BY <1>0, <1>t, <1>s, <3>0, <3>2, <3>3, <3>4 DEF FanTypeOK
    <2> QED BY <1>3, <2>1, <2>2, <2>3, <2>4, <2>5, <2>6, <2>9, <2>10, <2>11 DEF FanStep
  <1>4. ASSUME NEW m \in Messages, RetryAndInvalidate(m) PROVE FanTypeOK'
    BY <1>0, <1>t, <1>4 DEF RetryAndInvalidate, FanTypeOK
  <1>5. ASSUME NEW m \in Messages, NEW d \in Devices, DeviceSettles(m, d) PROVE FanTypeOK'
    <2>1. /\ copies' \subseteq Messages \X Devices /\ deviceQueue' \subseteq Messages \X Devices
          /\ deviceFrames' \subseteq {"delivered", "expired"} \X Devices
      BY <1>0, <1>5 DEF DeviceSettles, FanTypeOK
    <2> QED BY <1>0, <1>t, <1>5, <2>1 DEF DeviceSettles, FanTypeOK
  <1>6. ASSUME NEW m \in Messages, NEW d \in Devices, DeviceReceive(m, d) PROVE FanTypeOK'
    BY <1>0, <1>t, <1>6 DEF DeviceReceive, FanTypeOK
  <1>7. ASSUME NEW m \in Messages, NEW d \in Devices, Age(m, d) PROVE FanTypeOK'
    <2>1. /\ cache' = [cache EXCEPT ![m] = [cache[m] EXCEPT ![d] = "none"]]
          /\ sealings' = [sealings EXCEPT ![m] = [sealings[m] EXCEPT ![d] = "excused"]]
      BY <1>7 DEF Age
    <2>2. /\ cache' \in [Messages -> [Devices -> {"none", "sealed", "delivered"}]]
          /\ sealings' \in [Messages -> [Devices -> {"none", "one", "two", "excused"}]]
      BY <1>0, <2>1 DEF FanTypeOK
    <2> QED BY <1>0, <1>t, <1>7, <2>2 DEF Age, FanTypeOK
  <1>8. ASSUME NEW f \in {"delivered", "expired"}, NEW d \in Devices, HandleDeviceStatus(f, d) PROVE FanTypeOK'
    <2>1. /\ deviceFrames' \subseteq deviceFrames
          /\ anyDelivered' \subseteq anyDelivered \cup tracked
          /\ outstanding' \in [Messages -> SUBSET Devices]
      BY <1>0, <1>8 DEF HandleDeviceStatus, FanTypeOK
    <2>2. /\ deviceFrames' \subseteq {"delivered", "expired"} \X Devices
          /\ anyDelivered' \subseteq Messages
      BY <1>0, <2>1 DEF FanTypeOK, TypeOK
    <2> QED BY <1>0, <1>t, <1>8, <2>1, <2>2 DEF HandleDeviceStatus, FanTypeOK
  <1>9. CASE Publish
    <2>1. spare' \in [FanBounds -> Nat]
      BY <1>0, <1>9, UseType DEF Publish, FanTypeOK, FanBounds
    <2> QED BY <1>0, <1>t, <1>9, <2>1 DEF Publish, FanTypeOK
  <1>10. CASE LoseCopy
    <2>1. copies' \subseteq Messages \X Devices /\ deviceFrames' \subseteq {"delivered", "expired"} \X Devices
      BY <1>0, <1>10 DEF LoseCopy, FanTypeOK
    <2> QED BY <1>0, <1>t, <1>10, <2>1 DEF LoseCopy, FanTypeOK
  <1>11. CASE RestartFan
    <2>1. fan' \in [Callers -> Fans] /\ outstanding' \in [Messages -> SUBSET Devices]
      BY <1>11, FanTypes, PrimaryAssumption DEF RestartFan
    <2> QED BY <1>0, <1>t, <1>s, <1>11, <2>1 DEF RestartFan, FanTypeOK
  <1> QED BY <1>1, <1>3, <1>4, <1>5, <1>6, <1>7, <1>8, <1>9, <1>10, <1>11 DEF FanNext, Also, allVars

(* The sweep works on a row of its list, and takes no new list before it   *)
(* is through; the closed gate's steps keep that as well.                  *)
LEMMA SweepStep ==
  ASSUME FanInv, [FanNext]_allVars
  PROVE  sweep'.at \in sweep'.todo \cup {NoMessage}
  <1> USE DEF durable, memory, network, vars
  <1>0. /\ sweep.at \in sweep.todo \cup {NoMessage}
        /\ sweep \in [todo : SUBSET Messages, at : Messages \cup {NoMessage}]
    BY DEF FanInv, FansAreCalled, FanTypeOK, TypeOK
  <1>a. CASE sweep' = sweep
    BY <1>0, <1>a
  <1>b. ASSUME NEW m, sweep' = SweepNext(m) PROVE sweep'.at = NoMessage
    BY <1>b DEF SweepNext
  <1>1. CASE [Next]_vars
    <2>1. ASSUME NEW m \in Messages, RetryRow(m) PROVE sweep'.at \in sweep'.todo \cup {NoMessage}
      <3>1. CASE m \in fact
        <4>1. m \in sweep.todo /\ sweep' = [sweep EXCEPT !.at = m]
          BY <2>1, <3>1 DEF RetryRow
        <4> QED BY <1>0, <4>1
      <3>2. CASE m \notin fact
        BY <1>b, <2>1, <3>2 DEF RetryRow
      <3> QED BY <3>1, <3>2
    <2>2. ASSUME NEW m \in Messages, RetryDeliver(m) PROVE sweep'.at \in sweep'.todo \cup {NoMessage}
      BY <1>b, <2>2 DEF RetryDeliver
    <2>3. ASSUME NEW due \in SUBSET Messages, SweepStart(due) PROVE sweep'.at \in sweep'.todo \cup {NoMessage}
      BY <2>3 DEF SweepStart
    <2>4. CASE Restart
      BY <2>4 DEF Restart, NoSweep
    <2>5. ASSUME NEW f \in {"delivered", "expired"}, HandleOutboundStatus(f)
          PROVE  sweep'.at \in sweep'.todo \cup {NoMessage}
      BY <1>a, <2>5 DEF HandleOutboundStatus, SettleTracked
    <2>6. CASE CommitAckConsume \/ CommitAckSettle \/ Lose \/ UNCHANGED vars
      BY <1>a, <2>6 DEF CommitAckConsume, CommitAckSettle, Lose
    <2>7. ASSUME NEW m \in Messages,
                 \/ Send(m) \/ Deliver(m) \/ Track(m) \/ Settle(m) \/ OpenPendingCommit(m) \/ DeleteLocal(m)
                 \/ NodeSettles(m) \/ Receive(m) \/ DeliveryAckCheck(m) \/ DeliveryAckSettle(m) \/ CommitAckBegin(m)
          PROVE  sweep'.at \in sweep'.todo \cup {NoMessage}
      BY <1>a, <2>7 DEF Send, Deliver, Track, Settle, OpenPendingCommit, DeleteLocal, NodeSettles,
           Receive, DeliveryAckCheck, DeliveryAckSettle, CommitAckBegin
    <2> QED BY <1>1, <2>1, <2>2, <2>3, <2>4, <2>5, <2>6, <2>7 DEF Next
  <1>2. CASE LeftOnly \/ Stored \/ Framed
    BY <1>a, <1>2 DEF LeftOnly, Stored, Framed
  <1>3. CASE Reported
    BY <1>a, <1>b, <1>3 DEF Reported
  <1> QED BY <1>1, <1>2, <1>3, Kinds DEF OpenStep

(* What a step does to the fan-outs: each stays as it is, for the same     *)
(* caller and message, or it is one at rest, or one that has begun nothing *)
(* at any device yet, or the one whose step this is.                       *)
Stays(c) == fan'[c] = fan[c] /\ (fan[c] # Idle => Open' /\ Called(c)' /\ Of(c)' = Of(c))
Rests(c) == fan'[c] = Idle
Begins(c) ==
  /\ Open' /\ Called(c)' /\ \A d \in Devices : fan'[c].part[d] \in {"none", "get"}
  /\ fan'[c].at = "devices" =>
       fan'[c].rev \in Revisions /\ \A d \in PeerSet[fan'[c].rev] : fan'[c].part[d] # "none"
Moves(c) ==
  /\ fan[c] # Idle /\ Open' /\ Called(c)' /\ Of(c)' = Of(c)
  /\ fan'[c].at = fan[c].at /\ fan'[c].rev = fan[c].rev
  /\ \A d \in Devices : fan'[c].part[d] = "none" => fan[c].part[d] = "none"

(* The callers' state is what a fan-out of theirs waits for.               *)
LEMMA CallersStay ==
  ASSUME FanInv, NEW c \in Callers, Open' = Open, fan'[c] = fan[c],
         c \in Messages => call'[c] = call[c],
         c = Sweep => sweep'.at = sweep.at
  PROVE  Stays(c)
  BY DEF FanInv, FansAreCalled, Stays, Called, Of, Callers

(* The steps that a fan-out shares with the closed gate find no sweep      *)
(* under way where they touch it, and no call that waits for a fan-out.    *)
LEMMA SharedStays ==
  ASSUME FanInv, Also(Shared), NEW c \in Callers
  PROVE  Stays(c)
  <1> USE DEF durable, memory, network, vars
  <1>0. /\ sweep.at \in sweep.todo \cup {NoMessage} /\ call \in [Messages -> Steps]
        /\ fan[c] # Idle => Called(c)
    BY DEF FanInv, FansAreCalled, FanTypeOK, TypeOK
  <1>1. fan' = fan /\ spare' = spare
    BY DEF Also, fanVars
  <1>2. CASE fan[c] = Idle
    BY <1>1, <1>2 DEF Stays
  <1>3. CASE fan[c] # Idle
    <2>1. c \in Messages => call[c] = "deliver"
      BY <1>0, <1>3, NoMessageAssumption DEF Called, Callers, Sweep
    <2>2. c = Sweep => sweep.at # NoMessage
      BY <1>0, <1>3 DEF Called
    <2>3. c \in Messages => call'[c] = call[c]
      <3>1. ASSUME NEW m \in Messages, Send(m) \/ Track(m) \/ Settle(m) \/ OpenPendingCommit(m), c \in Messages
            PROVE  call'[c] = call[c]
        <4>1. call[m] # "deliver" /\ \E s \in Steps : call' = [call EXCEPT ![m] = s]
          BY <3>1 DEF Send, Track, Settle, OpenPendingCommit, Steps
        <4> QED BY <1>0, <2>1, <3>1, <4>1
      <3>2. ASSUME \/ \E m \in Messages :
                        DeleteLocal(m) \/ DeliveryAckCheck(m) \/ DeliveryAckSettle(m) \/ CommitAckBegin(m)
                   \/ \E due \in SUBSET Messages : SweepStart(due)
                   \/ CommitAckConsume \/ CommitAckSettle \/ Lose
            PROVE  call' = call
        BY <3>2 DEF DeleteLocal, DeliveryAckCheck, DeliveryAckSettle, CommitAckBegin, SweepStart,
             CommitAckConsume, CommitAckSettle, Lose
      <3> QED BY <3>1, <3>2 DEF Also, Shared
    <2>4. c = Sweep => sweep' = sweep
      <3>1. ASSUME NEW due \in SUBSET Messages, SweepStart(due) PROVE c # Sweep
        BY <1>0, <2>2, <3>1 DEF SweepStart
      <3>2. ASSUME \/ \E m \in Messages :
                        \/ Send(m) \/ Track(m) \/ Settle(m) \/ OpenPendingCommit(m)
                        \/ DeleteLocal(m) \/ DeliveryAckCheck(m) \/ DeliveryAckSettle(m) \/ CommitAckBegin(m)
                   \/ CommitAckConsume \/ CommitAckSettle \/ Lose
            PROVE  sweep' = sweep
        BY <3>2 DEF Send, Track, Settle, OpenPendingCommit, DeleteLocal, DeliveryAckCheck,
             DeliveryAckSettle, CommitAckBegin, CommitAckConsume, CommitAckSettle, Lose
      <3> QED BY <3>1, <3>2 DEF Also, Shared
    <2> QED BY <1>1, <2>3, <2>4, CallersStay DEF Open
  <1> QED BY <1>2, <1>3

(* A device's part moves: its fan-out moves and the others stay.           *)
LEMMA PartMoves ==
  ASSUME FanInv, NEW c \in Callers, NEW d \in Devices, fan[c].part[d] # "none",
         NEW s \in Parts \ {"none"}, Part(c, d, s), UNCHANGED <<call, sweep, spare>>
  PROVE  Moves(c) /\ \A b \in Callers : b # c => Stays(b)
  <1>1. fan \in [Callers -> Fans]
    BY DEF FanInv, FanTypeOK, Fans
  <1>2. /\ \A b \in Callers : b # c => fan'[b] = fan[b]
        /\ fan'[c].at = fan[c].at /\ fan'[c].rev = fan[c].rev
        /\ \A e \in Devices : fan'[c].part[e] = IF e = d THEN s ELSE fan[c].part[e]
    <2>1. s \in Parts
      OBVIOUS
    <2> QED BY <1>1, <2>1, PartStep
  <1>3. fan[c] # Idle /\ s # "none"
    BY DEF Idle
  <1>4. Open' /\ Called(c)' /\ Of(c)' = Of(c)
    BY <1>3, OfRunning DEF Open, Called, Of
  <1>5. ASSUME NEW b \in Callers, b # c PROVE Stays(b)
    <2>1. fan'[b] = fan[b] /\ Open' = Open
      BY <1>2, <1>5 DEF Open
    <2> QED BY <2>1, CallersStay
  <1> QED BY <1>2, <1>3, <1>4, <1>5 DEF Moves

(* A fan-out starts over, and the others stay.                             *)
LEMMA FanStarts ==
  ASSUME FanInv, NEW c \in Callers, Called(c), Open, NEW v, fan' = [fan EXCEPT ![c] = v],
         UNCHANGED <<call, sweep>>, Open' = Open,
         \/ v.at # "devices" /\ \A d \in Devices : v.part[d] \in {"none", "get"}
         \/ \E r \in Revisions : v = Fanning(r)
  PROVE  Begins(c) /\ \A b \in Callers : b # c => Stays(b)
  <1>1. fan \in [Callers -> Fans]
    BY DEF FanInv, FanTypeOK, Fans
  <1>2. fan'[c] = v /\ \A b \in Callers : b # c => fan'[b] = fan[b]
    BY <1>1
  <1>3. Open' /\ Called(c)'
    BY DEF Called
  <1>4. ASSUME NEW r \in Revisions, v = Fanning(r) PROVE Begins(c)
    <2>1. PeerSet[r] \subseteq Devices
      BY PeerSetAssumption DEF Revisions
    <2>2. /\ v.at = "devices" /\ v.rev = r
          /\ \A d \in Devices : v.part[d] = IF d \in PeerSet[r] THEN "get" ELSE "none"
      BY <1>4 DEF Fanning
    <2> QED BY <1>2, <1>3, <2>1, <2>2 DEF Begins
  <1>5. Begins(c)
    BY <1>2, <1>3, <1>4 DEF Begins
  <1>6. ASSUME NEW b \in Callers, b # c PROVE Stays(b)
    BY <1>2, <1>6, CallersStay
  <1> QED BY <1>5, <1>6

(* A fan-out ends, and the others stay.                                    *)
LEMMA FanReturns ==
  ASSUME FanInv, NEW c \in Callers, fan[c] # Idle, NEW r, NEW in, Return(c, r, in),
         fan' = [fan EXCEPT ![c] = Idle], UNCHANGED spare
  PROVE  Rests(c) /\ \A b \in Callers : b # c => Stays(b)
  <1>1. fan \in [Callers -> Fans] /\ call \in [Messages -> Steps]
    BY DEF FanInv, FanTypeOK, TypeOK, Fans
  <1>2. fan'[c] = Idle /\ \A b \in Callers : b # c => fan'[b] = fan[b]
    BY <1>1
  <1>3. ASSUME NEW b \in Callers, b # c PROVE Stays(b)
    <2>1. CASE c = Sweep
      <3>1. UNCHANGED call
        BY <2>1 DEF Return
      <3> QED BY <1>2, <1>3, <2>1, <3>1, CallersStay DEF Open
    <2>2. CASE c # Sweep
      <3>1. Of(c) = c /\ UNCHANGED sweep /\ \E s : call' = [call EXCEPT ![c] = s]
        BY <2>2 DEF Return, Of
      <3>2. b \in Messages => call'[b] = call[b]
        BY <1>1, <1>3, <3>1
      <3> QED BY <1>2, <1>3, <3>1, <3>2, CallersStay DEF Open
    <2> QED BY <2>1, <2>2
  <1> QED BY <1>2, <1>3 DEF Rests

(* A step that has nothing to do with devices leaves every fan-out as it   *)
(* is, ends it or starts it.                                               *)
Quiet ==
  /\ \A c \in Callers : Stays(c) \/ Rests(c) \/ Begins(c)
  /\ UNCHANGED <<cache, handed, sealings>>

LEMMA QuietSteps ==
  ASSUME FanInv, [FanNext]_allVars,
         \A c \in Callers, d \in Devices : ~DeviceGet(c, d) /\ ~DeviceSeal(c, d) /\ ~DeviceDispatch(c, d),
         \A c \in Callers : ~FanEnd(c),
         \A m \in Messages, d \in Devices : ~Age(m, d)
  PROVE  Quiet
  <1> USE DEF fanMemory, fanNetwork, history
  <1>t. /\ spare \in [FanBounds -> Nat]
        /\ sweep.at \in sweep.todo \cup {NoMessage} /\ \A c \in Callers : fan[c] # Idle => Open /\ Called(c)
    BY DEF FanInv, FanTypeOK, FansAreCalled
  <1>k. \A c \in Callers : fan[c].at # "idle" => fan[c] # Idle
    BY DEF Idle
  <1>s. ASSUME UNCHANGED <<fan, call, sweep>>, Open' = Open PROVE \A c \in Callers : Stays(c)
    <2> SUFFICES ASSUME NEW c \in Callers PROVE Stays(c)
      OBVIOUS
    <2>1. fan'[c] = fan[c]
      BY <1>s
    <2> QED BY <1>s, <2>1, CallersStay
  <1>1. CASE ~Open /\ Also(Next)
    BY <1>t, <1>1 DEF Also, fanVars, Quiet, Stays
  <1>2. CASE UNCHANGED allVars
    BY <1>s, <1>2 DEF allVars, vars, fanVars, Quiet, Open
  <1>3. CASE Also(Shared)
    BY <1>3, SharedStays DEF Also, fanVars, Quiet
  <1>4. ASSUME NEW c \in Callers, ResolveCached(c), Open PROVE Quiet
    <2>1. resolved \in Revisions
      BY <1>4, PeerSetAssumption DEF FanInv, FanTypeOK, ResolveCached, Revisions
    <2>2. Open' = Open /\ Called(c) /\ UNCHANGED <<call, sweep, cache, handed, sealings>>
          /\ fan' = [fan EXCEPT ![c] = Fanning(resolved)]
      BY <1>4 DEF ResolveCached, Open, vars
    <2> QED BY <1>4, <2>1, <2>2, FanStarts DEF Quiet
  <1>5. ASSUME NEW c \in Callers, ResolveBegin(c), Open PROVE Quiet
    <2> DEFINE v == [Idle EXCEPT !.at = "fetch", !.rev = resolved]
    <2>1. v.at # "devices" /\ \A d \in Devices : v.part[d] \in {"none", "get"}
      BY DEF Idle
    <2>2. Open' = Open /\ Called(c) /\ UNCHANGED <<call, sweep, cache, handed, sealings>>
          /\ fan' = [fan EXCEPT ![c] = v]
      BY <1>5 DEF ResolveBegin, Open, vars
    <2> HIDE DEF v
    <2> QED BY <1>5, <2>1, <2>2, FanStarts DEF Quiet
  <1>6. ASSUME NEW c \in Callers, NEW r \in Revisions \cup {0}, ResolveEnd(c, r) PROVE Quiet
    <2>0. Called(c) /\ Open
      BY <1>t, <1>k, <1>6 DEF ResolveEnd
    <2>1. Open' = Open /\ UNCHANGED <<call, sweep, cache, handed, sealings>>
      <3>1. UNCHANGED spare \/ Use("stale")
        BY <1>6 DEF ResolveEnd, Fetched
      <3>2. Open' = Open
        BY <1>t, <3>1, UseType DEF Open, FanBounds
      <3> QED BY <1>6, <3>2 DEF ResolveEnd, vars
    <2>2. CASE r = 0
      <3> DEFINE v == [Idle EXCEPT !.at = "legacy"]
      <3>1. v.at # "devices" /\ \A d \in Devices : v.part[d] \in {"none", "get"}
        BY DEF Idle
      <3>2. fan' = [fan EXCEPT ![c] = v]
        BY <1>6, <2>2 DEF ResolveEnd
      <3> HIDE DEF v
      <3> QED BY <2>0, <2>1, <3>1, <3>2, FanStarts DEF Quiet
    <2>3. CASE r # 0
      <3> DEFINE s == Ingest(fan[c].rev, r)
      <3>1. s \in Revisions
        <4>1. r \in Revisions /\ fan[c].rev \in Revisions \cup {0}
          BY <2>3 DEF FanInv, FanTypeOK
        <4> QED BY <4>1, PeerSetAssumption DEF Ingest, Revisions
      <3>2. fan' = [fan EXCEPT ![c] = Fanning(s)]
        BY <1>6, <2>3 DEF ResolveEnd
      <3> HIDE DEF s
      <3> QED BY <2>0, <2>1, <3>1, <3>2, FanStarts DEF Quiet
    <2> QED BY <2>2, <2>3
  <1>7. ASSUME NEW c \in Callers, LegacyEnd(c) PROVE Quiet
    <2>1. PICK r \in {"sent", "queued"}, in \in SUBSET Devices : Return(c, r, in)
      BY <1>7, PrimaryAssumption DEF LegacyEnd
    <2>2. /\ fan[c] # Idle /\ fan' = [fan EXCEPT ![c] = Idle]
          /\ UNCHANGED <<spare, cache, handed, sealings>>
      BY <1>k, <1>7 DEF LegacyEnd
    <2> QED BY <2>1, <2>2, FanReturns DEF Quiet
  <1>8. ASSUME NEW c \in Callers, FanThrows(c) PROVE Quiet
    <2>1. Return(c, "throw", {})
      BY <1>8 DEF FanThrows
    <2>2. /\ fan[c] # Idle /\ fan' = [fan EXCEPT ![c] = Idle]
          /\ UNCHANGED <<spare, cache, handed, sealings>>
      BY <1>k, <1>8 DEF FanThrows
    <2> QED BY <2>1, <2>2, FanReturns DEF Quiet
  <1>9. ASSUME NEW m \in Messages, RetryAndInvalidate(m) PROVE Quiet
    <2>1. sweep.at = NoMessage /\ UNCHANGED <<fan, call, spare, cache, handed, sealings>>
      BY <1>9 DEF RetryAndInvalidate, RetryRow
    <2>2. ASSUME NEW c \in Callers PROVE Stays(c)
      <3>1. CASE fan[c] = Idle
        BY <2>1, <3>1 DEF Stays
      <3>2. CASE fan[c] # Idle
        <4>1. c # Sweep /\ Open' = Open /\ fan'[c] = fan[c]
          BY <1>t, <2>1, <3>2 DEF Called, Open
        <4> QED BY <2>1, <4>1, CallersStay
      <3> QED BY <3>1, <3>2
    <2> QED BY <2>1, <2>2 DEF Quiet
  <1>10. ASSUME NEW m \in Messages, NEW d \in Devices, DeviceSettles(m, d) \/ DeviceReceive(m, d) PROVE Quiet
    <2>1. UNCHANGED <<fan, call, sweep, spare, cache, handed, sealings>>
      BY <1>10 DEF DeviceSettles, DeviceReceive
    <2> QED BY <1>s, <2>1 DEF Quiet, Open
  <1>11. ASSUME NEW f \in {"delivered", "expired"}, NEW d \in Devices, HandleDeviceStatus(f, d) PROVE Quiet
    <2>1. UNCHANGED <<fan, call, sweep, spare, cache, handed, sealings>>
      BY <1>11 DEF HandleDeviceStatus
    <2> QED BY <1>s, <2>1 DEF Quiet, Open
  <1>12. CASE Publish
    <2>1. UNCHANGED <<fan, call, sweep, cache, handed, sealings>> /\ Use("change")
      BY <1>12 DEF Publish, vars
    <2>2. Open' = Open
      BY <1>t, <2>1, UseType DEF FanBounds
    <2> QED BY <1>s, <2>1, <2>2 DEF Quiet
  <1>13. CASE LoseCopy
    <2>1. UNCHANGED <<fan, call, sweep, spare, cache, handed, sealings>>
      BY <1>13 DEF LoseCopy
    <2> QED BY <1>s, <2>1 DEF Quiet, Open
  <1>14. CASE RestartFan
    BY <1>14 DEF RestartFan, Quiet, Rests
  <1> QED BY <1>1, <1>2, <1>3, <1>4, <1>5, <1>6, <1>7, <1>8, <1>9, <1>10, <1>11, <1>12, <1>13, <1>14
          DEF FanNext, FanStep

(* A quiet step keeps what is handed over and what is sealed.              *)
LEMMA QuietKeeps ==
  ASSUME FanInv, Quiet
  PROVE  DoneIsHanded' /\ SealedOnce' /\ SealedIsCached'
  <1>0. DoneIsHanded /\ SealedOnce /\ SealedIsCached
    BY DEF FanInv
  <1>1. ASSUME NEW c \in Callers, NEW d \in Devices, fan'[c].part[d] \notin {"none", "get"}
        PROVE  fan'[c] = fan[c] /\ Of(c)' = Of(c)
    <2>1. ~Rests(c) /\ ~Begins(c)
      BY <1>1 DEF Rests, Begins, Idle
    <2>2. Stays(c)
      BY <2>1 DEF Quiet
    <2>3. fan[c] # Idle
      BY <1>1, <2>2 DEF Stays, Idle
    <2> QED BY <2>2, <2>3 DEF Stays
  <1>2. DoneIsHanded'
    BY <1>0, <1>1 DEF DoneIsHanded, Quiet
  <1>3. SealedOnce'
    BY <1>0 DEF SealedOnce, Quiet
  <1>4. \A c \in Callers, m \in Messages, d \in Devices : Sealing(c, m, d)' => Sealing(c, m, d)
    BY <1>1 DEF Sealing
  <1>5. SealedIsCached'
    BY <1>0, <1>4 DEF SealedIsCached, Quiet
  <1> QED BY <1>2, <1>3, <1>5

(* Nobody else seals for a message and device when one does, or finds it   *)
(* kept: the part that moves next finds or leaves a copy in the cache.     *)
LEMMA DeviceSteps ==
  ASSUME FanInv, NEW c \in Callers, NEW d \in Devices,
         DeviceGet(c, d) \/ DeviceSeal(c, d) \/ DeviceDispatch(c, d)
  PROVE  /\ Moves(c) /\ \A b \in Callers : b # c => Stays(b)
         /\ DoneIsHanded' /\ SealedOnce' /\ SealedIsCached'
  <1> USE DEF vars
  <1>0. /\ DoneIsHanded /\ SealedOnce /\ SealedIsCached
        /\ fan \in [Callers -> Fans]
        /\ cache \in [Messages -> [Devices -> {"none", "sealed", "delivered"}]]
        /\ sealings \in [Messages -> [Devices -> {"none", "one", "two", "excused"}]]
    BY DEF FanInv, FanTypeOK, Fans
  <1>1. fan[c].part[d] \in {"get", "seal", "dispatch"} /\ fan[c] # Idle
    BY DEF DeviceGet, DeviceSeal, DeviceDispatch, Idle
  <1>2. Of(c) \in Messages /\ UNCHANGED <<call, sweep, spare>>
    BY <1>1, OfRunning DEF DeviceGet, DeviceSeal, DeviceDispatch
  <1>3. PICK s \in Parts \ {"none"} : Part(c, d, s)
    BY DEF DeviceGet, DeviceSeal, DeviceDispatch, Parts
  <1>4. Moves(c) /\ \A b \in Callers : b # c => Stays(b)
    BY <1>1, <1>2, <1>3, PartMoves
  <1>5. /\ \A b \in Callers : b # c => fan'[b] = fan[b]
        /\ \A e \in Devices : fan'[c].part[e] = IF e = d THEN s ELSE fan[c].part[e]
    BY <1>0, <1>3, PartStep
  <1>6. ASSUME NEW b \in Callers, NEW e \in Devices, fan'[b].part[e] # "none"
        PROVE  Of(b)' = Of(b)
    <2>1. fan'[b] # Idle
      BY <1>6 DEF Idle
    <2> QED BY <1>4, <2>1 DEF Stays, Moves
  <1>p. \A t : Part(c, d, t) => t = s
    <2> SUFFICES ASSUME NEW t, Part(c, d, t) PROVE t = s
      OBVIOUS
    <2>1. fan[c] \in Fans
      BY <1>0
    <2>2. fan' = [fan EXCEPT ![c] = [fan[c] EXCEPT !.part = [fan[c].part EXCEPT ![d] = t]]]
      BY DEF Part
    <2>3. fan'[c].part[d] = t
      BY <1>0, <2>1, <2>2 DEF Fans
    <2> QED BY <1>5, <2>3
  <1>7. ASSUME NEW b \in Callers, NEW m \in Messages, NEW e \in Devices, Sealing(b, m, e)'
        PROVE  Sealing(b, m, e) \/ (b = c /\ e = d /\ m = Of(c) /\ s = "seal")
    <2>1. Of(b)' = Of(b) /\ fan'[b].part[e] = "seal"
      BY <1>6, <1>7 DEF Sealing
    <2> QED BY <1>5, <1>7, <2>1 DEF Sealing
  <1>8. CASE DeviceGet(c, d)
    <2>1. /\ s \in {"seal", "dispatch", "skipped"}
          /\ s = "seal" => cache[Of(c)][d] = "none"
          /\ s = "skipped" => cache[Of(c)][d] = "delivered"
      BY <1>p, <1>8 DEF DeviceGet
    <2>2. DoneIsHanded'
      <3>1. UNCHANGED <<cache, handed>>
        BY <1>8 DEF DeviceGet
      <3>2. ASSUME NEW b \in Callers, NEW e \in Devices, fan'[b].part[e] \in {"sent", "queued", "skipped"}
            PROVE  <<Of(b)', e>> \in handed
        <4>1. Of(b)' = Of(b)
          BY <1>6, <3>2
        <4>2. CASE b = c /\ e = d
          BY <1>0, <1>2, <1>5, <2>1, <3>2, <4>1, <4>2 DEF DoneIsHanded
        <4>3. CASE ~(b = c /\ e = d)
          BY <1>0, <1>5, <3>2, <4>1, <4>3 DEF DoneIsHanded
        <4> QED BY <4>2, <4>3
      <3> QED BY <1>0, <3>1, <3>2 DEF DoneIsHanded
    <2> DEFINE both == \E b \in Callers \ {c} : Of(b) = Of(c) /\ fan[b].part[d] = "seal"
    <2>3. \A m \in Messages, e \in Devices :
            \/ sealings'[m][e] = sealings[m][e] /\ ~(m = Of(c) /\ e = d /\ cache[m][e] = "none" /\ both)
            \/ sealings'[m][e] = "excused"
      <3>1. CASE cache[Of(c)][d] = "none" /\ both
        <4>1. sealings' = [sealings EXCEPT ![Of(c)] = [sealings[Of(c)] EXCEPT ![d] = "excused"]]
          BY <1>8, <3>1 DEF DeviceGet
        <4> QED BY <1>0, <1>2, <4>1
      <3>2. CASE ~(cache[Of(c)][d] = "none" /\ both)
        <4>1. sealings' = sealings
          BY <1>8, <3>2 DEF DeviceGet
        <4> QED BY <3>2, <4>1
      <3> QED BY <3>1, <3>2
    <2>4. SealedOnce'
      BY <1>0, <2>3 DEF SealedOnce
    <2>5. ASSUME NEW m \in Messages, NEW e \in Devices, sealings'[m][e] = "one"
          PROVE  cache'[m][e] # "none" /\ \A b \in Callers : ~Sealing(b, m, e)'
      <3>1. sealings[m][e] = "one" /\ cache' = cache
        BY <1>8, <2>3, <2>5 DEF DeviceGet
      <3> QED BY <1>0, <1>7, <2>1, <3>1 DEF SealedIsCached
    <2>6. ASSUME NEW m \in Messages, NEW e \in Devices, sealings'[m][e] = "none",
                 NEW a \in Callers, NEW b \in Callers, Sealing(a, m, e)', Sealing(b, m, e)'
          PROVE  a = b
      <3>1. sealings[m][e] = "none" /\ ~(m = Of(c) /\ e = d /\ cache[m][e] = "none" /\ both)
        BY <2>3, <2>6
      <3>2. CASE Sealing(a, m, e) /\ Sealing(b, m, e)
        BY <1>0, <3>1, <3>2 DEF SealedIsCached
      <3>3. CASE ~Sealing(a, m, e)
        BY <1>7, <2>1, <2>6, <3>1, <3>3 DEF Sealing
      <3>4. CASE ~Sealing(b, m, e)
        BY <1>7, <2>1, <2>6, <3>1, <3>4 DEF Sealing
      <3> QED BY <3>2, <3>3, <3>4
    <2> QED BY <1>4, <2>2, <2>4, <2>5, <2>6 DEF SealedIsCached
  <1>9. CASE DeviceSeal(c, d)
    <2>1. Sealing(c, Of(c), d)
      BY <1>9 DEF DeviceSeal, Sealing
    <2>2. s \in {"dispatch", "failed"} /\ UNCHANGED handed
      BY <1>p, <1>9 DEF DeviceSeal
    <2>3. \A m \in Messages, e \in Devices :
            \/ cache'[m][e] = cache[m][e] /\ sealings'[m][e] = sealings[m][e]
            \/ /\ m = Of(c) /\ e = d /\ cache'[m][e] = "sealed"
               /\ sealings'[m][e] = IF sealings[m][e] = "none" THEN "one"
                                 ELSE IF sealings[m][e] = "one" THEN "two" ELSE sealings[m][e]
      <3>1. CASE UNCHANGED <<cache, sealings>>
        BY <3>1
      <3>2. CASE /\ cache' = [cache EXCEPT ![Of(c)][d] = "sealed"]
                 /\ SealedAgain(Of(c), d)
        BY <1>0, <1>2, <3>2 DEF SealedAgain
      <3> QED BY <1>9, <3>1, <3>2 DEF DeviceSeal
    <2>4. DoneIsHanded'
      <3>1. ASSUME NEW b \in Callers, NEW e \in Devices, fan'[b].part[e] \in {"sent", "queued", "skipped"}
            PROVE  <<Of(b)', e>> \in handed
        <4>1. Of(b)' = Of(b)
          BY <1>6, <3>1
        <4> QED BY <1>0, <1>5, <2>2, <3>1, <4>1 DEF DoneIsHanded
      <3>2. \A m \in Messages, e \in Devices : cache'[m][e] = "delivered" => cache[m][e] = "delivered"
        BY <2>3
      <3> QED BY <1>0, <2>2, <3>1, <3>2 DEF DoneIsHanded
    <2>5. sealings[Of(c)][d] # "one"
      BY <1>0, <1>2, <2>1 DEF SealedIsCached
    <2>6. SealedOnce'
      BY <1>0, <2>3, <2>5 DEF SealedOnce
    <2>7. \A b \in Callers, m \in Messages, e \in Devices : Sealing(b, m, e)' => Sealing(b, m, e)
      BY <1>7, <2>2
    <2>8. \A m \in Messages : ~Sealing(c, m, d)'
      BY <1>5, <2>2 DEF Sealing
    <2>9. ASSUME NEW m \in Messages, NEW e \in Devices, sealings'[m][e] = "one"
          PROVE  cache'[m][e] # "none" /\ \A b \in Callers : ~Sealing(b, m, e)'
      <3>1. CASE cache'[m][e] = cache[m][e] /\ sealings'[m][e] = sealings[m][e]
        BY <1>0, <2>7, <2>9, <3>1 DEF SealedIsCached
      <3>2. CASE m = Of(c) /\ e = d /\ cache'[m][e] = "sealed" /\ sealings[m][e] = "none"
        <4>1. ASSUME NEW b \in Callers, Sealing(b, m, e)' PROVE FALSE
          <5>1. Sealing(b, m, e) /\ Sealing(c, m, e)
            BY <2>1, <2>7, <3>2, <4>1
          <5>2. b = c
            BY <1>0, <3>2, <5>1 DEF SealedIsCached
          <5> QED BY <2>8, <3>2, <4>1, <5>2
        <4> QED BY <3>2, <4>1
      <3> QED BY <2>3, <2>5, <2>9, <3>1, <3>2
    <2>10. ASSUME NEW m \in Messages, NEW e \in Devices, sealings'[m][e] = "none",
                  NEW a \in Callers, NEW b \in Callers, Sealing(a, m, e)', Sealing(b, m, e)'
           PROVE  a = b
      <3>1. sealings[m][e] = "none"
        BY <2>3, <2>10
      <3> QED BY <1>0, <2>7, <2>10, <3>1 DEF SealedIsCached
    <2> QED BY <1>4, <2>4, <2>6, <2>9, <2>10 DEF SealedIsCached
  <1>10. CASE DeviceDispatch(c, d)
    <2>1. /\ s \in {"sent", "queued", "failed"} /\ handed \subseteq handed'
          /\ s # "failed" => <<Of(c), d>> \in handed'
          /\ UNCHANGED <<cache, sealings>>
      BY <1>p, <1>10 DEF DeviceDispatch
    <2>2. DoneIsHanded'
      <3>1. ASSUME NEW b \in Callers, NEW e \in Devices, fan'[b].part[e] \in {"sent", "queued", "skipped"}
            PROVE  <<Of(b)', e>> \in handed'
        <4>1. Of(b)' = Of(b)
          BY <1>6, <3>1
        <4>2. CASE b = c /\ e = d
          BY <1>5, <2>1, <3>1, <4>1, <4>2
        <4>3. CASE ~(b = c /\ e = d)
          BY <1>0, <1>5, <2>1, <3>1, <4>1, <4>3 DEF DoneIsHanded
        <4> QED BY <4>2, <4>3
      <3> QED BY <1>0, <2>1, <3>1 DEF DoneIsHanded
    <2>3. \A b \in Callers, m \in Messages, e \in Devices : Sealing(b, m, e)' => Sealing(b, m, e)
      BY <1>7, <2>1
    <2> QED BY <1>0, <1>4, <2>1, <2>2, <2>3 DEF SealedOnce, SealedIsCached
  <1> QED BY <1>8, <1>9, <1>10

(* What a fan-out that ends marks delivered was handed over.               *)
LEMMA EndStep ==
  ASSUME FanInv, NEW c \in Callers, FanEnd(c)
  PROVE  /\ Rests(c) /\ \A b \in Callers : b # c => Stays(b)
         /\ DoneIsHanded' /\ SealedOnce' /\ SealedIsCached'
  <1>0. /\ DoneIsHanded /\ SealedOnce /\ SealedIsCached
        /\ cache \in [Messages -> [Devices -> {"none", "sealed", "delivered"}]]
    BY DEF FanInv, FanTypeOK
  <1>1. fan[c] # Idle
    BY DEF FanEnd, Done, Idle
  <1>2. Of(c) \in Messages
    BY <1>1, OfRunning
  <1>3. Rests(c) /\ \A b \in Callers : b # c => Stays(b)
    <2>1. Return(c, Result(c), With(c, "queued")) /\ fan' = [fan EXCEPT ![c] = Idle] /\ UNCHANGED spare
      BY DEF FanEnd
    <2> QED BY <1>1, <2>1, FanReturns
  <1>4. ASSUME NEW b \in Callers, NEW d \in Devices, fan'[b].part[d] # "none"
        PROVE  fan'[b] = fan[b] /\ Of(b)' = Of(b)
    <2>1. b # c /\ fan'[b] # Idle
      BY <1>3, <1>4 DEF Rests, Idle
    <2> QED BY <1>3, <2>1 DEF Stays
  <1>5. ASSUME NEW m \in Messages, NEW d \in Devices
        PROVE  \/ cache'[m][d] = cache[m][d]
               \/ /\ cache'[m][d] = "delivered" /\ cache[m][d] # "none"
                  /\ m = Of(c) /\ fan[c].part[d] \in {"sent", "queued"}
    <2> DEFINE new == [e \in Devices |-> IF e \in With(c, "sent") \cup With(c, "queued") /\ cache[Of(c)][e] # "none"
                                       THEN "delivered" ELSE cache[Of(c)][e]]
    <2>1. cache' = [cache EXCEPT ![Of(c)] = new]
      BY DEF FanEnd, Marked
    <2>2. \/ new[d] = cache[Of(c)][d]
          \/ new[d] = "delivered" /\ cache[Of(c)][d] # "none" /\ fan[c].part[d] \in {"sent", "queued"}
      BY DEF With
    <2> HIDE DEF new
    <2> QED BY <1>0, <1>2, <2>1, <2>2
  <1>6. DoneIsHanded'
    <2>1. UNCHANGED handed
      BY DEF FanEnd
    <2>2. ASSUME NEW b \in Callers, NEW d \in Devices, fan'[b].part[d] \in {"sent", "queued", "skipped"}
          PROVE  <<Of(b)', d>> \in handed
      BY <1>0, <1>4, <2>2 DEF DoneIsHanded
    <2>3. ASSUME NEW m \in Messages, NEW d \in Devices, cache'[m][d] = "delivered"
          PROVE  <<m, d>> \in handed
      <3>1. CASE cache[m][d] = "delivered"
        BY <1>0, <3>1 DEF DoneIsHanded
      <3>2. CASE cache[m][d] # "delivered"
        <4>1. m = Of(c) /\ fan[c].part[d] \in {"sent", "queued"}
          BY <1>5, <2>3, <3>2
        <4> QED BY <1>0, <4>1 DEF DoneIsHanded
      <3> QED BY <3>1, <3>2
    <2> QED BY <2>1, <2>2, <2>3 DEF DoneIsHanded
  <1>7. \A b \in Callers, m \in Messages, d \in Devices : Sealing(b, m, d)' => Sealing(b, m, d)
    BY <1>4 DEF Sealing
  <1>8. \A m \in Messages, d \in Devices : cache[m][d] # "none" => cache'[m][d] # "none"
    BY <1>5
  <1>9. UNCHANGED sealings
    BY DEF FanEnd
  <1>10. SealedIsCached'
    BY <1>0, <1>7, <1>8, <1>9 DEF SealedIsCached
  <1> QED BY <1>0, <1>3, <1>6, <1>9, <1>10 DEF SealedOnce

(* An entry that grew old is gone, and whoever seals again is excused.     *)
LEMMA AgeStep ==
  ASSUME FanInv, Open, NEW m \in Messages, NEW d \in Devices, Age(m, d)
  PROVE  /\ \A c \in Callers : Stays(c)
         /\ DoneIsHanded' /\ SealedOnce' /\ SealedIsCached'
  <1>0. /\ DoneIsHanded /\ SealedOnce /\ SealedIsCached
        /\ cache \in [Messages -> [Devices -> {"none", "sealed", "delivered"}]]
        /\ sealings \in [Messages -> [Devices -> {"none", "one", "two", "excused"}]]
    BY DEF FanInv, FanTypeOK
  <1>1. UNCHANGED <<fan, call, sweep, spare, handed>>
    BY DEF Age, vars
  <1>2. \A c \in Callers : Stays(c)
    <2> SUFFICES ASSUME NEW c \in Callers PROVE Stays(c)
      OBVIOUS
    <2>1. fan'[c] = fan[c] /\ Open' = Open
      BY <1>1 DEF Open
    <2> QED BY <1>1, <2>1, CallersStay
  <1>3. \A n \in Messages, e \in Devices :
          \/ cache'[n][e] = cache[n][e] /\ sealings'[n][e] = sealings[n][e]
          \/ cache'[n][e] = "none" /\ sealings'[n][e] = "excused"
    <2>1. /\ cache' = [cache EXCEPT ![m][d] = "none"]
          /\ sealings' = [sealings EXCEPT ![m][d] = "excused"]
      BY DEF Age
    <2> QED BY <1>0, <2>1
  <1>4. \A c \in Callers : Of(c)' = Of(c)
    BY <1>1 DEF Of
  <1>5. DoneIsHanded'
    BY <1>0, <1>1, <1>3, <1>4 DEF DoneIsHanded
  <1>6. \A c \in Callers, n \in Messages, e \in Devices : Sealing(c, n, e)' = Sealing(c, n, e)
    BY <1>1, <1>4 DEF Sealing
  <1>7. SealedOnce' /\ SealedIsCached'
    BY <1>0, <1>3, <1>6 DEF SealedOnce, SealedIsCached
  <1> QED BY <1>2, <1>5, <1>7

(* Every step keeps the fan-outs called for.                               *)
LEMMA CalledStep ==
  ASSUME FanInv, [FanNext]_allVars,
         \A c \in Callers : Stays(c) \/ Rests(c) \/ Begins(c) \/ Moves(c)
  PROVE  FansAreCalled'
  <1>0. FansAreCalled
    BY DEF FanInv
  <1>1. ASSUME NEW c \in Callers, fan'[c] # Idle PROVE Open' /\ Called(c)'
    BY <1>1 DEF Stays, Rests, Begins, Moves
  <1>2. ASSUME NEW c \in Callers, fan'[c].at = "devices"
        PROVE  fan'[c].rev \in Revisions /\ \A d \in PeerSet[fan'[c].rev] : fan'[c].part[d] # "none"
    <2>1. ~Rests(c)
      BY <1>2 DEF Rests, Idle
    <2>2. CASE Stays(c)
      BY <1>0, <1>2, <2>2 DEF Stays, FansAreCalled
    <2>3. CASE Begins(c)
      BY <1>2, <2>3 DEF Begins
    <2>4. CASE Moves(c)
      <3>1. /\ fan[c].at = "devices" /\ fan'[c].rev = fan[c].rev
            /\ \A d \in Devices : fan'[c].part[d] = "none" => fan[c].part[d] = "none"
        BY <1>2, <2>4 DEF Moves
      <3>2. fan[c].rev \in Revisions /\ \A d \in PeerSet[fan[c].rev] : fan[c].part[d] # "none"
        BY <1>0, <3>1 DEF FansAreCalled
      <3>3. PeerSet[fan[c].rev] \subseteq Devices
        BY <3>2, PeerSetAssumption DEF Revisions
      <3> QED BY <3>1, <3>2, <3>3
    <2> QED BY <2>1, <2>2, <2>3, <2>4
  <1> QED BY <1>1, <1>2, SweepStep DEF FansAreCalled

(* The fan-out's invariant is inductive.                                   *)
LEMMA FanInvStep == FanInv /\ [FanNext]_allVars => FanInv'
  <1> SUFFICES ASSUME FanInv, [FanNext]_allVars PROVE FanInv'
    OBVIOUS
  <1> DEFINE Rest == DoneIsHanded' /\ SealedOnce' /\ SealedIsCached'
             Each == \A c \in Callers : Stays(c) \/ Rests(c) \/ Begins(c) \/ Moves(c)
  <1>1. ASSUME NEW c \in Callers, NEW d \in Devices,
               DeviceGet(c, d) \/ DeviceSeal(c, d) \/ DeviceDispatch(c, d)
        PROVE  Rest /\ Each
    BY <1>1, DeviceSteps
  <1>2. ASSUME NEW c \in Callers, FanEnd(c) PROVE Rest /\ Each
    BY <1>2, EndStep
  <1>3. ASSUME NEW m \in Messages, NEW d \in Devices, Age(m, d), Open PROVE Rest /\ Each
    BY <1>3, AgeStep
  <1>4. ASSUME \A c \in Callers, d \in Devices : ~DeviceGet(c, d) /\ ~DeviceSeal(c, d) /\ ~DeviceDispatch(c, d),
               \A c \in Callers : ~FanEnd(c),
               \A m \in Messages, d \in Devices : ~Age(m, d)
        PROVE  Rest /\ Each
    <2>1. Quiet
      BY <1>4, QuietSteps
    <2> QED BY <2>1, QuietKeeps DEF Quiet
  <1>5. ASSUME NEW m \in Messages, NEW d \in Devices, Age(m, d), ~Open PROVE Rest /\ Each
    <2>1. FALSE
      <3>1. UNCHANGED fanVars
        BY <1>5 DEF FanNext, Also, allVars
      <3>2. cache[m][d] # "none" /\ cache' = [cache EXCEPT ![m][d] = "none"] /\ cache' = cache
        BY <1>5, <3>1 DEF Age, fanVars
      <3>3. cache \in [Messages -> [Devices -> {"none", "sealed", "delivered"}]]
        BY DEF FanInv, FanTypeOK
      <3> QED BY <3>2, <3>3
    <2> QED BY <2>1
  <1>6. Rest /\ Each
    BY <1>1, <1>2, <1>3, <1>4, <1>5
  <1> QED BY <1>6, FanTypeStep, CalledStep DEF FanInv

(* For every peer, device set, allowance and gate: the invariant of the    *)
(* fan-out holds in every reachable state.                                 *)
THEOREM FanInductive == FanSpec => []FanInv
  BY FanInitOK, FanInvStep, PTL DEF FanSpec

(* A message is sealed once for a device, or excused.                      *)
THEOREM SealedOnceAlways == FanSpec => []SealedOnce
  <1>1. FanInv => SealedOnce
    BY DEF FanInv
  <1> QED BY <1>1, FanInductive, PTL

(* A success is whole: every device of the set had its copy handed over.   *)
THEOREM WholeSuccess == FanSpec => SuccessIsWhole
  <1> DEFINE Whole == \A m \in Messages : Succeeds(m) /\ fan[m].at = "devices" =>
                        \A d \in PeerSet[fan[m].rev] : <<m, d>> \in handed
  <1>1. FanInv /\ [FanNext]_allVars => [Whole]_allVars
    <2> SUFFICES ASSUME FanInv, [FanNext]_allVars,
                        NEW m \in Messages, call[m] = "deliver", call'[m] \in {"sent", "queued"},
                        fan[m].at = "devices", NEW d \in PeerSet[fan[m].rev]
                 PROVE  <<m, d>> \in handed
      BY DEF Succeeds
    <2> USE DEF durable, memory, network, vars
    <2>1. /\ fan[m] # Idle /\ m \in Callers /\ m # Sweep /\ Of(m) = m
          /\ call \in [Messages -> Steps] /\ fan \in [Callers -> Fans]
      BY NoMessageAssumption DEF Idle, Callers, Sweep, Of, FanInv, FanTypeOK, TypeOK, Fans
    <2>2. Open /\ fan[m].rev \in Revisions /\ fan[m].part[d] # "none"
      BY <2>1 DEF FanInv, FansAreCalled
    <2>3. d \in Devices
      BY <2>2, PeerSetAssumption DEF Revisions
    <2>4. call'[m] # call[m]
      OBVIOUS
    <2>5. ASSUME NEW c \in Callers, NEW r, NEW in, Return(c, r, in) PROVE c = m
      <3>1. CASE c = Sweep
        BY <2>4, <2>5, <3>1 DEF Return
      <3>2. CASE c # Sweep
        <4>1. \E v : call' = [call EXCEPT ![c] = v]
          BY <2>5, <3>2 DEF Return, Of
        <4> QED BY <2>1, <2>4, <4>1
      <3> QED BY <3>1, <3>2
    <2>6. FanEnd(m)
      <3>1. ~(\/ UNCHANGED allVars \/ Publish \/ LoseCopy \/ RestartFan
              \/ \E n \in Messages : RetryAndInvalidate(n)
              \/ \E n \in Messages, e \in Devices : DeviceSettles(n, e) \/ DeviceReceive(n, e) \/ Age(n, e)
              \/ \E f \in {"delivered", "expired"}, e \in Devices : HandleDeviceStatus(f, e))
        BY <2>4 DEF allVars, Publish, LoseCopy, RestartFan, Restart, RetryAndInvalidate, RetryRow,
           DeviceSettles, DeviceReceive, Age, HandleDeviceStatus
      <3>2. ~Also(Shared)
        <4>1. ASSUME Also(Shared) PROVE FALSE
          <5>1. Stays(m)
            BY <2>1, <4>1, SharedStays
          <5> QED BY <2>1, <5>1 DEF Stays, Called
        <4> QED BY <4>1
      <3>3. PICK c \in Callers : FanStep(c)
        BY <2>2, <3>1, <3>2 DEF FanNext
      <3>4. \E r, in : Return(c, r, in)
        BY <2>4, <3>3 DEF FanStep, ResolveCached, ResolveBegin, ResolveEnd, DeviceGet, DeviceSeal,
           DeviceDispatch, FanEnd, LegacyEnd, FanThrows
      <3>5. c = m
        BY <2>5, <3>4
      <3>6. FanEnd(m) \/ LegacyEnd(m) \/ FanThrows(m)
        BY <2>4, <3>3, <3>5 DEF FanStep, ResolveCached, ResolveBegin, ResolveEnd, DeviceGet, DeviceSeal,
           DeviceDispatch
      <3> QED BY <3>6 DEF LegacyEnd, FanThrows
    <2>7. Result(m) # "throw" /\ Done(m)
      <3>1. call' = [call EXCEPT ![m] = IF Result(m) = "throw" THEN "idle" ELSE Result(m)]
        BY <2>1, <2>6 DEF FanEnd, Return
      <3> QED BY <2>1, <2>6, <3>1 DEF FanEnd
    <2>8. fan[m].part[d] \in {"skipped", "sent", "queued"}
      BY <2>2, <2>3, <2>7 DEF Result, Done, With, Ended
    <2> QED BY <2>1, <2>3, <2>8 DEF FanInv, DoneIsHanded
  <1> QED BY <1>1, FanInductive, PTL DEF FanSpec, SuccessIsWhole

-----------------------------------------------------------------------------
(* What the rows say, gate open or closed.                                 *)

(* For any messages, device sets and bounds, the sender's invariant holds  *)
(* in every reachable state.                                               *)
THEOREM Inductive == FanSpec => []IInv
  <1>1. FanInit => IInv
    BY InitOK DEF FanInit
  <1>2. FanInv /\ IInv /\ [FanNext]_allVars => IInv'
    <2> SUFFICES ASSUME FanInv, IInv, [FanNext]_allVars PROVE IInv'
      OBVIOUS
    <2>1. OpenStep /\ TypeOK
      BY Kinds DEF IInv
    <2> QED BY <2>1, OpenTypeStep, OpenRealStep DEF IInv
  <1> QED BY <1>1, <1>2, FanInductive, PTL DEF FanSpec

(* A row of the thread store says "delivered" only when the recipient has  *)
(* stored the message, on one of its devices.                              *)
THEOREM DeliveredReal == FanSpec => []DeliveredIsReal
  <1>1. IInv => DeliveredIsReal
    BY DEF IInv
  <1> QED BY Inductive, <1>1, PTL

(* A delivered row is final: only a local delete removes it and only a     *)
(* resend of a bubble that says failed restarts it.                        *)
THEOREM DeliveredFinal == FanSpec => DeliveredIsFinal
  <1>1. FanInv /\ IInv /\ [FanNext]_allVars => [\A m \in Messages : StaysDelivered(m)]_vars
    <2> SUFFICES ASSUME FanInv, IInv, [FanNext]_allVars PROVE \A m \in Messages : StaysDelivered(m)
      OBVIOUS
    <2> USE DEF StaysDelivered, durable
    <2>0. TypeOK /\ NewHasNoRow /\ row \in [Messages -> Statuses] /\ OpenStep
      BY Kinds DEF IInv, TypeOK
    <2>1. CASE [Next]_vars
      <3>1. ASSUME NEW n \in Messages, Send(n) PROVE \A m \in Messages : StaysDelivered(m)
        BY <2>0, <3>1 DEF Send, NewHasNoRow
      <3>2. ASSUME NEW n \in Messages, DeleteLocal(n) PROVE \A m \in Messages : StaysDelivered(m)
        BY <2>0, <3>2 DEF DeleteLocal
      <3>3. ASSUME \A n \in Messages : ~Send(n) /\ ~DeleteLocal(n)
            PROVE  \A m \in Messages : StaysDelivered(m)
        BY <2>1, <3>3, OtherSteps DEF StoreStep
      <3> QED BY <3>1, <3>2, <3>3
    <2>2. CASE LeftOnly \/ Reported \/ Stored
      BY <2>2 DEF LeftOnly, Reported, Stored
    <2>3. CASE Framed
      <3>1. \A m \in Messages : row[m] = "delivered" => row'[m] = row[m]
        BY <2>0, <2>3, FramedRows DEF CanTransitionStatus
      <3> QED BY <3>1
    <2> QED BY <2>0, <2>1, <2>2, <2>3 DEF OpenStep
  <1> QED BY Inductive, FanInductive, <1>1, PTL DEF FanSpec, DeliveredIsFinal

(* The open gate's own steps keep what is on the retry list.               *)
LEMMA OpenKeptStep ==
  ASSUME IInv, OpenStep, ~crashed', NEW m \in Messages, Kept(m)
  PROVE  Kept(m)'
  <1> USE DEF durable, memory, network, Kept, OnList, InFlight, Settling, Unproven
  <1>0. TypeOK /\ call \in [Messages -> Steps]
    BY DEF IInv, TypeOK
  <1>1. CASE [Next]_vars
    BY <1>1, KeptStep
  <1>2. CASE LeftOnly
    BY <1>2 DEF LeftOnly
  <1>3. CASE Reported
    <2>1. /\ UNCHANGED <<row, tracked, fact, commit, ack>>
          /\ \/ call'[m] = call[m]
             \/ call[m] = "deliver" /\ call'[m] \in {"idle", "sent", "queued"}
      BY <1>0, <1>3 DEF Reported
    <2> QED BY <2>1
  <1>4. CASE Stored
    BY <1>4 DEF Stored
  <1>5. CASE Framed
    <2>1. UNCHANGED <<call, fact, commit, ack>> /\ tracked' \subseteq tracked
      BY <1>5 DEF Framed
    <2>2. PICK s \in {"sent", "failed"} :
            \/ row'[m] = row[m]
            \/ m \in tracked /\ row'[m] = s /\ CanTransitionStatus(row[m], s) /\ row[m] # "none"
      BY <1>0, <1>5, FramedRows
    <2>3. CASE row'[m] = row[m]
      BY <2>1, <2>3
    <2>4. CASE m \in tracked /\ row'[m] = s /\ CanTransitionStatus(row[m], s) /\ row[m] # "none"
      <3>1. s = "sent" => row[m] \in {"pending", "queued", "sent"}
        BY <2>4 DEF CanTransitionStatus
      <3>2. call[m] \notin {"deliver", "sent", "queued"} /\ (row[m] = "pending" => call[m] = "settleQueued")
        BY <2>4
      <3> QED BY <2>1, <2>4, <3>1, <3>2
    <2> QED BY <2>2, <2>3, <2>4
  <1> QED BY <1>1, <1>2, <1>3, <1>4, <1>5 DEF OpenStep

(* For any messages, device sets and bounds: what left and is not proven   *)
(* stays on the durable retry list, until the process dies or the fact was *)
(* not written.                                                            *)
THEOREM OnRetryList == FanSpec => []SentIsOnRetryList
  <1> DEFINE J == ~crashed => \A m \in Messages : Kept(m)
  <1>1. FanInit => J
    BY DEF FanInit, Init, Kept, OnList, InFlight, Settling, Unproven
  <1>2. FanInv /\ IInv /\ J /\ [FanNext]_allVars => J'
    <2>1. ASSUME FanInv, [FanNext]_allVars, ~crashed' PROVE ~crashed
      <3>1. CASE [Next]_vars
        BY <2>1, <3>1 DEF Next, vars, Send, Deliver, Track, Settle, OpenPendingCommit, DeleteLocal, RetryRow,
           RetryDeliver, NodeSettles, Receive, DeliveryAckCheck, DeliveryAckSettle, CommitAckBegin, SweepStart,
           HandleOutboundStatus, SettleTracked, CommitAckConsume, CommitAckSettle, Lose, Restart
      <3>2. CASE LeftOnly \/ Reported \/ Stored \/ Framed
        BY <2>1, <3>2 DEF LeftOnly, Reported, Stored, Framed
      <3> QED BY <2>1, <3>1, <3>2, Kinds DEF OpenStep
    <2>2. ASSUME FanInv, IInv, J, [FanNext]_allVars, ~crashed' PROVE \A m \in Messages : Kept(m)'
      BY <2>1, <2>2, Kinds, OpenKeptStep
    <2> QED BY <2>2
  <1>3. J => SentIsOnRetryList
    BY DEF Kept, OnList, SentIsOnRetryList
  <1> HIDE DEF J
  <1> QED BY <1>1, <1>2, <1>3, Inductive, FanInductive, PTL DEF FanSpec
=============================================================================
