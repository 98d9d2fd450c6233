----------------------------- MODULE MailPromise -----------------------------
(***************************************************************************)
(* What the inbox promises about each piece of mail, whatever delivers it:  *)
(* mail is waiting until it is secured, delivered, surfaced to the user or  *)
(* explicitly let go, it is never waiting again, delivery is final, only    *)
(* secured mail is ever given up, and the home node is told to prune only   *)
(* mail that is no longer waiting.                                          *)
(***************************************************************************)
EXTENDS Naturals

CONSTANTS NumDeposits, IsMail

Mail == {d \in 1 .. NumDeposits : IsMail[d]}

Fates == {"expected", "waiting", "secured", "delivered", "surfaced", "abandoned", "deferred"}

VARIABLES fate, pruned

vars == <<fate, pruned>>

\* The moves a piece of mail may make.  What was given up may still be delivered:
\* a copy of it can be waiting in memory for its sender to be admitted.
MayBecome(f) ==
    CASE f = "expected"  -> {"waiting"}
      [] f = "waiting"   -> {"secured", "delivered", "surfaced", "deferred"}
      [] f = "secured"   -> {"delivered", "surfaced", "abandoned", "deferred"}
      [] f = "deferred"  -> {"delivered", "surfaced"}
      [] f = "surfaced"  -> {"secured", "delivered"}
      [] f = "abandoned" -> {"surfaced", "delivered"}
      [] f = "delivered" -> {}

Init == fate = [d \in Mail |-> "expected"] /\ pruned = 0

Move ==
    /\ fate' \in [Mail -> Fates]
    /\ \A d \in Mail : fate'[d] # fate[d] => fate'[d] \in MayBecome(fate[d])
    /\ UNCHANGED pruned

Prune ==
    /\ pruned' \in pruned + 1 .. NumDeposits
    /\ \A d \in Mail : d <= pruned' => fate[d] \notin {"expected", "waiting"}
    /\ UNCHANGED fate

Next == Move \/ Prune

Spec == Init /\ [][Next]_vars
=============================================================================
