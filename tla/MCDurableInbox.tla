--------------------------- MODULE MCDurableInbox ---------------------------
(* Small instances of DurableInbox for TLC.                                 *)
EXTENDS DurableInbox

CONSTANT alice

AlicePeer == [d \in Deposits |-> alice]

\* A group message in front of its sender's join.
GroupThenJoin == <<"group", "join">>
=============================================================================
