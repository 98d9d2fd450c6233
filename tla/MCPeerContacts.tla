---------------------------- MODULE MCPeerContacts ----------------------------
(* Instances of PeerContacts for TLC. *)
EXTENDS PeerContacts
CONSTANTS a1, a2
Scene(a, i, f, c) == [acts |-> a, invites |-> i, faults |-> f, crashes |-> c]
\* The users act and something fails; the users act more often; or they do
\* nothing, the link breaks, and both ends repair it while something fails.
MCScenes == {Scene(2, 1, 1, 1), Scene(3, 1, 0, 0), Scene(0, 2, 1, 1), Scene(0, 1, 2, 0)}
=============================================================================
