------------------------- MODULE MCOutboundMessages -------------------------
(* Small instances of OutboundMessages and DeviceFanout for TLC.            *)
EXTENDS DeviceFanout, TLC

CONSTANTS d1, d2

\* A second device joins, and the first is revoked.
PeerSets == <<{d1}, {d1, d2}, {d2}>>

\* n new messages are sent, and each of the named things goes wrong once.
Once(n, some) == [b \in Bounds |-> IF b = "new" THEN n ELSE IF b \in some THEN 1 ELSE 0]

GateClosed == [b \in FanBounds |-> 0]
GateOpen(first, some) ==
  [b \in FanBounds |-> IF b = "first" THEN first ELSE IF b \in some \cup {"gate"} THEN 1 ELSE 0]

FanScenes ==
  \* two messages that share an inbox, or one to several devices, and nothing
  \* goes wrong at the sender or on the way: the peer may have published no set
  \* before, or be served an older one
     Once(2, {}) :> {GateClosed}
  @@ Once(1, {}) :> {GateOpen(0, {"change"}), GateOpen(2, {"stale"})}
  \* what goes wrong at the sender
  @@ Once(1, {"expiry", "fault", "crash"}) :> {GateClosed}
  @@ Once(1, {"crash"}) :> {GateOpen(1, {"change"})}
  @@ Once(1, {"throw", "resend"}) :> {GateOpen(2, {})}
  \* what goes wrong on the way
  @@ Once(1, {"loss", "throw", "legacy", "unknown", "resend"}) :> {GateClosed}
  @@ Once(1, {"loss"}) :> {GateOpen(1, {"age"})}
  @@ Once(1, {"expiry"}) :> {GateOpen(2, {})}

Scenes == DOMAIN FanScenes
=============================================================================
