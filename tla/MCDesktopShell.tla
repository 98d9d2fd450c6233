---------------------------- MODULE MCDesktopShell ----------------------------
(* DesktopShell for TLC: three scenes. *)
EXTENDS DesktopShell

CONSTANTS l1, l2

MCLaunches == {l1, l2}
MCIds == 1 .. 3

None == [k \in Bounds |-> 0]

\* Two launches that race, quit, crash, wedge and update late.
ProcessScene == [None EXCEPT !["launch"] = 2, !["quit"] = 1, !["crash"] = 1,
                             !["wedge"] = 1, !["slow"] = 1, !["late"] = 1]
\* One window, three calls, a connection that drops twice and a client that closes.
ChannelScene == [None EXCEPT !["launch"] = 1, !["call"] = 3, !["drop"] = 2,
                             !["close"] = 1, !["crash"] = 1, !["wedge"] = 1]
\* One window and two unlocks with the device's key.
AskScene == [None EXCEPT !["launch"] = 1, !["ask"] = 3, !["crash"] = 1, !["wedge"] = 1]

MCLimits == {ProcessScene, ChannelScene, AskScene}

==============================================================================
