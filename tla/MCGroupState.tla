---------------------------- MODULE MCGroupState ----------------------------
(* Small instances of GroupState, with GroupRoster under it, for TLC.       *)
EXTENDS GroupState

CONSTANTS alice, bob, carol, i1, i2, general, title, photo

None == [b \in Bounds |-> 0]
Still == [b \in StateBounds |-> 0]

\* Who is a member.
RosterScenes == {
  \* a member is kicked and returns on a newer invite
  [None EXCEPT !.issue = 2, !.accept = 2, !.kick = 1, !.tick = 1],
  \* of two who join, one leaves and may return
  [None EXCEPT !.issue = 2, !.accept = 2, !.leave = 1],
  \* one is made an admin and kicks the other
  [None EXCEPT !.issue = 1, !.accept = 2, !.role = 1, !.kick = 1],
  \* a member whose own join was cut short invites another
  [None EXCEPT !.issue = 2, !.accept = 2, !.cut = 1],
  \* two join while one is cut short and a deposit is lost or applied twice
  [None EXCEPT !.issue = 1, !.accept = 2, !.cut = 1, !.fault = 1, !.reconnect = 1]}

\* What the group shows while one joins, and may be kicked.
PairScene == [None EXCEPT !.issue = 1, !.accept = 1]
KickScene == [PairScene EXCEPT !.kick = 1]

Scenes == RosterScenes \cup {PairScene, KickScene}

StateScenes == [l \in Scenes |->
  CASE l \in RosterScenes -> {Still}
    [] l = PairScene ->
         {[Still EXCEPT !.create = 1, !.delete = 1, !.post = 1, !.fault = 1, !.connect = 1],
          [Still EXCEPT !.rename = 1, !.avatar = 1, !.fault = 1, !.connect = 1]}
    [] l = KickScene ->
         {[Still EXCEPT !.create = 1, !.delete = 1, !.connect = 1],
          [Still EXCEPT !.avatar = 1, !.connect = 1]}]
=============================================================================
