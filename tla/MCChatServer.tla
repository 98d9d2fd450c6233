---------------------------- MODULE MCChatServer ----------------------------
(* Two threads, the first with two channels.  Each scene is one set of     *)
(* allowances a behaviour begins with.                                     *)
EXTENDS ChatServer

CONSTANTS t1, t2, ca, cb

MCThreads == {t1, t2}
MCChannels == {ca, cb}
MCMsgs == {1, 2, 3}
MCThreadOf == [m \in MCMsgs |-> IF m = 3 THEN t2 ELSE t1]
MCChanOf == [m \in MCMsgs |-> IF m = 2 THEN cb ELSE ca]

\* An allowance by the names of what may happen once and twice.
Allow(once, twice) ==
  [a \in Allowances |-> IF a \in twice THEN 2 ELSE IF a \in once THEN 1 ELSE 0]

\* The home: transports lost, requests refused, an inbox taken back.
Home == Allow({}, {"lose", "fail", "reclaim"})
Gated == Allow({"gated"}, {"lose", "fail", "reclaim"})
\* A phone: wake-ups while the home comes and goes, the server stopped.
Phone == Allow({"lose", "fail", "stop", "periodic"}, {"wake"})
\* Account work on demand, and the end of the channel.
Account == Allow({"stop"}, {"work"})
\* A lock and an unlock; a socket dropped, a logout.
Locks == Allow({"stop", "periodic"}, {"attach"})
Sockets == Allow({"attach", "drop", "logout", "periodic"}, {})
\* Conversations: messages alone, the user alone with one that is open
\* already, both together, a call that times out, a socket that is lost.
Mail == Allow({"attach"}, {"inbound"})
Open == Allow({"attach", "opened"}, {"user"})
Both == Allow({"attach", "opened", "user", "inbound"}, {})
Slow == Allow({"attach", "timeout", "user", "inbound"}, {})
Lossy == Allow({"attach", "opened", "drop", "user"}, {})
\* Messages that go on while the session is locked and opened again.
Locked == Allow({"opened", "stop", "inbound"}, {"attach"})
MCScenes == {Home, Gated, Phone, Account, Locks, Sockets, Mail, Open, Both, Slow, Lossy, Locked}
=============================================================================
