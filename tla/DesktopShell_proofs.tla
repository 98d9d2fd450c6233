------------------------ MODULE DesktopShell_proofs ------------------------
(***************************************************************************)
(* For any launches, calls, requests and bounds: a sidecar that was shut   *)
(* down stays down and the lock names the one that serves, the calls of a  *)
(* window begin in the order they were made or not at all, and the vault   *)
(* is opened only on a yes to that very request.                           *)
(***************************************************************************)
EXTENDS DesktopShell, FiniteSetTheorems, TLAPS

USE ShellAssumption

-----------------------------------------------------------------------------
(* The processes. *)

LEMMA SidecarSafe ==
  ASSUME LaunchInv, NEW s \in Launches,
         ParentGone(s) \/ CleanupStale(s) \/ Boot(s) \/ Serve(s) \/ Unbind(s) \/ End(s)
  PROVE  LaunchInv'
<1> USE DEF LaunchInv, ProcessTypes, OneServer, DeadStay, LockIsKept, Bound, Alive, Working,
            Ending, Release
<1>1. CASE ParentGone(s)
  <2>1. CASE side' = [side EXCEPT ![s] = "dead"] /\ lock' = Release(s)
    BY <1>1, <2>1 DEF ParentGone
  <2>2. CASE /\ side[s] \in {"app", "ready"} /\ UNCHANGED lock
             /\ side' = [side EXCEPT ![s] = "stop"]
    BY <1>1, <2>2 DEF ParentGone
  <2> QED BY <1>1, <2>1, <2>2 DEF ParentGone, Shut
<1>2. CASE CleanupStale(s)
  BY <1>2 DEF CleanupStale
<1>3. CASE Boot(s)
  BY <1>3 DEF Boot
<1>4. CASE Serve(s)
  BY <1>4 DEF Serve
<1>5. CASE Unbind(s)
  BY <1>5 DEF Unbind
<1>6. CASE End(s)
  BY <1>6 DEF End
<1> QED BY <1>1, <1>2, <1>3, <1>4, <1>5, <1>6

LEMMA KillSafe ==
  ASSUME LaunchInv, NEW s \in Launches, Verify(s) \/ Terminate(s)
  PROVE  LaunchInv'
<1> USE DEF LaunchInv, ProcessTypes, OneServer, DeadStay, LockIsKept, Bound, Alive, Working,
            RemoveLock, Answering
<1>1. CASE Verify(s)
  <2>1. PICK o \in Launches : o = seen[s]
    BY <1>1 DEF Verify
  <2>2. CASE /\ Answering(o) /\ UNCHANGED <<lock, doubted>>
             /\ side' = [side EXCEPT ![s] = "kill", ![o] = "stop"]
    <3>1. side[s] = "verify" /\ s # o
      BY <1>1, <2>2 DEF Verify
    <3>2. /\ side'[s] = "kill" /\ side'[o] = "stop"
          /\ \A x \in Launches \ {s, o} : side'[x] = side[x]
      BY <2>2, <3>1
    <3>3. ProcessTypes'
      BY <1>1, <2>1, <2>2, <3>2 DEF Verify
    <3> QED BY <1>1, <2>2, <3>1, <3>2, <3>3 DEF Verify
  <2>3. CASE side' = [side EXCEPT ![s] = "boot"] /\ RemoveLock
    BY <1>1, <2>3 DEF Verify
  <2> QED BY <1>1, <2>1, <2>2, <2>3 DEF Verify
<1>2. CASE Terminate(s)
  BY <1>2 DEF Terminate
<1> QED BY <1>1, <1>2

LEMMA ShellSafe ==
  ASSUME LaunchInv, NEW h \in Launches, ShellStep(h)
  PROVE  LaunchInv'
<1> USE DEF LaunchInv, ProcessTypes, OneServer, DeadStay, LockIsKept, Bound, Alive
<1>1. CASE UpdateGate(h)
  BY <1>1 DEF UpdateGate
<1>2. CASE Spawn(h)
  BY <1>2 DEF Spawn
<1>3. CASE Ready(h)
  BY <1>3 DEF Ready
<1>4. CASE BootLost(h)
  BY <1>4 DEF BootLost
<1>5. CASE BootTimeout(h)
  BY <1>5 DEF BootTimeout
<1>6. CASE Monitor(h)
  BY <1>6 DEF Monitor
<1>7. CASE AnswerAlarm(h)
  BY <1>7 DEF AnswerAlarm, Exit
<1>8. CASE Shutdown(h)
  BY <1>8 DEF Shutdown
<1> QED BY <1>1, <1>2, <1>3, <1>4, <1>5, <1>6, <1>7, <1>8 DEF ShellStep

LEMMA ChanceSafe ==
  ASSUME LaunchInv, NEW h \in Launches, Chance(h)
  PROVE  LaunchInv'
<1> USE DEF LaunchInv, ProcessTypes, OneServer, DeadStay, LockIsKept, Bound, Alive, Working
<1>1. CASE Launch(h)
  BY <1>1 DEF Launch
<1>2. CASE Quit(h)
  BY <1>2 DEF Quit, Exit
<1>3. CASE LateUpdate(h)
  BY <1>3 DEF LateUpdate, Exit
<1>4. CASE Crash(h)
  BY <1>4 DEF Crash
<1>5. CASE Wedge(h)
  BY <1>5 DEF Wedge
<1> QED BY <1>1, <1>2, <1>3, <1>4, <1>5 DEF Chance

\* What touches no process leaves them as they are.
LEMMA ProcessFrame ==
  ASSUME LaunchInv, UNCHANGED <<processes, page>>
  PROVE  LaunchInv'
BY DEF LaunchInv, ProcessTypes, OneServer, DeadStay, LockIsKept, Bound, processes

LEMMA LaunchStep == ASSUME LaunchInv, Next PROVE LaunchInv'
<1>1. CASE PageStep \/ UplinkStep \/ AskStep
  BY <1>1, ProcessFrame
     DEF PageStep, Call, Opened, Drop, Refused, Lose, Reconnect, CloseClient, Receive,
         UplinkStep, HandleHello, HandleCall, Finish,
         AskStep, Ask, ShowDialog, UserAnswers, TakeAnswer, ChannelGone, RequestTimeout
<1> QED BY <1>1, SidecarSafe, KillSafe, ShellSafe, ChanceSafe DEF Next, SidecarStep

-----------------------------------------------------------------------------
(* The host channel. *)

LEMMA AskFrame ==
  ASSUME AskInv, UNCHANGED asks
  PROVE  AskInv'
BY DEF AskInv, AskTypes, UnlockIsConfirmed, asks

LEMMA ElementsOfAppend ==
  ASSUME NEW S, NEW s \in Seq(S), NEW x \in S
  PROVE  ToSet(Append(s, x)) = ToSet(s) \cup {x}
BY DEF ToSet

LEMMA ElementsOfTail ==
  ASSUME NEW S, NEW s \in Seq(S), s # <<>>
  PROVE  ToSet(Tail(s)) \subseteq ToSet(s) /\ Head(s) \in ToSet(s) /\ Head(s) \in S
BY DEF ToSet

LEMMA AskSafe == ASSUME AskInv, AskStep PROVE AskInv'
<1> USE DEF AskInv, AskTypes, UnlockIsConfirmed
<1>1. CASE Ask
  BY <1>1 DEF Ask
<1>2. CASE ShowDialog
  BY <1>2 DEF ShowDialog
<1>3. CASE UserAnswers
  <2>1. PICK yes \in BOOLEAN :
          /\ answers' = Append(answers, <<dialog, yes>>)
          /\ said' = IF yes THEN said \cup {dialog} ELSE said
    BY <1>3 DEF UserAnswers
  <2>2. dialog \in Ids /\ <<dialog, yes>> \in Ids \X BOOLEAN
    BY <1>3 DEF UserAnswers
  <2>3. answers' \in Seq(Ids \X BOOLEAN) /\ ToSet(answers') = ToSet(answers) \cup {<<dialog, yes>>}
    <3> DEFINE x == <<dialog, yes>>
    <3>1. x \in Ids \X BOOLEAN /\ answers' = Append(answers, x) /\ answers \in Seq(Ids \X BOOLEAN)
      BY <2>1, <2>2
    <3> HIDE DEF x
    <3>2. answers' \in Seq(Ids \X BOOLEAN) /\ ToSet(answers') = ToSet(answers) \cup {x}
      BY <3>1, ElementsOfAppend
    <3> QED BY <3>2 DEF x
  <2>4. said \subseteq said' /\ said' \subseteq Ids /\ granted' = granted
    BY <1>3, <2>1, <2>2 DEF UserAnswers
  <2>5. \A a \in ToSet(answers') : a[2] => a[1] \in said'
    <3>1. yes => dialog \in said'
      BY <2>1
    <3> QED BY <2>3, <2>4, <3>1
  <2>6. waiting' = waiting /\ asked' = asked /\ line' = line /\ dialog' = 0
    BY <1>3 DEF UserAnswers
  <2>7. AskTypes'
    BY <2>3, <2>4, <2>6
  <2>8. UnlockIsConfirmed'
    BY <2>4
  <2> QED BY <2>5, <2>7, <2>8
<1>4. CASE TakeAnswer
  <2>1. /\ Head(answers) \in ToSet(answers) /\ Head(answers) \in Ids \X BOOLEAN
        /\ answers' = Tail(answers) /\ answers' \in Seq(Ids \X BOOLEAN)
        /\ ToSet(answers') \subseteq ToSet(answers)
    BY <1>4, ElementsOfTail DEF TakeAnswer
  <2>2. granted' \subseteq said /\ waiting' \subseteq waiting /\ granted' \subseteq Ids
    BY <1>4, <2>1 DEF TakeAnswer, AnswerFor
  <2> QED BY <1>4, <2>1, <2>2 DEF TakeAnswer
<1>5. CASE ChannelGone \/ \E id \in Ids : RequestTimeout(id)
  BY <1>5 DEF ChannelGone, RequestTimeout
<1> QED BY <1>1, <1>2, <1>3, <1>4, <1>5 DEF AskStep

LEMMA AskingStep == ASSUME AskInv, Next PROVE AskInv'
<1>1. ASSUME ~AskStep PROVE UNCHANGED asks
  BY <1>1 DEF Next, PageStep, Call, Opened, Drop, Refused, Lose, Reconnect, CloseClient, Receive,
         UplinkStep, HandleHello, HandleCall, Finish, SidecarStep, ParentGone, CleanupStale, Verify,
         Terminate, Boot, Serve, Unbind, End, ShellStep, UpdateGate, Spawn, Ready, BootLost,
         BootTimeout, Monitor, AnswerAlarm, Shutdown, Chance, Launch, Quit, LateUpdate, Crash,
         Wedge, Exit
<1> QED BY <1>1, AskSafe, AskFrame

-----------------------------------------------------------------------------
(* The control channel: sequences of calls. *)

LEMMA AppendRises ==
  ASSUME NEW S, S \subseteq Nat, NEW s \in Seq(S), NEW x \in S, Rises(s),
         \A i \in DOMAIN s : s[i] < x
  PROVE  Append(s, x) \in Seq(S) /\ Rises(Append(s, x))
BY DEF Rises

LEMMA AppendWithin ==
  ASSUME NEW S, NEW s \in Seq(S), NEW x \in S, NEW T, Within(s, T), x \in T
  PROVE  Append(s, x) \in Seq(S) /\ Within(Append(s, x), T)
BY DEF Within

LEMMA HeadAndTail ==
  ASSUME NEW S, S \subseteq Nat, NEW s \in Seq(S), s # <<>>
  PROVE  /\ Tail(s) \in Seq(S) /\ Head(s) \in S /\ Head(s) = s[1] /\ 1 \in DOMAIN s
         /\ \A i \in DOMAIN Tail(s) : i + 1 \in DOMAIN s /\ Tail(s)[i] = s[i + 1]
         /\ Rises(s) => Rises(Tail(s)) /\ \A i \in DOMAIN Tail(s) : Head(s) < Tail(s)[i]
         /\ \A T : Within(s, T) => Within(Tail(s), T) /\ Head(s) \in T
<1>1. Tail(s) \in Seq(S) /\ Head(s) \in S /\ Head(s) = s[1] /\ 1 \in DOMAIN s
  OBVIOUS
<1>2. \A i \in DOMAIN Tail(s) : i \in Nat /\ i >= 1 /\ i + 1 \in DOMAIN s /\ Tail(s)[i] = s[i + 1]
  OBVIOUS
<1>3. Rises(s) => Rises(Tail(s)) /\ \A i \in DOMAIN Tail(s) : Head(s) < Tail(s)[i]
  BY <1>1, <1>2 DEF Rises
<1>4. \A T : Within(s, T) => Within(Tail(s), T) /\ Head(s) \in T
  BY <1>1, <1>2 DEF Within
<1> QED BY <1>1, <1>2, <1>3, <1>4

LEMMA JoinRises ==
  ASSUME NEW S, S \subseteq Nat, NEW s \in Seq(S), NEW t \in Seq(S), Rises(s), Rises(t), Before(s, t)
  PROVE  s \o t \in Seq(S) /\ Rises(s \o t)
<1>1. /\ s \o t \in Seq(S) /\ DOMAIN (s \o t) = 1 .. Len(s) + Len(t)
      /\ \A i \in DOMAIN (s \o t) :
           (s \o t)[i] = IF i <= Len(s) THEN s[i] ELSE t[i - Len(s)]
  OBVIOUS
<1>2. ASSUME NEW i \in DOMAIN (s \o t), NEW j \in DOMAIN (s \o t), i < j
      PROVE  (s \o t)[i] < (s \o t)[j]
  <2>1. CASE j <= Len(s)
    BY <1>1, <1>2, <2>1 DEF Rises
  <2>2. CASE i <= Len(s) /\ j > Len(s)
    BY <1>1, <1>2, <2>2 DEF Before
  <2>3. CASE i > Len(s)
    BY <1>1, <1>2, <2>3 DEF Rises
  <2> QED BY <1>1, <1>2, <2>1, <2>2, <2>3
<1> QED BY <1>1, <1>2 DEF Rises

LEMMA JoinWithin ==
  ASSUME NEW S, NEW s \in Seq(S), NEW t \in Seq(S), NEW T, Within(s, T), Within(t, T)
  PROVE  Within(s \o t, T) /\ ToSet(s \o t) = ToSet(s) \cup ToSet(t)
<1>1. /\ DOMAIN (s \o t) = 1 .. Len(s) + Len(t)
      /\ \A i \in DOMAIN (s \o t) :
           (s \o t)[i] = IF i <= Len(s) THEN s[i] ELSE t[i - Len(s)]
  OBVIOUS
<1>2. Within(s \o t, T)
  BY <1>1 DEF Within
<1>3. ToSet(s \o t) \subseteq ToSet(s) \cup ToSet(t)
  BY <1>1 DEF ToSet
<1>4. ASSUME NEW i \in DOMAIN s PROVE s[i] \in ToSet(s \o t)
  <2>1. i \in DOMAIN (s \o t) /\ (s \o t)[i] = s[i]
    BY <1>1
  <2> QED BY <2>1 DEF ToSet
<1>5. ASSUME NEW i \in DOMAIN t PROVE t[i] \in ToSet(s \o t)
  <2>1. i + Len(s) \in DOMAIN (s \o t) /\ (s \o t)[i + Len(s)] = t[i]
    BY <1>1
  <2> QED BY <2>1 DEF ToSet
<1> QED BY <1>2, <1>3, <1>4, <1>5 DEF ToSet

LEMMA PrefixParts ==
  ASSUME NEW S, S \subseteq Nat, NEW s \in Seq(S), NEW n \in 0 .. Len(s)
  PROVE  /\ SubSeq(s, 1, n) \in Seq(S)
         /\ \A i \in DOMAIN SubSeq(s, 1, n) : i \in DOMAIN s /\ SubSeq(s, 1, n)[i] = s[i]
         /\ Rises(s) => Rises(SubSeq(s, 1, n))
         /\ \A T : Within(s, T) => Within(SubSeq(s, 1, n), T)
<1>1. /\ SubSeq(s, 1, n) \in Seq(S)
      /\ \A i \in DOMAIN SubSeq(s, 1, n) : i \in DOMAIN s /\ SubSeq(s, 1, n)[i] = s[i]
  OBVIOUS
<1> QED BY <1>1 DEF Rises, Within

LEMMA IdsAreNumbers == Ids \subseteq Nat \ {0} /\ Ids \cup {0} \subseteq Nat
<1>1. Cardinality(Ids) \in Nat
  BY FS_CardinalityType
<1> QED BY <1>1

-----------------------------------------------------------------------------
(* The control channel: the calls. *)

LEMMA CallFrame ==
  ASSUME CallInv, UNCHANGED channel, page' = page
  PROVE  CallInv'
BY DEF CallInv, ChannelTypes, Greeted, Begun, Waits, InTurn, Within, Rises, Before, channel, ToSet

LEMMA CallSafe == ASSUME CallInv, Call PROVE CallInv'
<1> DEFINE id == made + 1
<1>1. /\ id \in Ids /\ id \in Nat /\ made' = id /\ pending' = pending \cup {id}
      /\ UNCHANGED <<page, sock, authed, running, back, rejected, started, closed>>
  BY IdsAreNumbers DEF Call, CallInv, ChannelTypes
<1>2. /\ ChannelTypes /\ Greeted /\ Begun /\ Waits /\ InTurn
      /\ \A x \in 1 .. made : x < id /\ x \in 1 .. id
      /\ made \in Nat /\ page # NoOne
  BY DEF CallInv, ChannelTypes, Call, Shown
<1>3. id \notin pending \cup rejected
  BY <1>2 DEF Waits
<1>4. CASE sock = "ready"
  <2>1. sent' = Append(sent, id) /\ queue' = queue /\ queue = <<>> /\ authed
    BY <1>2, <1>4 DEF Call, Greeted
  <2>2. \A i \in DOMAIN sent : sent[i] \in pending /\ sent[i] < id
    BY <1>2, <1>4, IdsAreNumbers DEF Greeted, Waits, Within
  <2>3. sent \in Seq(Ids \cup {0}) /\ id \in Ids \cup {0}
    BY <1>1, <1>2 DEF ChannelTypes
  <2>4. sent' \in Seq(Ids \cup {0}) /\ Rises(sent')
    BY <1>2, <2>1, <2>2, <2>3, IdsAreNumbers, AppendRises DEF InTurn
  <2>5. Within(sent', Ids) /\ Within(sent', pending' \cup {0})
    <3>1. Within(sent, Ids) /\ Within(sent, pending' \cup {0})
      BY <1>1, <1>2, <1>4, <2>2 DEF Greeted, Within
    <3> QED BY <1>1, <2>1, <2>3, <3>1, AppendWithin
  <2>6. Before(started, sent')
    <3>1. Before(started, sent) /\ \A i \in DOMAIN started : started[i] < id
      BY <1>2, <2>1 DEF InTurn, Begun, Within
    <3> QED BY <2>1, <2>3, <3>1 DEF Before
  <2>7. ChannelTypes'
    BY <1>1, <1>2, <2>1, <2>4 DEF ChannelTypes
  <2>8. Greeted' /\ Begun' /\ InTurn'
    BY <1>1, <1>2, <1>4, <2>1, <2>4, <2>5, <2>6 DEF Greeted, Begun, InTurn, Within, ToSet, Before, Rises
  <2>9. Waits'
    BY <1>1, <1>2, <1>3, <1>4, <2>1, <2>5 DEF Waits, Within
  <2> QED BY <2>7, <2>8, <2>9 DEF CallInv
<1>5. CASE sock # "ready"
  <2>1. queue' = Append(queue, id) /\ sent' = sent
    BY <1>5 DEF Call
  <2>2. queue \in Seq(Ids) /\ \A i \in DOMAIN queue : queue[i] < id
    BY <1>2 DEF ChannelTypes, Waits, Within
  <2>3. queue' \in Seq(Ids) /\ Rises(queue') /\ Within(queue', pending') /\ ToSet(queue') = ToSet(queue) \cup {id}
    <3>1. Within(queue, pending')
      BY <1>1, <1>2 DEF Waits, Within
    <3>2. queue' \in Seq(Ids) /\ Rises(queue')
      BY <1>1, <1>2, <2>1, <2>2, IdsAreNumbers, AppendRises DEF InTurn
    <3>3. Within(queue', pending')
      BY <1>1, <2>1, <2>2, <3>1, AppendWithin
    <3>4. ToSet(queue') = ToSet(queue) \cup {id}
      BY <1>1, <2>1, <2>2, ElementsOfAppend
    <3> QED BY <3>2, <3>3, <3>4
  <2>4. Before(started, queue')
    <3>1. Before(started, queue) /\ \A i \in DOMAIN started : started[i] < id
      BY <1>2 DEF InTurn, Begun, Within
    <3> QED BY <2>1, <2>2, <3>1 DEF Before
  <2>5. ChannelTypes'
    BY <1>1, <1>2, <2>1, <2>3 DEF ChannelTypes
  <2>6. Greeted' /\ Begun' /\ InTurn'
    BY <1>1, <1>2, <1>5, <2>1, <2>3, <2>4 DEF Greeted, Begun, InTurn, Within, ToSet, Before, Rises
  <2>7. Waits'
    BY <1>1, <1>2, <1>3, <1>5, <2>1, <2>3 DEF Waits, Within
  <2> QED BY <2>5, <2>6, <2>7 DEF CallInv
<1> QED BY <1>4, <1>5

LEMMA OpeningSafe ==
  ASSUME CallInv, Opened \/ Reconnect \/ HandleHello \/ \E h \in Launches : Ready(h)
  PROVE  CallInv'
<1>1. ChannelTypes /\ Greeted /\ Begun /\ Waits /\ InTurn
  BY DEF CallInv
<1>2. CASE Opened
  <2>1. /\ sock = "opening" /\ sock' = "open" /\ sent' = <<0>> /\ back = <<>> /\ ~authed /\ page # NoOne
        /\ UNCHANGED <<page, authed, queue, running, back, pending, rejected, made, started, closed>>
    BY <1>1, <1>2 DEF Opened, Greeted, Shown
  <2>2. ChannelTypes'
    BY <1>1, <2>1 DEF ChannelTypes
  <2>3. Greeted' /\ Begun' /\ Waits'
    BY <1>1, <2>1 DEF Greeted, Begun, Waits, Within, ToSet
  <2>4. InTurn'
    BY <1>1, <2>1 DEF InTurn, Rises, Before
  <2> QED BY <2>2, <2>3, <2>4 DEF CallInv
<1>3. CASE Reconnect
  BY <1>1, <1>3 DEF Reconnect, Shown, CallInv, ChannelTypes, Greeted, Begun, Waits, InTurn, Within, ToSet,
                    Rises, Before
<1>4. CASE HandleHello
  <2>1. /\ sock = "open" /\ sent = <<0>> /\ back = <<>> /\ authed' = TRUE /\ page # NoOne
        /\ UNCHANGED <<page, sock, queue, running, pending, rejected, made, started, closed>>
    BY <1>1, <1>4 DEF HandleHello, Greeted, Serving, ChannelTypes
  <2>2. sent' = <<>> /\ back' = <<0>>
    BY <1>4, <2>1 DEF HandleHello
  <2>3. ChannelTypes'
    BY <1>1, <2>1, <2>2 DEF ChannelTypes
  <2>4. Greeted' /\ Begun' /\ Waits'
    BY <1>1, <2>1, <2>2 DEF Greeted, Begun, Waits, Within, ToSet
  <2>5. InTurn'
    BY <1>1, <2>1, <2>2 DEF InTurn, Rises, Before
  <2> QED BY <2>3, <2>4, <2>5 DEF CallInv
<1>5. CASE \E h \in Launches : Ready(h)
  <2>1. /\ UNCHANGED <<authed, queue, sent, running, back, pending, rejected, made, started, closed>>
        /\ \/ page # NoOne /\ page' = page /\ sock' = sock
           \/ page = NoOne /\ page' # NoOne /\ sock' = "opening"
    BY <1>5 DEF Ready
  <2>2. CASE page # NoOne /\ page' = page /\ sock' = sock
    BY <2>1, <2>2, CallFrame DEF channel
  <2>3. CASE page = NoOne /\ page' # NoOne /\ sock' = "opening"
    BY <1>1, <2>1, <2>3 DEF CallInv, ChannelTypes, Greeted, Begun, Waits, InTurn, Within, ToSet,
                    Rises, Before
  <2> QED BY <2>1, <2>2, <2>3
<1> QED BY <1>2, <1>3, <1>4, <1>5

LEMMA LoseSafe ==
  ASSUME CallInv, NEW n \in 0 .. Len(sent), n # 0 => authed, Lose(n), page # NoOne,
         closed' \in BOOLEAN
  PROVE  CallInv'
<1>1. ChannelTypes /\ Greeted /\ Begun /\ Waits /\ InTurn
  BY DEF CallInv
<1> DEFINE p == SubSeq(sent, 1, n)
<1>2. /\ sock' = "none" /\ authed' = FALSE /\ sent' = <<>> /\ back' = <<>>
      /\ pending' = {} /\ rejected' = rejected \cup pending /\ queue' = <<>>
      /\ started' = started \o p /\ running' = running \cup ToSet(p)
      /\ page' = page /\ made' = made
  BY DEF Lose, RejectAllPending
<1>3. Within(p, Ids) /\ Within(p, pending) /\ Rises(p) /\ Before(started, p)
  <2>1. CASE n = 0
    <3>1. p = <<>>
      BY <1>1, <2>1 DEF ChannelTypes
    <3> QED BY <3>1 DEF Within, Rises, Before
  <2>2. CASE n # 0
    <3>1. Within(sent, Ids) /\ Within(sent, pending)
      BY <1>1, <2>2, IdsAreNumbers DEF ChannelTypes, Greeted, Waits, Within
    <3>2. sent \in Seq(Ids \cup {0}) /\ Rises(sent) /\ Before(started, sent)
      BY <1>1, <2>2 DEF ChannelTypes, InTurn
    <3> QED BY <3>1, <3>2, IdsAreNumbers, PrefixParts DEF Before
  <2> QED BY <2>1, <2>2
<1>4. p \in Seq(Ids)
  <2>1. p \in Seq(Ids \cup {0})
    BY <1>1, IdsAreNumbers, PrefixParts DEF ChannelTypes
  <2> HIDE DEF p
  <2>2. p = [i \in 1 .. Len(p) |-> p[i]] /\ Len(p) \in Nat /\ \A i \in 1 .. Len(p) : p[i] \in Ids
    BY <1>3, <2>1 DEF Within
  <2> QED BY <2>2
<1>5. started' \in Seq(Ids) /\ Rises(started')
  BY <1>1, <1>2, <1>3, <1>4, IdsAreNumbers, JoinRises DEF ChannelTypes, InTurn
<1>6. Within(started', 1 .. made) /\ ToSet(started') = ToSet(started) \cup ToSet(p)
  <2>1. Within(p, 1 .. made) /\ Within(started, 1 .. made)
    BY <1>1, <1>3 DEF Waits, Begun, Within
  <2>2. started \in Seq(Ids) /\ started' = started \o p
    BY <1>1, <1>2 DEF ChannelTypes
  <2> HIDE DEF p
  <2>3. Within(started \o p, 1 .. made) /\ ToSet(started \o p) = ToSet(started) \cup ToSet(p)
    BY <1>4, <2>1, <2>2, JoinWithin
  <2> QED BY <2>2, <2>3
<1>7. ToSet(p) \subseteq Ids
  BY <1>3 DEF Within, ToSet
<1> HIDE DEF p
<1>8. ChannelTypes'
  <2>1. running' \cup pending' \cup rejected' \subseteq Ids /\ made' \in Nat
    BY <1>1, <1>2, <1>7 DEF ChannelTypes
  <2>2. /\ sock' \in {"none", "opening", "open", "ready"} /\ authed' \in BOOLEAN
        /\ queue' \in Seq(Ids) /\ sent' \in Seq(Ids \cup {0}) /\ back' \in Seq(Ids \cup {0})
    <3>1. \A S : <<>> \in Seq(S)
      OBVIOUS
    <3> QED BY <1>2, <3>1
  <2> QED BY <1>5, <2>1, <2>2 DEF ChannelTypes
<1>9. Greeted' /\ Begun' /\ Waits'
  BY <1>1, <1>2, <1>6 DEF Greeted, Begun, Waits, Within
<1>10. InTurn'
  BY <1>2, <1>5 DEF InTurn, Rises, Before
<1> QED BY <1>8, <1>9, <1>10 DEF CallInv

LEMMA LosingSafe == ASSUME CallInv, Drop \/ Refused \/ CloseClient PROVE CallInv'
<1>1. sent \in Seq(Ids \cup {0}) /\ closed \in BOOLEAN /\ Len(sent) \in Nat
  BY DEF CallInv, ChannelTypes
<1>2. page # NoOne /\ closed' \in BOOLEAN
  BY <1>1 DEF Drop, Refused, CloseClient, Shown
<1>3. PICK n \in Arrived \cup {0} : Lose(n)
  BY DEF Drop, Refused, CloseClient
<1>4. n \in 0 .. Len(sent) /\ (n # 0 => authed)
  BY <1>1, <1>3 DEF Arrived
<1> QED BY <1>2, <1>3, <1>4, LoseSafe

LEMMA HandleCallSafe == ASSUME CallInv, HandleCall PROVE CallInv'
<1>1. ChannelTypes /\ Greeted /\ Begun /\ Waits /\ InTurn
  BY DEF CallInv
<1> DEFINE id == Head(sent)
<1>2. /\ sent # <<>> /\ sent' = Tail(sent) /\ id # 0 /\ authed
      /\ running' = running \cup {id} /\ started' = Append(started, id)
      /\ UNCHANGED <<page, sock, authed, queue, back, pending, rejected, made, closed>>
  BY DEF HandleCall
<1>3. sent \in Seq(Ids \cup {0}) /\ started \in Seq(Ids)
  BY <1>1 DEF ChannelTypes
<1>4. /\ sent' \in Seq(Ids \cup {0}) /\ id = sent[1] /\ 1 \in DOMAIN sent /\ id \in Ids
      /\ \A i \in DOMAIN sent' : i + 1 \in DOMAIN sent /\ sent'[i] = sent[i + 1]
      /\ Rises(sent') /\ \A i \in DOMAIN sent' : id < sent'[i]
      /\ \A T : Within(sent, T) => Within(sent', T) /\ id \in T
  <2>1. Rises(sent) /\ Ids \cup {0} \subseteq Nat
    BY <1>1, IdsAreNumbers DEF InTurn
  <2>2. /\ Tail(sent) \in Seq(Ids \cup {0}) /\ id \in Ids \cup {0} /\ id = sent[1] /\ 1 \in DOMAIN sent
        /\ \A i \in DOMAIN Tail(sent) : i + 1 \in DOMAIN sent /\ Tail(sent)[i] = sent[i + 1]
        /\ Rises(Tail(sent)) /\ \A i \in DOMAIN Tail(sent) : id < Tail(sent)[i]
        /\ \A T : Within(sent, T) => Within(Tail(sent), T) /\ id \in T
    BY <1>2, <1>3, <2>1, HeadAndTail
  <2> QED BY <1>2, <2>2
<1> HIDE DEF id
<1>5. sock = "ready" /\ queue = <<>>
  BY <1>1, <1>2 DEF ChannelTypes, Greeted
<1>6. \A i \in DOMAIN started : started[i] < id
  BY <1>1, <1>2, <1>4 DEF InTurn, Before
<1>7. id \in 1 .. made
  BY <1>1, <1>2, <1>4 DEF Waits
<1>8. started' \in Seq(Ids) /\ Rises(started') /\ ToSet(started') = ToSet(started) \cup {id}
  <2>1. started' \in Seq(Ids) /\ Rises(started')
    BY <1>1, <1>2, <1>3, <1>4, <1>6, IdsAreNumbers, AppendRises DEF InTurn
  <2>2. ToSet(started') = ToSet(started) \cup {id}
    BY <1>2, <1>3, <1>4, ElementsOfAppend
  <2> QED BY <2>1, <2>2
<1>9. Within(started', 1 .. made)
  BY <1>1, <1>2, <1>3, <1>4, <1>7, AppendWithin DEF Begun
<1>10. Before(started', sent')
  <2>1. ASSUME NEW i \in DOMAIN started', NEW j \in DOMAIN sent' PROVE started'[i] < sent'[j]
    <3>1. started'[i] = id \/ (i \in DOMAIN started /\ started'[i] = started[i])
      BY <1>2, <1>3, <1>4
    <3>2. \A k \in DOMAIN started : started[k] < sent'[j]
      BY <1>1, <1>2, <1>4 DEF InTurn, Before
    <3> QED BY <1>4, <3>1, <3>2
  <2> QED BY <2>1 DEF Before
<1>11. ChannelTypes'
  BY <1>1, <1>2, <1>4, <1>8 DEF ChannelTypes
<1>12. Greeted' /\ Begun'
  BY <1>1, <1>2, <1>4, <1>5, <1>8, <1>9 DEF Greeted, Begun, Within
<1>13. Waits'
  BY <1>1, <1>2, <1>4, <1>5 DEF Waits, Within
<1>14. InTurn'
  BY <1>1, <1>2, <1>4, <1>5, <1>8, <1>10 DEF InTurn, Rises, Before
<1> QED BY <1>11, <1>12, <1>13, <1>14 DEF CallInv

\* A call that has begun neither waits in the queue nor is on its way.
LEMMA BegunIsNotWaiting ==
  ASSUME CallInv, NEW x \in ToSet(started)
  PROVE  /\ x \notin ToSet(queue) /\ x \in Ids
         /\ authed => \A i \in DOMAIN sent : sent[i] # x
<1>1. PICK k \in DOMAIN started : x = started[k]
  BY DEF ToSet
<1>2. x \in Ids
  BY <1>1 DEF CallInv, ChannelTypes
<1>3. /\ \A i \in DOMAIN queue : started[k] < queue[i]
      /\ authed => \A i \in DOMAIN sent : started[k] < sent[i]
  BY <1>1 DEF CallInv, InTurn, Before
<1> QED BY <1>1, <1>2, <1>3, IdsAreNumbers DEF ToSet

LEMMA FinishSafe == ASSUME CallInv, NEW id \in Ids, Finish(id) PROVE CallInv'
<1>1. ChannelTypes /\ Greeted /\ Begun /\ Waits /\ InTurn
  BY DEF CallInv
<1>2. /\ id \in running /\ running' = running \ {id} /\ id \in ToSet(started)
      /\ back' = IF id \in pending THEN Append(back, id) ELSE back
      /\ UNCHANGED <<page, sock, authed, queue, sent, pending, rejected, made, started, closed>>
  BY <1>1 DEF Finish, Begun
<1>3. id \in pending => sock = "ready"
  BY <1>1, <1>2, BegunIsNotWaiting DEF Waits
<1>4. back \in Seq(Ids \cup {0})
  BY <1>1 DEF ChannelTypes
<1>5. /\ back' \in Seq(Ids \cup {0})
      /\ sock = "ready" => Within(back', Ids) /\ Within(back', ToSet(started))
  BY <1>1, <1>2, <1>4, AppendWithin DEF Greeted, Begun
<1>6. sock # "ready" => back' = back
  BY <1>2, <1>3
<1>7. ChannelTypes'
  BY <1>1, <1>2, <1>5 DEF ChannelTypes
<1>8. Greeted' /\ Begun'
  BY <1>1, <1>2, <1>5, <1>6 DEF Greeted, Begun, ToSet, Within
<1>9. Waits' /\ InTurn'
  BY <1>1, <1>2 DEF Waits, InTurn, Within, Rises, Before, ToSet
<1> QED BY <1>7, <1>8, <1>9 DEF CallInv

LEMMA ReceiveSafe == ASSUME CallInv, Receive PROVE CallInv'
<1>1. ChannelTypes /\ Greeted /\ Begun /\ Waits /\ InTurn
  BY DEF CallInv
<1> DEFINE id == Head(back)
<1>2. /\ back # <<>> /\ back' = Tail(back) /\ back \in Seq(Ids \cup {0})
      /\ UNCHANGED <<page, authed, running, rejected, made, started, closed>>
  BY <1>1 DEF Receive, ChannelTypes
<1>3. /\ back' \in Seq(Ids \cup {0}) /\ id \in Ids \cup {0}
      /\ \A T : Within(back, T) => Within(back', T) /\ id \in T
  BY <1>2, IdsAreNumbers, HeadAndTail
<1>4. CASE id = 0
  <2>1. sock' = "ready" /\ sent' = sent \o queue /\ queue' = <<>> /\ pending' = pending
    BY <1>4 DEF Receive, Flush
  <2>2. sock = "open" /\ authed /\ sent = <<>> /\ back = <<0>> /\ page # NoOne
    BY <1>1, <1>2, <1>3, <1>4, IdsAreNumbers DEF Greeted, ChannelTypes, Receive, Shown
  <2>3. sent' = queue /\ back' = <<>> /\ queue \in Seq(Ids)
    BY <1>1, <1>2, <2>1, <2>2 DEF ChannelTypes
  <2>4. ChannelTypes'
    <3>1. sent' \in Seq(Ids \cup {0})
      BY <2>3
    <3> QED BY <1>1, <1>2, <1>3, <2>1, <3>1 DEF ChannelTypes
  <2>5. Greeted' /\ Begun'
    BY <1>1, <1>2, <2>1, <2>2, <2>3 DEF Greeted, Begun, Within, ToSet
  <2>6. Waits' /\ InTurn'
    BY <1>1, <1>2, <2>1, <2>2, <2>3 DEF Waits, InTurn, Within, Rises, Before, ToSet
  <2> QED BY <2>4, <2>5, <2>6 DEF CallInv
<1>5. CASE id # 0
  <2>1. pending' = pending \ {id} /\ UNCHANGED <<sock, sent, queue>>
    BY <1>5 DEF Receive
  <2>2. sock = "ready" /\ authed /\ queue = <<>>
    <3>1. sock = "open" => back = <<0>>
      BY <1>1, <1>2 DEF Greeted
    <3>2. sock # "open"
      BY <1>5, <3>1
    <3> QED BY <1>1, <1>2, <3>2 DEF Greeted, ChannelTypes
  <2>3. \A i \in DOMAIN sent : sent[i] # id
    BY <1>1, <1>3, <2>2, BegunIsNotWaiting DEF Begun
  <2>4. ChannelTypes'
    BY <1>1, <1>2, <1>3, <2>1 DEF ChannelTypes
  <2>5. Greeted' /\ Begun'
    BY <1>1, <1>2, <1>3, <2>1, <2>2 DEF Greeted, Begun, ToSet, Within
  <2>6. Waits' /\ InTurn'
    BY <1>1, <1>2, <2>1, <2>2, <2>3 DEF Waits, InTurn, Within, Rises, Before
  <2> QED BY <2>4, <2>5, <2>6 DEF CallInv
<1> QED BY <1>4, <1>5

LEMMA CallStep == ASSUME CallInv, Next PROVE CallInv'
<1>1. CASE PageStep \/ UplinkStep \/ \E h \in Launches : Ready(h)
  BY <1>1, CallSafe, OpeningSafe, LosingSafe, HandleCallSafe, FinishSafe, ReceiveSafe
     DEF PageStep, UplinkStep
<1>2. CASE ~(PageStep \/ UplinkStep \/ \E h \in Launches : Ready(h))
  <2>1. UNCHANGED channel /\ page' = page
    BY <1>2 DEF Next, SidecarStep, ParentGone, CleanupStale, Verify,
         Terminate, Boot, Serve, Unbind, End, ShellStep, UpdateGate, Spawn, BootLost,
         BootTimeout, Monitor, AnswerAlarm, Shutdown, Chance, Launch, Quit, LateUpdate, Crash,
         Wedge, Exit, AskStep, Ask, ShowDialog, UserAnswers, TakeAnswer, ChannelGone, RequestTimeout
  <2> QED BY <2>1, CallFrame
<1> QED BY <1>1, <1>2

-----------------------------------------------------------------------------

LEMMA Initially == Init => IInv
<1> SUFFICES ASSUME Init PROVE IInv
  OBVIOUS
<1>0. \A S : <<>> \in Seq(S) /\ ToSet(<<>>) = {}
  BY DEF ToSet
<1>1. LaunchInv
  BY DEF Init, LaunchInv, ProcessTypes, OneServer, DeadStay, LockIsKept, Bound
<1>2. CallInv
  <2>1. ChannelTypes
    BY <1>0 DEF Init, ChannelTypes
  <2>2. \A S : Within(<<>>, S)
    BY DEF Within
  <2>3. Rises(<<>>) /\ Before(<<>>, <<>>)
    BY DEF Rises, Before
  <2>4. Greeted
    BY DEF Init, Greeted
  <2>5. Begun /\ Waits
    BY <1>0, <2>2 DEF Init, Begun, Waits
  <2>6. InTurn
    BY <2>3 DEF Init, InTurn
  <2> QED BY <2>1, <2>4, <2>5, <2>6 DEF CallInv
<1>3. AskInv
  BY <1>0 DEF Init, AskInv, AskTypes, UnlockIsConfirmed
<1> QED BY <1>1, <1>2, <1>3 DEF IInv

(* The inductive invariant: one sidecar at a time holds the node's port;   *)
(* what waits or is on its way is pending and was made after whatever has  *)
(* begun; a yes on its way was said to its own request.                    *)
THEOREM Inductive == Spec => []IInv
<1>1. ASSUME IInv, [Next]_vars PROVE IInv'
  <2>1. CASE Next
    BY <1>1, <2>1, LaunchStep, CallStep, AskingStep DEF IInv
  <2>2. CASE UNCHANGED vars
    BY <1>1, <2>2, ProcessFrame, CallFrame, AskFrame DEF IInv, vars
  <2> QED BY <1>1, <2>1, <2>2
<1> QED BY <1>1, Initially, PTL DEF Spec

(* The desktop shell's variables stay in their ranges.                     *)
THEOREM TypeCorrect == Spec => []TypeOK
<1>1. IInv => TypeOK
  BY DEF IInv, TypeOK, LaunchInv, CallInv, AskInv
<1> QED BY <1>1, Inductive, PTL

(* A shell that ended by a shutdown left no sidecar behind, and the lock   *)
(* names the sidecar that serves unless another one's clean-up took it     *)
(* (SidecarHandle::shutdown, InstanceLock.js).                             *)
THEOREM LaunchesExclusive == Spec => []LaunchesAreExclusive
<1>1. IInv => LaunchesAreExclusive
  BY DEF IInv, LaunchInv, ProcessTypes, DeadStay, LaunchesAreExclusive, QuitReaps, LockIsKept, Alive
<1> QED BY <1>1, Inductive, PTL

(* A call begins in the order of its making or, once the page was told it  *)
(* failed, never leaves (ControlChannelClient.js).                         *)
THEOREM CallsKept == Spec => []CallsAreKept
<1>1. IInv => CallsAreKept
  <2> SUFFICES ASSUME CallInv PROVE RejectedIsNotSent /\ CallsInOrder
    BY DEF IInv, CallsAreKept
  <2>1. CallsInOrder
    BY DEF CallInv, InTurn, Rises, CallsInOrder
  <2>2. 0 \notin rejected
    BY IdsAreNumbers DEF CallInv, ChannelTypes
  <2>3. RejectedIsNotSent
    BY <2>2 DEF CallInv, Waits, Within, ToSet, RejectedIsNotSent
  <2> QED BY <2>1, <2>3
<1> QED BY <1>1, Inductive, PTL

(* The vault opens with the device's key only after the user said yes to   *)
(* that very request, however late other answers come (HostChannel.js).    *)
THEOREM UnlockConfirmed == Spec => []UnlockIsConfirmed
<1>1. IInv => UnlockIsConfirmed
  BY DEF IInv, AskInv
<1> QED BY <1>1, Inductive, PTL
=============================================================================
